--------------------------- MODULE ServiceProofs -----------------------------
(* Proofs about the encrypted mempool (module EncryptedPool), the lending    *)
(* pools (module Lending), the wallet's sessions (module Wallet) and the     *)
(* node as a service (module NodeService).                                   *)
EXTENDS MCServices, SumTheorems, SequenceTheorems

-------------------------------------------------------------------------------
(* The encrypted mempool.                                                    *)

by_id == x1
current_epoch == x2
total_bytes == x3

USE DEF by_id, current_epoch, total_bytes

\* Sizes and limits are unsigned integers.
PoolConfig ==
    /\ \A e \in Envelopes : SizeOf(e) \in Nat
    /\ max_tx_count \in Nat /\ max_pool_bytes \in Nat

SizeFunction == [e \in Envelopes |-> SizeOf(e)]

\* The counters are those of the entries; total_bytes never had to be cut off at 0.
PoolInv ==
    /\ DOMAIN by_id \subseteq Envelopes /\ IsFiniteSet(DOMAIN by_id)
    /\ total_bytes = SumFunctionOnSet(SizeFunction, DOMAIN by_id)
    /\ total_bytes <= max_pool_bytes
    /\ Cardinality(DOMAIN by_id) <= max_tx_count
    /\ \A e \in DOMAIN by_id : by_id[e].target_epoch = current_epoch

LEMMA SameSum == \A f : EP!SumFunction(f) = SumFunction(f)
  BY Zenon DEF EP!SumFunction, SumFunction, EP!SumFunctionOnSet, SumFunctionOnSet,
     EP!FoldFunctionOnSet, FoldFunctionOnSet, EP!MapThenFoldSet, MapThenFoldSet

LEMMA SameSize == \A A1 : EP!Cardinality(A1) = Cardinality(A1)
  BY Zenon DEF EP!Cardinality, Cardinality

LEMMA SizesOfSet ==
    ASSUME PoolConfig, NEW dom, dom \subseteq Envelopes, IsFiniteSet(dom)
    PROVE  /\ EP!SumSizes(dom) = SumFunctionOnSet(SizeFunction, dom)
           /\ SumFunctionOnSet(SizeFunction, dom) \in Nat
  <1> DEFINE f == [e \in dom |-> SizeOf(e)]
  <1>1. \A e \in dom : f[e] = SizeFunction[e] /\ f[e] \in Int /\ SizeFunction[e] \in Nat
    BY DEF PoolConfig, SizeFunction
  <1>2. DOMAIN f = dom
    OBVIOUS
  <1>3. EP!SumSizes(dom) = SumFunctionOnSet(f, dom)
    BY SameSum, <1>2 DEF EP!SumSizes, SumFunction
  <1> HIDE DEF f
  <1>4. SumFunctionOnSet(f, dom) = SumFunctionOnSet(SizeFunction, dom)
    BY <1>1, SumCongruence
  <1>5. SumFunctionOnSet(SizeFunction, dom) \in Nat
    BY <1>1, SumType
  <1> QED BY <1>3, <1>4, <1>5

LEMMA CutAtZero == ASSUME NEW n \in Nat PROVE EP!Max({0, n}) = n
  BY DEF EP!Max

LEMMA PoolStart == ASSUME PoolConfig, EP!Init PROVE PoolInv
  <1>1. DOMAIN by_id = {}
    BY DEF EP!Init
  <1>2. IsFiniteSet({}) /\ Cardinality({}) = 0 /\ SumFunctionOnSet(SizeFunction, {}) = 0
    BY FS_EmptySet, SumUnfold
  <1> QED BY <1>1, <1>2 DEF PoolInv, PoolConfig, EP!Init

\* Emptying the pool.
LEMMA Drained ==
    ASSUME PoolConfig, EP!drain_all
    PROVE  PoolInv'
  <1>1. DOMAIN by_id' = {} /\ total_bytes' = 0
    BY DEF EP!drain_all
  <1>2. IsFiniteSet({}) /\ Cardinality({}) = 0 /\ SumFunctionOnSet(SizeFunction, {}) = 0
    BY FS_EmptySet, SumUnfold
  <1> QED BY <1>1, <1>2 DEF PoolInv, PoolConfig

LEMMA PoolAdd ==
    ASSUME PoolConfig, PoolInv, NEW e \in Envelopes, NEW epoch, EP!add_envelope(e, epoch)
    PROVE  PoolInv'
  <1> PICK dom : dom = DOMAIN by_id
    OBVIOUS
  <1>1. /\ dom \subseteq Envelopes /\ IsFiniteSet(dom) /\ e \notin dom
        /\ Cardinality(dom) < max_tx_count /\ total_bytes + SizeOf(e) <= max_pool_bytes
        /\ total_bytes' = total_bytes + SizeOf(e) /\ current_epoch' = current_epoch
        /\ epoch = current_epoch
        /\ \A x \in dom : by_id[x].target_epoch = current_epoch
    BY SameSize DEF PoolInv, EP!add_envelope, EP!Entries
  <1>2. by_id' = [x \in dom \cup {e} |-> IF x = e THEN [target_epoch |-> epoch, received_at |-> x4]
                                       ELSE by_id[x]]
    BY DEF EP!add_envelope, EP!Entries
  <1>3. DOMAIN by_id' = dom \cup {e}
    BY <1>2
  <1>4. IsFiniteSet(dom \cup {e}) /\ Cardinality(dom \cup {e}) = Cardinality(dom) + 1
    BY <1>1, FS_AddElement
  <1>5. \A x \in dom \cup {e} : SizeFunction[x] \in Int
    BY <1>1 DEF SizeFunction, PoolConfig
  <1>6. SumFunctionOnSet(SizeFunction, dom \cup {e}) = SizeFunction[e] + SumFunctionOnSet(SizeFunction, dom)
    BY <1>1, <1>5, SumAdd
  <1>7. SizeFunction[e] = SizeOf(e) /\ SizeOf(e) \in Nat /\ SumFunctionOnSet(SizeFunction, dom) \in Nat
    BY <1>1, SizesOfSet DEF SizeFunction, PoolConfig
  <1>8. total_bytes' = SumFunctionOnSet(SizeFunction, dom \cup {e}) /\ total_bytes' <= max_pool_bytes
    BY <1>1, <1>6, <1>7 DEF PoolInv
  <1>9. \A x \in dom \cup {e} : by_id'[x].target_epoch = current_epoch'
    BY <1>1, <1>2
  <1>10. Cardinality(dom) \in Nat /\ Cardinality(dom \cup {e}) <= max_tx_count
    BY <1>1, <1>4, FS_CardinalityType DEF PoolConfig
  <1>11. dom \cup {e} \subseteq Envelopes
    BY <1>1
  <1> QED BY <1>3, <1>4, <1>8, <1>9, <1>10, <1>11 DEF PoolInv

\* remove and evict_expired subtract what they take out.
LEMMA PoolRemove ==
    ASSUME PoolConfig, PoolInv, NEW ids, ids \subseteq DOMAIN by_id, EP!removed(ids),
           current_epoch' = current_epoch
    PROVE  PoolInv'
  <1> PICK dom, ks : dom = DOMAIN by_id /\ ks = dom \ ids
    OBVIOUS
  <1>1. /\ dom \subseteq Envelopes /\ IsFiniteSet(dom) /\ ks \subseteq dom /\ ids \subseteq dom
        /\ ks \cap ids = {} /\ ks \cup ids = dom
    BY DEF PoolInv
  <1>2. by_id' = [x \in ks |-> by_id[x]]
    BY DEF EP!removed, EP!Without, EP!Entries
  <1>3. /\ IsFiniteSet(ks) /\ IsFiniteSet(ids) /\ Cardinality(ks) <= Cardinality(dom)
        /\ Cardinality(ks) \in Nat /\ Cardinality(dom) \in Nat
    BY <1>1, FS_Subset, FS_CardinalityType
  <1>4. \A x \in ks \cup ids : SizeFunction[x] \in Int
    BY <1>1 DEF SizeFunction, PoolConfig
  <1>5. SumFunctionOnSet(SizeFunction, dom) = SumFunctionOnSet(SizeFunction, ks) + SumFunctionOnSet(SizeFunction, ids)
    BY <1>1, <1>3, <1>4, SumUnion
  <1>6. /\ EP!SumSizes(ids) = SumFunctionOnSet(SizeFunction, ids)
        /\ SumFunctionOnSet(SizeFunction, ids) \in Nat /\ SumFunctionOnSet(SizeFunction, ks) \in Nat
    <2>1. ids \subseteq Envelopes /\ ks \subseteq Envelopes
      BY <1>1
    <2> QED BY <2>1, <1>3, SizesOfSet
  <1>7. total_bytes - EP!SumSizes(ids) = SumFunctionOnSet(SizeFunction, ks)
    BY <1>5, <1>6 DEF PoolInv
  <1>8. total_bytes' = SumFunctionOnSet(SizeFunction, ks)
    BY <1>6, <1>7, CutAtZero DEF EP!removed
  <1>9. total_bytes' <= max_pool_bytes /\ Cardinality(ks) <= max_tx_count
    BY <1>3, <1>5, <1>6, <1>8 DEF PoolInv, PoolConfig
  <1>10. DOMAIN by_id' = ks /\ \A x \in ks : by_id'[x].target_epoch = current_epoch'
    BY <1>1, <1>2 DEF PoolInv
  <1>11. ks \subseteq Envelopes
    BY <1>1
  <1> QED BY <1>3, <1>8, <1>9, <1>10, <1>11 DEF PoolInv

LEMMA PoolStep == ASSUME PoolConfig, PoolInv, [EP!Next]_EP!vars PROVE PoolInv'
  <1>1. ASSUME by_id' = by_id, current_epoch' = current_epoch, total_bytes' = total_bytes
        PROVE  PoolInv'
    BY <1>1 DEF PoolInv
  <1>2. CASE UNCHANGED EP!vars
    BY <1>1, <1>2 DEF EP!vars
  <1>3. CASE EP!Tick
    BY <1>1, <1>3 DEF EP!Tick
  <1>4. ASSUME NEW e \in Envelopes, NEW epoch, EP!add_envelope(e, epoch) PROVE PoolInv'
    BY <1>4, PoolAdd
  <1>5. ASSUME NEW e \in EP!Entries, EP!remove(e) PROVE PoolInv'
    <2>1. {e} \subseteq DOMAIN by_id /\ EP!removed({e}) /\ current_epoch' = current_epoch
      BY <1>5 DEF EP!remove, EP!Entries
    <2> QED BY <2>1, PoolRemove
  <1>6. CASE EP!evict_expired
    <2>1. EP!expired \subseteq DOMAIN by_id /\ EP!removed(EP!expired) /\ current_epoch' = current_epoch
      BY <1>6 DEF EP!evict_expired, EP!expired, EP!Entries
    <2> QED BY <2>1, PoolRemove
  <1>7. ASSUME NEW epoch, EP!advance_epoch(epoch) PROVE PoolInv'
    BY <1>7, Drained DEF EP!advance_epoch
  <1>8. ASSUME NEW m, NEW e, EP!create_envelope_share(m, e) PROVE PoolInv'
    BY <1>1, <1>8 DEF EP!create_envelope_share
  <1>9. ASSUME NEW c, NEW r, EP!produce_block(c, r) PROVE PoolInv'
    BY <1>1, <1>9 DEF EP!produce_block
  <1>10. ASSUME NEW c, NEW r, NEW o, EP!produce_block_with_decryption(c, r, o) PROVE PoolInv'
    BY <1>10, Drained DEF EP!produce_block_with_decryption, EP!decrypt_batch
  <1> QED BY <1>2, <1>3, <1>4, <1>5, <1>6, <1>7, <1>8, <1>9, <1>10 DEF EP!Next

\* Whatever mix of removals, expiry, epoch changes and drains there was, the byte counter
\* that admission relies on is exact, the pool is within its limits and holds envelopes of
\* the current epoch only (add, remove, evict_expired, advance_epoch, drain_all): for all
\* envelopes, sizes and limits.
THEOREM EncryptedPoolExact == ASSUME PoolConfig PROVE Spec => []Accounted
  <1> DEFINE Inv == focus = "encrypted" => PoolInv
  <1>1. Init => Inv
    BY PoolStart DEF Init
  <1>2. ASSUME Inv, [Next]_vars PROVE Inv'
    <2>1. focus' = focus
      BY <1>2 DEF Next, vars
    <2>2. CASE focus = "encrypted"
      <3>1. [EP!Next]_EP!vars
        BY <1>2, <2>2 DEF Next, EP!vars, vars
      <3> QED BY <1>2, <2>2, <3>1, PoolStep
    <2> QED BY <2>1, <2>2
  <1>3. Inv => Accounted
    <2>1. ASSUME PoolInv PROVE EP!Accounted
      BY <2>1, SizesOfSet, SameSize DEF PoolInv, EP!Accounted, EP!Entries
    <2> QED BY <2>1 DEF Accounted
  <1> QED BY <1>1, <1>2, <1>3, PTL DEF Spec

-------------------------------------------------------------------------------
(* The lending pools.                                                        *)

pool == x1
positions == x2
slot == x3

USE DEF pool, positions, slot

Position0 == [collateral_shares : Nat, debt : Nat]

\* Amounts and terms are unsigned integers; a pool has finitely many positions.  Of the
\* widths only their order matters: 10_000 fits 16 bits, and 16 bits fit 64.
LoanConfig ==
    /\ IsFiniteSet(Owners) /\ LoanAmounts \subseteq Nat
    /\ OpenPositions \subseteq Position0
    /\ LoanTerms \subseteq [base_rate_bps : Nat, slope_bps : Nat, ltv_max_bps : Nat,
                            liquidation_threshold_bps : Nat, liquidation_bonus_bps : Nat,
                            interest_multiplier_q64 : Nat]
    /\ BPS \in Nat \ {0} /\ U16 \in Nat \ {0} /\ Q64 \in Nat \ {0}
    /\ BPS < U16 /\ U16 <= Q64

\* The fields of a LendingPoolDatum.
IsDatum(p) ==
    p = [total_collateral |-> p.total_collateral, total_debt |-> p.total_debt,
         interest_multiplier_q64 |-> p.interest_multiplier_q64,
         last_accrual_slot |-> p.last_accrual_slot,
         base_rate_bps |-> p.base_rate_bps, slope_bps |-> p.slope_bps,
         ltv_max_bps |-> p.ltv_max_bps,
         liquidation_threshold_bps |-> p.liquidation_threshold_bps,
         liquidation_bonus_bps |-> p.liquidation_bonus_bps]
SameTerms(p, q) ==
    /\ q.ltv_max_bps = p.ltv_max_bps
    /\ q.liquidation_threshold_bps = p.liquidation_threshold_bps
    /\ q.liquidation_bonus_bps = p.liquidation_bonus_bps

Collaterals(p) == [o \in Owners |-> p[o].collateral_shares]
DebtsOf(p) == [o \in Owners |-> p[o].debt]

\* The books balance, and the terms of the pool stay numbers.
LoanInv ==
    /\ positions \in [Owners -> Position0]
    /\ IsDatum(pool)
    /\ pool.ltv_max_bps \in Nat /\ pool.liquidation_threshold_bps \in Nat
    /\ pool.liquidation_bonus_bps \in Nat
    /\ pool.total_collateral = SumFunctionOnSet(Collaterals(positions), Owners)
    /\ pool.total_debt = SumFunctionOnSet(DebtsOf(positions), Owners)

LEMMA SameTotal == \A f : LP!SumFunction(f) = SumFunction(f)
  BY Zenon DEF LP!SumFunction, SumFunction, LP!SumFunctionOnSet, SumFunctionOnSet,
     LP!FoldFunctionOnSet, FoldFunctionOnSet, LP!MapThenFoldSet, MapThenFoldSet

LEMMA TotalsOf ==
    ASSUME LoanConfig, NEW p \in [Owners -> Position0]
    PROVE  /\ SumFunctionOnSet(Collaterals(p), Owners) \in Nat
           /\ SumFunctionOnSet(DebtsOf(p), Owners) \in Nat
           /\ \A o \in Owners : /\ p[o].collateral_shares <= SumFunctionOnSet(Collaterals(p), Owners)
                                /\ p[o].debt <= SumFunctionOnSet(DebtsOf(p), Owners)
  <1>1. \A o \in Owners : /\ Collaterals(p)[o] = p[o].collateral_shares /\ Collaterals(p)[o] \in Nat
                          /\ DebtsOf(p)[o] = p[o].debt /\ DebtsOf(p)[o] \in Nat
    BY DEF Collaterals, DebtsOf, Position0
  <1>2. /\ SumFunctionOnSet(Collaterals(p), Owners) \in Nat
        /\ SumFunctionOnSet(DebtsOf(p), Owners) \in Nat
    BY <1>1, SumType DEF LoanConfig
  <1>3. ASSUME NEW f, \A o \in Owners : f[o] \in Nat, NEW o \in Owners
        PROVE  f[o] <= SumFunctionOnSet(f, Owners)
    <2>1. SumFunctionOnSet(f, Owners) = f[o] + SumFunctionOnSet(f, Owners \ {o})
      BY <1>3, SumTake DEF LoanConfig
    <2>2. IsFiniteSet(Owners \ {o})
      BY FS_Subset DEF LoanConfig
    <2>3. SumFunctionOnSet(f, Owners \ {o}) \in Nat
      BY <1>3, <2>2, SumType
    <2> QED BY <1>3, <2>1, <2>3
  <1> QED BY <1>1, <1>2, <1>3

\* g is f with d more at o.
Moved(f, g, dom, o, d) == \A x \in dom : f[x] \in Int /\ g[x] = IF x = o THEN f[x] + d ELSE f[x]

LEMMA SumMoved ==
    ASSUME NEW dom, IsFiniteSet(dom), NEW f, NEW g, NEW o \in dom, NEW d \in Int, Moved(f, g, dom, o, d)
    PROVE  SumFunctionOnSet(g, dom) = SumFunctionOnSet(f, dom) + d
  <1> USE DEF Moved
  <1>1. /\ SumFunctionOnSet(g, dom) = g[o] + SumFunctionOnSet(g, dom \ {o})
        /\ SumFunctionOnSet(f, dom) = f[o] + SumFunctionOnSet(f, dom \ {o})
    BY SumTake
  <1>2. IsFiniteSet(dom \ {o})
    BY FS_Subset
  <1>3. SumFunctionOnSet(f, dom \ {o}) = SumFunctionOnSet(g, dom \ {o})
    BY <1>2, SumCongruence
  <1>4. SumFunctionOnSet(f, dom \ {o}) \in Int /\ f[o] \in Int /\ g[o] = f[o] + d
    BY <1>2, SumType
  <1> QED BY <1>1, <1>3, <1>4

\* One position changes by c and d, and the totals with it.
Books(o, c, d) ==
    /\ IsDatum(pool') /\ SameTerms(pool, pool')
    /\ pool'.total_collateral = pool.total_collateral + c
    /\ pool'.total_debt = pool.total_debt + d
    /\ positions' \in [Owners -> Position0]
    /\ \A x \in Owners : x # o => positions'[x] = positions[x]
    /\ positions'[o].collateral_shares = positions[o].collateral_shares + c
    /\ positions'[o].debt = positions[o].debt + d

\* It gains collateral and loses debt, or it was liquidatable, or it is covered.
Careful(o, c, d) ==
    \/ c >= 0 /\ d <= 0
    \/ LP!liquidatable(positions[o])
    \/ ~LP!liquidatable(positions'[o])

LEMMA Booked ==
    ASSUME LoanConfig, LoanInv, NEW o \in Owners, NEW c \in Int, NEW d \in Int, Books(o, c, d)
    PROVE  LoanInv'
  <1> PICK p : p = positions'
    OBVIOUS
  <1>1. p \in [Owners -> Position0]
    BY DEF Books
  <1>2. /\ Moved(Collaterals(positions), Collaterals(p), Owners, o, c)
        /\ Moved(DebtsOf(positions), DebtsOf(p), Owners, o, d)
    BY DEF LoanInv, Position0, Collaterals, DebtsOf, Moved, Books
  <1>3. /\ SumFunctionOnSet(Collaterals(p), Owners) = SumFunctionOnSet(Collaterals(positions), Owners) + c
        /\ SumFunctionOnSet(DebtsOf(p), Owners) = SumFunctionOnSet(DebtsOf(positions), Owners) + d
    <2>1. IsFiniteSet(Owners)
      BY DEF LoanConfig
    <2> QED BY <1>2, <2>1, SumMoved
  <1>4. /\ pool'.total_collateral = SumFunctionOnSet(Collaterals(p), Owners)
        /\ pool'.total_debt = SumFunctionOnSet(DebtsOf(p), Owners)
    BY <1>3 DEF LoanInv, Books
  <1> QED BY <1>1, <1>4 DEF LoanInv, Books, SameTerms

LEMMA DivMul ==
    ASSUME NEW a \in Nat, NEW b \in Nat \ {0}
    PROVE  (b * a) \div b = a
  OBVIOUS

LEMMA Least2 == ASSUME NEW a \in Nat, NEW b \in Nat
                PROVE  LP!Min({a, b}) \in Nat /\ LP!Min({a, b}) <= a /\ LP!Min({a, b}) <= b
  BY DEF LP!Min

LEMMA LoanStart == ASSUME LoanConfig, LP!Init PROVE LoanInv
  <1>1. positions \in [Owners -> Position0]
    BY DEF LP!Init, LoanConfig
  <1>2. PICK t \in LoanTerms :
          pool = [total_collateral |-> LP!SumFunction(LP!Collateral), total_debt |-> LP!SumFunction(LP!Debts),
                   interest_multiplier_q64 |-> t.interest_multiplier_q64, last_accrual_slot |-> 0,
                   base_rate_bps |-> t.base_rate_bps, slope_bps |-> t.slope_bps,
                   ltv_max_bps |-> t.ltv_max_bps,
                   liquidation_threshold_bps |-> t.liquidation_threshold_bps,
                   liquidation_bonus_bps |-> t.liquidation_bonus_bps]
    BY DEF LP!Init
  <1>3. LP!Collateral = Collaterals(positions) /\ LP!Debts = DebtsOf(positions)
    BY DEF LP!Collateral, LP!Debts, Collaterals, DebtsOf
  <1>4. DOMAIN Collaterals(positions) = Owners /\ DOMAIN DebtsOf(positions) = Owners
    BY DEF Collaterals, DebtsOf
  <1>5. /\ LP!SumFunction(LP!Collateral) = SumFunctionOnSet(Collaterals(positions), Owners)
        /\ LP!SumFunction(LP!Debts) = SumFunctionOnSet(DebtsOf(positions), Owners)
    BY <1>3, <1>4, SameTotal DEF SumFunction
  <1>6. t \in [base_rate_bps : Nat, slope_bps : Nat, ltv_max_bps : Nat,
               liquidation_threshold_bps : Nat, liquidation_bonus_bps : Nat,
               interest_multiplier_q64 : Nat]
    BY DEF LoanConfig
  <1>7. /\ IsDatum(pool)
        /\ pool.ltv_max_bps \in Nat /\ pool.liquidation_threshold_bps \in Nat
        /\ pool.liquidation_bonus_bps \in Nat
        /\ pool.total_collateral = LP!SumFunction(LP!Collateral)
        /\ pool.total_debt = LP!SumFunction(LP!Debts)
    BY <1>2, <1>6 DEF IsDatum
  <1> QED BY <1>1, <1>5, <1>7 DEF LoanInv

\* A number of an unsigned division.
LEMMA Quotient ==
    ASSUME NEW a \in Nat, NEW b \in Nat \ {0}
    PROVE  a \div b \in Nat
  OBVIOUS

LEMMA MaxBorrow ==
    ASSUME LoanConfig, LoanInv, NEW c \in Nat
    PROVE  LP!compute_max_borrow(c, pool.ltv_max_bps) \in Nat
  <1>1. pool.ltv_max_bps \in Nat /\ BPS \in Nat \ {0}
    BY DEF LoanInv, LoanConfig
  <1>2. c * pool.ltv_max_bps \in Nat
    BY <1>1
  <1> QED BY <1>1, <1>2, Quotient DEF LP!compute_max_borrow

\* Each operation books what it does.
LEMMA Operation ==
    ASSUME LoanConfig, LoanInv, NEW o \in Owners, NEW n \in LoanAmounts,
           LP!Deposit(o, n) \/ LP!Borrow(o, n) \/ LP!Repay(o, n) \/ LP!Withdraw(o, n) \/ LP!Liquidate(o, n)
    PROVE  \E c, d \in Int : Books(o, c, d) /\ Careful(o, c, d)
  <1>n. n \in Nat
    BY DEF LoanConfig
  <1>p. /\ positions \in [Owners -> Position0]
        /\ positions[o].collateral_shares \in Nat /\ positions[o].debt \in Nat
    BY DEF LoanInv, Position0
  <1>t. /\ pool.total_collateral \in Nat /\ pool.total_debt \in Nat
        /\ positions[o].collateral_shares <= pool.total_collateral
        /\ positions[o].debt <= pool.total_debt
    BY TotalsOf DEF LoanInv
  <1>d. IsDatum(pool)
    BY DEF LoanInv
  <1>5. CASE LP!Deposit(o, n)
    <2>1. LP!SumFunction(LP!Collateral) = pool.total_collateral
      <3>1. LP!Collateral = Collaterals(positions) /\ DOMAIN Collaterals(positions) = Owners
        BY DEF LP!Collateral, Collaterals
      <3> QED BY <3>1, SameTotal DEF SumFunction, LoanInv
    <2>2. LP!compute_deposit(n, pool.total_collateral, pool.total_collateral) \in {n, LP!Failed}
      <3>1. CASE pool.total_collateral = 0
        BY <3>1 DEF LP!compute_deposit
      <3>2. CASE pool.total_collateral # 0
        <4>1. (pool.total_collateral * n) \div pool.total_collateral = n
          BY <1>n, <1>t, <3>2, DivMul
        <4> QED BY <3>2, <4>1 DEF LP!compute_deposit
      <3> QED BY <3>1, <3>2
    <2>3. /\ pool' = [pool EXCEPT !.total_collateral = pool.total_collateral + n]
          /\ positions' = [positions EXCEPT ![o].collateral_shares = positions[o].collateral_shares + n]
      BY <1>5, <2>1, <2>2 DEF LP!Deposit
    <2>4. Books(o, n, 0)
      BY <1>n, <1>p, <1>t, <1>d, <2>3 DEF Books, IsDatum, SameTerms, Position0
    <2> QED BY <1>n, <2>4 DEF Careful
  <1>6. CASE LP!Borrow(o, n)
    <2>1. /\ pool' = [pool EXCEPT !.total_debt = pool.total_debt + n]
          /\ positions' = [positions EXCEPT ![o].debt = positions[o].debt + n]
      BY <1>6 DEF LP!Borrow
    <2>2. Books(o, 0, n)
      BY <1>n, <1>p, <1>t, <1>d, <2>1 DEF Books, IsDatum, SameTerms, Position0
    <2>3. ~LP!liquidatable(positions'[o])
      <3>1. positions'[o].debt = positions[o].debt + n /\ positions'[o].collateral_shares = positions[o].collateral_shares
        BY <1>p, <2>1 DEF Position0
      <3>2. positions[o].debt + n <= LP!compute_max_borrow(positions[o].collateral_shares, pool.ltv_max_bps)
        BY <1>6 DEF LP!Borrow
      <3>3. LP!compute_max_borrow(positions[o].collateral_shares, pool.ltv_max_bps) \in Nat
        BY <1>p, MaxBorrow
      <3> QED BY <1>n, <1>p, <3>1, <3>2, <3>3 DEF LP!liquidatable
    <2> QED BY <1>n, <2>2, <2>3 DEF Careful
  <1>7. CASE LP!Repay(o, n)
    <2> PICK r : r = LP!Min({n, positions[o].debt})
      OBVIOUS
    <2>1. r \in Nat /\ r <= positions[o].debt
      BY <1>n, <1>p, Least2
    <2>2. /\ pool' = [pool EXCEPT !.total_debt = IF r <= pool.total_debt THEN pool.total_debt - r ELSE pool.total_debt]
          /\ positions' = [positions EXCEPT ![o].debt = positions[o].debt - r]
      BY <1>7 DEF LP!Repay
    <2>3. r <= pool.total_debt
      BY <1>t, <1>p, <2>1
    <2>4. Books(o, 0, 0 - r)
      BY <1>p, <1>t, <1>d, <2>1, <2>2, <2>3 DEF Books, IsDatum, SameTerms, Position0
    <2> QED BY <2>1, <2>4 DEF Careful
  <1>8. CASE LP!Withdraw(o, n)
    <2>1. /\ pool' = [pool EXCEPT !.total_collateral = pool.total_collateral - n]
          /\ positions' = [positions EXCEPT ![o].collateral_shares = positions[o].collateral_shares - n]
          /\ n <= positions[o].collateral_shares
      BY <1>8 DEF LP!Withdraw
    <2>2. Books(o, 0 - n, 0)
      BY <1>n, <1>p, <1>t, <1>d, <2>1 DEF Books, IsDatum, SameTerms, Position0
    <2>3. ~LP!liquidatable(positions'[o])
      <3>1. /\ positions'[o].debt = positions[o].debt
            /\ positions'[o].collateral_shares = positions[o].collateral_shares - n
        BY <1>n, <1>p, <2>1 DEF Position0
      <3>2. /\ positions[o].debt <= LP!compute_max_borrow(positions[o].collateral_shares - n, pool.ltv_max_bps)
            /\ positions[o].collateral_shares - n \in Nat
        BY <1>8, <1>n, <1>p DEF LP!Withdraw, LP!remaining
      <3>3. LP!compute_max_borrow(positions[o].collateral_shares - n, pool.ltv_max_bps) \in Nat
        BY <3>2, MaxBorrow
      <3> QED BY <1>n, <1>p, <3>1, <3>2, <3>3 DEF LP!liquidatable
    <2> QED BY <1>n, <2>2, <2>3 DEF Careful
  <1>9. CASE LP!Liquidate(o, n)
    <2> PICK r : r = LP!Min({n, positions[o].debt})
      OBVIOUS
    <2> PICK b : b = LP!compute_liquidation_bonus(r, pool.liquidation_bonus_bps)
      OBVIOUS
    <2>1. r \in Nat /\ r <= positions[o].debt
      BY <1>n, <1>p, Least2
    <2> PICK s : s = r + b
      OBVIOUS
    <2>2. /\ b # LP!Failed /\ s <= positions[o].collateral_shares
          /\ pool' = IF s > pool.total_collateral THEN pool
                     ELSE [pool EXCEPT !.total_collateral = pool.total_collateral - s,
                             !.total_debt = IF r <= pool.total_debt THEN pool.total_debt - r ELSE pool.total_debt]
      BY <1>9 DEF LP!Liquidate
    <2>3. b \in Nat
      <3>1. pool.liquidation_bonus_bps \in Nat
        BY DEF LoanInv
      <3>2. r * pool.liquidation_bonus_bps \in Nat
        BY <2>1, <3>1
      <3>3. (r * pool.liquidation_bonus_bps) \div BPS \in Nat
        BY <3>2, Quotient DEF LoanConfig
      <3> QED BY <2>2, <3>3 DEF LP!compute_liquidation_bonus
    <2>4. /\ s \in Nat /\ s <= positions[o].collateral_shares /\ s <= pool.total_collateral
          /\ r <= pool.total_debt
      BY <1>t, <1>p, <2>1, <2>2, <2>3
    <2>5. positions' = [positions EXCEPT ![o] = [collateral_shares |-> positions[o].collateral_shares - s,
                                                 debt |-> positions[o].debt - r]]
      BY <1>9 DEF LP!Liquidate
    <2>6. /\ positions' \in [Owners -> Position0]
          /\ \A x \in Owners : x # o => positions'[x] = positions[x]
          /\ positions'[o].collateral_shares = positions[o].collateral_shares + (0 - s)
          /\ positions'[o].debt = positions[o].debt + (0 - r)
      BY <1>p, <2>1, <2>4, <2>5 DEF Position0
    <2> PICK q : q = [pool EXCEPT !.total_collateral = pool.total_collateral - s]
      OBVIOUS
    <2>q. /\ IsDatum(q) /\ SameTerms(pool, q)
          /\ q.total_collateral = pool.total_collateral - s /\ q.total_debt = pool.total_debt
      BY <1>d DEF IsDatum, SameTerms
    <2>7. pool' = [q EXCEPT !.total_debt = pool.total_debt - r]
      BY <1>t, <2>2, <2>4
    <2>8. /\ IsDatum(pool') /\ SameTerms(pool, pool')
          /\ pool'.total_collateral = pool.total_collateral + (0 - s)
          /\ pool'.total_debt = pool.total_debt + (0 - r)
      <3>1. IsDatum(pool')
        BY <2>q, <2>7 DEF IsDatum
      <3>2. SameTerms(pool, pool')
        BY <2>q, <2>7 DEF IsDatum, SameTerms
      <3>3. pool'.total_collateral = q.total_collateral /\ pool'.total_debt = pool.total_debt - r
        BY <2>q, <2>7 DEF IsDatum
      <3> QED BY <1>t, <2>q, <2>1, <2>4, <3>1, <3>2, <3>3
    <2>9. Books(o, 0 - s, 0 - r)
      BY <2>6, <2>8 DEF Books
    <2>10. LP!liquidatable(positions[o])
      BY <1>9 DEF LP!Liquidate
    <2> QED BY <2>1, <2>4, <2>9, <2>10 DEF Careful
  <1> QED BY <1>5, <1>6, <1>7, <1>8, <1>9

LEMMA LoanStep == ASSUME LoanConfig, LoanInv, [LP!Next]_LP!vars PROVE LoanInv'
  <1>2. CASE UNCHANGED LP!vars
    BY <1>2 DEF LP!vars, LoanInv
  <1>3. CASE LP!Tick
    BY <1>3 DEF LP!Tick, LoanInv
  <1>4. CASE LP!AccrueInterest
    <2>1. positions' = positions
      BY <1>4 DEF LP!AccrueInterest
    <2>2. /\ IsDatum(pool') /\ SameTerms(pool, pool')
          /\ pool'.total_collateral = pool.total_collateral /\ pool'.total_debt = pool.total_debt
      BY <1>4 DEF LoanInv, IsDatum, SameTerms, LP!AccrueInterest
    <2> QED BY <2>1, <2>2 DEF LoanInv, SameTerms
  <1>5. ASSUME NEW o \in Owners, NEW n \in LoanAmounts,
               LP!Deposit(o, n) \/ LP!Borrow(o, n) \/ LP!Repay(o, n) \/ LP!Withdraw(o, n)
                 \/ LP!Liquidate(o, n)
        PROVE  LoanInv'
    BY <1>5, Operation, Booked
  <1> QED BY <1>2, <1>3, <1>4, <1>5 DEF LP!Next


\* The totals of a lending pool are the sums over its positions, whatever the
\* amounts, the terms and the owners (deposit, borrow, repay, withdraw, liquidate).
THEOREM LendingBooksBalance == ASSUME LoanConfig PROVE Spec => []BooksBalance
  <1> DEFINE Inv == focus = "lending" => LoanInv
  <1>1. Init => Inv
    BY LoanStart DEF Init
  <1>2. Inv /\ [Next]_vars => Inv'
    <2> SUFFICES ASSUME Inv, [Next]_vars, focus' = "lending" PROVE LoanInv'
      OBVIOUS
    <2>1. focus = "lending"
      BY DEF Next, vars
    <2>2. [LP!Next]_LP!vars
      BY <2>1 DEF Next, vars, LP!vars
    <2> QED BY <2>1, <2>2, LoanStep
  <1>3. Inv => BooksBalance
    <2> SUFFICES ASSUME LoanInv PROVE LP!BooksBalance
      BY DEF BooksBalance
    <2>1. LP!Collateral = Collaterals(positions) /\ LP!Debts = DebtsOf(positions)
      BY DEF LP!Collateral, LP!Debts, Collaterals, DebtsOf
    <2>2. DOMAIN Collaterals(positions) = Owners /\ DOMAIN DebtsOf(positions) = Owners
      BY DEF Collaterals, DebtsOf
    <2> QED BY <2>1, <2>2, SameTotal DEF SumFunction, LoanInv, LP!BooksBalance
  <1> QED BY <1>1, <1>2, <1>3, PTL DEF Spec

-------------------------------------------------------------------------------
(* Cover.                                                                    *)

\* validate looked at the terms.
CoverInv == LoanInv /\ pool.ltv_max_bps <= BPS

LEMMA DivBound ==
    ASSUME NEW a \in Nat, NEW b \in Nat, NEW m \in Nat \ {0}
    PROVE  a <= b \div m <=> a * m <= b
  <1> PICK q : q = b \div m
    OBVIOUS
  <1> PICK r : r = b % m
    OBVIOUS
  <1>1. q \in Nat /\ r \in Nat /\ r < m /\ b = m * q + r
    OBVIOUS
  <1>2. ASSUME a <= q PROVE a * m <= b
    <2>1. a * m <= q * m
      BY <1>1, <1>2
    <2> QED BY <1>1, <2>1
  <1>3. ASSUME a > q PROVE a * m > b
    <2>1. a * m >= (q + 1) * m
      BY <1>1, <1>3
    <2>2. (q + 1) * m = m * q + m
      BY <1>1
    <2> QED BY <1>1, <2>1, <2>2
  <1> QED BY <1>1, <1>2, <1>3

LEMMA ProductMonotone ==
    ASSUME NEW a \in Nat, NEW b \in Nat, NEW c \in Nat, a <= b
    PROVE  a * c <= b * c /\ c * a <= c * b /\ a * c \in Nat /\ c * a \in Nat
  OBVIOUS

\* A position with debt y and collateral x within the ratio t.
Within(x, y, t) == y * BPS <= x * t

LEMMA Covered ==
    ASSUME LoanConfig, CoverInv, NEW p \in Position0
    PROVE  ~LP!liquidatable(p) <=> Within(p.collateral_shares, p.debt, pool.ltv_max_bps)
  <1>1. /\ pool.ltv_max_bps \in Nat /\ BPS \in Nat \ {0}
        /\ p.collateral_shares \in Nat /\ p.debt \in Nat
    BY DEF LoanInv, LoanConfig, CoverInv, Position0
  <1>2. p.collateral_shares * pool.ltv_max_bps \in Nat
    BY <1>1
  <1>3. LP!compute_max_borrow(p.collateral_shares, pool.ltv_max_bps) \in Nat
    BY <1>1, MaxBorrow DEF CoverInv
  <1>4. p.debt <= LP!compute_max_borrow(p.collateral_shares, pool.ltv_max_bps)
          <=> p.debt * BPS <= p.collateral_shares * pool.ltv_max_bps
    BY <1>1, <1>2, DivBound DEF LP!compute_max_borrow
  <1> QED BY <1>1, <1>3, <1>4 DEF LP!liquidatable, Within

\* The limit leaves room for more than 1.0.
LEMMA AboveOne ==
    ASSUME NEW x \in Nat, NEW y \in Nat, NEW l \in Nat, NEW t \in Nat, NEW m \in Nat \ {0},
           NEW q \in Nat \ {0}, y * m <= x * l, l < t, l <= q
    PROVE  /\ ((q + 1) * y) * m <= x * t * q /\ x * t * q \in Nat
           /\ (q + 1) * y \in Nat /\ q + 1 \in Nat
  <1> PICK a, b, c : a = y * m /\ b = x * l /\ c = x * t
    OBVIOUS
  <1>1. a \in Nat /\ b \in Nat /\ c \in Nat /\ a <= b
    OBVIOUS
  <1>2. x * (l + 1) <= x * t
    <2>1. l + 1 \in Nat /\ l + 1 <= t
      OBVIOUS
    <2> QED BY ONLY <2>1, x \in Nat, t \in Nat, ProductMonotone
  <1>3. x * (l + 1) = b + x
    OBVIOUS
  <1>4. b + x <= c
    BY <1>2, <1>3
  <1>5. x * l <= x * q /\ x * q \in Nat
    BY ONLY x \in Nat, l \in Nat, q \in Nat \ {0}, l <= q, ProductMonotone
  <1>6. (b + x) * q <= c * q
    <2>1. b + x \in Nat
      BY <1>1
    <2> QED BY ONLY <1>1, <1>4, <2>1, q \in Nat \ {0}, ProductMonotone
  <1>7. (b + x) * q = b * q + x * q
    BY <1>1
  <1>8. a * q <= b * q /\ a * q \in Nat /\ b * q \in Nat
    BY ONLY <1>1, q \in Nat \ {0}, ProductMonotone
  <1>9. ((q + 1) * y) * m = a * q + a
    OBVIOUS
  <1>10. a * q + a <= c * q
    <2>1. c * q \in Nat
      BY <1>1
    <2>2. a <= x * q
      BY <1>1, <1>5
    <2> PICK A1, B1, C1, X1 : A1 = a * q /\ B1 = b * q /\ C1 = c * q /\ X1 = x * q
      OBVIOUS
    <2>3. A1 <= B1 /\ B1 + X1 <= C1 /\ a <= X1 /\ A1 \in Nat /\ B1 \in Nat /\ C1 \in Nat /\ X1 \in Nat
      BY <1>5, <1>6, <1>7, <1>8, <2>1, <2>2
    <2>4. A1 + a <= C1
      BY ONLY <1>1, <2>3
    <2> QED BY <2>4
  <1> QED BY <1>1, <1>9, <1>10

LEMMA SquareAbove ==
    ASSUME NEW q \in Nat, q >= 2
    PROVE  q * q - 1 > q
  <1>1. 2 * q <= q * q /\ q * q \in Nat
    BY ONLY q \in Nat, q >= 2, ProductMonotone
  <1> QED BY <1>1

\* A covered position is sound by both measures of the library.
Healthy(x, y, t) == LP!health_factor(x, y, t) = LP!Failed \/ LP!health_factor(x, y, t) > Q64

LEMMA CoveredSound ==
    ASSUME LoanConfig, CoverInv, NEW x \in Nat, NEW y \in Nat, Within(x, y, pool.ltv_max_bps)
    PROVE  /\ LP!is_collateralized(x, y, pool.ltv_max_bps)
           /\ pool.ltv_max_bps < pool.liquidation_threshold_bps =>
                Healthy(x, y, pool.liquidation_threshold_bps)
  <1> PICK l : l = pool.ltv_max_bps
    OBVIOUS
  <1> PICK t : t = pool.liquidation_threshold_bps
    OBVIOUS
  <1>1. /\ l \in Nat /\ t \in Nat /\ l <= BPS /\ BPS \in Nat \ {0} /\ Q64 \in Nat \ {0}
        /\ U16 \in Nat \ {0} /\ y * BPS <= x * l /\ BPS < U16 /\ U16 <= Q64
    BY DEF LoanInv, CoverInv, LoanConfig, Within
  <1>2. y * BPS \in Nat /\ x * l \in Nat /\ x * t \in Nat
    BY <1>1
  <1>3. LP!is_collateralized(x, y, l)
    <2>1. CASE y = 0
      BY <2>1 DEF LP!is_collateralized
    <2>2. CASE y # 0
      <3>1. y * BPS > 0
        BY <2>2, <1>1
      <3>2. x # 0
        <4> SUFFICES ASSUME x = 0 PROVE FALSE
          OBVIOUS
        <4>1. x * l = 0
          BY <1>1
        <4> QED BY <3>1, <4>1, <1>1, <1>2
      <3> PICK q : q = (y * BPS) \div x
        OBVIOUS
      <3>3. q \in Nat
        BY <1>2, <3>2, Quotient
      <3>4. q * x <= y * BPS
        BY <1>2, <3>2, <3>3, DivBound
      <3>5. q <= l
        <4> SUFFICES ASSUME q >= l + 1 PROVE FALSE
          BY <1>1, <3>3
        <4>0. l + 1 \in Nat /\ l + 1 <= q
          BY <1>1, <3>3
        <4>1. (l + 1) * x <= q * x
          BY ONLY <4>0, <3>3, x \in Nat, ProductMonotone
        <4>2. (l + 1) * x = x * l + x
          BY <1>1
        <4>3. q * x \in Nat
          BY <3>3, ProductMonotone
        <4> QED BY <1>1, <1>2, <3>2, <3>4, <4>1, <4>2, <4>3
      <3>6. q % U16 <= q
        BY <1>1, <3>3
      <3> QED BY <1>1, <3>2, <3>3, <3>5, <3>6 DEF LP!is_collateralized
    <2> QED BY <2>1, <2>2
  <1>4. ASSUME y # 0, l < t PROVE Healthy(x, y, t)
    <2> PICK v : v = x * t * Q64
      OBVIOUS
    <2>1. ((Q64 + 1) * y) * BPS <= v /\ v \in Nat /\ (Q64 + 1) * y \in Nat /\ Q64 + 1 \in Nat
      BY <1>1, <1>4, AboveOne
    <2>4. (Q64 + 1) * y <= v \div BPS
      BY <1>1, <2>1, DivBound
    <2>5. v \div BPS \in Nat
      BY <1>1, <2>1, Quotient
    <2>6. Q64 + 1 <= (v \div BPS) \div y
      BY <1>1, <1>4, <2>1, <2>4, <2>5, DivBound
    <2>7. (v \div BPS) \div y \in Nat
      BY <1>4, <2>5, Quotient
    <2>8. LP!health_factor(x, y, t) \in {LP!Failed, (v \div BPS) \div y}
      BY <1>4 DEF LP!health_factor
    <2> QED BY <1>1, <2>6, <2>7, <2>8 DEF Healthy
  <1>5. ASSUME y = 0 PROVE Healthy(x, y, t)
    <2>1. LP!health_factor(x, y, t) = Q64 * Q64 - 1
      BY <1>5 DEF LP!health_factor, LP!MaxU128
    <2>2. Q64 * Q64 - 1 > Q64
      BY <1>1, SquareAbove
    <2> QED BY <2>1, <2>2 DEF Healthy
  <1> QED BY <1>3, <1>4, <1>5

LEMMA Cover ==
    ASSUME LoanConfig, CoverInv, [LP!Next]_LP!vars
    PROVE  LP!KeepsCovered
  <1> SUFFICES ASSUME NEW x \in Owners, ~LP!liquidatable(positions[x])
               PROVE  /\ ~LP!liquidatable(positions'[x])
                      /\ LP!is_collateralized(positions'[x].collateral_shares, positions'[x].debt, pool.ltv_max_bps)
                      /\ pool.ltv_max_bps < pool.liquidation_threshold_bps =>
                           Healthy(positions'[x].collateral_shares, positions'[x].debt,
                                   pool.liquidation_threshold_bps)
    BY DEF LP!KeepsCovered, Healthy
  <1>1. LoanInv'
    BY LoanStep DEF CoverInv
  <1>2. positions[x] \in Position0 /\ positions'[x] \in Position0
    BY <1>1 DEF LoanInv, CoverInv
  <1>3. ~LP!liquidatable(positions'[x])
    <2>1. CASE positions' = positions
      BY <2>1
    <2>2. ASSUME NEW o \in Owners, NEW n \in LoanAmounts,
                 LP!Deposit(o, n) \/ LP!Borrow(o, n) \/ LP!Repay(o, n) \/ LP!Withdraw(o, n)
                   \/ LP!Liquidate(o, n)
          PROVE  ~LP!liquidatable(positions'[x])
      <3>1. PICK c \in Int, d \in Int : Books(o, c, d) /\ Careful(o, c, d)
        BY <2>2, Operation DEF CoverInv
      <3>2. CASE x # o
        <4>1. positions'[x] = positions[x]
          BY <3>1, <3>2 DEF Books
        <4> QED BY <4>1
      <3>3. CASE x = o /\ c >= 0 /\ d <= 0
        <4> PICK l : l = pool.ltv_max_bps
          OBVIOUS
        <4>1. /\ positions'[x].collateral_shares = positions[x].collateral_shares + c
              /\ positions'[x].debt = positions[x].debt + d
          BY <3>1, <3>3 DEF Books
        <4>2. /\ positions'[x].debt <= positions[x].debt
              /\ positions[x].collateral_shares <= positions'[x].collateral_shares
              /\ positions'[x].debt \in Nat /\ positions[x].debt \in Nat
              /\ positions'[x].collateral_shares \in Nat /\ positions[x].collateral_shares \in Nat
          BY <1>2, <3>3, <4>1 DEF Position0
        <4>3. l \in Nat /\ BPS \in Nat
          BY DEF LoanInv, LoanConfig, CoverInv
        <4>4. /\ positions'[x].debt * BPS <= positions[x].debt * BPS
              /\ positions[x].collateral_shares * l <= positions'[x].collateral_shares * l
          BY <4>2, <4>3, ProductMonotone
        <4>5. /\ positions'[x].debt * BPS \in Nat /\ positions[x].debt * BPS \in Nat
              /\ positions'[x].collateral_shares * l \in Nat /\ positions[x].collateral_shares * l \in Nat
          BY <4>2, <4>3
        <4>6. positions[x].debt * BPS <= positions[x].collateral_shares * l
          BY <1>2, Covered DEF Within
        <4>7. positions'[x].debt * BPS <= positions'[x].collateral_shares * l
          BY <4>4, <4>5, <4>6
        <4> QED BY <1>2, <4>7, Covered DEF Within
      <3> QED BY <3>1, <3>2, <3>3 DEF Careful
    <2>3. CASE UNCHANGED LP!vars
      BY <2>1, <2>3 DEF LP!vars
    <2>4. CASE LP!AccrueInterest \/ LP!Tick
      BY <2>1, <2>4 DEF LP!AccrueInterest, LP!Tick
    <2> QED BY <2>2, <2>3, <2>4 DEF LP!Next
  <1>4. Within(positions'[x].collateral_shares, positions'[x].debt, pool.ltv_max_bps)
    BY <1>2, <1>3, Covered
  <1>5. positions'[x].collateral_shares \in Nat /\ positions'[x].debt \in Nat
    BY <1>2 DEF Position0
  <1> QED BY <1>3, <1>4, <1>5, CoveredSound

LEMMA CoverStart == ASSUME LoanConfig, LP!Init PROVE CoverInv
  <1>1. PICK t \in LoanTerms : pool.ltv_max_bps = t.ltv_max_bps /\ LP!valid_params(t)
    BY DEF LP!Init
  <1> QED BY <1>1, LoanStart DEF LP!valid_params, CoverInv

LEMMA CoverStep == ASSUME LoanConfig, CoverInv, [LP!Next]_LP!vars PROVE CoverInv'
  <1>1. LoanInv'
    BY LoanStep DEF CoverInv
  <1>2. SameTerms(pool, pool')
    <2>1. CASE UNCHANGED LP!vars \/ LP!Tick
      BY <2>1 DEF LP!vars, LP!Tick, SameTerms
    <2>2. CASE LP!AccrueInterest
      BY <2>2 DEF LP!AccrueInterest, CoverInv, LoanInv, IsDatum, SameTerms
    <2>3. ASSUME NEW o \in Owners, NEW n \in LoanAmounts,
                 LP!Deposit(o, n) \/ LP!Borrow(o, n) \/ LP!Repay(o, n) \/ LP!Withdraw(o, n)
                   \/ LP!Liquidate(o, n)
          PROVE  SameTerms(pool, pool')
      BY <2>3, Operation DEF CoverInv, Books
    <2> QED BY <2>1, <2>2, <2>3 DEF LP!Next
  <1> QED BY <1>1, <1>2 DEF CoverInv, SameTerms

\* Interest never accrues on a pool whose multiplier is 1.0 or more, as the constructor
\* makes it: the product of multiplier and factor never fits 128 bits, at whatever slot and
\* for whatever rates (accrue_interest returns InterestAccrualOverflow).
THEOREM InterestOverflows ==
    ASSUME LoanConfig, slots_per_year \in Nat \ {0},
           NEW p, p.total_collateral \in Nat, p.total_debt \in Nat,
           p.base_rate_bps \in Nat, p.slope_bps \in Nat, p.last_accrual_slot \in Nat,
           p.interest_multiplier_q64 \in Nat, p.interest_multiplier_q64 >= Q64,
           NEW s \in Nat, s >= p.last_accrual_slot
    PROVE  LP!accrue_interest(p, s) = LP!Failed
  <1> DEFINE util == LP!compute_utilization_bps(p)
             rate == LP!compute_borrow_rate_bps(util, p.base_rate_bps, p.slope_bps)
             per_slot == ((rate * Q64) \div BPS) \div slots_per_year
             factor == Q64 + per_slot * (s - p.last_accrual_slot)
  <1>1. util \in Nat
    <2>1. CASE p.total_collateral = 0
      BY <2>1 DEF LP!compute_utilization_bps
    <2>2. CASE p.total_collateral # 0
      <3> DEFINE ratio == ((p.total_debt * BPS) \div p.total_collateral) % U16
      <3>1. ratio \in Nat
        <4>1. (p.total_debt * BPS) \div p.total_collateral \in Nat
          BY <2>2 DEF LoanConfig
        <4> QED BY <4>1 DEF LoanConfig
      <3>2. LP!Min({ratio, BPS}) \in {ratio, BPS}
        <4>1. \E m \in {ratio, BPS} : \A y \in {ratio, BPS} : m <= y
          BY <3>1 DEF LoanConfig
        <4> QED BY <4>1 DEF LP!Min
      <3> QED BY <2>2, <3>1, <3>2 DEF LP!compute_utilization_bps, LoanConfig
    <2> QED BY <2>1, <2>2
  <1>2. rate \in Nat
    <2>1. (util * p.slope_bps) \div BPS \in Nat
      BY <1>1 DEF LoanConfig
    <2> QED BY <2>1 DEF LP!compute_borrow_rate_bps
  <1>3. per_slot \in Nat
    <2>1. (rate * Q64) \div BPS \in Nat
      BY <1>2 DEF LoanConfig
    <2> QED BY <2>1
  <1>4. factor \in Nat /\ factor >= Q64
    BY <1>3 DEF LoanConfig
  <1>5. p.interest_multiplier_q64 * factor >= Q64 * Q64
    <2>1. ASSUME NEW a \in Nat, NEW b \in Nat, NEW q \in Nat, a >= q, b >= q
          PROVE  a * b >= q * q
      <3>1. a * b >= a * q
        BY <2>1
      <3>2. a * q >= q * q
        BY <2>1
      <3> QED BY <3>1, <3>2, <2>1
    <2> QED BY <2>1, <1>4 DEF LoanConfig
  <1>6. p.interest_multiplier_q64 * factor > LP!MaxU128
    BY <1>4, <1>5 DEF LP!MaxU128, LoanConfig
  <1> QED BY <1>6 DEF LP!accrue_interest

\* No operation makes a covered position liquidatable, its owner's and those of others
\* alike, and is_collateralized accepts it; where the pool's liquidation threshold lies above
\* its loan-to-value limit, health_factor overflows or is above 1.0 (borrow, withdraw,
\* liquidate): for every pool that passes validate.
THEOREM LendingCoveredStays == ASSUME LoanConfig PROVE Spec => CoveredStays
  <1> DEFINE Inv == focus = "lending" => CoverInv
  <1>1. Init => Inv
    BY CoverStart DEF Init
  <1>2. Inv /\ [Next]_vars => Inv' /\ (focus = "lending" => LP!KeepsCovered)
    <2> SUFFICES ASSUME Inv, [Next]_vars, focus = "lending" \/ focus' = "lending"
                 PROVE  CoverInv' /\ LP!KeepsCovered
      OBVIOUS
    <2>1. focus = "lending"
      BY DEF Next, vars
    <2>2. [LP!Next]_LP!vars
      BY <2>1 DEF Next, vars, LP!vars
    <2> QED BY <2>1, <2>2, CoverStep, Cover
  <1> QED BY <1>1, <1>2, PTL DEF Spec, CoveredStays

-------------------------------------------------------------------------------
(* The wallet.                                                               *)

backend == x1
keystore == x2
contacts == x3
sessions == x4
unlocked == x5
issued == x6
request == x7
now == x8
overlapped == x10

USE DEF backend, keystore, contacts, sessions, unlocked, issued, request, now, overlapped

\* A stored file is neither missing nor torn.
WalletConfig ==
    /\ Local \in Users
    /\ \A p, m, v : [password |-> p, mnemonic |-> m, view_keypairs |-> v] \notin {None, Torn}

IsMap(f, dom) == f = [x \in dom |-> f[x]]

\* An open wallet.
IsEntry(e) ==
    /\ e = [user |-> e.user, account |-> e.account, mnemonic |-> e.mnemonic, view |-> e.view,
            password |-> e.password, last_seen |-> e.last_seen]
    /\ e.user \in Users

\* A request between two of its steps.
Waiting(w) ==
    /\ w = [op |-> w.op, stage |-> w.stage, token |-> w.token, user |-> w.user,
            account |-> w.account, password |-> w.password, secret |-> w.secret]
    /\ w.op \in {"create", "register", "cli", "unlock", "login", "switch"}
    /\ w.stage \in {"save", "finish"}
    /\ w.user \in Users
    /\ w.op = "switch" => w.token \in Tokens
Noting(w) ==
    /\ w = [op |-> w.op, stage |-> w.stage, user |-> w.user, password |-> w.password, book |-> w.book]
    /\ w.op = "contacts" /\ w.stage = "contacts"


TypesInv ==
    /\ backend \in {"single", "multi"}
    /\ IsMap(sessions, Tokens) /\ issued \subseteq Tokens
    /\ IsMap(keystore, Users) /\ IsMap(request, Requests)
    /\ \A t \in Tokens : sessions[t] # None => IsEntry(sessions[t])
    /\ unlocked # None => IsEntry(unlocked)
    /\ \A r \in Requests : request[r] = WS!idle \/ Waiting(request[r]) \/ Noting(request[r])

\* A request's secret is that of the keystore, up to the view key it is about to save.
Loaded(w) == WS!load(w.user, w.password) /\ keystore[w.user].mnemonic = w.secret.mnemonic
Fits(w) ==
    /\ w.account \in DOMAIN w.secret.view_keypairs
    /\ w.stage = "save" =>
          \/ keystore[w.user] = None
          \/ /\ Loaded(w)
             /\ \A a \in DOMAIN keystore[w.user].view_keypairs :
                    /\ a \in DOMAIN w.secret.view_keypairs
                    /\ w.secret.view_keypairs[a] = keystore[w.user].view_keypairs[a]
    /\ w.stage = "finish" =>
          /\ Loaded(w)
          /\ w.account \in DOMAIN keystore[w.user].view_keypairs
          /\ w.secret.view_keypairs[w.account] = keystore[w.user].view_keypairs[w.account]

\* While requests did not overlap: one is in progress at most, it fits the keystore,
\* and so does every open wallet.
Serial ==
    /\ \A r, q \in Requests : request[r] # WS!idle /\ request[q] # WS!idle => r = q
    /\ \A r \in Requests : Waiting(request[r]) => Fits(request[r])
    /\ WS!SameAddress

WalletInv == TypesInv /\ (~overlapped => Serial)

\* f is the wallet e, perhaps used since.
SameWallet(e, f) ==
    /\ IsEntry(f) /\ f.user = e.user /\ f.account = e.account /\ f.mnemonic = e.mnemonic
    /\ f.view = e.view /\ f.password = e.password

\* Sessions go, are renewed, or open the wallet e: a new one, or one that is still there.
Moves(e) ==
    /\ IsMap(sessions', Tokens)
    /\ \A t \in Tokens : \/ sessions'[t] = None
                         \/ sessions[t] # None /\ SameWallet(sessions[t], sessions'[t])
                         \/ (t \notin issued \/ sessions[t] # None) /\ SameWallet(e, sessions'[t])
Renewed ==
    /\ IsMap(sessions', Tokens)
    /\ \A t \in Tokens : \/ sessions'[t] = None
                         \/ sessions[t] # None /\ SameWallet(sessions[t], sessions'[t])
    /\ issued' = issued
    /\ unlocked' = unlocked \/ unlocked' = None

LEMMA MovesFinal == ASSUME TypesInv, NEW e, Moves(e) PROVE WS!LogoutFinal
  BY DEF TypesInv, Moves, WS!LogoutFinal

LEMMA RenewedFinal == ASSUME TypesInv, Renewed PROVE WS!LogoutFinal
  BY DEF TypesInv, Renewed, WS!LogoutFinal

LEMMA SelfWallet == ASSUME NEW e, IsEntry(e) PROVE SameWallet(e, e)
  BY DEF SameWallet

LEMMA UsedWallet ==
    ASSUME NEW e, IsEntry(e), NEW f, f = [e EXCEPT !.last_seen = now]
    PROVE  SameWallet(e, f)
  BY DEF SameWallet, IsEntry

LEMMA StillRenewed ==
    ASSUME TypesInv, sessions' = sessions, issued' = issued, unlocked' = unlocked \/ unlocked' = None
    PROVE  Renewed
  BY SelfWallet DEF TypesInv, Renewed, IsMap

LEMMA TouchRenews ==
    ASSUME TypesInv, NEW t \in Tokens, WS!touch(t), issued' = issued, unlocked' = unlocked
    PROVE  Renewed
  <1>1. CASE sessions[t] = None
    BY <1>1, StillRenewed DEF WS!touch
  <1>2. CASE sessions[t] # None /\ WS!expired(sessions[t])
    BY <1>2, SelfWallet DEF WS!touch, TypesInv, IsMap, Renewed
  <1>3. CASE sessions[t] # None /\ ~WS!expired(sessions[t])
    <2>1. sessions' = [sessions EXCEPT ![t] = [sessions[t] EXCEPT !.last_seen = now]]
      BY <1>3 DEF WS!touch
    <2> PICK f : f = [sessions[t] EXCEPT !.last_seen = now]
      OBVIOUS
    <2>2. SameWallet(sessions[t], f)
      BY <1>3, UsedWallet DEF TypesInv
    <2>3. sessions' = [sessions EXCEPT ![t] = f]
      BY <2>1
    <2> QED BY <1>3, <2>2, <2>3, SelfWallet DEF TypesInv, IsMap, Renewed
  <1> QED BY <1>1, <1>2, <1>3

LEMMA OpensSame ==
    ASSUME NEW e, NEW f, SameWallet(e, f), WS!Opens(e)
    PROVE  WS!Opens(f)
  BY DEF SameWallet, WS!Opens, WS!load, WS!Exists

\* Open wallets stay in step with a keystore that does not change.
LEMMA RenewedOpens ==
    ASSUME TypesInv, Renewed, keystore' = keystore, WS!SameAddress
    PROVE  WS!SameAddress'
  <1>1. ASSUME NEW t \in Tokens, sessions'[t] # None PROVE WS!Opens(sessions'[t])
    BY <1>1, OpensSame DEF Renewed, WS!SameAddress
  <1>2. unlocked' # None => WS!Opens(unlocked')
    BY DEF Renewed, WS!SameAddress
  <1> QED BY <1>1, <1>2 DEF WS!SameAddress, WS!Opens, WS!load, WS!Exists

LEMMA RenewedTypes ==
    ASSUME TypesInv, Renewed
    PROVE  /\ IsMap(sessions', Tokens) /\ issued' \subseteq Tokens
           /\ \A t \in Tokens : sessions'[t] # None => IsEntry(sessions'[t])
           /\ unlocked' # None => IsEntry(unlocked')
  BY DEF TypesInv, Renewed, SameWallet

LEMMA Start ==
    ASSUME WalletInv, NEW r \in Requests, NEW w, WS!Begin(r, w),
           Noting(w) \/ (Waiting(w) /\ Fits(w)),
           Renewed, keystore' = keystore, backend' = backend
    PROVE  WalletInv'
  <1>1. TypesInv'
    BY RenewedTypes DEF WalletInv, TypesInv, IsMap, WS!Begin
  <1>2. ASSUME ~overlapped' PROVE Serial'
    <2>1. /\ ~overlapped
          /\ \A q \in Requests : request[q] = WS!idle
      BY <1>2 DEF WS!Begin, WS!Busy
    <2>2. request'[r] = w /\ \A q \in Requests : q # r => request'[q] = WS!idle
      BY <2>1 DEF WS!Begin, WalletInv, TypesInv, IsMap
    <2>3. ~Waiting(WS!idle)
      BY DEF Waiting, WS!idle
    <2>4. \A q \in Requests : Waiting(request'[q]) => q = r /\ Waiting(w) /\ Fits(w)
      BY <2>2, <2>3 DEF Waiting, Noting
    <2>5. \A q \in Requests : Waiting(request'[q]) => Fits(request'[q])
      BY <2>2, <2>4
    <2>6. WS!SameAddress'
      BY <2>1, RenewedOpens DEF WalletInv, Serial
    <2>7. \A a, b \in Requests : request'[a] # WS!idle /\ request'[b] # WS!idle => a = b
      BY <2>2
    <2> QED BY <2>5, <2>6, <2>7 DEF Serial, Waiting, Fits, Loaded, WS!load, WS!Exists, WS!idle
  <1> QED BY <1>1, <1>2 DEF WalletInv

LEMMA Quiet ==
    ASSUME WalletInv, Renewed, keystore' = keystore, backend' = backend,
           request' = request, overlapped' = overlapped
    PROVE  WalletInv'
  <1>1. TypesInv'
    BY RenewedTypes DEF WalletInv, TypesInv, IsMap, WS!idle, Waiting, Noting
  <1>2. ASSUME ~overlapped PROVE Serial'
    <2>1. WS!SameAddress'
      BY <1>2, RenewedOpens DEF WalletInv, Serial
    <2> QED BY <1>2, <2>1 DEF WalletInv, Serial, Waiting, Fits, Loaded, WS!load, WS!Exists, WS!idle
  <1> QED BY <1>1, <1>2 DEF WalletInv

LEMMA Noted ==
    ASSUME WalletInv, NEW r \in Requests, WS!Contacts_save(r)
    PROVE  WalletInv' /\ Renewed
  <1>1. /\ request' = [request EXCEPT ![r] = WS!idle] /\ keystore' = keystore /\ backend' = backend
        /\ sessions' = sessions /\ unlocked' = unlocked /\ issued' = issued /\ overlapped' = overlapped
    BY DEF WS!Contacts_save
  <1>2. Renewed
    BY <1>1, StillRenewed DEF WalletInv
  <1>3. request'[r] = WS!idle /\ \A q \in Requests : q # r => request'[q] = request[q]
    BY <1>1 DEF WalletInv, TypesInv, IsMap
  <1>4. TypesInv'
    BY <1>1, <1>2, <1>3, RenewedTypes DEF WalletInv, TypesInv, IsMap
  <1>5. ASSUME ~overlapped PROVE Serial'
    <2>1. WS!SameAddress'
      BY <1>1, <1>2, <1>5, RenewedOpens DEF WalletInv, Serial
    <2>2. ~Waiting(WS!idle)
      BY DEF Waiting, WS!idle
    <2>3. \A q \in Requests : Waiting(request'[q]) => Fits(request'[q])
      BY <1>3, <1>5, <2>2 DEF WalletInv, Serial
    <2>4. \A a, b \in Requests : request'[a] # WS!idle /\ request'[b] # WS!idle => a = b
      BY <1>3, <1>5 DEF WalletInv, Serial
    <2> QED BY <1>1, <2>1, <2>3, <2>4 DEF Serial, Waiting, Fits, Loaded, WS!load, WS!Exists, WS!idle
  <1> QED BY <1>1, <1>2, <1>4, <1>5 DEF WalletInv

LEMMA Saved ==
    ASSUME WalletConfig, WalletInv, NEW r \in Requests, WS!save(r)
    PROVE  WalletInv' /\ Renewed
  <1> PICK w : w = request[r]
    OBVIOUS
  <1> PICK s : s = [password |-> w.password, mnemonic |-> w.secret.mnemonic,
                    view_keypairs |-> w.secret.view_keypairs]
    OBVIOUS
  <1>1. /\ request' = [request EXCEPT ![r].stage = "finish"]
        /\ keystore' = [keystore EXCEPT ![w.user] = s] /\ backend' = backend
        /\ sessions' = sessions /\ unlocked' = unlocked /\ issued' = issued /\ overlapped' = overlapped
        /\ w # WS!idle /\ w.stage = "save"
    BY DEF WS!save
  <1>2. Renewed
    BY <1>1, StillRenewed DEF WalletInv
  <1>3. Waiting(w)
    BY <1>1 DEF WalletInv, TypesInv, Noting
  <1> PICK v : v = [w EXCEPT !.stage = "finish"]
    OBVIOUS
  <1>4. /\ Waiting(v) /\ v.stage = "finish" /\ v.user = w.user /\ v.account = w.account
        /\ v.password = w.password /\ v.secret = w.secret
    BY <1>3 DEF Waiting
  <1>5. request'[r] = v /\ \A q \in Requests : q # r => request'[q] = request[q]
    <2>1. request' = [request EXCEPT ![r] = v]
      BY <1>1
    <2> QED BY <2>1 DEF WalletInv, TypesInv, IsMap
  <1>6. IsMap(request', Requests)
    BY <1>1 DEF WalletInv, TypesInv, IsMap
  <1>7. w.user \in Users
    BY <1>3 DEF Waiting
  <1>8. /\ IsMap(keystore', Users) /\ keystore'[w.user] = s
        /\ \A u \in Users : u # w.user => keystore'[u] = keystore[u]
    BY <1>1, <1>7 DEF WalletInv, TypesInv, IsMap
  <1>9. /\ s # None /\ s # Torn /\ s.password = w.password /\ s.mnemonic = w.secret.mnemonic
        /\ s.view_keypairs = w.secret.view_keypairs
    BY DEF WalletConfig
  <1>10. TypesInv'
    BY <1>1, <1>2, <1>4, <1>5, <1>6, <1>8, RenewedTypes DEF WalletInv, TypesInv
  <1>11. ASSUME ~overlapped PROVE Serial'
    <2>1. /\ Fits(w) /\ \A q \in Requests : request[q] # WS!idle => q = r
          /\ WS!SameAddress
      BY <1>1, <1>3, <1>11 DEF WalletInv, Serial
    <2>2. ASSUME NEW e, IsEntry(e), WS!Opens(e)
          PROVE  /\ keystore'[e.user] # None /\ keystore'[e.user] # Torn
                 /\ keystore'[e.user].password = e.password
                 /\ keystore'[e.user].mnemonic = e.mnemonic
                 /\ e.account \in DOMAIN keystore'[e.user].view_keypairs
                 /\ keystore'[e.user].view_keypairs[e.account] = e.view
      <3>1. e.user \in Users
        BY <2>2 DEF IsEntry
      <3>2. CASE e.user # w.user
        BY <2>2, <3>1, <3>2, <1>8 DEF WS!Opens, WS!load, WS!Exists
      <3>3. CASE e.user = w.user
        <4>1. keystore[w.user] # None
          BY <2>2, <3>3 DEF WS!Opens, WS!load, WS!Exists
        <4>2. /\ Loaded(w)
              /\ \A a \in DOMAIN keystore[w.user].view_keypairs :
                    /\ a \in DOMAIN w.secret.view_keypairs
                    /\ w.secret.view_keypairs[a] = keystore[w.user].view_keypairs[a]
          BY <1>1, <2>1, <4>1 DEF Fits
        <4>3. /\ e.password = w.password /\ e.mnemonic = w.secret.mnemonic
              /\ e.account \in DOMAIN w.secret.view_keypairs
              /\ w.secret.view_keypairs[e.account] = e.view
          BY <2>2, <3>3, <4>2 DEF WS!Opens, WS!load, Loaded
        <4> QED BY <1>8, <1>9, <3>3, <4>3
      <3> QED BY <3>2, <3>3
    <2>3. ASSUME NEW t \in Tokens, sessions[t] # None PROVE IsEntry(sessions[t]) /\ WS!Opens(sessions[t])
      BY <2>1, <2>3 DEF WS!SameAddress, WalletInv, TypesInv
    <2>4. unlocked # None => IsEntry(unlocked) /\ WS!Opens(unlocked)
      BY <2>1 DEF WS!SameAddress, WalletInv, TypesInv
    <2>5. WS!SameAddress'
      BY <1>1, <2>2, <2>3, <2>4 DEF WS!SameAddress, WS!Opens, WS!load, WS!Exists
    <2>6. ~Waiting(WS!idle)
      BY DEF Waiting, WS!idle
    <2>7. \A q \in Requests : Waiting(request'[q]) => request'[q] = v
      BY <1>5, <2>1, <2>6
    <2>8. /\ v.account \in DOMAIN v.secret.view_keypairs
          /\ keystore'[v.user] = s /\ s # None /\ s # Torn /\ s.password = v.password
          /\ s.mnemonic = v.secret.mnemonic /\ s.view_keypairs = v.secret.view_keypairs
      BY <1>4, <1>8, <1>9, <2>1 DEF Fits
    <2>9. Fits(v)'
      BY <1>4, <2>8 DEF Fits, Loaded, WS!load, WS!Exists
    <2>10. \A a, b \in Requests : request'[a] # WS!idle /\ request'[b] # WS!idle => a = b
      BY <1>5, <2>1
    <2>11. ASSUME NEW q \in Requests, Waiting(request'[q]) PROVE Fits(request[q])'
      <3>1. request'[q] = v
        BY <2>7, <2>11
      <3> QED BY ONLY <2>9, <3>1 DEF Fits, Loaded, WS!load, WS!Exists, keystore, request
    <2> QED BY <2>5, <2>10, <2>11 DEF Serial, Waiting, WS!idle
  <1> QED BY <1>1, <1>2, <1>10, <1>11 DEF WalletInv

LEMMA Finished ==
    ASSUME WalletInv, NEW r \in Requests, WS!finish(r)
    PROVE  WalletInv' /\ WS!LogoutFinal
  <1> PICK w : w = request[r]
    OBVIOUS
  <1> PICK e : e = WS!Open(w.user, w.account, w.secret, w.password)
    OBVIOUS
  <1>1. /\ request' = [request EXCEPT ![r] = WS!idle]
        /\ keystore' = keystore /\ backend' = backend /\ overlapped' = overlapped
        /\ w # WS!idle /\ w.stage = "finish"
    BY DEF WS!finish
  <1>2. Waiting(w) /\ backend \in {"single", "multi"}
    BY <1>1 DEF WalletInv, TypesInv, Noting
  <1>3. /\ IsEntry(e) /\ e.user = w.user /\ e.account = w.account /\ e.password = w.password
        /\ e.mnemonic = w.secret.mnemonic /\ e.view = w.secret.view_keypairs[w.account]
    BY <1>2 DEF IsEntry, WS!Open, Waiting
  <1> PICK f : f = [e EXCEPT !.last_seen = now]
    OBVIOUS
  <1>4. SameWallet(e, f) /\ SameWallet(e, e)
    BY <1>3, UsedWallet, SelfWallet
  <1>5. TypesInv
    BY DEF WalletInv
  <1>6. /\ Moves(e) /\ issued' \subseteq Tokens
        /\ unlocked' = unlocked \/ unlocked' = e
    <2>1. CASE w.op \in {"register", "login"}
      <3>1. WS!SessionStore_insert(e) /\ unlocked' = unlocked
        BY <2>1 DEF WS!finish
      <3>2. PICK t \in Tokens \ issued : issued' = issued \cup {t} /\ sessions' = [sessions EXCEPT ![t] = f]
        BY <3>1 DEF WS!SessionStore_insert
      <3> QED BY <1>4, <1>5, <3>1, <3>2, SelfWallet DEF Moves, TypesInv, IsMap
    <2>2. CASE w.op \in {"create", "cli", "unlock"} \/ (w.op = "switch" /\ backend = "single")
      <3>1. sessions' = sessions /\ issued' = issued /\ (unlocked' = unlocked \/ unlocked' = e)
        BY <2>2 DEF WS!finish
      <3> QED BY <1>5, <3>1, SelfWallet DEF Moves, TypesInv, IsMap
    <2>3. CASE w.op = "switch" /\ backend = "multi"
      <3>1. WS!replace(w.token, e) /\ issued' = issued /\ unlocked' = unlocked /\ w.token \in Tokens
        BY <1>2, <2>3 DEF WS!finish, Waiting
      <3>2. CASE sessions[w.token] = None
        BY <1>5, <3>1, <3>2, SelfWallet DEF WS!replace, Moves, TypesInv, IsMap
      <3>3. CASE sessions[w.token] # None
        <4>1. sessions' = [sessions EXCEPT ![w.token] = f]
          BY <3>1, <3>3 DEF WS!replace
        <4> QED BY <1>4, <1>5, <3>1, <3>3, <4>1, SelfWallet DEF Moves, TypesInv, IsMap
      <3> QED BY <3>2, <3>3
    <2> QED BY <1>2, <2>1, <2>2, <2>3 DEF Waiting
  <1>7. WS!LogoutFinal
    BY <1>5, <1>6, MovesFinal
  <1>8. request'[r] = WS!idle /\ \A q \in Requests : q # r => request'[q] = request[q]
    BY <1>1, <1>5 DEF TypesInv, IsMap
  <1>9. TypesInv'
    <2>1. IsMap(request', Requests)
      BY <1>1, <1>5 DEF TypesInv, IsMap
    <2>2. \A q \in Requests : request'[q] = WS!idle \/ Waiting(request'[q]) \/ Noting(request'[q])
      BY <1>5, <1>8 DEF TypesInv
    <2>3. /\ IsMap(sessions', Tokens)
          /\ \A t \in Tokens : sessions'[t] # None => IsEntry(sessions'[t])
      BY <1>6 DEF Moves, SameWallet
    <2>4. unlocked' # None => IsEntry(unlocked')
      BY <1>3, <1>5, <1>6 DEF TypesInv
    <2> QED BY <1>1, <1>5, <1>6, <2>1, <2>2, <2>3, <2>4 DEF TypesInv
  <1>10. ASSUME ~overlapped PROVE Serial'
    <2>1. Fits(w) /\ WS!SameAddress
      BY <1>2, <1>10 DEF WalletInv, Serial
    <2>2. WS!Opens(e)
      BY <1>1, <1>3, <2>1 DEF Fits, Loaded, WS!Opens
    <2>3. \A t \in Tokens : sessions'[t] # None => WS!Opens(sessions'[t])
      BY <1>6, <2>1, <2>2, OpensSame DEF Moves, WS!SameAddress
    <2>4. unlocked' # None => WS!Opens(unlocked')
      BY <1>6, <2>1, <2>2 DEF WS!SameAddress
    <2>5. WS!SameAddress'
      BY <1>1, <2>3, <2>4 DEF WS!SameAddress, WS!Opens, WS!load, WS!Exists
    <2>6. ~Waiting(WS!idle)
      BY DEF Waiting, WS!idle
    <2>7. \A q \in Requests : Waiting(request'[q]) => Fits(request'[q])
      BY <1>8, <1>10, <2>6 DEF WalletInv, Serial
    <2>8. \A a, b \in Requests : request'[a] # WS!idle /\ request'[b] # WS!idle => a = b
      BY <1>8, <1>10 DEF WalletInv, Serial
    <2>9. ASSUME NEW q \in Requests, Waiting(request'[q]) PROVE Fits(request[q])'
      <3>1. Fits(request'[q]) /\ keystore' = keystore
        BY <1>1, <2>7, <2>9
      <3> QED BY ONLY <3>1 DEF Fits, Loaded, WS!load, WS!Exists, keystore, request
    <2> QED BY <2>5, <2>8, <2>9 DEF Serial, Waiting, WS!idle
  <1> QED BY <1>1, <1>7, <1>9, <1>10 DEF WalletInv

LEMMA Crashed ==
    ASSUME WalletInv, WS!Crash
    PROVE  WalletInv' /\ Renewed
  <1>1. /\ \A t \in Tokens : sessions'[t] = None
        /\ IsMap(sessions', Tokens) /\ unlocked' = None /\ issued' = issued
        /\ IsMap(request', Requests) /\ \A r \in Requests : request'[r] = WS!idle
        /\ backend' = backend /\ IsMap(keystore', Users)
    BY DEF WS!Crash, IsMap
  <1>2. TypesInv'
    BY <1>1 DEF WalletInv, TypesInv, WS!idle
  <1>3. WS!SameAddress'
    BY <1>1 DEF WS!SameAddress
  <1>4. ~Waiting(WS!idle)
    BY DEF Waiting, WS!idle
  <1>5. Serial'
    BY <1>1, <1>3, <1>4 DEF Serial, WS!idle
  <1>6. Renewed
    BY <1>1 DEF Renewed
  <1> QED BY <1>2, <1>5, <1>6 DEF WalletInv

LEMMA Created ==
    ASSUME WalletInv, NEW r \in Requests, NEW op \in {"create", "register", "cli"},
           NEW u \in Users, NEW pw, NEW m, WS!create(r, op, u, pw, m)
    PROVE  WalletInv' /\ Renewed
  <1> PICK w : w = [op |-> op, stage |-> "save", token |-> None, user |-> u, account |-> 0,
                    password |-> pw, secret |-> WS!new_secret(m)]
    OBVIOUS
  <1>1. /\ WS!Begin(r, w) /\ keystore[u] = None /\ keystore' = keystore /\ backend' = backend
        /\ sessions' = sessions /\ unlocked' = unlocked /\ issued' = issued
    BY DEF WS!create, WS!Exists
  <1>2. Waiting(w)
    BY DEF Waiting
  <1>3. Fits(w)
    BY <1>1 DEF Fits, WS!new_secret
  <1>4. Renewed
    BY <1>1, StillRenewed DEF WalletInv
  <1> QED BY <1>1, <1>2, <1>3, <1>4, Start

LEMMA Opened ==
    ASSUME WalletInv, NEW r \in Requests, NEW op \in {"unlock", "login", "cli", "switch"}, NEW t,
           op = "switch" => t \in Tokens,
           NEW u \in Users, NEW a, NEW pw, WS!opening(r, op, t, u, a, pw), Renewed
    PROVE  WalletInv'
  <1> PICK k : k = keystore[u].view_keypairs
    OBVIOUS
  <1> PICK s : s = WS!with_account(u, a)
    OBVIOUS
  <1>1. PICK g \in {"save", "finish"} :
          /\ g = IF a \notin DOMAIN k THEN "save" ELSE "finish"
          /\ WS!Begin(r, [op |-> op, stage |-> g, token |-> t, user |-> u, account |-> a,
                         password |-> pw, secret |-> s])
    BY DEF WS!opening, WS!unlock_account
  <1> PICK w : w = [op |-> op, stage |-> g, token |-> t, user |-> u, account |-> a,
                    password |-> pw, secret |-> s]
    OBVIOUS
  <1>2. /\ WS!Begin(r, w) /\ WS!load(u, pw) /\ keystore' = keystore /\ backend' = backend
    BY <1>1 DEF WS!opening
  <1>3. Waiting(w)
    BY DEF Waiting
  <1>4. /\ s.mnemonic = keystore[u].mnemonic
        /\ DOMAIN s.view_keypairs = DOMAIN k \cup {a}
        /\ \A b \in DOMAIN k : s.view_keypairs[b] = k[b]
    BY DEF WS!with_account
  <1>5. Fits(w)
    BY <1>1, <1>2, <1>4 DEF Fits, Loaded
  <1> QED BY <1>2, <1>3, <1>5, Start

\* The wallet a request acts for, and the renewal of its session.
LEMMA Acting ==
    ASSUME WalletInv, NEW t \in Tokens, WS!Active(t) # None, WS!require_active(t),
           issued' = issued, unlocked' = unlocked
    PROVE  WS!Active(t).user \in Users /\ Renewed
  <1>1. CASE backend = "single"
    <2>1. WS!Active(t) = unlocked /\ sessions' = sessions
      BY <1>1 DEF WS!Active, WS!require_active
    <2> QED BY <2>1, StillRenewed DEF WalletInv, TypesInv, IsEntry
  <1>2. CASE backend = "multi"
    <2>1. WS!Active(t) = sessions[t] /\ WS!touch(t)
      BY <1>2 DEF WS!Active, WS!require_active
    <2> QED BY <2>1, TouchRenews DEF WalletInv, TypesInv, IsEntry
  <1> QED BY <1>1, <1>2 DEF WalletInv, TypesInv

LEMMA Switched ==
    ASSUME WalletInv, NEW r \in Requests, NEW t \in Tokens, NEW a, WS!handle_switch_account(r, t, a)
    PROVE  WalletInv' /\ Renewed
  <1>1. /\ WS!Active(t) # None /\ WS!require_active(t) /\ issued' = issued /\ unlocked' = unlocked
        /\ WS!opening(r, "switch", t, WS!Active(t).user, a, WS!Active(t).password)
    BY DEF WS!handle_switch_account, WS!opening
  <1>2. WS!Active(t).user \in Users /\ Renewed
    BY <1>1, Acting
  <1> QED BY <1>1, <1>2, Opened

LEMMA Contacted ==
    ASSUME WalletInv, NEW r \in Requests, NEW t \in Tokens, NEW b, WS!change_contacts(r, t, b)
    PROVE  WalletInv' /\ Renewed
  <1> PICK w : w = [op |-> "contacts", stage |-> "contacts", user |-> WS!Active(t).user,
                    password |-> WS!Active(t).password, book |-> b]
    OBVIOUS
  <1>1. /\ WS!Active(t) # None /\ WS!require_active(t) /\ issued' = issued /\ unlocked' = unlocked
        /\ WS!Begin(r, w) /\ keystore' = keystore /\ backend' = backend
    BY DEF WS!change_contacts
  <1>2. Noting(w)
    BY DEF Noting
  <1>3. Renewed
    BY <1>1, Acting
  <1> QED BY <1>1, <1>2, <1>3, Start

LEMMA Passed ==
    ASSUME WalletInv,
           \/ UNCHANGED WS!vars \/ WS!handle_lock \/ WS!Tick
           \/ \E t \in Tokens : WS!handle_auth_logout(t) \/ WS!look(t)
    PROVE  WalletInv' /\ Renewed
  <1>1. /\ keystore' = keystore /\ backend' = backend /\ request' = request
        /\ overlapped' = overlapped /\ issued' = issued
        /\ unlocked' = unlocked \/ unlocked' = None
    BY DEF WS!vars, WS!handle_lock, WS!Tick, WS!handle_auth_logout, WS!look
  <1>2. CASE UNCHANGED WS!vars \/ WS!handle_lock \/ WS!Tick
    <2>1. Renewed
      BY <1>1, <1>2, StillRenewed DEF WS!vars, WS!handle_lock, WS!Tick, WalletInv
    <2> QED BY <1>1, <2>1, Quiet
  <1>3. ASSUME NEW t \in Tokens, WS!handle_auth_logout(t) PROVE WalletInv' /\ Renewed
    <2>1. sessions' = [sessions EXCEPT ![t] = None]
      BY <1>3 DEF WS!handle_auth_logout, WS!remove
    <2>2. Renewed
      BY <1>1, <2>1, SelfWallet DEF WalletInv, TypesInv, IsMap, Renewed
    <2> QED BY <1>1, <2>2, Quiet
  <1>4. ASSUME NEW t \in Tokens, WS!look(t) PROVE WalletInv' /\ Renewed
    <2>1. WS!touch(t) /\ unlocked' = unlocked
      BY <1>4 DEF WS!look
    <2>2. Renewed
      BY <1>1, <2>1, TouchRenews DEF WalletInv
    <2> QED BY <1>1, <2>2, Quiet
  <1> QED BY <1>2, <1>3, <1>4

LEMMA WalletStart == ASSUME WS!Init PROVE WalletInv
  <1>1. TypesInv
    BY DEF WS!Init, WS!AppState_new, TypesInv, IsMap
  <1>2. ~Waiting(WS!idle)
    BY DEF Waiting, WS!idle
  <1>3. Serial
    BY <1>2 DEF WS!Init, WS!AppState_new, Serial, WS!SameAddress
  <1> QED BY <1>1, <1>3 DEF WalletInv

LEMMA WalletStep ==
    ASSUME WalletConfig, WalletInv, [WS!Next]_WS!vars
    PROVE  WalletInv' /\ WS!LogoutFinal
  <1>r. Renewed => WS!LogoutFinal
    BY RenewedFinal DEF WalletInv
  <1>l. Local \in Users
    BY DEF WalletConfig
  <1>1. ASSUME NEW r \in Requests, WS!save(r) \/ WS!finish(r) \/ WS!Contacts_save(r)
        PROVE  WalletInv' /\ WS!LogoutFinal
    BY <1>1, <1>r, Saved, Finished, Noted
  <1>2. ASSUME NEW r \in Requests, NEW pw,
               \/ WS!handle_create(r, pw) \/ WS!cmd_init(r, pw) \/ WS!cmd_devnet_import(r, pw)
               \/ \E p \in Phrases : WS!handle_import(r, pw, p) \/ WS!cmd_import(r, pw, p)
               \/ \E u \in Users, m \in Phrases \cup {x9} : WS!handle_auth_register(r, u, pw, m)
        PROVE  WalletInv' /\ WS!LogoutFinal
    <2>1. PICK op \in {"create", "register", "cli"}, u \in Users : \E m : WS!create(r, op, u, pw, m)
      BY <1>2, <1>l DEF WS!handle_create, WS!cmd_init, WS!cmd_devnet_import, WS!handle_import, WS!cmd_import,
         WS!handle_auth_register
    <2> QED BY <1>r, <2>1, Created
  <1>3. ASSUME NEW r \in Requests, NEW pw, NEW a,
               \/ WS!handle_unlock(r, a, pw) \/ WS!unlock_and_derive(r, a, pw)
               \/ \E u \in Users : WS!handle_auth_login(r, u, a, pw)
        PROVE  WalletInv' /\ WS!LogoutFinal
    <2>1. PICK op \in {"unlock", "login", "cli"}, u \in Users :
            WS!opening(r, op, None, u, a, pw) /\ sessions' = sessions
      BY <1>3, <1>l DEF WS!handle_unlock, WS!unlock_and_derive, WS!handle_auth_login
    <2>2. Renewed
      BY <2>1, StillRenewed DEF WS!opening, WalletInv
    <2>3. WalletInv'
      BY <2>1, <2>2, Opened
    <2> QED BY <1>r, <2>2, <2>3
  <1>4. ASSUME NEW t \in Tokens, NEW r \in Requests,
               \/ \E a \in Accounts : WS!handle_switch_account(r, t, a)
               \/ \E l \in Labels : WS!handle_contacts_add(r, t, l) \/ WS!handle_contacts_remove(r, t, l)
        PROVE  WalletInv' /\ WS!LogoutFinal
    BY <1>4, <1>r, Switched, Contacted DEF WS!handle_contacts_add, WS!handle_contacts_remove
  <1>5. CASE WS!Crash
    BY <1>5, <1>r, Crashed
  <1>6. CASE \/ UNCHANGED WS!vars \/ WS!handle_lock \/ WS!Tick
             \/ \E t \in Tokens : WS!handle_auth_logout(t) \/ WS!look(t)
    BY <1>6, <1>r, Passed
  <1> QED BY <1>1, <1>2, <1>3, <1>4, <1>5, <1>6 DEF WS!Next

LEMMA WalletAlways ==
    ASSUME WalletConfig
    PROVE  Spec => [](focus = "wallet" => WalletInv) /\ LogoutFinal
  <1> DEFINE Inv == focus = "wallet" => WalletInv
  <1>1. Init => Inv
    BY WalletStart DEF Init
  <1>2. Inv /\ [Next]_vars => Inv' /\ (focus = "wallet" => WS!LogoutFinal)
    <2> SUFFICES ASSUME Inv, [Next]_vars, focus = "wallet" \/ focus' = "wallet"
                 PROVE  WalletInv' /\ WS!LogoutFinal
      OBVIOUS
    <2>1. focus = "wallet"
      BY DEF Next, vars
    <2>2. [WS!Next]_WS!vars
      BY <2>1 DEF Next, vars, WS!vars
    <2> QED BY <2>1, <2>2, WalletStep
  <1> QED BY <1>1, <1>2, PTL DEF Spec, LogoutFinal

\* A session that was logged out, expired or lost in a crash never comes back, whatever
\* was in progress for it (SessionStore::replace, handle_switch_account).
THEOREM LogoutIsFinal == ASSUME WalletConfig PROVE Spec => LogoutFinal
  BY WalletAlways, PTL

\* While requests do not overlap, every open wallet is the one its keystore opens,
\* crashes and torn files included (unlock_account, save, handle_switch_account).
THEOREM OneStealthAddress == ASSUME WalletConfig PROVE Spec => []SerialSameAddress
  <1>1. (focus = "wallet" => WalletInv) => SerialSameAddress
    BY DEF WalletInv, Serial, SerialSameAddress, WS!SerialSameAddress
  <1> QED BY <1>1, WalletAlways, PTL

-------------------------------------------------------------------------------
(* The node as a service.                                                    *)

process == x1
files == x2
stores == x3
clear == x4
queue == x5
handling == x6
query == x7
lapse == x8

USE DEF process, files, stores, clear, queue, handling, query, lapse

BlockBody == [txs : Bodies, good : BOOLEAN]

\* Blocks carry transactions; coins of genesis are no transactions' outputs.
ServiceConfig ==
    /\ Bodies \subseteq SUBSET Payments
    /\ GenesisCoins \cap Payments = {}
    /\ Lookback \in Nat
    /\ None \notin Seq(BlockBody)

CoinsAfter(g, path) ==
    g = [n \in 0..Len(path) |-> IF n = 0 THEN GenesisCoins ELSE V!apply_block(g[n - 1], path[n].txs)]

LEMMA CoinsUnfold ==
    ASSUME NEW path, NEW g, CoinsAfter(g, path), Len(path) \in Nat
    PROVE  /\ g[0] = GenesisCoins
           /\ \A n \in 1..Len(path) : g[n] = V!apply_block(g[n - 1], path[n].txs)
  <1> PICK m \in Nat : m = Len(path)
    OBVIOUS
  <1>1. g = [n \in 0..m |-> IF n = 0 THEN GenesisCoins ELSE V!apply_block(g[n - 1], path[n].txs)]
    BY DEF CoinsAfter
  <1>2. 0 \in 0..m /\ \A n \in 1..m : n \in 0..m /\ n # 0
    OBVIOUS
  <1>3. \A n \in 0..m : g[n] = IF n = 0 THEN GenesisCoins ELSE V!apply_block(g[n - 1], path[n].txs)
    BY <1>1, Zenon
  <1> QED BY <1>2, <1>3

LEMMA LedgerIsChoice ==
    ASSUME NEW path, NEW f, CoinsAfter(f, path)
    PROVE  \E g : CoinsAfter(g, path) /\ V!Ledger(path) = g[Len(path)]
  <1> PICK g : g = CHOOSE h : CoinsAfter(h, path)
    OBVIOUS
  <1>1. CoinsAfter(g, path)
    BY Zenon
  <1>2. V!Ledger(path) = g[Len(path)]
    BY DEF V!Ledger, CoinsAfter
  <1> QED BY <1>1, <1>2

LEMMA LedgerIs ==
    ASSUME ServiceConfig, NEW path \in Seq(BlockBody)
    PROVE  \E g : CoinsAfter(g, path) /\ V!Ledger(path) = g[Len(path)]
  <1> DEFINE st == SUBSET (GenesisCoins \cup Payments)
             step == [n \in 1..Len(path) |-> [u \in st |-> V!apply_block(u, path[n].txs)]]
  <1>1. \A n \in 1..Len(path) : path[n].txs \subseteq Payments
    <2>1. \A n \in 1..Len(path) : path[n] \in BlockBody
      OBVIOUS
    <2> QED BY <2>1 DEF ServiceConfig, BlockBody
  <1>2. step \in [1..Len(path) -> [st -> st]]
    BY <1>1 DEF V!apply_block
  <1>3. GenesisCoins \in st /\ Len(path) \in Nat
    OBVIOUS
  <1>4. \A n \in 1..Len(path), u \in st : step[n][u] = V!apply_block(u, path[n].txs)
    OBVIOUS
  <1> HIDE DEF st, step
  <1>5. PICK f : Follows(f, st, GenesisCoins, Len(path), step)
    BY <1>2, <1>3, Iterates DEF Stepwise
  <1>6. CoinsAfter(f, path)
    <2>1. \A n \in 1..Len(path) : n - 1 \in 0..Len(path) /\ n # 0
      BY <1>3
    <2>2. \A n \in 1..Len(path) : f[n] = V!apply_block(f[n - 1], path[n].txs)
      BY <1>4, <1>5, <2>1 DEF Follows
    <2>3. \A n \in 0..Len(path) : f[n] = IF n = 0 THEN GenesisCoins ELSE V!apply_block(f[n - 1], path[n].txs)
      BY <1>3, <1>5, <2>2 DEF Follows
    <2> QED BY <1>5, <2>3 DEF CoinsAfter, Follows
  <1> QED BY <1>6, LedgerIsChoice

LEMMA LedgerEmpty == ASSUME ServiceConfig PROVE V!Ledger(<<>>) = GenesisCoins
  <1>1. <<>> \in Seq(BlockBody) /\ Len(<<>>) = 0
    OBVIOUS
  <1>2. PICK g : CoinsAfter(g, <<>>) /\ V!Ledger(<<>>) = g[Len(<<>>)]
    BY <1>1, LedgerIs
  <1>3. g[0] = GenesisCoins
    BY <1>1, <1>2 DEF CoinsAfter
  <1> QED BY <1>1, <1>2, <1>3

LEMMA LedgerAppend ==
    ASSUME ServiceConfig, NEW path \in Seq(BlockBody), NEW b \in BlockBody
    PROVE  V!Ledger(Append(path, b)) = V!apply_block(V!Ledger(path), b.txs)
  <1> PICK h : h = Append(path, b)
    OBVIOUS
  <1>1. /\ h \in Seq(BlockBody) /\ Len(h) = Len(path) + 1 /\ h[Len(h)] = b
        /\ \A n \in 1..Len(path) : h[n] = path[n]
        /\ Len(path) \in Nat
    OBVIOUS
  <1>2. PICK f : CoinsAfter(f, path) /\ V!Ledger(path) = f[Len(path)]
    BY LedgerIs
  <1>3. PICK g : CoinsAfter(g, h) /\ V!Ledger(h) = g[Len(h)]
    BY <1>1, LedgerIs
  <1>4. /\ f[0] = GenesisCoins
        /\ \A n \in 1..Len(path) : f[n] = V!apply_block(f[n - 1], path[n].txs)
    BY <1>1, <1>2, CoinsUnfold
  <1>5. /\ g[0] = GenesisCoins
        /\ \A n \in 1..Len(h) : g[n] = V!apply_block(g[n - 1], h[n].txs)
    <2>1. Len(h) \in Nat
      BY <1>1
    <2> QED BY <1>3, <2>1, CoinsUnfold, Zenon
  <1>6. \A n \in 1..Len(path) : f[n - 1] = g[n - 1] => f[n] = g[n]
    <2> SUFFICES ASSUME NEW n \in 1..Len(path), f[n - 1] = g[n - 1] PROVE f[n] = g[n]
      OBVIOUS
    <2>1. n \in 1..Len(h) /\ h[n] = path[n]
      BY <1>1
    <2> QED BY <1>4, <1>5, <2>1
  <1>7. \A n \in 0..Len(path) : f[n] = g[n]
    <2>1. PICK m \in Nat : m = Len(path)
      BY <1>1
    <2>2. Alongside(f, g, m)
      BY <1>4, <1>5, <1>6, <2>1 DEF Alongside
    <2>3. \A n \in 0..m : f[n] = g[n]
      BY <2>2, IteratesOnce
    <2> QED BY <2>1, <2>3
  <1>8. g[Len(h)] = V!apply_block(g[Len(path)], b.txs)
    BY <1>1, <1>5
  <1>9. f[Len(path)] = g[Len(path)]
    BY <1>1, <1>7
  <1> QED BY <1>2, <1>3, <1>8, <1>9

\* The transactions of a path.
Done(path) == UNION {path[i].txs : i \in 1..Len(path)}

\* What the coins of a path are: its transactions' and those of genesis, but for what its
\* transactions spent; none of those was there twice.
LedgerOK(u, path) ==
    /\ u \subseteq GenesisCoins \cup Done(path)
    /\ \A t \in Done(path) : Coin(t) \notin u /\ Coin(t) \in GenesisCoins \cup Done(path)
    /\ \A i, j \in 1..Len(path) : \A t \in path[i].txs : t \in path[j].txs => i = j

LEMMA Append1 ==
    ASSUME NEW path \in Seq(BlockBody), NEW b \in BlockBody, NEW h, h = Append(path, b)
    PROVE  /\ h \in Seq(BlockBody) /\ Len(h) = Len(path) + 1 /\ h[Len(path) + 1] = b
           /\ \A n \in 1..Len(path) : h[n] = path[n]
           /\ Len(path) \in Nat /\ h # <<>>
  OBVIOUS

LEMMA Append2 ==
    ASSUME NEW path \in Seq(BlockBody), NEW b \in BlockBody, NEW h, h = Append(path, b)
    PROVE  /\ \A n \in 0..Len(path) : SubSeq(h, 1, n) = SubSeq(path, 1, n)
           /\ SubSeq(h, 1, Len(h)) = h /\ SubSeq(path, 1, Len(path)) = path
  <1>1. /\ h \in Seq(BlockBody) /\ Len(h) = Len(path) + 1 /\ Len(path) \in Nat
        /\ \A n \in 1..Len(path) : h[n] = path[n]
    BY Append1
  <1>2. ASSUME NEW n \in 0..Len(path) PROVE SubSeq(h, 1, n) = SubSeq(path, 1, n)
    BY <1>1
  <1> QED BY <1>1, <1>2

LEMMA DoneAppend ==
    ASSUME NEW path \in Seq(BlockBody), NEW b \in BlockBody
    PROVE  Done(Append(path, b)) = Done(path) \cup b.txs
  <1> PICK h : h = Append(path, b)
    OBVIOUS
  <1>1. /\ Len(h) = Len(path) + 1 /\ h[Len(path) + 1] = b
        /\ \A n \in 1..Len(path) : h[n] = path[n]
        /\ Len(path) \in Nat
    BY Append1
  <1>2. ASSUME NEW t PROVE t \in Done(h) <=> t \in Done(path) \cup b.txs
    <2>1. ASSUME t \in Done(h) PROVE t \in Done(path) \cup b.txs
      <3>1. PICK i \in 1..Len(h) : t \in h[i].txs
        BY <2>1 DEF Done
      <3>2. CASE i = Len(path) + 1
        BY <1>1, <3>1, <3>2
      <3>3. CASE i \in 1..Len(path)
        BY <1>1, <3>1, <3>3 DEF Done
      <3> QED BY <1>1, <3>2, <3>3
    <2>2. ASSUME t \in Done(path) PROVE t \in Done(h)
      <3>1. PICK i \in 1..Len(path) : t \in path[i].txs
        BY <2>2 DEF Done
      <3>2. i \in 1..Len(h) /\ t \in h[i].txs
        BY <1>1, <3>1
      <3> QED BY <3>2 DEF Done
    <2>3. ASSUME t \in b.txs PROVE t \in Done(h)
      <3>1. Len(path) + 1 \in 1..Len(h) /\ t \in h[Len(path) + 1].txs
        BY <1>1, <2>3
      <3> QED BY <3>1 DEF Done
    <2> QED BY <2>1, <2>2, <2>3
  <1> QED BY <1>2

LEMMA ApplyOK ==
    ASSUME ServiceConfig, NEW path \in Seq(BlockBody), NEW b \in BlockBody, NEW u,
           LedgerOK(u, path), V!Applies(u, b.txs)
    PROVE  /\ LedgerOK(V!apply_block(u, b.txs), Append(path, b))
           /\ V!revert_block(V!apply_block(u, b.txs), b.txs) = u
  <1> PICK h : h = Append(path, b)
    OBVIOUS
  <1> PICK d, e : d = Done(path) /\ e = Done(h)
    OBVIOUS
  <1>1. b.txs \subseteq Payments /\ b.txs \cap GenesisCoins = {}
    BY DEF BlockBody, ServiceConfig
  <1>2. \A t \in b.txs : Coin(t) \in u
    BY DEF V!Applies, V!Spends
  <1>3. /\ u \subseteq GenesisCoins \cup d
        /\ \A t \in d : Coin(t) \notin u /\ Coin(t) \in GenesisCoins \cup d
    BY DEF LedgerOK
  <1>4. b.txs \cap d = {} /\ b.txs \cap u = {}
    BY <1>1, <1>2, <1>3
  <1>5. e = d \cup b.txs
    BY DoneAppend
  <1>6. V!revert_block(V!apply_block(u, b.txs), b.txs) = u
    BY <1>2, <1>4 DEF V!revert_block, V!apply_block, V!Spends
  <1>7. V!apply_block(u, b.txs) \subseteq GenesisCoins \cup e
    BY <1>3, <1>5 DEF V!apply_block
  <1>8. ASSUME NEW t \in e
        PROVE  Coin(t) \notin V!apply_block(u, b.txs) /\ Coin(t) \in GenesisCoins \cup e
    <2>1. CASE t \in b.txs
      BY <1>1, <1>2, <1>3, <1>4, <1>5, <2>1 DEF V!apply_block, V!Spends
    <2>2. CASE t \in d
      BY <1>1, <1>2, <1>3, <1>4, <1>5, <2>2 DEF V!apply_block
    <2> QED BY <1>5, <2>1, <2>2
  <1>9. ASSUME NEW i \in 1..Len(h), NEW j \in 1..Len(h), NEW t \in h[i].txs, t \in h[j].txs PROVE i = j
    <2>1. /\ Len(h) = Len(path) + 1 /\ h[Len(path) + 1] = b /\ Len(path) \in Nat
          /\ \A n \in 1..Len(path) : h[n] = path[n]
      BY Append1
    <2>2. \A n \in 1..Len(path) : path[n].txs \subseteq d
      BY DEF Done
    <2>3. CASE i = Len(path) + 1 /\ j # Len(path) + 1
      BY <1>4, <1>9, <2>1, <2>2, <2>3
    <2>4. CASE j = Len(path) + 1 /\ i # Len(path) + 1
      BY <1>4, <1>9, <2>1, <2>2, <2>4
    <2>5. CASE i # Len(path) + 1 /\ j # Len(path) + 1
      <3>1. i \in 1..Len(path) /\ j \in 1..Len(path) /\ h[i] = path[i] /\ h[j] = path[j]
        BY <2>1, <2>5
      <3> QED BY <1>9, <3>1 DEF LedgerOK
    <2> QED BY <2>3, <2>4, <2>5
  <1> QED BY <1>6, <1>7, <1>8, <1>9 DEF LedgerOK

\* The stores while a block is at a step of its handling: the coins are those of the
\* chain or of the chain and the block, and every block but one about to be stored is.
IsStores(s) == s = [utxo |-> s.utxo, chain |-> s.chain, stored |-> s.stored, by_height |-> s.by_height]
StoredUpTo(s, hd) == IF hd.step = "added" THEN Len(s.chain) - 1 ELSE Len(s.chain)
AtStep(s, hd) ==
    /\ hd.step = "applied" =>
          \E b \in BlockBody : hd.path = Append(s.chain, b) /\ V!Applies(V!Ledger(s.chain), b.txs)
    /\ hd.step \in {"added", "stored"} => hd.path = s.chain /\ s.chain # <<>>
    /\ s.utxo = V!Ledger(IF hd.step = "applied" THEN hd.path ELSE s.chain)
Shelf(s, n) ==
    /\ s.by_height \in Seq(Seq(BlockBody)) /\ Len(s.by_height) = n + 1
    /\ \A i \in 0..n : s.by_height[i + 1] = SubSeq(s.chain, 1, i)
    /\ <<>> \notin s.stored /\ \A i \in 1..n : SubSeq(s.chain, 1, i) \in s.stored
ChainOK(s, hd) ==
    /\ IsStores(s)
    /\ s.chain \in Seq(BlockBody)
    /\ LedgerOK(V!Ledger(s.chain), s.chain)
    /\ AtStep(s, hd)
    /\ Shelf(s, StoredUpTo(s, hd))

Step(name, path) == [step |-> name, path |-> path]

LEMMA FreshStores == ASSUME ServiceConfig PROVE ChainOK(V!maybe_apply_genesis(V!empty_stores), V!no_block)
  <1> PICK s : s = V!maybe_apply_genesis(V!empty_stores)
    OBVIOUS
  <1>1. s = [utxo |-> GenesisCoins, chain |-> <<>>, stored |-> {}, by_height |-> << <<>> >>]
    BY DEF V!maybe_apply_genesis, V!empty_stores, V!ZERO
  <1>2. /\ s.utxo = GenesisCoins /\ s.chain = <<>> /\ s.stored = {} /\ s.by_height = << <<>> >>
        /\ IsStores(s)
    BY <1>1 DEF IsStores
  <1>3. V!no_block.step = "none"
    BY DEF V!no_block
  <1>4. s.chain \in Seq(BlockBody) /\ Len(s.chain) = 0
    BY <1>2
  <1>5. Done(<<>>) = {} /\ V!Ledger(<<>>) = GenesisCoins
    BY LedgerEmpty DEF Done
  <1>6. LedgerOK(V!Ledger(s.chain), s.chain)
    BY <1>2, <1>4, <1>5 DEF LedgerOK
  <1>7. AtStep(s, V!no_block)
    BY <1>2, <1>3, <1>5 DEF AtStep
  <1>8. StoredUpTo(s, V!no_block) = 0
    BY <1>3, <1>4 DEF StoredUpTo
  <1>9. Shelf(s, 0)
    <2>1. SubSeq(<<>>, 1, 0) = <<>>
      OBVIOUS
    <2>2. << <<>> >> \in Seq(Seq(BlockBody)) /\ Len(<< <<>> >>) = 1 /\ << <<>> >>[1] = <<>>
      OBVIOUS
    <2>3. \A i \in 0..0 : i = 0 /\ i + 1 = 1
      OBVIOUS
    <2> QED BY <1>2, <2>1, <2>2, <2>3 DEF Shelf
  <1> QED BY <1>2, <1>4, <1>6, <1>7, <1>8, <1>9 DEF ChainOK

LEMMA ReceivedOK ==
    ASSUME ServiceConfig, NEW s, ChainOK(s, V!no_block), NEW b \in BlockBody, V!Applies(s.utxo, b.txs),
           NEW s2, s2 = [s EXCEPT !.utxo = V!apply_block(s.utxo, b.txs)],
           NEW hd, hd = Step("applied", Append(s.chain, b))
    PROVE  ChainOK(s2, hd)
  <1>1. /\ IsStores(s2) /\ s2.chain = s.chain /\ s2.stored = s.stored /\ s2.by_height = s.by_height
        /\ s2.utxo = V!apply_block(s.utxo, b.txs)
    BY DEF ChainOK, IsStores
  <1>2. hd.step = "applied" /\ hd.path = Append(s.chain, b) /\ V!no_block.step = "none"
    BY DEF V!no_block, Step
  <1>3. s.chain \in Seq(BlockBody) /\ s.utxo = V!Ledger(s.chain)
    BY <1>2 DEF ChainOK, AtStep
  <1>4. s2.utxo = V!Ledger(hd.path)
    BY <1>1, <1>2, <1>3, LedgerAppend
  <1>5. AtStep(s2, hd)
    BY <1>1, <1>2, <1>3, <1>4 DEF AtStep
  <1>6. Shelf(s2, StoredUpTo(s2, hd))
    <2>1. StoredUpTo(s2, hd) = Len(s.chain) /\ StoredUpTo(s, V!no_block) = Len(s.chain)
      BY <1>1, <1>2 DEF StoredUpTo
    <2>2. Shelf(s, Len(s.chain))
      BY <2>1 DEF ChainOK
    <2> QED BY <1>1, <2>1, <2>2 DEF Shelf
  <1> QED BY <1>1, <1>3, <1>5, <1>6 DEF ChainOK

LEMMA CheckedOK ==
    ASSUME ServiceConfig, NEW s, NEW hd, ChainOK(s, hd), hd.step = "applied",
           NEW s2, s2 = [s EXCEPT !.utxo = V!revert_block(s.utxo, V!Last(hd.path).txs)]
    PROVE  ChainOK(s2, V!no_block)
  <1>1. /\ IsStores(s2) /\ s2.chain = s.chain /\ s2.stored = s.stored /\ s2.by_height = s.by_height
        /\ s2.utxo = V!revert_block(s.utxo, V!Last(hd.path).txs)
    BY DEF ChainOK, IsStores
  <1>2. V!no_block.step = "none"
    BY DEF V!no_block
  <1>3. /\ s.chain \in Seq(BlockBody) /\ LedgerOK(V!Ledger(s.chain), s.chain)
        /\ s.utxo = V!Ledger(hd.path)
    BY DEF ChainOK, AtStep
  <1>4. PICK b \in BlockBody : hd.path = Append(s.chain, b) /\ V!Applies(V!Ledger(s.chain), b.txs)
    BY DEF ChainOK, AtStep
  <1>5. V!Last(hd.path) = b
    BY <1>3, <1>4 DEF V!Last
  <1>6. s2.utxo = V!Ledger(s.chain)
    BY <1>1, <1>3, <1>4, <1>5, LedgerAppend, ApplyOK
  <1>7. AtStep(s2, V!no_block)
    BY <1>1, <1>2, <1>6 DEF AtStep
  <1>8. Shelf(s2, StoredUpTo(s2, V!no_block))
    <2>1. StoredUpTo(s2, V!no_block) = Len(s.chain) /\ StoredUpTo(s, hd) = Len(s.chain)
      BY <1>1, <1>2 DEF StoredUpTo
    <2>2. Shelf(s, Len(s.chain))
      BY <2>1 DEF ChainOK
    <2> QED BY <1>1, <2>1, <2>2 DEF Shelf
  <1> QED BY <1>1, <1>3, <1>7, <1>8 DEF ChainOK

LEMMA AddedOK ==
    ASSUME ServiceConfig, NEW s, NEW hd, ChainOK(s, hd), hd.step = "applied",
           NEW s2, s2 = [s EXCEPT !.chain = hd.path], NEW hd2, hd2 = Step("added", hd.path)
    PROVE  ChainOK(s2, hd2)
  <1>1. /\ IsStores(s2) /\ s2.chain = hd.path /\ s2.stored = s.stored /\ s2.by_height = s.by_height
        /\ s2.utxo = s.utxo
    BY DEF ChainOK, IsStores
  <1>2. hd2.step = "added" /\ hd2.path = hd.path
    BY DEF Step
  <1>3. /\ s.chain \in Seq(BlockBody) /\ LedgerOK(V!Ledger(s.chain), s.chain)
        /\ s.utxo = V!Ledger(hd.path)
    BY DEF ChainOK, AtStep
  <1>4. PICK b \in BlockBody : hd.path = Append(s.chain, b) /\ V!Applies(V!Ledger(s.chain), b.txs)
    BY DEF ChainOK, AtStep
  <1>5. /\ s2.chain \in Seq(BlockBody) /\ Len(s2.chain) = Len(s.chain) + 1 /\ Len(s.chain) \in Nat
        /\ s2.chain # <<>>
    BY <1>1, <1>3, <1>4, Append1
  <1>6. LedgerOK(V!Ledger(s2.chain), s2.chain)
    BY <1>1, <1>3, <1>4, LedgerAppend, ApplyOK
  <1>7. AtStep(s2, hd2)
    BY <1>1, <1>2, <1>3, <1>5 DEF AtStep
  <1>8. StoredUpTo(s2, hd2) = Len(s.chain) /\ StoredUpTo(s, hd) = Len(s.chain)
    BY <1>2, <1>5 DEF StoredUpTo
  <1>9. \A n \in 0..Len(s.chain) : SubSeq(s2.chain, 1, n) = SubSeq(s.chain, 1, n)
    BY <1>1, <1>3, <1>4, Append2
  <1>10. Shelf(s2, Len(s.chain))
    <2>1. Shelf(s, Len(s.chain))
      BY <1>8 DEF ChainOK
    <2>2. \A i \in 1..Len(s.chain) : SubSeq(s2.chain, 1, i) = SubSeq(s.chain, 1, i)
      BY <1>5, <1>9
    <2> QED BY <1>1, <1>9, <2>1, <2>2 DEF Shelf
  <1> QED BY <1>1, <1>5, <1>6, <1>7, <1>8, <1>10 DEF ChainOK

LEMMA PutOK ==
    ASSUME ServiceConfig, NEW s, NEW hd, ChainOK(s, hd), hd.step = "added",
           NEW s2, s2 = [s EXCEPT !.stored = s.stored \cup {hd.path}, !.by_height = Append(s.by_height, hd.path)],
           NEW hd2, hd2 = Step("stored", hd.path)
    PROVE  ChainOK(s2, hd2)
  <1> PICK c : c = s.chain
    OBVIOUS
  <1> PICK n : n = Len(c)
    OBVIOUS
  <1>1. /\ IsStores(s2) /\ s2.chain = s.chain /\ s2.stored = s.stored \cup {hd.path}
        /\ s2.by_height = Append(s.by_height, hd.path) /\ s2.utxo = s.utxo
    <2> PICK s1 : s1 = [s EXCEPT !.stored = s.stored \cup {hd.path}]
      OBVIOUS
    <2>1. /\ IsStores(s1) /\ s1.chain = s.chain /\ s1.stored = s.stored \cup {hd.path}
          /\ s1.by_height = s.by_height /\ s1.utxo = s.utxo
      BY DEF ChainOK, IsStores
    <2>2. s2 = [s1 EXCEPT !.by_height = Append(s.by_height, hd.path)]
      OBVIOUS
    <2> QED BY <2>1, <2>2 DEF IsStores
  <1>2. hd2.step = "stored" /\ hd2.path = hd.path
    BY DEF Step
  <1>3. /\ c \in Seq(BlockBody) /\ LedgerOK(V!Ledger(c), c) /\ s.utxo = V!Ledger(c)
        /\ hd.path = c /\ c # <<>>
    BY DEF ChainOK, AtStep
  <1>4. n \in Nat \ {0} /\ SubSeq(c, 1, n) = c
    BY <1>3
  <1>5. Shelf(s, n - 1)
    <2>1. StoredUpTo(s, hd) = n - 1
      BY <1>4 DEF StoredUpTo
    <2> QED BY <2>1 DEF ChainOK
  <1>6. /\ s2.by_height \in Seq(Seq(BlockBody)) /\ Len(s2.by_height) = n + 1
        /\ \A i \in 0..n : s2.by_height[i + 1] = SubSeq(c, 1, i)
    <2>1. s.by_height \in Seq(Seq(BlockBody)) /\ Len(s.by_height) = n
      BY <1>4, <1>5 DEF Shelf
    <2>2. /\ s2.by_height \in Seq(Seq(BlockBody)) /\ Len(s2.by_height) = n + 1
          /\ s2.by_height[n + 1] = c /\ \A k \in 1..n : s2.by_height[k] = s.by_height[k]
      BY <1>1, <1>3, <2>1
    <2>3. ASSUME NEW i \in 0..n PROVE s2.by_height[i + 1] = SubSeq(c, 1, i)
      <3>1. CASE i = n
        BY <1>4, <2>2, <3>1
      <3>2. CASE i \in 0..(n - 1)
        <4>1. i + 1 \in 1..n
          BY <1>4, <3>2
        <4> QED BY <1>5, <2>2, <3>2, <4>1 DEF Shelf
      <3>3. i = n \/ i \in 0..(n - 1)
        BY <1>4
      <3> QED BY <3>1, <3>2, <3>3, Zenon
    <2> QED BY <2>2, <2>3
  <1>7. ASSUME NEW i \in 1..n PROVE SubSeq(c, 1, i) \in s2.stored
    <2>1. CASE i = n
      BY <1>1, <1>3, <1>4, <2>1
    <2>2. CASE i \in 1..(n - 1)
      BY <1>1, <1>5, <2>2 DEF Shelf
    <2> QED BY <1>4, <2>1, <2>2
  <1>8. StoredUpTo(s2, hd2) = n
    BY <1>1, <1>2 DEF StoredUpTo
  <1>9. Shelf(s2, n)
    <2>1. <<>> \notin s2.stored
      BY <1>1, <1>3, <1>5 DEF Shelf
    <2> QED BY <1>1, <1>6, <1>7, <2>1 DEF Shelf
  <1>10. AtStep(s2, hd2)
    BY <1>1, <1>2, <1>3 DEF AtStep
  <1> QED BY <1>1, <1>3, <1>8, <1>9, <1>10 DEF ChainOK

LEMMA RemovedOK ==
    ASSUME NEW s, NEW hd, ChainOK(s, hd), hd.step = "stored"
    PROVE  ChainOK(s, V!no_block)
  <1>1. V!no_block.step = "none"
    BY DEF V!no_block
  <1> QED BY <1>1 DEF ChainOK, AtStep, StoredUpTo


\* The blocks that get_tx looks through, by their height.
Recent(c, n) == n \in 0..Len(c) /\ n > Len(c) - Lookback
ListedAt(c, t) == \E n \in 1..Len(c) : Recent(c, n) /\ t \in c[n].txs
StoredAt(s, t) ==
    \E n \in 1..Len(s.chain) : Recent(s.chain, n) /\ t \in s.chain[n].txs /\ SubSeq(s.chain, 1, n) \in s.stored

LEMMA AncestorsAre ==
    ASSUME ServiceConfig, NEW c \in Seq(BlockBody)
    PROVE  /\ V!ancestors(c, Lookback) \in Seq(Seq(BlockBody))
           /\ \A h \in V!Range(V!ancestors(c, Lookback)) : \E n \in 0..Len(c) : Recent(c, n) /\ h = SubSeq(c, 1, n)
           /\ \A n \in 0..Len(c) : Recent(c, n) =>
                 \E i \in 1..Len(V!ancestors(c, Lookback)) : V!ancestors(c, Lookback)[i] = SubSeq(c, 1, n)
           /\ \A n \in 0..Len(c) : Recent(c, n) => SubSeq(c, 1, n) \in V!Range(V!ancestors(c, Lookback))
  <1> PICK len : len = Len(c)
    OBVIOUS
  <1>0. len \in Nat /\ Lookback \in Nat
    BY DEF ServiceConfig
  <1> PICK most : most = IF Lookback < len + 1 THEN Lookback ELSE len + 1
    OBVIOUS
  <1>1. most \in Nat /\ most <= Lookback /\ most <= len + 1 /\ (most = Lookback \/ most = len + 1)
    BY <1>0
  <1> PICK f : f = V!ancestors(c, Lookback)
    OBVIOUS
  <1>2. f = [i \in 1..most |-> SubSeq(c, 1, len + 1 - i)]
    BY DEF V!ancestors
  <1>3. \A i \in 1..most : SubSeq(c, 1, len + 1 - i) \in Seq(BlockBody)
    <2> SUFFICES ASSUME NEW i \in 1..most PROVE SubSeq(c, 1, len + 1 - i) \in Seq(BlockBody)
      OBVIOUS
    <2>1. len + 1 - i \in 0..len
      BY <1>0, <1>1
    <2> QED BY <2>1
  <1>4. f \in Seq(Seq(BlockBody)) /\ Len(f) = most /\ DOMAIN f = 1..most
    BY <1>1, <1>2, <1>3
  <1>5. ASSUME NEW h \in V!Range(f) PROVE \E n \in 0..Len(c) : Recent(c, n) /\ h = SubSeq(c, 1, n)
    <2>1. PICK i \in 1..most : h = f[i]
      BY <1>4 DEF V!Range
    <2>2. h = SubSeq(c, 1, len + 1 - i)
      BY <1>2, <2>1
    <2>3. len + 1 - i \in 0..Len(c) /\ len + 1 - i > Len(c) - Lookback
      BY <1>0, <1>1
    <2> QED BY <2>2, <2>3 DEF Recent
  <1>6. ASSUME NEW n \in 0..Len(c), Recent(c, n)
        PROVE  (\E i \in 1..Len(f) : f[i] = SubSeq(c, 1, n)) /\ SubSeq(c, 1, n) \in V!Range(f)
    <2> PICK i : i = len + 1 - n
      OBVIOUS
    <2>1. i \in 1..most /\ len + 1 - i = n
      BY <1>0, <1>1, <1>6 DEF Recent
    <2>2. f[i] = SubSeq(c, 1, n)
      BY <1>2, <2>1
    <2> QED BY <1>4, <2>1, <2>2 DEF V!Range
  <1> QED BY <1>4, <1>5, <1>6

LEMMA PrefixLast ==
    ASSUME NEW c \in Seq(BlockBody), NEW n \in 1..Len(c)
    PROVE  SubSeq(c, 1, n) # <<>> /\ V!Last(SubSeq(c, 1, n)) = c[n] /\ SubSeq(c, 1, n) \in Seq(BlockBody)
  <1> PICK h : h = SubSeq(c, 1, n)
    OBVIOUS
  <1>1. Len(h) = n /\ h[n] = c[n] /\ h # <<>> /\ h \in Seq(BlockBody)
    OBVIOUS
  <1> QED BY <1>1 DEF V!Last

LEMMA ListedChain ==
    ASSUME ServiceConfig, NEW c \in Seq(BlockBody), NEW t
    PROVE  (\E h \in V!Range(V!ancestors(c, Lookback)) : h # <<>> /\ t \in V!Last(h).txs) <=> ListedAt(c, t)
  <1>1. ASSUME NEW h \in V!Range(V!ancestors(c, Lookback)), h # <<>>, t \in V!Last(h).txs PROVE ListedAt(c, t)
    <2>1. PICK n \in 0..Len(c) : Recent(c, n) /\ h = SubSeq(c, 1, n)
      BY AncestorsAre
    <2>2. n \in 1..Len(c)
      BY <1>1, <2>1
    <2> QED BY <1>1, <2>1, <2>2, PrefixLast DEF ListedAt
  <1>2. ASSUME ListedAt(c, t) PROVE \E h \in V!Range(V!ancestors(c, Lookback)) : h # <<>> /\ t \in V!Last(h).txs
    <2>1. PICK n \in 1..Len(c) : Recent(c, n) /\ t \in c[n].txs
      BY <1>2 DEF ListedAt
    <2>2. n \in 0..Len(c)
      BY <2>1
    <2>3. SubSeq(c, 1, n) \in V!Range(V!ancestors(c, Lookback))
      BY <2>1, <2>2, AncestorsAre
    <2> QED BY <2>1, <2>3, PrefixLast
  <1> QED BY <1>1, <1>2

LEMMA ListedIs ==
    ASSUME ServiceConfig, stores.chain \in Seq(BlockBody), NEW t
    PROVE  V!Listed(t) <=> ListedAt(stores.chain, t)
  BY ListedChain DEF V!Listed, V!ZERO

LEMMA ListedIsNext ==
    ASSUME ServiceConfig, stores.chain' \in Seq(BlockBody), NEW t
    PROVE  V!Listed(t)' <=> ListedAt(stores.chain', t)
  <1> PICK c \in Seq(BlockBody) : c = stores.chain'
    OBVIOUS
  <1>1. (\E h \in V!Range(V!ancestors(c, Lookback)) : h # <<>> /\ t \in V!Last(h).txs) <=> ListedAt(c, t)
    BY ListedChain
  <1> QED BY <1>1 DEF V!Listed, V!ZERO

LEMMA StoredIs ==
    ASSUME ServiceConfig, stores.chain \in Seq(BlockBody), <<>> \notin stores.stored, NEW t, V!Stored(t)
    PROVE  StoredAt(stores, t)
  <1> PICK c \in Seq(BlockBody) : c = stores.chain
    OBVIOUS
  <1>1. PICK h \in V!Range(V!ancestors(c, Lookback)) : V!Holds(h, t)
    BY DEF V!Stored
  <1>2. PICK n \in 0..Len(c) : Recent(c, n) /\ h = SubSeq(c, 1, n)
    BY AncestorsAre
  <1>3. h # None
    BY <1>2 DEF ServiceConfig
  <1>4. h \in stores.stored /\ t \in V!Last(h).txs
    BY <1>1, <1>3 DEF V!Holds, V!get_block
  <1>5. n \in 1..Len(c)
    <2>0. SubSeq(c, 1, 0) = <<>>
      OBVIOUS
    <2>1. n # 0
      BY <1>2, <1>4, <2>0
    <2> QED BY <2>1
  <1> QED BY <1>2, <1>4, <1>5, PrefixLast DEF StoredAt


\* The process: a record of its phase and its tasks.
IsProcess(p) ==
    p = [phase |-> p.phase, starts |-> p.starts, config |-> p.config, params |-> p.params,
         genesis_keys |-> p.genesis_keys, network |-> p.network, dialed |-> p.dialed, ticker |-> p.ticker,
         signalled |-> p.signalled]
IsFiles(f) == f = [config |-> f.config, params |-> f.params, keys |-> f.keys]
BuiltPhases == {"built", "tasks", "running", "stopping", "closing"}
SoundStart(p) ==
    /\ V!validate_params(p.params)
    /\ p.genesis_keys = V!genesis_keys_of(p.config)
    /\ p.dialed # {} => p.network
ProcessOK(p) ==
    /\ IsProcess(p)
    /\ p.phase \in {"down", "loaded"} \cup BuiltPhases
    /\ p.phase \in {"down", "loaded"} => p.dialed = {}
    /\ p.phase \in BuiltPhases => SoundStart(p)
IsBlock(hd) == hd = Step(hd.step, hd.path) /\ hd.step \in {"applied", "added", "stored"}
Event == [parent : Seq(BlockBody), body : BlockBody]

\* The service as its tasks see it; a block is in handling in the main loop alone.
ServiceOK(p, f, s, q, hd) ==
    /\ ProcessOK(p)
    /\ IsFiles(f) /\ f.keys \in {None, V!devnet_genesis}
    /\ hd = V!no_block \/ (p.phase = "running" /\ IsBlock(hd))
    /\ p.phase \in BuiltPhases => ChainOK(s, hd)
    /\ q \in Seq(Event)
ServiceInv == ServiceOK(process, files, stores, queue, handling)

LEMMA PhaseMoves ==
    ASSUME NEW p, ProcessOK(p), NEW ph, NEW r, r = [p EXCEPT !.phase = ph]
    PROVE  /\ IsProcess(r) /\ r.phase = ph /\ r.starts = p.starts /\ r.config = p.config /\ r.params = p.params
           /\ r.genesis_keys = p.genesis_keys /\ r.network = p.network /\ r.dialed = p.dialed
           /\ ph \in BuiltPhases /\ p.phase \in BuiltPhases => ProcessOK(r)
  <1>1. IsProcess(p)
    BY DEF ProcessOK
  <1>2. /\ IsProcess(r) /\ r.phase = ph /\ r.starts = p.starts /\ r.config = p.config /\ r.params = p.params
        /\ r.genesis_keys = p.genesis_keys /\ r.network = p.network /\ r.dialed = p.dialed
    BY <1>1 DEF IsProcess
  <1>3. ASSUME ph \in BuiltPhases, p.phase \in BuiltPhases PROVE ProcessOK(r)
    <2>1. SoundStart(r)
      BY <1>2, <1>3 DEF ProcessOK, SoundStart
    <2>2. ph \notin {"down", "loaded"}
      BY <1>3 DEF BuiltPhases
    <2> QED BY <1>2, <1>3, <2>1, <2>2 DEF ProcessOK
  <1> QED BY <1>2, <1>3

LEMMA DownOK ==
    ASSUME NEW n PROVE ProcessOK(V!Down(n)) /\ V!Down(n).phase = "down"
  <1> PICK p : p = V!Down(n)
    OBVIOUS
  <1>1. IsProcess(p) /\ p.phase = "down" /\ p.dialed = {}
    BY DEF V!Down, IsProcess
  <1> QED BY <1>1 DEF ProcessOK, BuiltPhases

LEMMA ServiceInit == ASSUME V!Init PROVE ServiceInv
  <1>1. ProcessOK(process) /\ process.phase = "down"
    BY DownOK DEF V!Init
  <1>2. IsFiles(files) /\ files.keys \in {None, V!devnet_genesis}
    BY DEF V!Init, IsFiles
  <1>3. handling = V!no_block /\ queue \in Seq(Event)
    BY DEF V!Init
  <1>4. process.phase \notin BuiltPhases
    BY <1>1 DEF BuiltPhases
  <1> QED BY <1>1, <1>2, <1>3, <1>4 DEF ServiceInv, ServiceOK

LEMMA InitialiseOK ==
    ASSUME ServiceInv, NEW args, V!Initialise(args) PROVE ServiceInv'
  <1>1. /\ process' = process /\ stores' = stores /\ queue' = queue /\ handling' = handling
    BY DEF V!Initialise
  <1> PICK cfg : cfg = V!init_config(args, files.config)
    OBVIOUS
  <1> PICK keys : keys = IF cfg.network = "devnet" THEN V!devnet_genesis ELSE files.keys
    OBVIOUS
  <1>2. /\ files' = [files EXCEPT !.config = cfg, !.keys = keys]
        /\ keys \in {V!devnet_genesis, files.keys}
    BY Zenon DEF V!Initialise
  <1> PICK g : g = [files EXCEPT !.config = cfg]
    OBVIOUS
  <1>3. IsFiles(files) /\ files.keys \in {None, V!devnet_genesis}
    BY DEF ServiceInv, ServiceOK
  <1>4. IsFiles(g)
    BY <1>3 DEF IsFiles
  <1>5. files' = [g EXCEPT !.keys = keys]
    BY <1>2
  <1>6. IsFiles(files') /\ files'.keys = keys
    BY <1>4, <1>5 DEF IsFiles
  <1> QED BY <1>1, <1>2, <1>3, <1>6 DEF ServiceInv, ServiceOK

LEMMA LoadOK ==
    ASSUME ServiceInv, NEW args, V!Load(args) PROVE ServiceInv'
  <1>1. /\ files' = files /\ stores' = stores /\ queue' = queue /\ handling' = handling
        /\ process.phase = "down"
    BY DEF V!Load
  <1> PICK cfg : cfg = V!run_config(args, files.config)
    OBVIOUS
  <1>2. process' = [process EXCEPT !.phase = "loaded", !.starts = process.starts + 1, !.config = cfg]
    BY Zenon DEF V!Load
  <1>3. ProcessOK(process)
    BY DEF ServiceInv, ServiceOK
  <1> PICK r : r = [process EXCEPT !.phase = "loaded"]
    OBVIOUS
  <1> PICK q : q = [r EXCEPT !.starts = process.starts + 1]
    OBVIOUS
  <1>4. IsProcess(r) /\ r.phase = "loaded" /\ r.dialed = process.dialed
    BY <1>3, PhaseMoves
  <1>5. IsProcess(q) /\ q.phase = "loaded" /\ q.dialed = process.dialed
    BY <1>4 DEF IsProcess
  <1>6. process' = [q EXCEPT !.config = cfg]
    BY <1>2
  <1>7. IsProcess(process') /\ process'.phase = "loaded" /\ process'.dialed = process.dialed
    BY <1>5, <1>6 DEF IsProcess
  <1>8. "loaded" \notin BuiltPhases
    BY DEF BuiltPhases
  <1>9. ProcessOK(process')
    BY <1>1, <1>3, <1>7, <1>8 DEF ProcessOK
  <1>10. handling = V!no_block
    BY <1>1 DEF ServiceInv, ServiceOK
  <1> QED BY <1>1, <1>7, <1>8, <1>9, <1>10 DEF ServiceInv, ServiceOK

LEMMA PresetsValid ==
    /\ V!validate_params(V!mainnet_params)
    /\ V!validate_params(V!testnet_params)
    /\ V!validate_params(V!ephemeral_params)
  <1> PICK m : m = V!mainnet_params
    OBVIOUS
  <1> PICK m1 : m1 = [m EXCEPT !.network = "Testnet"]
    OBVIOUS
  <1> PICK mc : mc = V!ConsensusParams(2000, 21600, 50, 51, 100)
    OBVIOUS
  <1> PICK c : c = V!ConsensusParams(2000, 1000, 50, 51, 100)
    OBVIOUS
  <1> PICK e : e = V!ephemeral_params
    OBVIOUS
  <1> PICK ml, mm : /\ ml = V!LedgerParams(7500000, 200000, 1024, 1024, 10000)
                    /\ mm = V!MonetaryParams(21000000, 50, 210000)
    OBVIOUS
  <1>1. m = [network |-> "Mainnet", consensus |-> mc, ledger |-> ml, monetary |-> mm]
    BY DEF V!mainnet_params, V!ProtocolParams
  <1>2. m.consensus = mc /\ m.ledger = ml /\ m.monetary = mm
    BY <1>1
  <1>3. V!validate_consensus(mc)
    BY DEF V!validate_consensus, V!ConsensusParams
  <1>4. V!validate_ledger(ml)
    BY DEF V!validate_ledger, V!LedgerParams
  <1>5. V!validate_monetary(mm)
    BY DEF V!validate_monetary, V!MonetaryParams
  <1>6. V!validate_params(m)
    BY <1>2, <1>3, <1>4, <1>5 DEF V!validate_params
  <1>7. V!validate_params(V!testnet_params)
    <2> PICK t : t = V!testnet_params
      OBVIOUS
    <2>1. m1 = [network |-> "Testnet", consensus |-> mc, ledger |-> ml, monetary |-> mm]
      BY <1>1
    <2>2. m1.consensus = mc
      BY <2>1
    <2>3. t = [m1 EXCEPT !.consensus = c]
      <3>1. [mc EXCEPT !.epoch_slots = 1000] = c
        BY DEF V!ConsensusParams
      <3>2. t = [m1 EXCEPT !.consensus = [m1.consensus EXCEPT !.epoch_slots = 1000]]
        BY DEF V!testnet_params
      <3>3. [m1.consensus EXCEPT !.epoch_slots = 1000] = c
        BY <2>2, <3>1
      <3> QED BY ONLY <3>2, <3>3
    <2>4. t.consensus = c /\ t.ledger = ml /\ t.monetary = mm
      BY <2>1, <2>3
    <2>5. V!validate_consensus(c)
      BY DEF V!validate_consensus, V!ConsensusParams
    <2> QED BY <1>4, <1>5, <2>4, <2>5 DEF V!validate_params
  <1>8. V!validate_params(e)
    <2> PICK d, l, o : /\ d = V!ConsensusParams(100, 50, 3, 2, 3)
                       /\ l = V!LedgerParams(1048576, 65536, 8, 8, 32)
                       /\ o = V!MonetaryParams(1000000, 100, 10)
      OBVIOUS
    <2>1. e = [network |-> "Ephemeral", consensus |-> d, ledger |-> l, monetary |-> o]
      BY DEF V!ephemeral_params, V!ProtocolParams
    <2>2. e.consensus = d /\ e.ledger = l /\ e.monetary = o
      BY <2>1
    <2>3. V!validate_consensus(d)
      BY DEF V!validate_consensus, V!ConsensusParams
    <2>4. V!validate_ledger(l)
      BY DEF V!validate_ledger, V!LedgerParams
    <2>5. V!validate_monetary(o)
      BY DEF V!validate_monetary, V!MonetaryParams
    <2> QED BY <2>2, <2>3, <2>4, <2>5 DEF V!validate_params
  <1> QED BY <1>6, <1>7, <1>8

LEMMA LoadedParamsValid ==
    ASSUME NEW cfg, NEW file, NEW params, params = V!load_protocol_params(cfg, file), params # None
    PROVE  V!validate_params(params)
  <1>1. CASE file # None
    BY <1>1 DEF V!load_protocol_params
  <1>2. CASE file = None
    <2>1. params \in {V!mainnet_params, V!testnet_params, V!ephemeral_params}
      BY <1>2 DEF V!load_protocol_params
    <2> QED BY <2>1, PresetsValid
  <1> QED BY <1>1, <1>2

LEMMA NewOK ==
    ASSUME ServiceConfig, ServiceInv, NEW ok, V!New(ok) PROVE ServiceInv'
  <1> PICK params : params = V!load_protocol_params(process.config, files.params)
    OBVIOUS
  <1>1. /\ files' = files /\ queue' = queue /\ handling' = handling /\ process.phase = "loaded"
    BY DEF V!New
  <1>2. ProcessOK(process) /\ handling = V!no_block
    BY <1>1 DEF ServiceInv, ServiceOK
  <1>3. CASE params = None
    <2>1. process' = V!Down(process.starts)
      BY <1>3 DEF V!New
    <2>2. ProcessOK(process') /\ process'.phase = "down"
      BY <2>1, DownOK
    <2>3. "down" \notin BuiltPhases
      BY DEF BuiltPhases
    <2> QED BY <1>1, <1>2, <2>2, <2>3 DEF ServiceInv, ServiceOK
  <1>4. CASE params # None
    <2> PICK gk, net : gk = V!genesis_keys_of(process.config) /\ net = V!init_network_node(process.config, ok)
      OBVIOUS
    <2>1. /\ process' = [process EXCEPT !.phase = "built", !.params = params, !.genesis_keys = gk, !.network = net]
          /\ stores' = V!maybe_apply_genesis(V!empty_stores)
      BY <1>4, Zenon DEF V!New
    <2> PICK r : r = [process EXCEPT !.phase = "built"]
      OBVIOUS
    <2> PICK q : q = [r EXCEPT !.params = params]
      OBVIOUS
    <2> PICK v : v = [q EXCEPT !.genesis_keys = gk]
      OBVIOUS
    <2>2. IsProcess(r) /\ r.phase = "built" /\ r.dialed = process.dialed /\ r.config = process.config
      BY <1>2, PhaseMoves
    <2>3. IsProcess(q) /\ q.phase = "built" /\ q.dialed = process.dialed /\ q.config = process.config
          /\ q.params = params
      BY <2>2 DEF IsProcess
    <2>4. IsProcess(v) /\ v.phase = "built" /\ v.dialed = process.dialed /\ v.config = process.config
          /\ v.params = params /\ v.genesis_keys = gk
      BY <2>3 DEF IsProcess
    <2>5. process' = [v EXCEPT !.network = net]
      BY <2>1
    <2>6. /\ IsProcess(process') /\ process'.phase = "built" /\ process'.dialed = process.dialed
          /\ process'.config = process.config /\ process'.params = params /\ process'.genesis_keys = gk
      BY <2>4, <2>5 DEF IsProcess
    <2>7. V!validate_params(params)
      BY <1>4, LoadedParamsValid
    <2>8. process.dialed = {}
      BY <1>1, <1>2 DEF ProcessOK
    <2>9. ProcessOK(process')
      BY <2>6, <2>7, <2>8 DEF ProcessOK, SoundStart, BuiltPhases
    <2>10. ChainOK(stores', V!no_block)
      BY <2>1, FreshStores
    <2> QED BY <1>1, <1>2, <2>9, <2>10 DEF ServiceInv, ServiceOK
  <1> QED BY <1>3, <1>4

LEMMA ExporterFailsOK == ASSUME ServiceInv, V!ExporterFails PROVE ServiceInv'
  <1>1. /\ files' = files /\ queue' = queue /\ handling' = handling /\ stores' = stores
        /\ process.phase = "loaded" /\ process' = V!Down(process.starts)
    BY DEF V!ExporterFails
  <1>2. ProcessOK(process) /\ handling = V!no_block
    BY <1>1 DEF ServiceInv, ServiceOK
  <1>3. ProcessOK(process') /\ process'.phase = "down"
    BY <1>1, <1>2, DownOK
  <1>4. "down" \notin BuiltPhases
    BY DEF BuiltPhases
  <1> QED BY <1>1, <1>2, <1>3, <1>4 DEF ServiceInv, ServiceOK

LEMMA StartTasksOK ==
    ASSUME ServiceInv, NEW ok, V!StartTasks(ok) PROVE ServiceInv'
  <1> PICK ds, tk : /\ ds = IF process.network THEN V!bootstrap_seed_nodes(process.config) ELSE {}
                    /\ tk = (process.config.stake_pool /\ ok)
    OBVIOUS
  <1>1. /\ files' = files /\ queue' = queue /\ handling' = handling /\ stores' = stores
        /\ process.phase = "built"
    BY DEF V!StartTasks
  <1>2. process' = [process EXCEPT !.phase = "tasks", !.dialed = ds, !.ticker = tk]
    BY Zenon DEF V!StartTasks
  <1>3. ProcessOK(process) /\ handling = V!no_block /\ ChainOK(stores, handling)
    BY <1>1 DEF ServiceInv, ServiceOK, BuiltPhases
  <1> PICK r : r = [process EXCEPT !.phase = "tasks"]
    OBVIOUS
  <1> PICK q : q = [r EXCEPT !.dialed = ds]
    OBVIOUS
  <1>4. IsProcess(r) /\ r.phase = "tasks" /\ r.network = process.network /\ r.config = process.config
        /\ r.params = process.params /\ r.genesis_keys = process.genesis_keys
    BY <1>3, PhaseMoves
  <1>5. IsProcess(q) /\ q.phase = "tasks" /\ q.network = process.network /\ q.config = process.config
        /\ q.params = process.params /\ q.genesis_keys = process.genesis_keys /\ q.dialed = ds
    BY <1>4 DEF IsProcess
  <1>6. process' = [q EXCEPT !.ticker = tk]
    BY <1>2
  <1>7. /\ IsProcess(process') /\ process'.phase = "tasks" /\ process'.network = process.network
        /\ process'.config = process.config
        /\ process'.params = process.params /\ process'.genesis_keys = process.genesis_keys /\ process'.dialed = ds
    BY <1>5, <1>6 DEF IsProcess
  <1>8. ds # {} => process.network
    OBVIOUS
  <1>9. SoundStart(process)
    BY <1>1, <1>3 DEF ProcessOK, BuiltPhases
  <1>10. SoundStart(process')
    BY <1>7, <1>8, <1>9 DEF SoundStart
  <1>11. ProcessOK(process')
    BY <1>7, <1>10 DEF ProcessOK, BuiltPhases
  <1> QED BY <1>1, <1>3, <1>11 DEF ServiceInv, ServiceOK

LEMMA ExitOK ==
    ASSUME ServiceInv, V!Exit, process.phase # "running" PROVE ServiceInv'
  <1>1. files' = files /\ queue' = <<>> /\ handling' = handling /\ process' = V!Down(process.starts)
    BY DEF V!Exit
  <1>2. ProcessOK(process') /\ process'.phase = "down"
    BY <1>1, DownOK
  <1>3. "down" \notin BuiltPhases /\ <<>> \in Seq(Event)
    BY DEF BuiltPhases
  <1>4. handling = V!no_block
    BY DEF ServiceInv, ServiceOK
  <1> QED BY <1>1, <1>2, <1>3, <1>4 DEF ServiceInv, ServiceOK

\* A step that moves the process on without starting or ending anything else.
LEMMA MovesOnOK ==
    ASSUME ServiceInv, NEW ph, process' = [process EXCEPT !.phase = ph], ph \in BuiltPhases,
           process.phase \in BuiltPhases, handling = V!no_block,
           files' = files, stores' = stores, queue' = queue, handling' = handling
    PROVE  ServiceInv'
  <1>1. ProcessOK(process)
    BY DEF ServiceInv, ServiceOK
  <1>2. ProcessOK(process') /\ process'.phase = ph
    BY <1>1, PhaseMoves
  <1>3. ChainOK(stores, handling)
    BY DEF ServiceInv, ServiceOK
  <1> QED BY <1>2, <1>3 DEF ServiceInv, ServiceOK

LEMMA BindRpcOK ==
    ASSUME ServiceInv, NEW ok, V!BindRpc(ok) PROVE ServiceInv'
  <1>1. process.phase = "tasks"
    BY DEF V!BindRpc
  <1>2. handling = V!no_block
    BY <1>1 DEF ServiceInv, ServiceOK
  <1>3. CASE ok
    <2>1. /\ process' = [process EXCEPT !.phase = "running"]
          /\ files' = files /\ stores' = stores /\ queue' = queue /\ handling' = handling
      BY <1>3 DEF V!BindRpc
    <2>2. "running" \in BuiltPhases /\ process.phase \in BuiltPhases
      BY <1>1 DEF BuiltPhases
    <2> QED BY <1>2, <2>1, <2>2, MovesOnOK
  <1>4. CASE ~ok
    <2>1. V!Exit
      BY <1>4 DEF V!BindRpc
    <2> QED BY <1>1, <2>1, ExitOK
  <1> QED BY <1>3, <1>4

LEMMA LeaveLoopOK == ASSUME ServiceInv, V!LeaveLoop PROVE ServiceInv'
  <1>1. /\ process.phase = "running" /\ handling = V!no_block
        /\ process' = [process EXCEPT !.phase = "stopping"]
        /\ files' = files /\ stores' = stores /\ queue' = queue /\ handling' = handling
    BY DEF V!LeaveLoop
  <1>2. "stopping" \in BuiltPhases /\ process.phase \in BuiltPhases
    BY <1>1 DEF BuiltPhases
  <1> QED BY <1>1, <1>2, MovesOnOK

LEMMA StopRpcOK == ASSUME ServiceInv, V!StopRpc PROVE ServiceInv'
  <1>1. /\ process.phase = "stopping"
        /\ process' = [process EXCEPT !.phase = "closing"]
        /\ files' = files /\ stores' = stores /\ queue' = queue /\ handling' = handling
    BY DEF V!StopRpc
  <1>2. "closing" \in BuiltPhases /\ process.phase \in BuiltPhases
    BY <1>1 DEF BuiltPhases
  <1>3. handling = V!no_block
    BY <1>1 DEF ServiceInv, ServiceOK
  <1> QED BY <1>1, <1>2, <1>3, MovesOnOK

LEMMA SignalOK == ASSUME ServiceInv, V!Signal PROVE ServiceInv' /\ process'.phase = process.phase
  <1>1. /\ process' = [process EXCEPT !.signalled = TRUE]
        /\ files' = files /\ stores' = stores /\ queue' = queue /\ handling' = handling
    BY DEF V!Signal
  <1>2. IsProcess(process)
    BY DEF ServiceInv, ServiceOK, ProcessOK
  <1>3. /\ IsProcess(process') /\ process'.phase = process.phase /\ process'.config = process.config
        /\ process'.params = process.params /\ process'.genesis_keys = process.genesis_keys
        /\ process'.network = process.network /\ process'.dialed = process.dialed
    BY <1>1, <1>2 DEF IsProcess
  <1>4. ProcessOK(process')
    BY <1>3 DEF ServiceInv, ServiceOK, ProcessOK, SoundStart
  <1> QED BY <1>1, <1>3, <1>4 DEF ServiceInv, ServiceOK

LEMMA OfferOK ==
    ASSUME ServiceInv, NEW parent \in V!Prefixes(stores.chain), NEW txs \in Bodies, NEW good \in BOOLEAN,
           V!Offer(parent, [txs |-> txs, good |-> good])
    PROVE  ServiceInv'
  <1> PICK b : b = [txs |-> txs, good |-> good]
    OBVIOUS
  <1>1. /\ process.phase \in {"tasks", "running", "stopping"}
        /\ queue' = Append(queue, [parent |-> parent, body |-> b])
        /\ process' = process /\ files' = files /\ stores' = stores /\ handling' = handling
    BY DEF V!Offer, V!HasTasks
  <1>2. process.phase \in BuiltPhases
    BY <1>1 DEF BuiltPhases
  <1>3. stores.chain \in Seq(BlockBody)
    BY <1>2 DEF ServiceInv, ServiceOK, ChainOK
  <1>4. parent \in Seq(BlockBody)
    BY <1>3 DEF V!Prefixes
  <1>5. b \in BlockBody
    BY DEF BlockBody
  <1>6. [parent |-> parent, body |-> b] \in Event
    BY <1>4, <1>5 DEF Event
  <1>7. queue \in Seq(Event)
    BY DEF ServiceInv, ServiceOK
  <1>8. queue' \in Seq(Event)
    BY <1>1, <1>6, <1>7
  <1> QED BY <1>1, <1>8 DEF ServiceInv, ServiceOK

LEMMA BlockReceivedOK == ASSUME ServiceConfig, ServiceInv, V!BlockReceived PROVE ServiceInv'
  <1> PICK b, h : b = Head(queue) /\ h = Append(b.parent, b.body)
    OBVIOUS
  <1>1. /\ process.phase = "running" /\ handling = V!no_block /\ queue # <<>> /\ queue' = Tail(queue)
        /\ process' = process /\ files' = files
    BY DEF V!BlockReceived
  <1>2. queue \in Seq(Event) /\ ChainOK(stores, V!no_block)
    BY <1>1 DEF ServiceInv, ServiceOK, BuiltPhases
  <1>3. queue' \in Seq(Event) /\ b \in Event
    BY <1>1, <1>2
  <1>4. b.body \in BlockBody
    BY <1>3 DEF Event
  <1>5. CASE b.parent = stores.chain /\ V!Applies(stores.utxo, b.body.txs)
    <2>1. /\ handling' = Step("applied", h)
          /\ stores' = [stores EXCEPT !.utxo = V!apply_block(stores.utxo, b.body.txs)]
      BY <1>5 DEF V!BlockReceived, V!Step, Step
    <2>2. h = Append(stores.chain, b.body)
      BY <1>5
    <2>3. ChainOK(stores', handling')
      BY <1>2, <1>4, <1>5, <2>1, <2>2, ReceivedOK
    <2>4. IsBlock(handling')
      BY <2>1 DEF IsBlock, Step
    <2> QED BY <1>1, <1>3, <2>3, <2>4 DEF ServiceInv, ServiceOK
  <1>6. CASE ~(b.parent = stores.chain /\ V!Applies(stores.utxo, b.body.txs))
    <2>1. handling' = handling /\ stores' = stores
      BY <1>6 DEF V!BlockReceived
    <2> QED BY <1>1, <1>2, <1>3, <2>1 DEF ServiceInv, ServiceOK
  <1> QED BY <1>5, <1>6

\* What is known while a block is in handling.
LEMMA InHandling ==
    ASSUME ServiceInv, handling.step \in {"applied", "added", "stored"}
    PROVE  process.phase = "running" /\ ChainOK(stores, handling) /\ handling # V!no_block
  <1>1. V!no_block.step = "none"
    BY DEF V!no_block
  <1>2. handling # V!no_block
    BY <1>1
  <1>3. process.phase = "running"
    BY <1>2 DEF ServiceInv, ServiceOK
  <1> QED BY <1>2, <1>3 DEF ServiceInv, ServiceOK, BuiltPhases

LEMMA HandledOK ==
    ASSUME ServiceInv, process.phase = "running", process' = process, files' = files, queue' = queue,
           ChainOK(stores', handling'), handling' = V!no_block \/ IsBlock(handling')
    PROVE  ServiceInv'
  BY DEF ServiceInv, ServiceOK

LEMMA CheckCommitmentOK == ASSUME ServiceConfig, ServiceInv, V!CheckCommitment PROVE ServiceInv'
  <1>1. /\ handling.step = "applied" /\ handling' = V!no_block
        /\ stores' = [stores EXCEPT !.utxo = V!revert_block(stores.utxo, V!Last(handling.path).txs)]
        /\ process' = process /\ files' = files /\ queue' = queue
    BY DEF V!CheckCommitment
  <1>2. process.phase = "running" /\ ChainOK(stores, handling)
    BY <1>1, InHandling
  <1>3. ChainOK(stores', V!no_block)
    BY <1>1, <1>2, CheckedOK
  <1> QED BY <1>1, <1>2, <1>3, HandledOK

LEMMA AddBlockOK == ASSUME ServiceConfig, ServiceInv, V!AddBlock PROVE ServiceInv'
  <1>1. /\ handling.step = "applied" /\ handling' = Step("added", handling.path)
        /\ stores' = [stores EXCEPT !.chain = handling.path]
        /\ process' = process /\ files' = files /\ queue' = queue
    BY DEF V!AddBlock, V!Step, Step
  <1>2. process.phase = "running" /\ ChainOK(stores, handling)
    BY <1>1, InHandling
  <1>3. ChainOK(stores', handling')
    BY <1>1, <1>2, AddedOK
  <1>4. IsBlock(handling')
    BY <1>1 DEF IsBlock, Step
  <1> QED BY <1>1, <1>2, <1>3, <1>4, HandledOK

LEMMA PutBlockOK == ASSUME ServiceConfig, ServiceInv, V!PutBlock PROVE ServiceInv'
  <1>1. /\ handling.step = "added" /\ handling' = Step("stored", handling.path)
        /\ stores' = [stores EXCEPT !.stored = stores.stored \cup {handling.path},
                                    !.by_height = Append(stores.by_height, handling.path)]
        /\ process' = process /\ files' = files /\ queue' = queue
    BY Zenon DEF V!PutBlock, V!Step, Step
  <1>2. process.phase = "running" /\ ChainOK(stores, handling)
    BY <1>1, InHandling
  <1>3. ChainOK(stores', handling')
    BY <1>1, <1>2, PutOK, Zenon
  <1>4. IsBlock(handling')
    BY <1>1 DEF IsBlock, Step
  <1> QED BY <1>1, <1>2, <1>3, <1>4, HandledOK

LEMMA RemoveConfirmedOK == ASSUME ServiceConfig, ServiceInv, V!RemoveConfirmed PROVE ServiceInv'
  <1>1. /\ handling.step = "stored" /\ handling' = V!no_block /\ stores' = stores
        /\ process' = process /\ files' = files /\ queue' = queue
    BY DEF V!RemoveConfirmed
  <1>2. process.phase = "running" /\ ChainOK(stores, handling)
    BY <1>1, InHandling
  <1>3. ChainOK(stores', handling')
    BY <1>1, <1>2, RemovedOK
  <1> QED BY <1>1, <1>2, <1>3, HandledOK

RpcFrame == process' = process /\ files' = files /\ stores' = stores /\ queue' = queue /\ handling' = handling

LEMMA RpcFrames == ASSUME V!Rpc PROVE RpcFrame
  <1>1. ASSUME NEW t \in Payments, V!send_transaction(t) PROVE RpcFrame
    BY <1>1 DEF V!send_transaction, RpcFrame
  <1>2. ASSUME NEW t \in Payments, V!get_tx(t) PROVE RpcFrame
    BY <1>2 DEF V!get_tx, RpcFrame
  <1>3. ASSUME V!SearchPool PROVE RpcFrame
    BY <1>3 DEF V!SearchPool, V!Becomes, RpcFrame
  <1>4. ASSUME V!ReadAncestors PROVE RpcFrame
    BY <1>4 DEF V!ReadAncestors, V!Becomes, RpcFrame
  <1>5. ASSUME V!SearchBlock PROVE RpcFrame
    BY <1>5 DEF V!SearchBlock, V!Becomes, RpcFrame
  <1>6. ASSUME V!get_tip PROVE RpcFrame
    BY <1>6 DEF V!get_tip, RpcFrame
  <1>7. ASSUME V!get_block_by_hash PROVE RpcFrame
    BY <1>7 DEF V!get_block_by_hash, V!Becomes, RpcFrame
  <1>8. ASSUME V!Reply PROVE RpcFrame
    BY <1>8 DEF V!Reply, V!Becomes, RpcFrame
  <1> QED BY <1>1, <1>2, <1>3, <1>4, <1>5, <1>6, <1>7, <1>8 DEF V!Rpc

LEMMA ServiceStep == ASSUME ServiceConfig, ServiceInv, V!Next PROVE ServiceInv'
  <1>1. ASSUME V!Startup PROVE ServiceInv'
    <2>1. ASSUME NEW args \in Invocations, V!Initialise(args) PROVE ServiceInv'
      BY <2>1, InitialiseOK
    <2>2. ASSUME NEW args \in Invocations, V!Load(args) PROVE ServiceInv'
      BY <2>2, LoadOK
    <2>3. ASSUME NEW ok \in BOOLEAN, V!New(ok) PROVE ServiceInv'
      BY <2>3, NewOK
    <2>4. ASSUME NEW ok \in BOOLEAN, V!StartTasks(ok) PROVE ServiceInv'
      BY <2>4, StartTasksOK
    <2>5. ASSUME NEW ok \in BOOLEAN, V!BindRpc(ok) PROVE ServiceInv'
      BY <2>5, BindRpcOK
    <2> QED BY <1>1, <2>1, <2>2, <2>3, <2>4, <2>5, ExporterFailsOK, Zenon DEF V!Startup
  <1>2. ASSUME V!MainLoop PROVE ServiceInv'
    BY <1>2, OfferOK, BlockReceivedOK, CheckCommitmentOK, AddBlockOK, PutBlockOK, RemoveConfirmedOK, Zenon
       DEF V!MainLoop
  <1>3. ASSUME V!Rpc PROVE ServiceInv'
    <2>1. RpcFrame
      BY <1>3, RpcFrames
    <2> QED BY <2>1 DEF RpcFrame, ServiceInv
  <1>4. ASSUME V!End PROVE ServiceInv'
    <2>1. ASSUME V!Shutdown PROVE ServiceInv'
      BY <2>1, ExitOK DEF V!Shutdown
    <2> QED BY <1>4, <2>1, SignalOK, LeaveLoopOK, StopRpcOK, Zenon DEF V!End
  <1> QED BY <1>1, <1>2, <1>3, <1>4, Zenon DEF V!Next

\* A request in progress.  Of a transaction that has not lapsed: it is where the search
\* will still look.  Of a tip: it is in the chain, and without a block only before its own
\* is stored.
TxShape(q) ==
    \/ /\ q = [method |-> "getTx", tx |-> q.tx, step |-> q.step]
       /\ q.step \in {"pool", "chain", "found", "missing"}
    \/ /\ q = [method |-> "getTx", tx |-> q.tx, step |-> "blocks", left |-> q.left]
       /\ q.left \in Seq(Seq(BlockBody))
TipShape(q) ==
    /\ q = [method |-> "getTip", step |-> q.step, hash |-> q.hash]
    /\ q.step \in {"tip", "found", "missing"}
InSight(q, s, cl) ==
    /\ q.step = "pool" => q.tx \in cl \/ StoredAt(s, q.tx)
    /\ q.step = "chain" => StoredAt(s, q.tx)
    /\ q.step = "blocks" => \E i \in 1..Len(q.left) : q.left[i] \in s.stored /\ q.tx \in V!Last(q.left[i]).txs
    /\ q.step # "missing"
InChain(hash, c) == \E n \in 0..Len(c) : hash = SubSeq(c, 1, n)
TipOK(q, s, hd) ==
    /\ InChain(q.hash, s.chain)
    /\ q.step = "missing" =>
          q.hash = <<>> \/ q.hash \in s.stored \/ (hd.step = "added" /\ q.hash = hd.path)
QueryOK(q, p, s, cl, hd, lp) ==
    /\ lp \in BOOLEAN
    /\ q # V!idle => p.phase \in {"running", "stopping"}
    /\ \/ q = V!idle
       \/ TxShape(q) /\ (lp \/ InSight(q, s, cl))
       \/ TipShape(q) /\ TipOK(q, s, hd)
QueryInv == QueryOK(query, process, stores, clear, handling, lapse)

LEMMA Methods ==
    /\ V!idle.method = "none"
    /\ \A q : TxShape(q) => q.method = "getTx" /\ q # V!idle
    /\ \A q : TipShape(q) => q.method = "getTip" /\ q # V!idle
  <1>1. V!idle.method = "none"
    BY DEF V!idle
  <1>2. ASSUME NEW q, TxShape(q) PROVE q.method = "getTx"
    BY <1>2 DEF TxShape
  <1>3. ASSUME NEW q, TipShape(q) PROVE q.method = "getTip"
    BY <1>3 DEF TipShape
  <1> QED BY <1>1, <1>2, <1>3

LEMMA LapseTyped == ASSUME V!Watch PROVE lapse' \in BOOLEAN
  BY DEF V!Watch

\* What it means that a transaction has not lapsed.
LEMMA NotLapsed ==
    ASSUME V!Watch, query # V!idle, query' # V!idle, query'.method = "getTx", ~lapse', lapse \in BOOLEAN
    PROVE  /\ ~lapse
           /\ query.tx \in clear' \/ V!Listed(query.tx)'
           /\ V!Listed(query.tx) => V!Listed(query.tx)'
  <1> HIDE DEF V!Listed
  <1> QED BY DEF V!Watch

LEMMA QueryIdles ==
    ASSUME V!Watch, query' = V!idle PROVE QueryInv'
  <1>1. lapse' \in BOOLEAN
    BY LapseTyped
  <1> QED BY <1>1 DEF QueryInv, QueryOK

TxKept ==
    (query.method = "getTx" /\ ~lapse') =>
        /\ StoredAt(stores, query.tx) => StoredAt(stores', query.tx)
        /\ query.tx \in clear => query.tx \in clear' \/ StoredAt(stores', query.tx)
TipKept ==
    /\ stores.stored \subseteq stores'.stored
    /\ \A hash : InChain(hash, stores.chain) => InChain(hash, stores'.chain)
    /\ handling.step = "added" => (handling' = handling \/ handling.path \in stores'.stored)

LEMMA QueryKept ==
    ASSUME V!Watch, QueryInv, query' = query,
           query # V!idle => process'.phase \in {"running", "stopping"},
           query # V!idle => TxKept /\ TipKept
    PROVE  QueryInv'
  <1>1. lapse' \in BOOLEAN /\ lapse \in BOOLEAN
    BY LapseTyped DEF QueryInv, QueryOK
  <1>2. CASE query = V!idle
    BY <1>2, QueryIdles
  <1>3. CASE TxShape(query) /\ (lapse \/ InSight(query, stores, clear))
    <2>1. query.method = "getTx" /\ query # V!idle
      BY <1>3, Methods
    <2>2. ASSUME ~lapse' PROVE InSight(query, stores', clear')
      <3>1. ~lapse
        BY <1>1, <2>1, <2>2, NotLapsed
      <3>2. InSight(query, stores, clear)
        BY <1>3, <3>1
      <3>3. /\ stores.stored \subseteq stores'.stored
            /\ StoredAt(stores, query.tx) => StoredAt(stores', query.tx)
            /\ query.tx \in clear => query.tx \in clear' \/ StoredAt(stores', query.tx)
        BY <2>1, <2>2 DEF TxKept, TipKept
      <3> QED BY <3>2, <3>3 DEF InSight
    <2> QED BY <1>1, <1>3, <2>1, <2>2 DEF QueryInv, QueryOK
  <1>4. CASE TipShape(query) /\ TipOK(query, stores, handling)
    <2>1. query # V!idle
      BY <1>4, Methods
    <2>2. TipOK(query, stores', handling')
      BY <1>4, <2>1 DEF TipOK, TipKept
    <2> QED BY <1>1, <1>4, <2>1, <2>2 DEF QueryInv, QueryOK
  <1> QED BY <1>2, <1>3, <1>4 DEF QueryInv, QueryOK

\* A request is in progress only while the server is up.
LEMMA AskedWhileServing ==
    ASSUME ServiceInv, QueryInv, query # V!idle
    PROVE  process.phase \in {"running", "stopping"} /\ ChainOK(stores, handling)
  <1>1. process.phase \in {"running", "stopping"}
    BY DEF QueryInv, QueryOK
  <1> QED BY <1>1 DEF ServiceInv, ServiceOK, BuiltPhases

LEMMA SameChainKept ==
    ASSUME stores'.chain = stores.chain, stores.stored \subseteq stores'.stored, clear \subseteq clear',
           handling.step = "added" => (handling' = handling \/ handling.path \in stores'.stored)
    PROVE  TxKept /\ TipKept
  BY DEF TxKept, TipKept, StoredAt

LEMMA AddBlockQuery ==
    ASSUME ServiceConfig, ServiceInv, V!AddBlock, V!Watch, QueryInv PROVE QueryInv'
  <1>1. /\ handling.step = "applied" /\ stores' = [stores EXCEPT !.chain = handling.path]
        /\ clear' = clear /\ query' = query /\ process' = process /\ handling' = Step("added", handling.path)
    BY DEF V!AddBlock, V!Step, Step
  <1>2. ChainOK(stores, handling)
    BY <1>1, InHandling
  <1>3. ChainOK(stores', handling')
    BY <1>1, <1>2, AddedOK
  <1> PICK c : c = stores.chain
    OBVIOUS
  <1> PICK d : d = stores'.chain
    OBVIOUS
  <1>4. stores'.stored = stores.stored /\ d = handling.path
    BY <1>1, <1>2 DEF ChainOK, IsStores
  <1>5. PICK b \in BlockBody : d = Append(c, b)
    BY <1>1, <1>2, <1>4 DEF ChainOK, AtStep
  <1>6. c \in Seq(BlockBody) /\ d \in Seq(BlockBody)
    BY <1>2, <1>3 DEF ChainOK
  <1>7. /\ Len(d) = Len(c) + 1 /\ Len(c) \in Nat /\ \A n \in 1..Len(c) : d[n] = c[n]
        /\ \A n \in 0..Len(c) : SubSeq(d, 1, n) = SubSeq(c, 1, n)
    BY <1>5, <1>6, Append1, Append2
  <1>8. TipKept
    <2>1. ASSUME NEW hash, InChain(hash, c) PROVE InChain(hash, d)
      <3>1. PICK n \in 0..Len(c) : hash = SubSeq(c, 1, n)
        BY <2>1 DEF InChain
      <3>2. n \in 0..Len(d) /\ hash = SubSeq(d, 1, n)
        BY <1>7, <3>1
      <3> QED BY <3>2 DEF InChain
    <2> QED BY <1>1, <1>4, <2>1 DEF TipKept
  <1>9. ASSUME query # V!idle PROVE TxKept
    <2> SUFFICES ASSUME query.method = "getTx", ~lapse', StoredAt(stores, query.tx)
                 PROVE  StoredAt(stores', query.tx)
      BY <1>1 DEF TxKept
    <2>1. PICK n \in 1..Len(c) : Recent(c, n) /\ query.tx \in c[n].txs /\ SubSeq(c, 1, n) \in stores.stored
      BY DEF StoredAt
    <2>2. ListedAt(c, query.tx)
      BY <2>1 DEF ListedAt
    <2>3. V!Listed(query.tx) => V!Listed(query.tx)'
      <3>1. lapse \in BOOLEAN
        BY DEF QueryInv, QueryOK
      <3> QED BY <1>1, <1>9, <3>1, NotLapsed
    <2>4. ListedAt(d, query.tx)
      <3>1. V!Listed(query.tx)
        BY <1>6, <2>2, ListedIs
      <3>2. V!Listed(query.tx)'
        BY <2>3, <3>1
      <3> QED BY <1>1, <1>6, <3>2, ListedIsNext
    <2>5. PICK m \in 1..Len(d) : Recent(d, m) /\ query.tx \in d[m].txs
      BY <2>4 DEF ListedAt
    <2>6. n \in 1..Len(d) /\ n \in 0..Len(c) /\ query.tx \in d[n].txs
      BY <1>7, <2>1
    <2>7. n = m
      <3>1. LedgerOK(V!Ledger(d), d)
        BY <1>3 DEF ChainOK
      <3> QED BY <2>5, <2>6, <3>1 DEF LedgerOK
    <2>8. SubSeq(d, 1, n) \in stores'.stored
      BY <1>4, <1>7, <2>1, <2>6
    <2> QED BY <2>5, <2>6, <2>7, <2>8 DEF StoredAt
  <1>10. query # V!idle => process'.phase \in {"running", "stopping"}
    BY <1>1 DEF QueryInv, QueryOK
  <1> QED BY <1>1, <1>8, <1>9, <1>10, QueryKept

LEMMA RemoveConfirmedQuery ==
    ASSUME ServiceConfig, ServiceInv, V!RemoveConfirmed, V!Watch, QueryInv PROVE QueryInv'
  <1>1. /\ handling.step = "stored" /\ stores' = stores /\ query' = query /\ process' = process
    BY DEF V!RemoveConfirmed
  <1>2. ChainOK(stores, handling)
    BY <1>1, InHandling
  <1> PICK c : c = stores.chain
    OBVIOUS
  <1>3. c \in Seq(BlockBody) /\ Shelf(stores, Len(c))
    BY <1>1, <1>2 DEF ChainOK, StoredUpTo
  <1>4. TipKept
    BY <1>1 DEF TipKept
  <1>5. ASSUME query # V!idle PROVE TxKept
    <2> SUFFICES ASSUME query.method = "getTx", ~lapse', query.tx \notin clear'
                 PROVE  StoredAt(stores, query.tx)
      BY <1>1 DEF TxKept
    <2>1. V!Listed(query.tx)'
      <3>1. lapse \in BOOLEAN
        BY DEF QueryInv, QueryOK
      <3> QED BY <1>1, <1>5, <3>1, NotLapsed
    <2>2. ListedAt(c, query.tx)
      BY <1>1, <1>3, <2>1, ListedIsNext
    <2>3. PICK n \in 1..Len(c) : Recent(c, n) /\ query.tx \in c[n].txs
      BY <2>2 DEF ListedAt
    <2>4. SubSeq(c, 1, n) \in stores.stored
      BY <1>3, <2>3 DEF Shelf
    <2> QED BY <2>3, <2>4 DEF StoredAt
  <1>6. query # V!idle => process'.phase \in {"running", "stopping"}
    BY <1>1 DEF QueryInv, QueryOK
  <1> QED BY <1>1, <1>4, <1>5, <1>6, QueryKept

LEMMA StartupQuery == ASSUME QueryInv, V!Startup, V!Watch PROVE QueryInv'
  <1>1. process.phase \in {"down", "loaded", "built", "tasks"} /\ query' = query
    <2>1. ASSUME NEW args, V!Initialise(args) PROVE process.phase = "down" /\ query' = query
      BY <2>1 DEF V!Initialise
    <2>2. ASSUME NEW args, V!Load(args) PROVE process.phase = "down" /\ query' = query
      BY <2>2 DEF V!Load
    <2>3. ASSUME NEW ok, V!New(ok) PROVE process.phase = "loaded" /\ query' = query
      BY <2>3 DEF V!New
    <2>4. ASSUME NEW ok, V!StartTasks(ok) PROVE process.phase = "built" /\ query' = query
      BY <2>4 DEF V!StartTasks
    <2>5. ASSUME NEW ok, V!BindRpc(ok) PROVE process.phase = "tasks" /\ query' = query
      BY <2>5 DEF V!BindRpc, V!Exit
    <2>6. ASSUME V!ExporterFails PROVE process.phase = "loaded" /\ query' = query
      BY <2>6 DEF V!ExporterFails
    <2> QED BY <2>1, <2>2, <2>3, <2>4, <2>5, <2>6 DEF V!Startup
  <1>2. query = V!idle
    BY <1>1 DEF QueryInv, QueryOK
  <1> QED BY <1>1, <1>2, QueryIdles

LEMMA OfferQuery ==
    ASSUME QueryInv, V!Watch, NEW parent, NEW body, V!Offer(parent, body) PROVE QueryInv'
  <1>1. process' = process /\ stores' = stores /\ clear' = clear /\ handling' = handling /\ query' = query
    BY DEF V!Offer
  <1>2. TxKept /\ TipKept
    BY <1>1, SameChainKept
  <1>3. query # V!idle => process'.phase \in {"running", "stopping"}
    BY <1>1 DEF QueryInv, QueryOK
  <1> QED BY <1>1, <1>2, <1>3, QueryKept

LEMMA BlockReceivedQuery ==
    ASSUME ServiceInv, QueryInv, V!Watch, V!BlockReceived PROVE QueryInv'
  <1>1. /\ process.phase = "running" /\ handling = V!no_block
        /\ process' = process /\ clear' = clear /\ query' = query
    BY DEF V!BlockReceived
  <1>2. IsStores(stores)
    BY <1>1 DEF ServiceInv, ServiceOK, BuiltPhases, ChainOK
  <1>3. stores'.chain = stores.chain /\ stores'.stored = stores.stored
    <2> PICK u : u = V!apply_block(stores.utxo, Head(queue).body.txs)
      OBVIOUS
    <2>1. stores' = [stores EXCEPT !.utxo = u] \/ stores' = stores
      BY DEF V!BlockReceived
    <2> QED BY <1>2, <2>1 DEF IsStores
  <1>4. handling.step = "none"
    BY <1>1 DEF V!no_block
  <1>5. TxKept /\ TipKept
    BY <1>1, <1>3, <1>4, SameChainKept
  <1> QED BY <1>1, <1>5, QueryKept

LEMMA CheckCommitmentQuery ==
    ASSUME ServiceInv, QueryInv, V!Watch, V!CheckCommitment PROVE QueryInv'
  <1> PICK u : u = V!revert_block(stores.utxo, V!Last(handling.path).txs)
    OBVIOUS
  <1>1. /\ handling.step = "applied" /\ stores' = [stores EXCEPT !.utxo = u]
        /\ process' = process /\ clear' = clear /\ query' = query
    BY DEF V!CheckCommitment
  <1>2. process.phase = "running" /\ IsStores(stores)
    BY <1>1, InHandling DEF ChainOK
  <1>3. stores'.chain = stores.chain /\ stores'.stored = stores.stored
    BY <1>1, <1>2 DEF IsStores
  <1>4. TxKept /\ TipKept
    BY <1>1, <1>3, SameChainKept
  <1> QED BY <1>1, <1>2, <1>4, QueryKept

LEMMA PutBlockQuery ==
    ASSUME ServiceInv, QueryInv, V!Watch, V!PutBlock PROVE QueryInv'
  <1> PICK u : u = stores.stored \cup {handling.path}
    OBVIOUS
  <1> PICK v : v = Append(stores.by_height, handling.path)
    OBVIOUS
  <1>1. /\ handling.step = "added" /\ stores' = [stores EXCEPT !.stored = u, !.by_height = v]
        /\ process' = process /\ clear' = clear /\ query' = query
    BY Zenon DEF V!PutBlock
  <1>2. process.phase = "running" /\ IsStores(stores)
    BY <1>1, InHandling DEF ChainOK
  <1>3. stores'.chain = stores.chain /\ stores'.stored = u
    <2> PICK r : r = [stores EXCEPT !.stored = u]
      OBVIOUS
    <2>1. IsStores(r) /\ r.chain = stores.chain /\ r.stored = u
      BY <1>2 DEF IsStores
    <2>2. stores' = [r EXCEPT !.by_height = v]
      BY <1>1
    <2> QED BY <2>1, <2>2 DEF IsStores
  <1>4. TxKept /\ TipKept
    BY <1>1, <1>3, SameChainKept
  <1> QED BY <1>1, <1>2, <1>4, QueryKept

LEMMA EndQuery == ASSUME ServiceInv, QueryInv, V!Watch, V!End PROVE QueryInv'
  <1>1. CASE V!Signal
    <2>1. stores' = stores /\ clear' = clear /\ handling' = handling /\ query' = query
      BY <1>1 DEF V!Signal
    <2>2. process'.phase = process.phase
      BY <1>1, SignalOK
    <2>3. TxKept /\ TipKept
      BY <2>1, SameChainKept
    <2>4. query # V!idle => process'.phase \in {"running", "stopping"}
      BY <2>2 DEF QueryInv, QueryOK
    <2> QED BY <2>1, <2>3, <2>4, QueryKept
  <1>2. CASE V!LeaveLoop
    <2>1. /\ process' = [process EXCEPT !.phase = "stopping"]
          /\ stores' = stores /\ clear' = clear /\ handling' = handling /\ query' = query
      BY <1>2 DEF V!LeaveLoop
    <2>2. process'.phase = "stopping"
      BY <2>1, PhaseMoves DEF ServiceInv, ServiceOK
    <2>3. TxKept /\ TipKept
      BY <2>1, SameChainKept
    <2> QED BY <2>1, <2>2, <2>3, QueryKept
  <1>3. CASE V!StopRpc
    BY <1>3, QueryIdles DEF V!StopRpc
  <1>4. CASE V!Shutdown
    <2>1. process.phase = "closing" /\ query' = query
      BY <1>4 DEF V!Shutdown, V!Exit
    <2>2. query = V!idle
      BY <2>1 DEF QueryInv, QueryOK
    <2> QED BY <2>1, <2>2, QueryIdles
  <1> QED BY <1>1, <1>2, <1>3, <1>4 DEF V!End

LEMMA SendQuery == ASSUME QueryInv, V!Watch, NEW t, V!send_transaction(t) PROVE QueryInv'
  <1>1. /\ process' = process /\ stores' = stores /\ clear \subseteq clear' /\ handling' = handling
        /\ query' = query
    BY DEF V!send_transaction
  <1>2. TxKept /\ TipKept
    BY <1>1, SameChainKept
  <1>3. query # V!idle => process'.phase \in {"running", "stopping"}
    BY <1>1 DEF QueryInv, QueryOK
  <1> QED BY <1>1, <1>2, <1>3, QueryKept

LEMMA GetTxQuery == ASSUME ServiceConfig, ServiceInv, V!Watch, NEW t, V!get_tx(t) PROVE QueryInv'
  <1> PICK q : q = [method |-> "getTx", tx |-> t, step |-> "pool"]
    OBVIOUS
  <1>1. /\ process.phase \in {"running", "stopping"} /\ query = V!idle /\ query' = q
        /\ process' = process /\ stores' = stores /\ clear' = clear /\ handling' = handling
    BY DEF V!get_tx, V!Asks, V!Serving
  <1>2. TxShape(q) /\ q.tx = t /\ q.method = "getTx" /\ q.step = "pool"
    BY DEF TxShape
  <1>3. q # V!idle
    BY <1>2, Methods
  <1>4. lapse' \in BOOLEAN
    BY LapseTyped
  <1>5. ASSUME ~lapse' PROVE t \in clear \/ V!Stored(t)
    <2> HIDE DEF V!Stored
    <2> QED BY <1>1, <1>2, <1>3, <1>5 DEF V!Watch
  <1>6. stores.chain \in Seq(BlockBody) /\ <<>> \notin stores.stored
    BY <1>1 DEF ServiceInv, ServiceOK, BuiltPhases, ChainOK, Shelf
  <1>7. ASSUME ~lapse' PROVE InSight(q, stores, clear)
    <2>1. t \in clear \/ StoredAt(stores, t)
      BY <1>5, <1>6, <1>7, StoredIs
    <2> QED BY <1>2, <2>1 DEF InSight
  <1> QED BY <1>1, <1>2, <1>4, <1>7 DEF QueryInv, QueryOK

\* A step of a search: the next request is a search in sight if this one was.
LEMMA SearchQuery ==
    ASSUME QueryInv, V!Watch, RpcFrame, clear' = clear, query.method = "getTx", TxShape(query'),
           InSight(query, stores, clear) => InSight(query', stores, clear)
    PROVE  QueryInv'
  <1>1. query # V!idle /\ query' # V!idle /\ query'.method = "getTx"
    BY Methods
  <1>2. lapse \in BOOLEAN /\ lapse' \in BOOLEAN
    BY LapseTyped DEF QueryInv, QueryOK
  <1>3. ~TipShape(query)
    BY Methods
  <1>4. ASSUME ~lapse' PROVE InSight(query', stores, clear)
    <2>1. ~lapse
      BY <1>1, <1>2, <1>4, NotLapsed
    <2> QED BY <1>1, <1>3, <2>1 DEF QueryInv, QueryOK
  <1>5. process'.phase \in {"running", "stopping"}
    BY <1>1 DEF QueryInv, QueryOK, RpcFrame
  <1> QED BY <1>2, <1>4, <1>5 DEF QueryInv, QueryOK, RpcFrame

LEMMA IsSearch ==
    ASSUME QueryInv, query.method = "getTx"
    PROVE  TxShape(query)
  BY Methods DEF QueryInv, QueryOK

LEMMA SearchPoolQuery == ASSUME QueryInv, V!Watch, V!SearchPool PROVE QueryInv'
  <1>1. query.method = "getTx" /\ query.step = "pool" /\ RpcFrame /\ clear' = clear
    BY DEF V!SearchPool, V!Becomes, RpcFrame
  <1>2. query = [method |-> "getTx", tx |-> query.tx, step |-> "pool"]
    <2>1. TxShape(query)
      BY <1>1, IsSearch
    <2> QED BY <1>1, <2>1 DEF TxShape
  <1>3. CASE query.tx \in clear
    <2>1. query' = [query EXCEPT !.step = "found"]
      BY <1>3 DEF V!SearchPool, V!Becomes
    <2>2. query' = [method |-> "getTx", tx |-> query.tx, step |-> "found"]
      BY <1>2, <2>1
    <2>3. TxShape(query') /\ InSight(query', stores, clear)
      BY <2>2 DEF TxShape, InSight
    <2> QED BY <1>1, <2>3, SearchQuery
  <1>4. CASE query.tx \notin clear
    <2>1. query' = [query EXCEPT !.step = "chain"]
      BY <1>4 DEF V!SearchPool, V!Becomes
    <2>2. query' = [method |-> "getTx", tx |-> query.tx, step |-> "chain"]
      BY <1>2, <2>1
    <2>3. TxShape(query')
      BY <2>2 DEF TxShape
    <2>4. InSight(query, stores, clear) => InSight(query', stores, clear)
      BY <1>1, <1>4, <2>2 DEF InSight
    <2> QED BY <1>1, <2>3, <2>4, SearchQuery
  <1> QED BY <1>3, <1>4

LEMMA ReadAncestorsQuery ==
    ASSUME ServiceConfig, ServiceInv, QueryInv, V!Watch, V!ReadAncestors PROVE QueryInv'
  <1> PICK c : c = stores.chain
    OBVIOUS
  <1> PICK f : f = V!ancestors(c, Lookback)
    OBVIOUS
  <1>1. /\ query.method = "getTx" /\ query.step = "chain" /\ RpcFrame /\ clear' = clear
        /\ query' = [method |-> "getTx", tx |-> query.tx, step |-> "blocks", left |-> f]
    BY DEF V!ReadAncestors, V!Becomes, RpcFrame
  <1>2. c \in Seq(BlockBody)
    <2>1. query # V!idle
      BY <1>1, Methods
    <2> QED BY <2>1, AskedWhileServing DEF ChainOK
  <1>3. f \in Seq(Seq(BlockBody))
    BY <1>2, AncestorsAre
  <1>4. /\ query'.method = "getTx" /\ query'.tx = query.tx /\ query'.step = "blocks" /\ query'.left = f
        /\ TxShape(query')
    BY <1>1, <1>3 DEF TxShape
  <1>5. ASSUME InSight(query, stores, clear) PROVE InSight(query', stores, clear)
    <2>1. StoredAt(stores, query.tx)
      BY <1>1, <1>5 DEF InSight
    <2>2. PICK n \in 1..Len(c) : Recent(c, n) /\ query.tx \in c[n].txs /\ SubSeq(c, 1, n) \in stores.stored
      BY <2>1 DEF StoredAt
    <2>3. n \in 0..Len(c)
      BY <2>2
    <2>4. PICK i \in 1..Len(f) : f[i] = SubSeq(c, 1, n)
      BY <1>2, <2>2, <2>3, AncestorsAre
    <2>5. f[i] \in stores.stored /\ query.tx \in V!Last(f[i]).txs
      BY <1>2, <2>2, <2>4, PrefixLast
    <2> QED BY <1>4, <2>5 DEF InSight
  <1> QED BY <1>1, <1>4, <1>5, SearchQuery

LEMMA SearchBlockQuery ==
    ASSUME ServiceConfig, QueryInv, V!Watch, V!SearchBlock PROVE QueryInv'
  <1> PICK f : f = query.left
    OBVIOUS
  <1>1. query.method = "getTx" /\ query.step = "blocks" /\ RpcFrame /\ clear' = clear
    BY DEF V!SearchBlock, V!Becomes, RpcFrame
  <1>2. query = [method |-> "getTx", tx |-> query.tx, step |-> "blocks", left |-> f] /\ f \in Seq(Seq(BlockBody))
    <2>1. TxShape(query)
      BY <1>1, IsSearch
    <2> QED BY <1>1, <2>1 DEF TxShape
  <1>3. CASE f = <<>>
    <2>1. query' = [method |-> "getTx", tx |-> query.tx, step |-> "missing"]
      BY <1>3 DEF V!SearchBlock, V!Becomes
    <2>2. TxShape(query')
      BY <2>1 DEF TxShape
    <2>3. ~InSight(query, stores, clear)
      <3>1. Len(f) = 0
        BY <1>3
      <3> QED BY <1>1, <3>1 DEF InSight
    <2> QED BY <1>1, <2>2, <2>3, SearchQuery
  <1>4. CASE f # <<>> /\ V!Holds(Head(f), query.tx)
    <2>1. query' = [method |-> "getTx", tx |-> query.tx, step |-> "found"]
      BY <1>4 DEF V!SearchBlock, V!Becomes
    <2>2. TxShape(query') /\ InSight(query', stores, clear)
      BY <2>1 DEF TxShape, InSight
    <2> QED BY <1>1, <2>2, SearchQuery
  <1>5. CASE f # <<>> /\ ~V!Holds(Head(f), query.tx)
    <2> PICK g : g = Tail(f)
      OBVIOUS
    <2>1. query' = [query EXCEPT !.left = g]
      BY <1>5 DEF V!SearchBlock, V!Becomes
    <2>2. /\ g \in Seq(Seq(BlockBody)) /\ Len(g) = Len(f) - 1 /\ Head(f) = f[1] /\ Len(f) \in Nat
          /\ \A i \in 1..Len(g) : g[i] = f[i + 1]
      BY <1>2, <1>5
    <2>3. query' = [method |-> "getTx", tx |-> query.tx, step |-> "blocks", left |-> g]
      <3> PICK a : a = query.tx
        OBVIOUS
      <3>1. query = [method |-> "getTx", tx |-> a, step |-> "blocks", left |-> f]
        BY <1>2
      <3>2. query' = [method |-> "getTx", tx |-> a, step |-> "blocks", left |-> g]
        BY ONLY <2>1, <3>1
      <3> QED BY <3>2
    <2>4. /\ query'.tx = query.tx /\ query'.step = "blocks" /\ query'.left = g /\ TxShape(query')
      BY <2>2, <2>3 DEF TxShape
    <2>5. ASSUME InSight(query, stores, clear) PROVE InSight(query', stores, clear)
      <3>1. PICK i \in 1..Len(f) : f[i] \in stores.stored /\ query.tx \in V!Last(f[i]).txs
        BY <1>1, <2>5 DEF InSight
      <3>2. f[1] # None
        BY <1>2, <2>2, <3>1 DEF ServiceConfig
      <3>3. i # 1
        BY <1>5, <2>2, <3>1, <3>2 DEF V!Holds, V!get_block
      <3>4. i - 1 \in 1..Len(g) /\ g[i - 1] = f[i]
        BY <2>2, <3>1, <3>3
      <3> QED BY <2>4, <3>1, <3>4 DEF InSight
    <2> QED BY <1>1, <2>4, <2>5, SearchQuery
  <1> QED BY <1>3, <1>4, <1>5

LEMMA GetTipQuery == ASSUME ServiceInv, V!Watch, V!get_tip PROVE QueryInv'
  <1> PICK c : c = stores.chain
    OBVIOUS
  <1>1. /\ process.phase \in {"running", "stopping"}
        /\ query' = [method |-> "getTip", step |-> "tip", hash |-> c]
        /\ process' = process /\ stores' = stores /\ clear' = clear /\ handling' = handling
    BY DEF V!get_tip, V!Asks, V!Serving
  <1>2. c \in Seq(BlockBody)
    BY <1>1 DEF ServiceInv, ServiceOK, BuiltPhases, ChainOK
  <1>3. SubSeq(c, 1, Len(c)) = c /\ Len(c) \in 0..Len(c)
    BY <1>2
  <1>4. TipShape(query') /\ query'.hash = c /\ query'.step = "tip"
    BY <1>1 DEF TipShape
  <1>5. TipOK(query', stores, handling)
    BY <1>3, <1>4 DEF TipOK, InChain
  <1>6. lapse' \in BOOLEAN
    BY LapseTyped
  <1> QED BY <1>1, <1>4, <1>5, <1>6 DEF QueryInv, QueryOK

LEMMA GetBlockQuery ==
    ASSUME ServiceConfig, ServiceInv, QueryInv, V!Watch, V!get_block_by_hash PROVE QueryInv'
  <1> PICK st : st = IF V!get_block(query.hash) # None THEN "found" ELSE "missing"
    OBVIOUS
  <1>1. /\ query.method = "getTip" /\ query' = [query EXCEPT !.step = st]
        /\ process' = process /\ stores' = stores /\ clear' = clear /\ handling' = handling
    BY DEF V!get_block_by_hash, V!Becomes
  <1>2. TipShape(query) /\ TipOK(query, stores, handling) /\ query # V!idle
    BY <1>1, Methods DEF QueryInv, QueryOK
  <1>3. query' = [method |-> "getTip", step |-> st, hash |-> query.hash]
    BY <1>1, <1>2 DEF TipShape
  <1>4. TipShape(query') /\ query'.hash = query.hash /\ query'.step = st
    BY <1>3 DEF TipShape
  <1>5. process.phase \in {"running", "stopping"} /\ ChainOK(stores, handling)
    BY <1>2, AskedWhileServing
  <1> PICK c : c = stores.chain
    OBVIOUS
  <1>6. PICK n \in 0..Len(c) : query.hash = SubSeq(c, 1, n)
    BY <1>2 DEF TipOK, InChain
  <1>7. c \in Seq(BlockBody) /\ Len(c) \in Nat
    BY <1>5 DEF ChainOK
  <1>8. ASSUME st = "missing"
        PROVE  query.hash = <<>> \/ query.hash \in stores.stored \/ (handling.step = "added" /\ query.hash = handling.path)
    <2>1. CASE n = 0
      BY <1>6, <1>7, <2>1
    <2>2. CASE n \in 1..Len(c) /\ handling.step # "added"
      <3>1. Shelf(stores, Len(c))
        BY <1>5, <2>2 DEF ChainOK, StoredUpTo
      <3> QED BY <1>6, <2>2, <3>1 DEF Shelf
    <2>3. CASE n \in 1..Len(c) /\ handling.step = "added"
      <3>1. Shelf(stores, Len(c) - 1) /\ handling.path = c
        BY <1>5, <2>3 DEF ChainOK, StoredUpTo, AtStep
      <3>2. CASE n = Len(c)
        <4>1. SubSeq(c, 1, Len(c)) = c
          BY <1>7
        <4> QED BY <1>6, <2>3, <3>1, <3>2, <4>1
      <3>3. CASE n # Len(c)
        <4>1. n \in 1..(Len(c) - 1)
          BY <1>7, <2>3, <3>3
        <4> QED BY <1>6, <3>1, <4>1 DEF Shelf
      <3> QED BY <3>2, <3>3
    <2> QED BY <1>7, <2>1, <2>2, <2>3
  <1>9. TipOK(query', stores, handling)
    BY <1>2, <1>4, <1>8 DEF TipOK
  <1>10. lapse' \in BOOLEAN
    BY LapseTyped
  <1> QED BY <1>1, <1>4, <1>5, <1>9, <1>10 DEF QueryInv, QueryOK

LEMMA QueryStep == ASSUME ServiceConfig, ServiceInv, QueryInv, V!Next PROVE QueryInv'
  <1>0. V!Watch
    BY DEF V!Next
  <1>1. ASSUME V!Startup PROVE QueryInv'
    BY <1>0, <1>1, StartupQuery
  <1>2. ASSUME V!MainLoop PROVE QueryInv'
    BY <1>0, <1>2, OfferQuery, BlockReceivedQuery, CheckCommitmentQuery, AddBlockQuery, PutBlockQuery,
       RemoveConfirmedQuery, Zenon DEF V!MainLoop
  <1>3. ASSUME V!Rpc PROVE QueryInv'
    <2>1. ASSUME V!Reply PROVE QueryInv'
      BY <1>0, <2>1, QueryIdles DEF V!Reply, V!Becomes
    <2> QED BY <1>0, <1>3, <2>1, SendQuery, GetTxQuery, SearchPoolQuery, ReadAncestorsQuery, SearchBlockQuery,
               GetTipQuery, GetBlockQuery, Zenon DEF V!Rpc
  <1>4. ASSUME V!End PROVE QueryInv'
    BY <1>0, <1>4, EndQuery
  <1> QED BY <1>1, <1>2, <1>3, <1>4, Zenon DEF V!Next

LEMMA ServiceSpeaks == ASSUME ServiceConfig, ServiceInv, QueryInv PROVE V!ServesTrueState
  <1>0. V!no_block.step = "none"
    BY DEF V!no_block
  <1>1. V!NeverMissed
    <2> SUFFICES ASSUME query # V!idle, query.method = "getTx", query.step = "missing" PROVE lapse
      BY DEF V!NeverMissed
    <2>1. ~TipShape(query)
      BY Methods
    <2>2. lapse \/ InSight(query, stores, clear)
      BY <2>1 DEF QueryInv, QueryOK
    <2> QED BY <2>2 DEF InSight
  <1>2. V!ShowsTheChain
    <2> SUFFICES ASSUME process.phase \in {"running", "stopping"}
                 PROVE  /\ \/ stores.utxo = V!Ledger(stores.chain)
                           \/ handling.step = "applied" /\ stores.utxo = V!Ledger(handling.path)
                        /\ (query # V!idle /\ query.method = "getTip" /\ query.step = "missing") =>
                               (query.hash = V!ZERO \/ handling # V!no_block \/ query.hash \in stores.stored)
                        /\ \A h \in 0..Len(stores.chain) :
                               V!get_block_by_height(h) = SubSeq(stores.chain, 1, h)
                                 \/ (h = Len(stores.chain) /\ handling.step = "added")
      BY DEF V!ShowsTheChain, V!Serving
    <2> PICK c : c = stores.chain
      OBVIOUS
    <2>1. ChainOK(stores, handling)
      BY DEF ServiceInv, ServiceOK, BuiltPhases
    <2>2. stores.utxo = V!Ledger(stores.chain) \/ (handling.step = "applied" /\ stores.utxo = V!Ledger(handling.path))
      BY <2>1 DEF ChainOK, AtStep
    <2>3. ASSUME query # V!idle, query.method = "getTip", query.step = "missing"
          PROVE  query.hash = V!ZERO \/ handling # V!no_block \/ query.hash \in stores.stored
      <3>1. ~TxShape(query)
        BY <2>3, Methods
      <3>2. TipOK(query, stores, handling)
        BY <2>3, <3>1 DEF QueryInv, QueryOK
      <3> QED BY <1>0, <2>3, <3>2 DEF TipOK, V!ZERO
    <2>4. ASSUME NEW h \in 0..Len(c), ~(h = Len(c) /\ handling.step = "added")
          PROVE  V!get_block_by_height(h) = SubSeq(c, 1, h)
      <3> PICK n : n = StoredUpTo(stores, handling)
        OBVIOUS
      <3>1. Len(c) \in Nat /\ Shelf(stores, n)
        BY <2>1 DEF ChainOK
      <3>2. n \in Int /\ h \in 0..n
        BY <2>4, <3>1 DEF StoredUpTo
      <3>3. h < Len(stores.by_height)
        BY <3>1, <3>2 DEF Shelf
      <3> QED BY <3>1, <3>2, <3>3 DEF V!get_block_by_height, Shelf
    <2> QED BY <2>2, <2>3, <2>4
  <1>3. V!CleanStop
    <2> SUFFICES ASSUME process.phase \in {"stopping", "closing"}
                 PROVE  /\ handling = V!no_block
                        /\ stores.utxo = V!Ledger(stores.chain)
                        /\ stores.chain # <<>> => stores.chain \in stores.stored
      BY DEF V!CleanStop, V!ZERO
    <2>1. handling = V!no_block /\ ChainOK(stores, handling)
      BY DEF ServiceInv, ServiceOK, BuiltPhases
    <2>2. stores.utxo = V!Ledger(stores.chain)
      BY <1>0, <2>1 DEF ChainOK, AtStep
    <2>3. ASSUME stores.chain # <<>> PROVE stores.chain \in stores.stored
      <3> PICK c : c = stores.chain
        OBVIOUS
      <3>1. c \in Seq(BlockBody) /\ Shelf(stores, Len(c))
        BY <1>0, <2>1 DEF ChainOK, StoredUpTo
      <3>2. Len(c) \in 1..Len(c) /\ SubSeq(c, 1, Len(c)) = c
        BY <2>3, <3>1
      <3> QED BY <3>1, <3>2 DEF Shelf
    <2> QED BY <2>1, <2>2, <2>3
  <1>4. V!StartsSound
    <2> SUFFICES ASSUME process.phase \in BuiltPhases
                 PROVE  /\ V!validate_params(process.params)
                        /\ process.config.network = "devnet" /\ files.keys # None => files.keys = process.genesis_keys
                        /\ process.dialed # {} => process.network
      BY DEF V!StartsSound, BuiltPhases
    <2>1. SoundStart(process) /\ files.keys \in {None, V!devnet_genesis}
      BY DEF ServiceInv, ServiceOK, ProcessOK
    <2>2. process.config.network = "devnet" => process.genesis_keys = V!devnet_genesis
      BY <2>1 DEF SoundStart, V!genesis_keys_of
    <2> QED BY <2>1, <2>2 DEF SoundStart
  <1> QED BY <1>1, <1>2, <1>3, <1>4 DEF V!ServesTrueState

LEMMA ServiceQueryInit == ASSUME V!Init PROVE QueryInv
  BY DEF V!Init, QueryInv, QueryOK

\* What the node shows is true, under every interleaving of the main loop with the requests:
\* a search that finds nothing was for a transaction that was really gone at some moment of
\* it; coins, tip and heights are those of one chain or of that chain and the block in
\* handling; the server stops on a finished block; and it runs with parameters that make
\* sense (get_tx, handle_block, main).
THEOREM ServiceTruth == ASSUME ServiceConfig PROVE Spec => []ServesTrueState
  <1> DEFINE Inv == focus = "service" => ServiceInv /\ QueryInv
  <1>1. Init => Inv
    BY ServiceInit, ServiceQueryInit DEF Init
  <1>2. Inv /\ [Next]_vars => Inv'
    <2> SUFFICES ASSUME Inv, [Next]_vars, focus' = "service" PROVE ServiceInv' /\ QueryInv'
      OBVIOUS
    <2>1. CASE Next
      <3>1. focus = "service" /\ V!Next
        BY <2>1 DEF Next
      <3> QED BY <3>1, ServiceStep, QueryStep
    <2>2. CASE UNCHANGED vars
      <3>1. /\ focus' = focus /\ process' = process /\ files' = files /\ stores' = stores /\ clear' = clear
            /\ queue' = queue /\ handling' = handling /\ query' = query /\ lapse' = lapse
        BY <2>2 DEF vars
      <3> QED BY <3>1 DEF ServiceInv, QueryInv
    <2> QED BY <2>1, <2>2
  <1>3. Inv => ServesTrueState
    BY ServiceSpeaks DEF ServesTrueState
  <1> QED BY <1>1, <1>2, <1>3, PTL DEF Spec

===============================================================================
