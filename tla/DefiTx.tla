--------------------------------- MODULE DefiTx ---------------------------------
(* Pool transactions (qv-defi/src/tx_helpers.rs) and their validation by the *)
(* script machine: what the builders make, and what else may be submitted,   *)
(* runs witness first and locking script second (script.rs).                 *)
EXTENDS Script, TLC

CONSTANTS
    Keys,               \* signing keys; the oracle holds one of them
    Oracle,
    AmmDatums,          \* pool states found on chain
    LendingDatums,
    Numbers,            \* reserves, collateral and debt of a submitted successor
    Moves,              \* amounts a builder is asked for
    Prices, PriceSlots, \* what the oracle may have signed
    Slots,              \* slot of validation
    max_price_age_slots,
    pool_value, user_value, tx_fee

A == INSTANCE Amm WITH MaxU64 <- W - 1, BATCH_FEE <- 0, BATCH_BASE <- 1, pool <- job, queue <- <<>>,
        Amounts <- {}, FeeChoices <- {}, Orders <- {}, MaxBatch <- 0
NoResult == A!NoResult
IsNone(t) == A!IsNone(t)

(* Scripts, outputs and transactions.  A resolved input is the output it    *)
(* spends; the witness of input 0 is kept beside the transaction.           *)
Lock(template, args, code) == [bytes |-> ScriptBytes(template, args), code |-> code]
TxOutput(value, lock, datum) == [value |-> value, script |-> lock.bytes, datum |-> datum]
Transaction(inputs, outputs, fee) == [inputs |-> inputs, outputs |-> outputs, fee |-> fee]

KeyBytes(k) == Id(k)
pubkey_hash(k) == sha3_256(KeyBytes(k))
KeyLock(k) == Lock("p2pkh", <<k>>, p2pkh_pqc(pubkey_hash(k)))
SharedSecret(k) == Id(<<"shared", k>>)
StealthLock(k) == Lock("stealth", <<k>>,
                       stealth_p2pkh(onetime_pk_hash(SharedSecret(k), KeyBytes(k))))
User == CHOOSE k \in Keys : k # Oracle

sighash(tx) == <<<<1, <<"sighash", <<tx>>>>>>>>
sign(k, msg) == SignatureOf(KeyBytes(k), msg)

(* Context::new and with_locking_script, for the script of input 0.         *)
Context(tx, slot, lock) ==
    [inputs |-> tx.inputs, outputs |-> tx.outputs, fee |-> tx.fee, slot |-> slot,
     sighash |-> sighash(tx), tx_hash |-> <<<<1, <<"hash", <<tx>>>>>>>>,
     locking_script_hash |-> sha3_256(lock.bytes)]

(* script.rs: a spend as the machine runs it; about is what the properties  *)
(* are told of it.                                                          *)
validate_script(lock, witness, tx, slot, about) ==
    [script |-> witness \o lock.code, ctx |-> Context(tx, slot, lock), about |-> about]

-----------------------------------------------------------------------------
(* amm.rs: the canonical datum; a pool is found under the lock it names.    *)
to_canonical_bytes(d) ==
    d.token_a \o d.token_b \o <<Word(d.reserve_a), Word(d.reserve_b), Word(d.lp_total),
                                Word(d.fee_bps)>>
AmmLock(d) == Lock("amm_pool_lock", <<d.token_a, d.token_b, d.fee_bps>>,
                   amm_pool_lock(d.token_a, d.token_b, d.fee_bps))
AmmOutput(d) == TxOutput(pool_value, AmmLock(d), to_canonical_bytes(d))
UserOutput(value) == TxOutput(value, KeyLock(User), <<>>)

build_swap_tx(d, direction, amount_in, min_receive) ==
    LET r == A!Reserves(d, direction)
        s == A!compute_swap_output(r[1], r[2], amount_in, d.fee_bps)
        applied == A!apply_swap(d, direction, amount_in, s.out)
    IN  IF ~A!valid_fee(d) \/ IsNone(s) THEN NoResult
        ELSE IF s.out < min_receive \/ user_value < tx_fee \/ ~applied.ok THEN NoResult
        ELSE Transaction(<<AmmOutput(d), UserOutput(user_value)>>,
                 <<AmmOutput(applied.datum), UserOutput(user_value - tx_fee)>>, tx_fee)

(* The pool of a creation is spent by the first swap after it.              *)
build_create_pool_tx(token_a, token_b, reserve_a, reserve_b, fee) ==
    LET seeded == A!compute_add_liquidity(0, 0, 0, reserve_a, reserve_b)
        d == A!PoolDatum(token_a, token_b, seeded.reserve_a, seeded.reserve_b,
                         seeded.lp_total, fee)
    IN  IF IsNone(seeded) THEN NoResult
        ELSE IF ~A!valid_fee(d) \/ user_value < pool_value + tx_fee THEN NoResult
        ELSE [datum |-> d, tx |-> Transaction(<<UserOutput(user_value)>>,
                 <<AmmOutput(d), UserOutput(user_value - pool_value - tx_fee)>>, tx_fee)]

-----------------------------------------------------------------------------
(* Lending pools: [ids, collateral, debt, params, interest].                *)
LendingBytes(d) ==
    d.ids \o <<Word(d.collateral), Word(d.debt)>> \o d.params \o d.interest
lending_pool_script(d) ==
    Lock("lending_pool_lock", <<d.ids, d.params>>,
         lending_pool_lock(<<d.ids[1]>>, <<d.ids[2]>>, <<d.ids[3]>>, d.params,
                           pubkey_hash(Oracle), max_price_age_slots))
LendingOutput(value, d) == TxOutput(value, lending_pool_script(d), LendingBytes(d))

oracle_price_message(pool_id, price, slot) ==
    LENDING_ORACLE_DOMAIN_TAG \o pool_id \o <<Word(price), Word(slot)>>
sign_oracle_price(k, pool_id, price, slot) ==
    [pool_id |-> pool_id, price_scaled |-> price, slot |-> slot, oracle_pubkey |-> k,
     signature |-> sign(k, oracle_price_message(pool_id, price, slot))]
lending_path0_witness == <<PushInt(0)>>
lending_path1_witness(p) ==
    <<PushBytes(p.signature), PushBytes(KeyBytes(p.oracle_pubkey)),
      PushBytes(<<Word(p.price_scaled)>>), PushBytes(<<Word(p.slot)>>), PushInt(1)>>

check_lending_collateral(d, price) ==
    ltv_valid(d.params[3][1])
    /\ d.debt * lending_ltv_factor(d.params[3][1]) <= d.collateral * price
assemble_lending_tx(old, new) ==
    IF user_value < tx_fee \/ (\E i \in 1..4 : new.params[i][1] > BPS) THEN NoResult
    ELSE Transaction(<<LendingOutput(pool_value, old), UserOutput(user_value)>>,
             <<LendingOutput(pool_value, new), UserOutput(user_value - tx_fee)>>, tx_fee)

build_lending_deposit_tx(d, amount) ==
    IF amount = 0 \/ d.collateral + amount >= W THEN NoResult
    ELSE assemble_lending_tx(d, [d EXCEPT !.collateral = @ + amount])
build_lending_repay_tx(d, amount) ==
    IF amount = 0 \/ d.debt = 0 THEN NoResult
    ELSE assemble_lending_tx(d, [d EXCEPT !.debt = @ - Min({amount, @})])
build_lending_borrow_tx(d, amount, p) ==
    LET new == [d EXCEPT !.debt = @ + amount]
    IN  IF amount = 0 \/ p.pool_id # <<d.ids[1]>> \/ new.debt >= W
           \/ ~check_lending_collateral(new, p.price_scaled)
        THEN NoResult ELSE assemble_lending_tx(d, new)
build_lending_withdraw_tx(d, amount, p) ==
    LET new == [d EXCEPT !.collateral = @ - amount]
    IN  IF amount = 0 \/ p.pool_id # <<d.ids[1]>> \/ amount > d.collateral
           \/ ~check_lending_collateral(new, p.price_scaled)
        THEN NoResult ELSE assemble_lending_tx(d, new)

-----------------------------------------------------------------------------
(* Spends submitted for validation.                                         *)

About(kind, allowed, sound) == [kind |-> kind, allowed |-> allowed, sound |-> sound]

(* A key or stealth output, signed by some key over this or another         *)
(* transaction.                                                             *)
KeySpends ==
    {LET tx == Transaction(<<TxOutput(3, lock, <<>>)>>, <<UserOutput(2)>>, 1)
         other == [tx EXCEPT !.fee = 2]
         secret == IF lock = StealthLock(owner) THEN <<PushBytes(SharedSecret(k))>> ELSE <<>>
     IN  validate_script(lock, <<PushBytes(sign(k, sighash(IF own THEN tx ELSE other))),
                                 PushBytes(KeyBytes(k))>> \o secret, tx, 0,
                         About("key", k = owner /\ own, k = owner /\ own)) :
        lock \in {KeyLock(User), StealthLock(User)}, owner \in {User}, k \in Keys,
        own \in BOOLEAN}

(* The machine counts each signature with a key of its own.                 *)
MultisigSpends ==
    {LET tx == Transaction(<<UserOutput(3)>>, <<UserOutput(2)>>, 1)
         msg == sighash(tx)
         lock == Lock("bare", <<>>, <<Op("CheckMultiSigPqc")>>)
         ok == Cardinality({signers[1], signers[2]}) = 2
     IN  validate_script(lock, <<PushBytes(msg), PushBytes(sign(signers[1], msg)),
                PushBytes(sign(signers[2], msg)), PushInt(2), PushBytes(KeyBytes(User)),
                PushBytes(KeyBytes(Oracle)), PushInt(2)>>, tx, 0, About("multisig", ok, ok)) :
        signers \in Keys \X Keys}

(* The witness that multisig_pqc documents for m of n keys, every signature *)
(* made by one of the keys: <msg> <sig1> .. <sigM> <M> <pk1> .. <pkN> <N>.  *)
TemplateMultisigSpends ==
    {LET tx == Transaction(<<UserOutput(3)>>, <<UserOutput(2)>>, 1)
         msg == sighash(tx)
         key == <<User, Oracle>>
     IN  validate_script(Lock("multisig", <<q[1], q[2]>>, multisig_pqc(q[1], q[2])),
             <<PushBytes(msg)>> \o [i \in 1..q[1] |-> PushBytes(sign(key[i], msg))] \o <<PushInt(q[1])>>
               \o [i \in 1..q[2] |-> PushBytes(KeyBytes(key[i]))] \o <<PushInt(q[2])>>,
             tx, 0, About("documented", TRUE, TRUE)) :
        q \in {<<1, 1>>, <<1, 2>>, <<2, 2>>}}

(* The covenants of the first fixtures: a successor under the pool's script *)
(* with the amount repaid, or with a datum that holds both reserves.        *)
SkeletonSpends ==
    {LET tx == Transaction(<<UserOutput(3)>>, <<TxOutput(value, IF same THEN KeyLock(User) ELSE KeyLock(Oracle), <<>>)>>, 0)
         ok == same /\ value >= 2
     IN  validate_script(Lock("lending_repay", <<>>, lending_repay(sha3_256(KeyLock(User).bytes), 0, 2)),
             <<>>, tx, 0, About("skeleton", ok, ok)) :
        value \in {1, 2, 3}, same \in BOOLEAN}
    \cup {LET tx == Transaction(<<UserOutput(3)>>, <<TxOutput(2, IF same THEN KeyLock(User) ELSE KeyLock(Oracle), datum)>>, 0)
              ok == same /\ Len(datum) >= 2
          IN  validate_script(Lock("amm_swap", <<>>, amm_swap(sha3_256(KeyLock(User).bytes), 0)),
                  <<PushBytes(<<Word(3), Word(7), Word(0)>>)>>, tx, 0, About("skeleton", ok, ok)) :
             datum \in {<<>>, <<Word(3)>>, <<Word(1), Word(1)>>, <<Word(3), Word(8), Word(0)>>},
             same \in BOOLEAN}

(* A conditional inside a conditional: its branches are taken or skipped    *)
(* together with the enclosing one.                                         *)
NestedSpends ==
    {LET tx == Transaction(<<UserOutput(3)>>, <<UserOutput(2)>>, 1)
         lock == Lock("nested", <<>>, Ops(<<"If", "If", "Op1", "Else", "Op0", "EndIf",
                                            "Else", "Drop", "Op1", "EndIf">>))
         ok == outer = 0 \/ inner = 1
     IN  validate_script(lock, <<PushInt(inner), PushInt(outer)>>, tx, 0,
                         About("nested", ok, ok)) :
        inner \in {0, 1}, outer \in {0, 1}}

(* Pool transitions anyone may submit, and those of the builders.           *)
SwapOf(d, tx, slot, kind, ok) ==
    validate_script(AmmLock(d), <<>>, tx, slot, About(kind, ok, ok))
AmmSpends ==
    {LET new == [d EXCEPT !.reserve_a = a, !.reserve_b = b, !.fee_bps = fee, !.lp_total = 0]
         tx == Transaction(<<AmmOutput(d), UserOutput(user_value)>>, <<TxOutput(pool_value,
                   IF same THEN AmmLock(d) ELSE KeyLock(User), to_canonical_bytes(new))>>, 0)
         ok == a * b >= d.reserve_a * d.reserve_b /\ fee = d.fee_bps /\ same
     IN  SwapOf(d, tx, 0, "amm", ok) :
        d \in AmmDatums, a \in Numbers, b \in Numbers, fee \in {0, 3}, same \in BOOLEAN}
BuiltSwaps ==
    {SwapOf(q[1], q[2], 0, "built", TRUE) :
        q \in {r \in {<<d, build_swap_tx(d, direction, amount, 0)>> : d \in AmmDatums,
                          direction \in {"AtoB", "BtoA"}, amount \in Moves}
                \cup UNION {{<<c.datum, build_swap_tx(c.datum, "AtoB", amount, 1)>> :
                                amount \in Moves} :
                        c \in {t \in {build_create_pool_tx(d.token_a, d.token_b, d.reserve_a,
                                        d.reserve_b, d.fee_bps) : d \in AmmDatums} : ~IsNone(t)}}
              : ~IsNone(r[2])}}

Signed == {sign_oracle_price(k, <<d.ids[1]>>, price, s) :
              k \in Keys, d \in LendingDatums, price \in Prices, s \in PriceSlots}
fresh(p, slot) == p.slot <= slot /\ slot - p.slot <= max_price_age_slots
genuine(p, d) == p.oracle_pubkey = Oracle /\ p.pool_id = <<d.ids[1]>>

(* The exact ratio, without the rounding of the factor.                     *)
Solvent(d, price) ==
    d.debt * BPS * LENDING_PRICE_SCALE <= d.params[3][1] * d.collateral * price

LendingSpend(d, tx, witness, slot, kind, ok, sound) ==
    validate_script(lending_pool_script(d), witness, tx, slot, About(kind, ok, sound))
LendingMoves(d) ==
    {[d EXCEPT !.collateral = c, !.debt = b] : c \in Numbers, b \in Numbers}
    \cup {[d EXCEPT !.params[1] = Word(2)], [d EXCEPT !.interest[3] = Word(1)]}
Terms(d) == <<d.ids, d.params, d.interest>>
Successor(d, new, value) ==
    Transaction(<<LendingOutput(pool_value, d), UserOutput(user_value)>>,
        <<TxOutput(value, lending_pool_script(d), LendingBytes(new))>>, tx_fee)
LendingSpends ==
    UNION {{LET ok == /\ Terms(new) = Terms(d) /\ value >= pool_value
                      /\ new.collateral >= d.collateral /\ new.debt <= d.debt
            IN  LendingSpend(d, Successor(d, new, value), lending_path0_witness, 0, "lending",
                             ok, ok) :
               new \in LendingMoves(d), value \in {pool_value - 1, pool_value}}
           : d \in LendingDatums}
    \cup UNION {{LET pinned == Terms(new) = Terms(d) /\ fresh(p, slot) /\ genuine(p, d)
                 IN  LendingSpend(d, Successor(d, new, pool_value), lending_path1_witness(p),
                        slot, "lending", pinned /\ check_lending_collateral(new, p.price_scaled),
                        pinned /\ Solvent(new, p.price_scaled)) :
                    new \in LendingMoves(d), p \in Signed, slot \in Slots}
                : d \in LendingDatums}
BuiltLending ==
    UNION {{LendingSpend(d, tx, lending_path0_witness, 0, "built", TRUE, TRUE) :
               tx \in {t \in UNION {{build_lending_deposit_tx(d, m), build_lending_repay_tx(d, m)}
                                     : m \in Moves} : ~IsNone(t)}}
           : d \in LendingDatums}
    \cup UNION {UNION {{LendingSpend(d, tx, lending_path1_witness(p), slot, "built",
                            fresh(p, slot) /\ genuine(p, d), TRUE) :
                    tx \in {t \in UNION {{build_lending_borrow_tx(d, m, p),
                                          build_lending_withdraw_tx(d, m, p)} : m \in Moves}
                            : ~IsNone(t)}, slot \in Slots}
                : p \in Signed} : d \in LendingDatums}

Init == \E j \in KeySpends \cup MultisigSpends \cup TemplateMultisigSpends
                 \cup SkeletonSpends \cup NestedSpends \cup AmmSpends \cup BuiltSwaps
                 \cup LendingSpends \cup BuiltLending : start(j)
Next == Step \/ Finish

-----------------------------------------------------------------------------
(* The machine accepts exactly the spends each template describes, and      *)
(* never one that leaves a pool below its product or its exact loan-to-     *)
(* value.  The exception is multisig_pqc, whose script refuses the very     *)
(* witness its doc asks for (validate_script, CheckMultiSigPqc).            *)
VerdictExact ==
    status # "run" =>
        /\ status = "accept" <=> job.about.allowed /\ job.about.kind # "documented"
        /\ status = "accept" => job.about.sound

================================================================================
