----------------------------------- MODULE Amm -----------------------------------
(* The constant-product pools (qv-defi/src/amm.rs) and the order batcher   *)
(* (qv-mempool/src/batcher.rs, ordering.rs): their arithmetic, and a pool  *)
(* over its life, with swaps by formula, liquidity in and out, and the slot *)
(* leader's batches of orders that arrived in any sequence.  NoResult is a *)
(* failed computation.                                                     *)
EXTENDS Integers, Sequences, SequencesExt, FiniteSetsExt, TLC

CONSTANTS
    MaxU64,
    BPS,                    \* 10_000: denominator of fee_bps
    BATCH_FEE, BATCH_BASE   \* 3 and 1000: the batcher's own fee

NoResult == [none |-> TRUE]
IsNone(r) == "none" \in DOMAIN r

(* The canonical datum: two token identifiers, then four numbers.          *)
PoolDatum(ta, tb, ra, rb, lp, fee) ==
    [token_a |-> ta, token_b |-> tb, reserve_a |-> ra, reserve_b |-> rb,
     lp_total |-> lp, fee_bps |-> fee]
valid_fee(datum) == datum.fee_bps <= BPS

compute_swap_output(reserve_in, reserve_out, amount_in, fee_bps) ==
    LET fee == (amount_in * fee_bps) \div BPS
        net == amount_in - fee
        out == (reserve_out * net) \div (reserve_in + net)
    IN  IF reserve_in = 0 \/ reserve_out = 0 \/ amount_in = 0 \/ fee > amount_in
           \/ out > MaxU64
        THEN NoResult
        ELSE [out |-> out, fee |-> fee]

Reserves(datum, direction) ==
    IF direction = "AtoB" THEN <<datum.reserve_a, datum.reserve_b>>
    ELSE <<datum.reserve_b, datum.reserve_a>>
WithReserves(datum, direction, in, out) ==
    IF direction = "AtoB" THEN [datum EXCEPT !.reserve_a = in, !.reserve_b = out]
    ELSE [datum EXCEPT !.reserve_b = in, !.reserve_a = out]

(* apply_swap writes the input side, then the output side: the datum it    *)
(* leaves, and whether it reported success.                                *)
apply_swap_out_first(datum, direction, amount_in, amount_out) ==
    LET r == Reserves(datum, direction)
        d == WithReserves(datum, direction, r[1], r[2] - amount_out)
    IN  IF amount_out > r[2] THEN [ok |-> FALSE, datum |-> datum]
        ELSE IF r[1] + amount_in > MaxU64 THEN [ok |-> FALSE, datum |-> d]
        ELSE [ok |-> TRUE, datum |->
                WithReserves(d, direction, r[1] + amount_in, r[2] - amount_out)]
apply_swap(datum, direction, amount_in, amount_out) ==
    LET r == Reserves(datum, direction)
        d == WithReserves(datum, direction, r[1] + amount_in, r[2])
    IN  IF r[1] + amount_in > MaxU64 THEN [ok |-> FALSE, datum |-> datum]
        ELSE IF amount_out > r[2] THEN [ok |-> FALSE, datum |-> d]
        ELSE [ok |-> TRUE, datum |->
                WithReserves(d, direction, r[1] + amount_in, r[2] - amount_out)]

(* Newton's iteration from above.                                          *)
sqrt_u128(n) ==
    LET root[x \in 0..n] ==
            IF x = 0 THEN 0
            ELSE LET y == (x + n \div x) \div 2 IN IF y < x THEN root[y] ELSE x
    IN  root[n]

(* The caller supplies identifiers and fee; the result carries totals.     *)
compute_add_liquidity(ra, rb, lp_total, amount_a, amount_b) ==
    LET lp == IF lp_total = 0 THEN sqrt_u128(amount_a * amount_b)
              ELSE Min({(lp_total * amount_a) \div ra, (lp_total * amount_b) \div rb})
    IN  IF amount_a = 0 \/ amount_b = 0 \/ (lp_total # 0 /\ (ra = 0 \/ rb = 0))
        THEN NoResult
        ELSE IF \E n \in {lp, ra + amount_a, rb + amount_b, lp_total + lp} : n > MaxU64
        THEN NoResult
        ELSE [reserve_a |-> ra + amount_a, reserve_b |-> rb + amount_b,
              lp_total |-> lp_total + lp]

compute_remove_liquidity(ra, rb, lp_total, burned) ==
    IF lp_total = 0 \/ burned = 0 \/ burned > lp_total THEN NoResult
    ELSE [reserve_a |-> ra - (ra * burned) \div lp_total,
          reserve_b |-> rb - (rb * burned) \div lp_total,
          lp_total |-> lp_total - burned]

-----------------------------------------------------------------------------
(* ordering.rs: fee density descending, time ascending, then identifier.   *)

precedes_by_fee_and_time(k, l) ==
    \/ k.fee_density > l.fee_density
    \/ k.fee_density = l.fee_density /\ k.timestamp_ms < l.timestamp_ms
precedes(k, l) ==
    \/ k.fee_density > l.fee_density
    \/ /\ k.fee_density = l.fee_density
       /\ \/ k.timestamp_ms < l.timestamp_ms
          \/ k.timestamp_ms = l.timestamp_ms /\ k.order_tx_id < l.order_tx_id
deterministic_sort(orders) == SortSeq(orders, precedes)
verify_order(orders) == \A i \in 1..Len(orders) - 1 : precedes(orders[i], orders[i + 1])

(* batcher.rs: its own swap formula with a fixed fee, in 64 bits.          *)
batch_swap_output(reserve_in, reserve_out, dx) ==
    LET fee == (dx * BATCH_FEE) \div BATCH_BASE
        net == dx - fee
    IN  IF reserve_in = 0 \/ reserve_out = 0 \/ dx = 0 \/ dx * BATCH_FEE > MaxU64
        THEN NoResult
        ELSE [out |-> (reserve_out * net) \div (reserve_in + net), fee |-> fee]

(* One order against the running reserves; what cannot be filled is        *)
(* skipped, and the reserves saturate.                                     *)
fill(acc, order) ==
    LET r == IF order.direction = "AtoB" THEN <<acc.a, acc.b>> ELSE <<acc.b, acc.a>>
        s == batch_swap_output(r[1], r[2], order.offer_amount)
        in  == Min({MaxU64, r[1] + order.offer_amount})
        out == Max({0, r[2] - s.out})
    IN  IF order.pool_id # acc.pool_id \/ IsNone(s) THEN acc
        ELSE IF s.out < order.min_receive THEN acc
        ELSE [acc EXCEPT !.a = IF order.direction = "AtoB" THEN in ELSE out,
                         !.b = IF order.direction = "AtoB" THEN out ELSE in,
                         !.fees = Min({MaxU64, @ + s.fee}),
                         !.matched = Append(@, order.order_tx_id)]

build_amm_batch(pool_id, ra, rb, orders) ==
    LET sorted == deterministic_sort(orders)
        run[i \in 0..Len(sorted)] ==
            IF i = 0 THEN [pool_id |-> pool_id, a |-> ra, b |-> rb, fees |-> 0,
                           matched |-> <<>>]
            ELSE fill(run[i - 1], sorted[i])
    IN  run[Len(sorted)]

(* SlashingEvidence::is_valid *)
slashable(canonical, actual) ==
    /\ canonical # actual /\ canonical # <<>> /\ Len(canonical) = Len(actual)

-----------------------------------------------------------------------------
(* A pool over its life.                                                   *)
CONSTANTS Amounts, FeeChoices, Orders, MaxBatch

VARIABLES
    pool,   \* PoolDatum
    queue   \* orders collected by the slot leader, in order of arrival

vars == <<pool, queue>>
ThisPool == 1

Init ==
    /\ \E fee \in FeeChoices, a, b \in Amounts :
        LET s == compute_add_liquidity(0, 0, 0, a, b)
        IN  ~IsNone(s) /\ pool = PoolDatum(1, 2, s.reserve_a, s.reserve_b, s.lp_total, fee)
    /\ valid_fee(pool)
    /\ queue = <<>>

Swap(direction, amount_in) ==
    /\ LET r == Reserves(pool, direction)
           s == compute_swap_output(r[1], r[2], amount_in, pool.fee_bps)
       IN  ~IsNone(s) /\ pool' = apply_swap(pool, direction, amount_in, s.out).datum
    /\ UNCHANGED queue

Liquidity(result) ==
    /\ ~IsNone(result)
    /\ pool' = [pool EXCEPT !.reserve_a = result.reserve_a,
                            !.reserve_b = result.reserve_b, !.lp_total = result.lp_total]
    /\ UNCHANGED queue

AddLiquidity(a, b) == Liquidity(compute_add_liquidity(
                 pool.reserve_a, pool.reserve_b, pool.lp_total, a, b))
RemoveLiquidity(burned) == Liquidity(compute_remove_liquidity(
                      pool.reserve_a, pool.reserve_b, pool.lp_total, burned))

Collect(order) ==
    /\ Len(queue) < MaxBatch /\ order \notin ToSet(queue)
    /\ queue' = Append(queue, order)
    /\ UNCHANGED pool

Execute ==
    /\ queue # <<>>
    /\ LET r == build_amm_batch(ThisPool, pool.reserve_a, pool.reserve_b, queue)
       IN  pool' = [pool EXCEPT !.reserve_a = r.a, !.reserve_b = r.b]
    /\ queue' = <<>>

Next ==
    \/ \E d \in {"AtoB", "BtoA"}, n \in Amounts : Swap(d, n)
    \/ \E a, b \in Amounts : AddLiquidity(a, b)
    \/ \E n \in Amounts : RemoveLiquidity(n)
    \/ \E o \in Orders : Collect(o)
    \/ Execute

Spec == Init /\ [][Next]_vars

-----------------------------------------------------------------------------

Product(p) == p.reserve_a * p.reserve_b

(* A batch whose offers may lift a reserve past u64: fill saturates it.     *)
MaySaturate ==
    /\ queue # <<>> /\ queue' = <<>>
    /\ Max({pool.reserve_a, pool.reserve_b})
        + FoldSeq(LAMBDA o, n : n + o.offer_amount, 0, queue) > MaxU64

(* What one liquidity token stands for never shrinks: no swap, no batch and *)
(* no join or exit of others takes value from those who stay, roundings and *)
(* failed updates included (reserves over lp_total, compared as squares).   *)
(* Only a batch at the top of u64 is the exception.                        *)
KeepsShareValue ==
    pool.lp_total # 0 /\ pool'.lp_total # 0 /\ ~MaySaturate =>
        Product(pool') * pool.lp_total * pool.lp_total
            >= Product(pool) * pool'.lp_total * pool'.lp_total

(* Every validator computes the leader's batch, whatever the sequence in   *)
(* which the orders reached it, and an order of the leader that is not the *)
(* canonical one is evidence against it.                                   *)
BatchCanonical ==
    LET result(s) == build_amm_batch(ThisPool, pool.reserve_a, pool.reserve_b, s)
        ids(s) == [i \in DOMAIN s |-> s[i].order_tx_id]
        canonical == deterministic_sort(queue)
    IN  /\ verify_order(canonical)
        /\ \A s \in {[i \in DOMAIN queue |-> queue[p[i]]] :
                        p \in Permutations(DOMAIN queue)} :
            /\ result(s) = result(queue)
            /\ slashable(ids(canonical), ids(s)) <=> ~verify_order(s)

================================================================================
