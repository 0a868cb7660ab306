---------------------------------- MODULE Lending ----------------------------------
(* A lending pool and the positions opened against it (qv-defi/src/lending.rs). *)
EXTENDS Integers, Functions, FiniteSetsExt

CONSTANTS
    Owners, Amounts,
    OpenPositions,          \* positions that may be on chain when the pool is read
    Terms,                  \* choices of the rate, ratio and multiplier fields of a datum
    U16, BPS, Q64,          \* 2^16, 10_000 and 1 << 64, which is 1.0 in fixed point
    slots_per_year,
    MaxSlot                 \* bound on the clock

VARIABLES
    pool,       \* LendingPoolDatum
    positions,  \* owner -> LendingPosition
    slot        \* the current slot

vars == <<pool, positions, slot>>

Failed == -1    \* Err of an amount
MaxU64 == Q64 - 1
MaxU128 == Q64 * Q64 - 1
Collateral == [o \in Owners |-> positions[o].collateral_shares]
Debts == [o \in Owners |-> positions[o].debt]

valid_params(t) ==
    /\ t.ltv_max_bps <= BPS /\ t.liquidation_threshold_bps <= BPS
    /\ t.base_rate_bps <= BPS /\ t.slope_bps <= BPS

(* A pool read from its canonical datum, in step with its positions.          *)
Init ==
    /\ positions \in [Owners -> OpenPositions]
    /\ \E t \in Terms :
        /\ valid_params(t)
        /\ pool = [total_collateral |-> SumFunction(Collateral), total_debt |-> SumFunction(Debts),
                   interest_multiplier_q64 |-> t.interest_multiplier_q64, last_accrual_slot |-> 0,
                   base_rate_bps |-> t.base_rate_bps, slope_bps |-> t.slope_bps,
                   ltv_max_bps |-> t.ltv_max_bps,
                   liquidation_threshold_bps |-> t.liquidation_threshold_bps,
                   liquidation_bonus_bps |-> t.liquidation_bonus_bps]
    /\ slot = 0

-----------------------------------------------------------------------------
(* Computations.                                                             *)

compute_max_borrow(collateral, ltv) == (collateral * ltv) \div BPS

\* Without collateral the ratio is u128::MAX, cut to 16 bits like any other.
is_collateralized(value, debt, ltv) ==
    LET debt_ratio == IF value = 0 THEN MaxU128 ELSE (debt * BPS) \div value
    IN  debt = 0 \/ debt_ratio % U16 <= ltv

\* Overflow from a collateral of about 2^51 on.
health_factor(value, debt, threshold) ==
    LET numerator == value * threshold * Q64
    IN  IF debt = 0 THEN MaxU128
        ELSE IF numerator > MaxU128 THEN Failed
        ELSE (numerator \div BPS) \div debt

compute_utilization_bps(p) ==
    IF p.total_collateral = 0 THEN 0
    ELSE Min({((p.total_debt * BPS) \div p.total_collateral) % U16, BPS})

compute_borrow_rate_bps(util, base, slope) == base + (util * slope) \div BPS

\* The multiplier after simple interest up to slot s.  With a multiplier of 1.0 or more this
\* is InterestAccrualOverflow: both factors of the product are at least 2^64.
accrue_interest(p, s) ==
    LET rate == compute_borrow_rate_bps(compute_utilization_bps(p), p.base_rate_bps, p.slope_bps)
        per_slot == ((rate * Q64) \div BPS) \div slots_per_year
        factor == Q64 + per_slot * (s - p.last_accrual_slot)
    IN  IF factor > MaxU128 \/ p.interest_multiplier_q64 * factor > MaxU128 THEN Failed
        ELSE (p.interest_multiplier_q64 * factor) \div Q64

compute_deposit(amount, collateral, supply) ==
    IF amount = 0 THEN Failed
    ELSE IF collateral = 0 THEN amount
    ELSE LET n == (supply * amount) \div collateral
         IN  IF n > MaxU64 THEN Failed ELSE n

compute_liquidation_bonus(amount, bonus) ==
    LET b == (amount * bonus) \div BPS IN IF b > MaxU64 THEN Failed ELSE b

-----------------------------------------------------------------------------
(* Operations.  An error after a write leaves that write behind.             *)

(* deposit takes the pool alone; its caller credits the minted shares.       *)
Deposit(o, amount) ==
    LET shares == compute_deposit(amount, pool.total_collateral, SumFunction(Collateral))
    IN  /\ amount # 0 /\ shares # Failed
        /\ pool.total_collateral + amount <= MaxU64
        /\ pool' = [pool EXCEPT !.total_collateral = @ + amount]
        /\ positions' = [positions EXCEPT ![o].collateral_shares = @ + shares]
        /\ UNCHANGED slot

Borrow_pool_first(o, amount) ==
    LET new_debt == positions[o].debt + amount
        max_borrow == compute_max_borrow(positions[o].collateral_shares, pool.ltv_max_bps)
    IN  /\ amount # 0 /\ new_debt <= MaxU64 /\ pool.total_debt + amount <= MaxU64
        /\ pool' = [pool EXCEPT !.total_debt = @ + amount]
        /\ positions' = IF new_debt > max_borrow THEN positions
                        ELSE [positions EXCEPT ![o].debt = new_debt]
        /\ UNCHANGED slot
Borrow(o, amount) ==
    LET new_debt == positions[o].debt + amount
        max_borrow == compute_max_borrow(positions[o].collateral_shares, pool.ltv_max_bps)
    IN  /\ amount # 0 /\ new_debt <= MaxU64 /\ new_debt <= max_borrow
        /\ pool.total_debt + amount <= MaxU64
        /\ pool' = [pool EXCEPT !.total_debt = @ + amount]
        /\ positions' = [positions EXCEPT ![o].debt = new_debt]
        /\ UNCHANGED slot

Repay(o, amount) ==
    LET repaid == Min({amount, positions[o].debt})
    IN  /\ positions[o].debt # 0
        /\ positions' = [positions EXCEPT ![o].debt = @ - repaid]
        /\ pool' = [pool EXCEPT !.total_debt = IF repaid <= @ THEN @ - repaid ELSE @]
        /\ UNCHANGED slot

(* What a withdrawal must still cover.                                       *)
remaining_before(shares, amount) == shares
remaining(shares, amount) == shares - amount

Withdraw(o, amount) ==
    LET p == positions[o]
    IN  /\ amount # 0 /\ amount <= p.collateral_shares
        /\ p.debt <= compute_max_borrow(remaining(p.collateral_shares, amount),
                                        pool.ltv_max_bps)
        /\ amount <= pool.total_collateral
        /\ pool' = [pool EXCEPT !.total_collateral = @ - amount]
        /\ positions' = [positions EXCEPT ![o].collateral_shares = @ - amount]
        /\ UNCHANGED slot

liquidatable(p) == p.debt > compute_max_borrow(p.collateral_shares, pool.ltv_max_bps)

Liquidate(o, amount) ==
    LET p == positions[o]
        repaid == Min({amount, p.debt})
        bonus == compute_liquidation_bonus(repaid, pool.liquidation_bonus_bps)
        seized == repaid + bonus
    IN  /\ p.debt # 0 /\ liquidatable(p)
        /\ bonus # Failed /\ seized <= MaxU64 /\ seized <= p.collateral_shares
        /\ positions' = [positions EXCEPT ![o] =
                            [collateral_shares |-> p.collateral_shares - seized, debt |-> p.debt - repaid]]
        /\ pool' = IF seized > pool.total_collateral THEN pool
                   ELSE [pool EXCEPT !.total_collateral = @ - seized,
                             !.total_debt = IF repaid <= @ THEN @ - repaid ELSE @]
        /\ UNCHANGED slot

AccrueInterest ==
    /\ slot # pool.last_accrual_slot
    /\ accrue_interest(pool, slot) # Failed
    /\ pool' = [pool EXCEPT !.interest_multiplier_q64 = accrue_interest(pool, slot),
                            !.last_accrual_slot = slot]
    /\ UNCHANGED <<positions, slot>>

Tick == slot < MaxSlot /\ slot' = slot + 1 /\ UNCHANGED <<pool, positions>>

Next ==
    \/ \E o \in Owners, n \in Amounts :
        Deposit(o, n) \/ Borrow(o, n) \/ Repay(o, n) \/ Withdraw(o, n) \/ Liquidate(o, n)
    \/ AccrueInterest
    \/ Tick

Spec == Init /\ [][Next]_vars

-----------------------------------------------------------------------------

(* The pool's totals are the sums over its positions, after any sequence of   *)
(* operations, the ones that failed half way included (deposit .. liquidate). *)
BooksBalance ==
    pool.total_collateral = SumFunction(Collateral) /\ pool.total_debt = SumFunction(Debts)

(* No operation makes a covered position liquidatable, its owner's and those  *)
(* of others alike, and as long as it is covered is_collateralized accepts    *)
(* it.  In a pool whose liquidation threshold lies above its loan-to-value    *)
(* limit (LendingPoolDatum::new; validate does not ask for it) it is healthy  *)
(* by the doc of health_factor, above 1.0, unless that function overflows.    *)
KeepsCovered ==
    \A o \in Owners :
        ~liquidatable(positions[o]) =>
            LET p == positions'[o]
                health == health_factor(p.collateral_shares, p.debt, pool.liquidation_threshold_bps)
            IN  /\ ~liquidatable(p)
                /\ is_collateralized(p.collateral_shares, p.debt, pool.ltv_max_bps)
                /\ pool.ltv_max_bps < pool.liquidation_threshold_bps => health = Failed \/ health > Q64

================================================================================
