---------------------------------- MODULE Oracle ----------------------------------
(* The window of price observations and its aggregates (qv-defi/src/oracle.rs).    *)
EXTENDS Integers, Sequences, SequencesExt, FiniteSetsExt, TLC

CONSTANTS
    Prices, max_size, max_deviation_bps,
    U16, MaxU128, BPS,     \* 2^16, 2^128 - 1 and 10_000
    MaxSlot                \* bound on the slots of observations

VARIABLE
    observations   \* OracleWindow: oldest first

vars == <<observations>>

Failed == -1
Total(f) == FoldFunction(LAMBDA x, n : x + n, 0, f)

(* The distance of two prices, 16 bits of it; a product that overflows gives  *)
(* the fallback of the caller.                                                *)
deviation_bps(p, q, fallback) ==
    LET lo == Min({p, q}) hi == Max({p, q})
    IN  (IF (hi - lo) * BPS > MaxU128 THEN fallback ELSE ((hi - lo) * BPS) \div lo) % U16

(* The guard between two consecutive prices.  A price of zero passes.         *)
detect_manipulation(prev, current) ==
    prev # 0 /\ current # 0 /\ deviation_bps(prev, current, BPS + 1) > max_deviation_bps

aggregate_median(prices) ==
    LET sorted == SortSeq(prices, <)
        median == sorted[Len(sorted) \div 2 + 1]
        deviates(p) == p # 0 /\ median # 0 /\ deviation_bps(p, median, BPS) > max_deviation_bps
    IN  IF Len(prices) < 3 \/ \E i \in DOMAIN prices : deviates(prices[i])
        THEN Failed ELSE median

(* Time-weighted: each price counts for the slots up to the next observation. *)
twap(obs, price) ==
    LET dt(i) == obs[i + 1].slot - obs[i].slot
        spans == 1..Len(obs) - 1
        sum_price_time == Total([i \in spans |-> price[i] * dt(i)])
        sum_time == Total([i \in spans |-> dt(i)])
    IN  IF Len(obs) = 1 THEN obs[1].price_q64
        ELSE IF \/ obs = <<>> \/ \E i \in spans : dt(i) < 0
                \/ sum_price_time > MaxU128 \/ sum_time = 0
        THEN Failed
        ELSE sum_price_time \div sum_time
compute_twap_trailing(obs) == twap(obs, [i \in 1..Len(obs) - 1 |-> obs[i + 1].price_q64])
compute_twap(obs) == twap(obs, [i \in DOMAIN obs |-> obs[i].price_q64])

PriceObservation(price, slot) == [price_q64 |-> price, slot |-> slot]

-----------------------------------------------------------------------------

Init == observations = <<>>

(* add_observation: the oldest makes room for the newest; nothing is checked, *)
(* so observations may come late, twice or from any slot.                     *)
AddObservation(obs) ==
    observations' =
        Append(IF Len(observations) >= max_size THEN Tail(observations) ELSE observations, obs)

Clear == observations # <<>> /\ observations' = <<>>

Next ==
    \/ \E p \in Prices, s \in 0..MaxSlot : AddObservation(PriceObservation(p, s))
    \/ Clear

Spec == Init /\ [][Next]_vars

-----------------------------------------------------------------------------

(* The average price per slot, by its definition: in each slot the price last *)
(* observed by then is in force.                                             *)
SlotAverage(obs) ==
    LET first == obs[1].slot
        end == obs[Len(obs)].slot
        inForce(t) == obs[Max({i \in DOMAIN obs : obs[i].slot <= t})].price_q64
    IN  Total([t \in first..end - 1 |-> inForce(t)]) \div (end - first)

window_prices == [i \in DOMAIN observations |-> observations[i].price_q64]

(* Are two prices as close as the limit allows?                               *)
Close(p, q) ==
    LET lo == Min({p, q}) hi == Max({p, q})
    IN  p = q \/ (hi - lo) * BPS < lo * (max_deviation_bps + 1)

(* Can the code tell?  Not from a price of zero, nor when the product does not *)
(* fit 128 bits or the distance does not fit 16.                              *)
Measurable(p, q) ==
    LET lo == Min({p, q}) hi == Max({p, q})
    IN  lo # 0 /\ (hi - lo) * BPS <= MaxU128 /\ (hi - lo) * BPS < lo * U16

(* Observations may arrive late, repeat a slot or push others out: when a     *)
(* TWAP is reported it is the average over the slots of the window, and when  *)
(* a median is reported half of the prices lie on either side of it.  The     *)
(* guards are exact only for distances the code can measure: those a median   *)
(* or a pair of consecutive prices passed with are within the limit, and      *)
(* prices that are all measurably close to the median are not refused         *)
(* (compute_twap, aggregate_median, detect_manipulation).                     *)
AggregatesExact ==
    LET prices == window_prices
        average == compute_twap(observations)
        median == aggregate_median(prices)
        middle == SortSeq(prices, <)[Len(prices) \div 2 + 1]
        allowed(p, q) == Measurable(p, q) /\ Close(p, q)
    IN  /\ average # Failed /\ Len(observations) > 1 => average = SlotAverage(observations)
        /\ median # Failed =>
            /\ 2 * Cardinality({i \in DOMAIN prices : prices[i] <= median}) >= Len(prices)
            /\ 2 * Cardinality({i \in DOMAIN prices : prices[i] >= median}) >= Len(prices)
            /\ \A i \in DOMAIN prices : Measurable(prices[i], median) => Close(prices[i], median)
        /\ Len(prices) >= 3 /\ (\A i \in DOMAIN prices : allowed(prices[i], middle)) => median = middle
        /\ \A i \in 2..Len(prices) : Measurable(prices[i - 1], prices[i]) =>
              (detect_manipulation(prices[i - 1], prices[i]) <=> ~Close(prices[i - 1], prices[i]))

(* The doc of aggregate_median: "Detects manipulation by checking that no     *)
(* single observation deviates by more than max_deviation_bps from the        *)
(* median."  It does not hold: a price of zero is skipped, a distance is cut  *)
(* to 16 bits before it is compared, and one that overflows counts as 100 %.  *)
NoneDeviates(prices) ==
    LET median == aggregate_median(prices)
    IN  median # Failed => \A i \in DOMAIN prices : Close(prices[i], median)

================================================================================
