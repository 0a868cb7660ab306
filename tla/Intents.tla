-------------------------------- MODULE Intents --------------------------------
(* Order intents of qv-defi: the swap builder, the checked constructor, the other*)
(* kinds of order, and the bundle that is validated as a whole at some slot.     *)
EXTENDS Integers, Sequences, SequencesExt, FiniteSetsExt

CONSTANTS Pools, Amounts, Slippages, Deadlines,
          Owner,
          BPS, DefaultSlippage, MaxU64, \* 10000, 100 and 2^64 - 1
          MaxOrders, MaxSlot,           \* bounds on the bundle and the clock
          None

VARIABLES slot,
          bundle,   \* IntentBundle.intents
          process   \* "up", or "aborted" by an overflow check

vars == <<slot, bundle, process>>

-------------------------------------------------------------------------------
\* OrderKind: kinds and the amounts that each carries.
Swap(pool, side, offer, least) ==
    [kind |-> "Swap", pool_id |-> pool, side |-> side, amounts |-> <<offer, least>>]
LimitOrder(pool, side, size, price) ==
    [kind |-> "LimitOrder", pool_id |-> pool, side |-> side, amounts |-> <<size, price>>]
LiquidityAdd(pool, a, b) ==
    [kind |-> "LiquidityAdd", pool_id |-> pool, side |-> None, amounts |-> <<a, b>>]
LiquidityRemove(pool, lp_burn, least) ==
    [kind |-> "LiquidityRemove", pool_id |-> pool, side |-> None, amounts |-> <<lp_burn, least>>]
Lending(kind, pool, amount) ==
    [kind |-> kind, pool_id |-> pool, side |-> None, amounts |-> <<amount>>]
LendingKinds == {"LendingDeposit", "LendingBorrow", "LendingRepay", "LendingWithdraw"}

\* How many of the amounts, from the first, must not be zero.
Checked(order) == IF order.kind \in {"Swap", "LiquidityAdd"} THEN 2 ELSE 1

OrderIntent(order, deadline, owner, nonce, offer, least) ==
    [kind |-> order, deadline_slot |-> deadline, owner_stealth_pk |-> owner, nonce |-> nonce,
     offer_amount |-> offer, min_receive |-> least]

\* The side is always AtoB, and neither the order id nor the slippage is kept.
new_swap(pool, offer, least, deadline) ==
    OrderIntent(Swap(pool, "AtoB", offer, least), deadline, None, 0, offer, least)

validate(intent, current) ==
    /\ intent.deadline_slot > current
    /\ \A i \in 1..Checked(intent.kind) : intent.kind.amounts[i] # 0

\* IntentBundle::validate and orders_for_pool.
validate_bundle(current) == \A i \in DOMAIN bundle : validate(bundle[i], current)
orders_for_pool(pool) == SelectSeq(bundle, LAMBDA intent : intent.kind.pool_id = pool)

-------------------------------------------------------------------------------
\* SwapIntentBuilder: a field that was not set is None.
SwapIntentBuilder ==
    [pool_id : Pools \cup {None}, offer_amount : Amounts \cup {None},
     max_slippage_bps : Slippages \cup {None}, deadline_slot : Deadlines \cup {None},
     owner_pk_hash : {Owner, None}]

slippage_bps(b) == IF b.max_slippage_bps = None THEN DefaultSlippage ELSE b.max_slippage_bps
min_receive(b) ==
    LET amount == (b.offer_amount * (BPS - slippage_bps(b))) \div BPS
    IN  IF amount > MaxU64 THEN MaxU64 ELSE amount

\* The order of a builder, or None when a field is missing.
build(b) ==
    IF b.offer_amount = None \/ b.pool_id = None \/ b.deadline_slot = None THEN None
    ELSE [new_swap(b.pool_id, b.offer_amount, min_receive(b), b.deadline_slot)
            EXCEPT !.owner_stealth_pk = b.owner_pk_hash]

\* The checks at slot 0 refuse a deadline of 0 only.
build_swap_intent(pool, side, offer, least, deadline, nonce) ==
    LET intent == OrderIntent(Swap(pool, side, offer, least), deadline, Owner, nonce, offer, least)
    IN  IF offer = 0 \/ least = 0 \/ ~validate(intent, 0) THEN None ELSE intent

-------------------------------------------------------------------------------
Init == slot = 0 /\ bundle = <<>> /\ process = "up"

\* IntentBundle::add_order checks nothing.
add_order(intent) ==
    /\ process = "up"
    /\ Len(bundle) < MaxOrders
    /\ bundle' = Append(bundle, intent)
    /\ UNCHANGED <<slot, process>>

AddBuilt == \E b \in SwapIntentBuilder :
    /\ slippage_bps(b) <= BPS
    /\ build(b) # None
    /\ add_order(build(b))

\* 10000 - slippage underflows, and every profile is built with overflow checks.
BuildOverflows == \E b \in SwapIntentBuilder :
    /\ process = "up"
    /\ b.offer_amount # None /\ b.pool_id # None /\ b.deadline_slot # None
    /\ slippage_bps(b) > BPS
    /\ process' = "aborted"
    /\ UNCHANGED <<slot, bundle>>

AddChecked ==
    \E pool \in Pools, side \in {"AtoB", "BtoA"}, a, least \in Amounts, d \in Deadlines :
        /\ build_swap_intent(pool, side, a, least, d, 1) # None
        /\ add_order(build_swap_intent(pool, side, a, least, d, 1))

AddOther ==
    \E pool \in Pools, a, b \in Amounts, d \in Deadlines :
        \E order \in {LimitOrder(pool, "AtoB", a, b), LiquidityAdd(pool, a, b),
                      LiquidityRemove(pool, a, b)}
                     \cup {Lending(k, pool, a) : k \in LendingKinds} :
            add_order(OrderIntent(order, d, None, 0, a, b))

Tick ==
    /\ process = "up" /\ slot < MaxSlot
    /\ slot' = slot + 1
    /\ UNCHANGED <<bundle, process>>

Next == AddBuilt \/ BuildOverflows \/ AddChecked \/ AddOther \/ Tick

Spec == Init /\ [][Next]_vars

-------------------------------------------------------------------------------
\* The swap in an intent offers and asks what the intent itself says, so the two copies
\* never disagree; the builder concedes at most the slippage, rounded by less than one
\* unit; and an intent made by either constructor is refused only once its deadline is
\* reached, or if rounding left nothing to receive (build, build_swap_intent, validate).
IntentsExact ==
    \A i \in DOMAIN bundle :
        LET intent == bundle[i] IN
        /\ intent.kind.kind = "Swap" =>
             /\ intent.kind.amounts = <<intent.offer_amount, intent.min_receive>>
             /\ validate(intent, slot) <=>
                  /\ slot < intent.deadline_slot
                  /\ intent.offer_amount > 0 /\ intent.min_receive > 0
        /\ intent.nonce = 1 => \A s \in 0..MaxSlot :
                                 s < intent.deadline_slot => validate(intent, s)
        /\ intent.kind.kind = "Swap" /\ intent.nonce = 0 =>
             /\ intent.min_receive <= intent.offer_amount
             /\ \E s \in Slippages \cup {DefaultSlippage} :
                  /\ s <= BPS
                  /\ intent.offer_amount * s
                       <= (intent.offer_amount - intent.min_receive) * BPS
                  /\ (intent.offer_amount - intent.min_receive) * BPS
                       < intent.offer_amount * s + BPS

\* A bundle that validates gives every pool only orders that it can carry out, and one
\* that no longer validates never does again (IntentBundle::validate, orders_for_pool).
BundlesExpire ==
    /\ \A s \in 0..MaxSlot : validate_bundle(s) => \A t \in 0..s : validate_bundle(t)
    /\ validate_bundle(slot) =>
         \A pool \in Pools : \A i \in DOMAIN orders_for_pool(pool) :
            LET intent == orders_for_pool(pool)[i]
            IN  intent.deadline_slot > slot /\ intent.kind.amounts[1] > 0
    /\ Len(bundle) = MapThenSumSet(LAMBDA pool : Len(orders_for_pool(pool)), Pools)

IntentsSound == IntentsExact /\ BundlesExpire

===============================================================================
