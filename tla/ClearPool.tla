------------------------------ MODULE ClearPool ------------------------------
(***************************************************************************)
(* The fee-sorted cleartext mempool of crates/qv-mempool/src/clear.rs.     *)
(*                                                                         *)
(* The pool is a record p and its methods are operators on it: by_id and   *)
(* two derived indices (by_priority, spent_outpoints) and a byte counter,  *)
(* which every method keeps up by hand.  The callers hold a mutex across   *)
(* each call, so a call is one step.  An entry is                          *)
(* [tx_id, inputs, fee, size, added_at]; the clock is now, in seconds.     *)
(***************************************************************************)
EXTENDS Naturals, FiniteSets, Functions

CONSTANTS
    max_tx_count, max_pool_bytes, min_fee, max_age_secs,   \* ClearPoolConfig
    U64Max     \* u64::MAX, where the fee density saturates

ASSUME ConfigAssumption ==
    {max_tx_count, max_pool_bytes, min_fee, max_age_secs, U64Max} \subseteq Nat

\* MempoolEntry::new: fee.saturating_mul(1000) / size.
fee_density(e) ==
    IF e.size > 0
    THEN (IF e.fee * 1000 > U64Max THEN U64Max ELSE e.fee * 1000) \div e.size
    ELSE e.fee

\* PriorityKey::from_entry.
from_entry(e) ==
    [neg_fee_density |-> U64Max - fee_density(e), added_at |-> e.added_at, tx_id |-> e.tx_id]

\* PriorityKey's order: k comes before l (and is evicted after it).
cmp(k, l) ==
    \/ k.neg_fee_density < l.neg_fee_density
    \/ /\ k.neg_fee_density = l.neg_fee_density
       /\ \/ k.added_at < l.added_at
          \/ k.added_at = l.added_at /\ k.tx_id < l.tx_id

EmptyPool ==
    [by_id |-> [i \in {} |-> {}], by_priority |-> {},
     spent_outpoints |-> [o \in {} |-> 0], total_bytes |-> 0]

Minus(a, b) == IF a > b THEN a - b ELSE 0    \* saturating_sub

inputs_of(p, ids) == UNION {p.by_id[i].inputs : i \in ids}
size_of(p, ids) == SumFunction([i \in ids |-> p.by_id[i].size])

\* remove, called for every id of a set; an absent id is skipped.
remove_all(p, ids) ==
    LET gone == ids \cap DOMAIN p.by_id
    IN  [by_id |-> [i \in DOMAIN p.by_id \ gone |-> p.by_id[i]],
         by_priority |-> p.by_priority \ {from_entry(p.by_id[i]) : i \in gone},
         spent_outpoints |-> [o \in DOMAIN p.spent_outpoints \ inputs_of(p, gone) |->
                                p.spent_outpoints[o]],
         total_bytes |-> Minus(p.total_bytes, size_of(p, gone))]

\* The transactions that a connected block's spent outpoints invalidate.
remove_confirmed(p, spent) ==
    remove_all(p, {p.spent_outpoints[o] : o \in spent \cap DOMAIN p.spent_outpoints})

evict_expired(p, now) ==
    remove_all(p, {i \in DOMAIN p.by_id : p.by_id[i].added_at < Minus(now, max_age_secs)})

\* The condition that ends the eviction loop of add.
has_room_for(p, size) ==
    /\ Cardinality(DOMAIN p.by_id) < max_tx_count
    /\ p.total_bytes + size <= max_pool_bytes

\* Faulty: the first key of the BTreeMap is taken for the last.
lowest_from_front(p) ==
    {S \in SUBSET p.by_priority : \A k \in S, l \in p.by_priority \ S : cmp(k, l)}

\* What evict_lowest_fee removes in some number of calls: a final segment of
\* the priority index.
lowest(p) ==
    {S \in SUBSET p.by_priority : \A k \in S, l \in p.by_priority \ S : cmp(l, k)}

\* The eviction loop of add: the shortest final segment that makes room, or
\* everything when even the empty pool has no room.
make_room(p, size) ==
    LET ids(S) == {k.tx_id : k \in S}
        enough == {S \in lowest(p) : has_room_for(remove_all(p, ids(S)), size)}
    IN  remove_all(p, ids({k \in p.by_priority : \A S \in enough : k \in S}))

insert(p, e) ==
    [by_id |-> [i \in DOMAIN p.by_id \cup {e.tx_id} |->
                  IF i = e.tx_id THEN e ELSE p.by_id[i]],
     by_priority |-> p.by_priority \cup {from_entry(e)},
     spent_outpoints |-> [o \in DOMAIN p.spent_outpoints \cup e.inputs |->
                            IF o \in e.inputs THEN e.tx_id ELSE p.spent_outpoints[o]],
     total_bytes |-> p.total_bytes + e.size]

\* Faulty: two pooled transactions may spend the same output.
early_return_no_conflict(p, e) == e.tx_id \in DOMAIN p.by_id \/ e.fee < min_fee

\* The errors that add returns before it touches the pool.  A conflicting
\* entry counts even if it has expired.
early_return(p, e) ==
    \/ e.tx_id \in DOMAIN p.by_id
    \/ e.fee < min_fee
    \/ e.inputs \cap DOMAIN p.spent_outpoints # {}

\* The pool after add: unchanged on an early return, otherwise rid of what
\* expired and of what had to make room, with the entry if there is room.
add(p, e, now) ==
    LET room == make_room(evict_expired(p, now), e.size)
    IN  IF early_return(p, e) THEN p
        ELSE IF has_room_for(room, e.size) THEN insert(room, e)
        ELSE room

\* get_batch: the ids of the n best entries, best first.
get_batch(p, n) ==
    LET size == Cardinality(p.by_priority)
        rank(k) == Cardinality({l \in p.by_priority : cmp(l, k)}) + 1
    IN  [i \in 1..(IF n < size THEN n ELSE size) |->
            (CHOOSE k \in p.by_priority : rank(k) = i).tx_id]

-------------------------------------------------------------------------------
CONSTANTS
    Txs,        \* the transactions: records [tx_id, inputs, size]
    Fees,       \* the fees that callers state
    Outpoints,
    MaxTime     \* bound on the clock

ASSUME TxsAssumption ==
    /\ \A t \in Txs : t.tx_id \in Nat /\ t.size \in Nat /\ t.inputs \subseteq Outpoints
    /\ \A t, u \in Txs : t.tx_id = u.tx_id => t = u
    /\ Fees \subseteq Nat

VARIABLES
    pool,   \* the ClearPool
    now     \* now_secs()

vars == <<pool, now>>

Entry(t, fee, at) ==
    [tx_id |-> t.tx_id, inputs |-> t.inputs, size |-> t.size, fee |-> fee, added_at |-> at]

Init == pool = EmptyPool /\ now = 0

\* The caller builds the entry, with its time, before it gets the mutex.
Add(t, fee, at) ==
    /\ at <= now
    /\ pool' = add(pool, Entry(t, fee, at), now)
    /\ UNCHANGED now

RemoveTx(t) ==
    /\ pool' = remove_all(pool, {t.tx_id})
    /\ UNCHANGED now

RemoveConfirmed(spent) ==
    /\ pool' = remove_confirmed(pool, spent)
    /\ UNCHANGED now

EvictExpired ==
    /\ pool' = evict_expired(pool, now)
    /\ UNCHANGED now

Tick ==
    /\ now < MaxTime
    /\ now' = now + 1
    /\ UNCHANGED pool

Next ==
    \/ \E t \in Txs :
          \/ \E fee \in Fees, at \in 0..MaxTime : Add(t, fee, at)
          \/ RemoveTx(t)
    \/ \E spent \in SUBSET Outpoints : RemoveConfirmed(spent)
    \/ EvictExpired
    \/ Tick

Spec == Init /\ [][Next]_vars

-------------------------------------------------------------------------------
entries(p) == {p.by_id[i] : i \in DOMAIN p.by_id}
sum_sizes(es) == SumFunction([e \in es |-> e.size])

\* The pool holds entries of known transactions under their own ids, and the
\* derived indices mention no other transaction.
TypeOK ==
    /\ now \in Nat
    /\ \A i \in DOMAIN pool.by_id :
          /\ pool.by_id[i].tx_id = i
          /\ \E t \in Txs, f \in Fees, at \in 0..now : pool.by_id[i] = Entry(t, f, at)
    /\ {k.tx_id : k \in pool.by_priority} \subseteq DOMAIN pool.by_id
    /\ \A o \in DOMAIN pool.spent_outpoints : pool.spent_outpoints[o] \in DOMAIN pool.by_id

\* The three indices describe the same pool after any history of adds,
\* removals and evictions: one priority key per entry, and each outpoint an
\* entry spends leads back to it, so no two pooled transactions conflict.
IndicesAgree ==
    /\ pool.by_priority = {from_entry(e) : e \in entries(pool)}
    /\ DOMAIN pool.spent_outpoints = UNION {e.inputs : e \in entries(pool)}
    /\ \A e \in entries(pool) : \A o \in e.inputs : pool.spent_outpoints[o] = e.tx_id

\* The byte counter, which only ever moves by differences, is exact, and the
\* pool respects both of its limits.
WithinCapacity ==
    /\ pool.total_bytes = sum_sizes(entries(pool))
    /\ pool.total_bytes <= max_pool_bytes
    /\ Cardinality(DOMAIN pool.by_id) <= max_tx_count

\* For the newcomer e of this step: the unexpired residents that go rank below
\* every resident that stays, and sparing the best of them would have broken
\* a limit.
DisplacesLowest(e) ==
    LET fresh == {r \in entries(pool) : r.added_at >= Minus(now, max_age_secs)}
        stay  == entries(pool') \ {e}
        gone  == fresh \ stay
    IN  /\ \A g \in gone, s \in stay : cmp(from_entry(s), from_entry(g))
        /\ \A g \in gone :
              (\A h \in gone \ {g} : cmp(from_entry(g), from_entry(h)))
              => \/ Cardinality(stay) + 2 > max_tx_count
                 \/ sum_sizes(stay) + g.size + e.size > max_pool_bytes

\* When a newcomer displaces unexpired residents, each of them ranked below
\* every resident that stays, and sparing the best of them would have broken
\* a limit; and every step leaves the pool within its limits, counted exactly.
EvictsLowestOnly ==
    [][/\ WithinCapacity'
       /\ \A e \in entries(pool') \ entries(pool) : DisplacesLowest(e)]_vars

-------------------------------------------------------------------------------
(* For TLC.  Transactions 1, 3, 4 and 5 fit in the bytes but not in the     *)
(* count, 2 needs bytes that others hold and conflicts with two of them,   *)
(* and 6 is larger than the whole pool.                                    *)
MCTxs ==
    {[tx_id |-> 1, inputs |-> {1}, size |-> 1],
     [tx_id |-> 2, inputs |-> {1, 2}, size |-> 4],
     [tx_id |-> 3, inputs |-> {3}, size |-> 2],
     [tx_id |-> 4, inputs |-> {2}, size |-> 2],
     [tx_id |-> 5, inputs |-> {4}, size |-> 1],
     [tx_id |-> 6, inputs |-> {4}, size |-> 7]}

===============================================================================
