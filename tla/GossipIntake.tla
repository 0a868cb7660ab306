----------------------------- MODULE GossipIntake -----------------------------
(* What a node does with a message that gossipsub hands it: the rate limiter,*)
(* the cache of seen ids, decoding, and the hand-over to the node's main     *)
(* loop.  gossipsub itself gives each id once, until it forgets it.          *)
EXTENDS Integers, FiniteSets, Sequences, Functions

CONSTANTS Sources,          \* peers that propagate messages
          Messages,         \* records [id, kind, decodes]
          max_per_window, window_secs,           \* RateLimitConfig
          seen_cache_ttl_secs, seen_cache_capacity, \* GossipConfig
          forget_secs,      \* after this time gossipsub may deliver an id again
          MaxClock          \* bound on the clock

VARIABLES clock,
          buckets,    \* RateLimiter.buckets: source -> [count, window_start]
          seen,       \* SeenCache.entries: id -> time
          last,       \* gossipsub: id -> time of its last delivery
          failures,   \* PeerInfo.failed_interactions
          events,     \* NodeEvents, in order: [id, at]
          accepted    \* history: [source, id, at] of each message past the limiter

vars == <<clock, buckets, seen, last, failures, events, accepted>>

Init ==
    /\ clock = 0
    /\ buckets = <<>>
    /\ seen = <<>>
    /\ last = <<>>
    /\ failures = [s \in Sources |-> 0]
    /\ events = <<>>
    /\ accepted = {}

\* f with the additional pair d |-> e
Put(f, d, e) == [x \in DOMAIN f \cup {d} |-> IF x = d THEN e ELSE f[x]]

\* The bucket that allow() looks at: new, or reset when its window is over.
current(s) ==
    IF s \in DOMAIN buckets /\ clock - buckets[s].window_start < window_secs
    THEN buckets[s] ELSE [count |-> 0, window_start |-> clock]

allow(s) == current(s).count < max_per_window

unexpired_short == {i \in DOMAIN seen : clock - seen[i] < seen_cache_ttl_secs - 1}
unexpired == {i \in DOMAIN seen : clock - seen[i] < seen_cache_ttl_secs}
oldest(ids) == {i \in ids : \A j \in ids : seen[i] <= seen[j]}

\* SeenCache::insert of an id that is not a duplicate.
insert(id, gone) == Put(Restrict(seen, unexpired \ gone), id, clock)
evict(gone) ==
    IF Cardinality(unexpired) >= seen_cache_capacity
    THEN \E i \in oldest(unexpired) : gone = {i}
    ELSE gone = {}

\* NetworkHandler::handle_message passes blocks and transactions on.
forwards(m) == m.kind \in {"Block", "Transaction"}

RateLimited(s, m) ==
    /\ ~allow(s)
    /\ buckets' = Put(buckets, s, current(s))
    /\ UNCHANGED <<seen, failures, events, accepted>>

Admit(s, m) ==
    /\ allow(s)
    /\ buckets' = Put(buckets, s, [current(s) EXCEPT !.count = @ + 1])
    /\ accepted' = accepted \cup {[source |-> s, id |-> m.id, at |-> clock]}

Duplicate(s, m) ==
    /\ Admit(s, m)
    /\ m.id \in unexpired
    /\ seen' = Restrict(seen, unexpired)
    /\ UNCHANGED <<failures, events>>

Handle(s, m) ==
    /\ Admit(s, m)
    /\ m.id \notin unexpired
    /\ \E gone \in SUBSET unexpired : evict(gone) /\ seen' = insert(m.id, gone)
    /\ failures' = IF m.decodes THEN failures ELSE [failures EXCEPT ![s] = @ + 1]
    /\ events' = IF m.decodes /\ forwards(m)
                 THEN Append(events, [id |-> m.id, at |-> clock]) ELSE events

Receive(s, m) ==
    /\ m.id \in DOMAIN last => clock - last[m.id] >= forget_secs
    /\ last' = Put(last, m.id, clock)
    /\ RateLimited(s, m) \/ Duplicate(s, m) \/ Handle(s, m)
    /\ UNCHANGED clock

Tick ==
    /\ clock < MaxClock
    /\ clock' = clock + 1
    /\ UNCHANGED <<buckets, seen, last, failures, events, accepted>>

Next == Tick \/ \E s \in Sources, m \in Messages : Receive(s, m)

Spec == Init /\ [][Next]_vars

-------------------------------------------------------------------------------
\* A message reaches the main loop twice only when its time in the cache was over, or
\* when a full cache pushed it out: SeenCache::insert filters whatever gossipsub
\* delivers again.  And what the limiter drops is not marked as seen, so that a later
\* delivery of it is handled.
Filtered ==
    /\ \A i, j \in DOMAIN events :
         i < j /\ events[i].id = events[j].id
             => \/ events[j].at - events[i].at >= seen_cache_ttl_secs
                \/ Cardinality({a \in accepted : a.at >= events[i].at /\ a.at <= events[j].at})
                     > seen_cache_capacity
    /\ \A i \in DOMAIN seen : \E a \in accepted : a.id = i /\ a.at = seen[i]

===============================================================================
