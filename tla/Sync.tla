--------------------------------- MODULE Sync ---------------------------------
(* Bootstrap synchronisation: the decisions of SyncManager, the header       *)
(* request and its answer, and the chain selection rule maxvalid_bg.  Sending*)
(* the requests and applying the blocks is left to a caller that is not      *)
(* written yet; it is modelled as the docs of sync.rs describe it.           *)
EXTENDS Integers, Sequences, FiniteSets, SequencesExt

CONSTANTS Nodes,
          MaxHash, MaxSlot,   \* bounds on blocks and slots
          k_finality,         \* shallow forks are at most this deep
          window_slots,       \* density window of deep forks
          dense_entries,      \* the dense head of a locator, 10 in the code
          max_headers         \* headers in one answer

VARIABLES chain,   \* chain[n]: canonical chain from genesis, of [hash, parent, slot]
          fresh,   \* hashes that no block has yet
          state,   \* SyncManager.state
          mail     \* mail[n]: the header exchange that n waits for

vars == <<chain, fresh, state, mail>>

Genesis == [hash |-> 0, parent |-> 0, slot |-> 0]
NoMail == [kind |-> "none"]

Init ==
    /\ chain = [n \in Nodes |-> <<Genesis>>]
    /\ fresh = 1..MaxHash
    /\ state = [n \in Nodes |-> "Syncing"]
    /\ mail = [n \in Nodes |-> NoMail]

-------------------------------------------------------------------------------
(* Chain selection.                                                          *)

common_prefix_len(local, candidate) ==
    Cardinality({i \in DOMAIN local \cap DOMAIN candidate :
                    \A j \in 1..i : local[j].hash = candidate[j].hash})

density_in_window(c, common, fork_slot, window_end) ==
    Cardinality({i \in DOMAIN c : /\ i > common
                                  /\ c[i].slot > fork_slot
                                  /\ c[i].slot <= window_end})

longer_chain_eager(local, candidate) == Len(candidate) >= Len(local)

longer_chain(local, candidate) ==
    \/ Len(candidate) > Len(local)
    \/ Len(candidate) = Len(local) /\ Last(candidate).hash < Last(local).hash

\* TRUE for AdoptCandidate.
maxvalid_bg(local, candidate, k, s) ==
    LET common == common_prefix_len(local, candidate)
        fork_slot == local[common].slot
        density(c) == density_in_window(c, common, fork_slot, fork_slot + s)
    IN  /\ common > 0
        /\ IF Len(local) - common <= k
           THEN longer_chain(local, candidate)
           ELSE density(candidate) > density(local)

missing_hashes(local, candidate) ==
    SubSeq(candidate, common_prefix_len(local, candidate) + 1, Len(candidate))

-------------------------------------------------------------------------------
(* Locators and headers.                                                     *)

stride_wide(taken, step) == IF taken < dense_entries THEN 1 ELSE 4 * step
stride(taken, step) == IF taken < dense_entries THEN 1 ELSE step

\* One turn of the loop, after n entries: back by the stride, but not past genesis.
locator_step(at, n) ==
    [idx |-> IF at.idx - stride(n, at.step) < 1 THEN 1 ELSE at.idx - stride(n, at.step),
     step |-> IF n >= dense_entries THEN 2 * at.step ELSE at.step]

build_locator(c) ==
    LET at[n \in 0..Len(c)] == IF n = 0 THEN [idx |-> Len(c), step |-> 1]
                               ELSE locator_step(at[n - 1], n)
        entries == {n \in 0..Len(c) : \A m \in 0..(n - 1) : at[m].idx # 1}
    IN  [n \in 1..Cardinality(entries) |-> c[at[n - 1].idx].hash]

position(c, hash) == {i \in DOMAIN c : c[i].hash = hash}

\* The headers after the first locator hash that is on the chain; the stop hash of a
\* bootstrap request is zero.
select_headers_for_locator(c, locator, max) ==
    LET known == {i \in DOMAIN locator : position(c, locator[i]) # {}}
        first == CHOOSE i \in known : \A j \in known : i <= j
        start == IF known = {} THEN 0 ELSE CHOOSE p \in position(c, locator[first]) : TRUE
        end == IF start + max < Len(c) THEN start + max ELSE Len(c)
    IN  SubSeq(c, start + 1, end)

-------------------------------------------------------------------------------
\* A block is built or arrives by gossip: a child of the tip, its hash below or above
\* all the others.
Mine(n) ==
    \E h \in fresh, s \in 1..MaxSlot :
        /\ h \in {Min(fresh), Max(fresh)}
        /\ s > Last(chain[n]).slot
        /\ fresh' = fresh \ {h}
        /\ chain' = [chain EXCEPT ![n] =
                        Append(@, [hash |-> h, parent |-> Last(@).hash, slot |-> s])]
        /\ UNCHANGED <<state, mail>>

\* A live manager answers Idle.
OnTick(n) ==
    /\ state[n] = "Syncing"
    /\ mail[n] = NoMail
    /\ mail' = [mail EXCEPT ![n] = [kind |-> "get_headers", locator |-> build_locator(chain[n])]]
    /\ UNCHANGED <<chain, fresh, state>>

Serve(n, p) ==
    /\ n # p
    /\ mail[n].kind = "get_headers"
    /\ mail' = [mail EXCEPT ![n] =
                  [kind |-> "headers",
                   headers |-> select_headers_for_locator(chain[p], mail[n].locator, max_headers)]]
    /\ UNCHANGED <<chain, fresh, state>>

\* The caller joins the headers to the block they extend.
candidate(n) ==
    LET hs == mail[n].headers
        joint == position(chain[n], hs[1].parent)
    IN  IF hs = <<>> \/ joint = {} THEN <<>>
        ELSE SubSeq(chain[n], 1, CHOOSE i \in joint : TRUE) \o hs

\* on_headers, and the caller that downloads what it asks for.
OnHeaders(n) ==
    /\ mail[n].kind = "headers"
    /\ mail' = [mail EXCEPT ![n] = NoMail]
    /\ IF maxvalid_bg(chain[n], candidate(n), k_finality, window_slots)
       THEN chain' = [chain EXCEPT ![n] =
                SubSeq(@, 1, common_prefix_len(@, candidate(n)))
                    \o missing_hashes(@, candidate(n))]
       ELSE UNCHANGED chain
    /\ UNCHANGED <<fresh, state>>

MarkCaughtUp(n) ==
    /\ state[n] = "Syncing"
    /\ state' = [state EXCEPT ![n] = "Live"]
    /\ UNCHANGED <<chain, fresh, mail>>

TriggerResync(n) ==
    /\ state[n] = "Live"
    /\ state' = [state EXCEPT ![n] = "Syncing"]
    /\ UNCHANGED <<chain, fresh, mail>>

Next ==
    \E n \in Nodes :
        \/ Mine(n) \/ OnTick(n) \/ OnHeaders(n)
        \/ MarkCaughtUp(n) \/ TriggerResync(n)
        \/ \E p \in Nodes : Serve(n, p)

Spec == Init /\ [][Next]_vars

-------------------------------------------------------------------------------
\* A locator finds the fork: for the chains of any two nodes, the server answers with
\* headers that contain all that the client misses, that join the client's chain, and
\* that repeat no more blocks than the client has past the fork (build_locator and
\* select_headers_for_locator).
LocatorFindsFork ==
    \A n, p \in Nodes :
        LET hs == select_headers_for_locator(chain[p], build_locator(chain[n]), Len(chain[p]))
            missing == missing_hashes(chain[n], chain[p])
        IN  /\ IsSuffix(missing, hs)
            /\ hs = <<>> \/ position(chain[n], hs[1].parent) # {}
            /\ Len(hs) - Len(missing) <= Len(chain[n]) - common_prefix_len(chain[n], chain[p])

\* Who takes whose chain, for any two nodes (maxvalid_bg, the tie-break of longer_chain).
\* In a fork that is shallow for both, exactly one takes the other's chain; in one that is
\* deep for both, at most one.  But each node measures the depth on its own chain: when the
\* fork is shallow for one and deep for the other, the first takes the second's longer
\* chain in any case, and the two swap exactly if the second finds the first's denser.
SwapsExact ==
    \A n, p \in Nodes :
        LET common == common_prefix_len(chain[n], chain[p])
            fork_slot == chain[n][common].slot
            shallow(x) == Len(chain[x]) - common <= k_finality
            density(x) == density_in_window(chain[x], common, fork_slot, fork_slot + window_slots)
            takes(x, y) == maxvalid_bg(chain[x], chain[y], k_finality, window_slots)
        IN  /\ takes(n, p) /\ takes(p, n) <=>
                  \/ shallow(n) /\ ~shallow(p) /\ density(n) > density(p)
                  \/ shallow(p) /\ ~shallow(n) /\ density(p) > density(n)
            /\ shallow(n) /\ chain[n] # chain[p] => takes(n, p) \/ takes(p, n)

===============================================================================
