------------------------------ MODULE ChainState ------------------------------
(***************************************************************************)
(* Fork choice, k-deep finality and equivocation evidence of               *)
(* crates/qv-consensus/src/chain_state.rs.                                 *)
(*                                                                         *)
(* A ChainState struct is a record cs; its methods are operators on such   *)
(* records, so that other modules can hold one as part of their own state. *)
(* The specification below gives one ChainState to each of several nodes   *)
(* and delivers to them, in any order and any number of times, the blocks  *)
(* that anybody produced.                                                  *)
(*                                                                         *)
(* A block hash is a natural number: the code only compares hashes for     *)
(* equality and byte order.  ZERO is the genesis hash.                     *)
(***************************************************************************)
EXTENDS Integers
LOCAL INSTANCE TLC

CONSTANTS
    Nodes,        \* nodes that run their own ChainState
    Hashes,       \* hashes of the blocks other than genesis
    Producers,    \* producer key hashes
    MaxSlot,      \* bound on the slots in which blocks are produced
    k_finality    \* ConsensusParams::k_finality

ASSUME HashesAssumption == Hashes \subseteq Nat \ {0}
ASSUME SlotAssumption == MaxSlot \in Nat
ASSUME FinalityAssumption == k_finality \in Nat

ZERO == 0

(***************************************************************************)
(* ChainEntry.  The code keeps a parent hash and finds ancestors by        *)
(* walking parent links; lineage is auxiliary and holds the hashes that    *)
(* this walk visits, from the block itself down to genesis.                *)
(***************************************************************************)
ChainEntry(hash, parent, slot, producer) ==
    [hash |-> hash, parent_hash |-> parent.hash, height |-> parent.height + 1,
     slot |-> slot, producer |-> producer,
     lineage |-> parent.lineage \cup {hash}]

GenesisEntry ==
    [hash |-> ZERO, parent_hash |-> ZERO, height |-> 0, slot |-> 0,
     producer |-> ZERO, lineage |-> {ZERO}]

\* f with one more pair: BTreeMap::insert on an absent key.
Put(f, x, v) == [y \in DOMAIN f \cup {x} |-> IF y = x THEN v ELSE f[y]]

EmptyMap == [x \in {} |-> ZERO]

\* ChainState::genesis: genesis is the tip and is final from the start.
genesis ==
    [entries |-> [h \in {ZERO} |-> GenesisEntry],
     tip |-> ZERO, final_hash |-> ZERO, final_height |-> 0,
     slot_producers |-> EmptyMap, equivocations |-> EmptyMap]

known(cs) == DOMAIN cs.entries

tip_height(cs) == cs.entries[cs.tip].height

\* The walk from descendant down to the height of ancestor meets ancestor.
is_ancestor(cs, ancestor, descendant) ==
    /\ ancestor \in known(cs)
    /\ descendant \in known(cs)
    /\ ancestor \in cs.entries[descendant].lineage

\* Faulty: the walk stops one height too early.
ancestor_walk_short(cs, ancestor, descendant) ==
    LET target == cs.entries[ancestor].height
        walk[current \in known(cs)] ==
            IF current = ancestor THEN TRUE
            ELSE LET e == cs.entries[current] IN
                 /\ e.height > target + 1
                 /\ current # e.parent_hash
                 /\ e.parent_hash \in known(cs)
                 /\ walk[e.parent_hash]
    IN  walk[descendant]

\* The same question answered by the code's own loop: compare, stop at or
\* below the target height, stop at genesis, else follow the parent link.
ancestor_walk(cs, ancestor, descendant) ==
    LET target == cs.entries[ancestor].height
        walk[current \in known(cs)] ==
            IF current = ancestor THEN TRUE
            ELSE LET e == cs.entries[current] IN
                 /\ e.height > target
                 /\ current # e.parent_hash
                 /\ e.parent_hash \in known(cs)
                 /\ walk[e.parent_hash]
    IN  walk[descendant]

is_final(cs, hash) == is_ancestor(cs, hash, cs.final_hash)

\* Faulty: blocks on a branch below the final point are accepted.
add_block_result_unfinalized(cs, e) ==
    IF e.parent_hash \notin known(cs) THEN "UnknownParent"
    ELSE IF e.hash \in known(cs) THEN "DuplicateBlock"
    ELSE "Ok"

\* The early returns of add_block, in their order.  The exception that the
\* code makes for hash ZERO never matters: genesis is always a duplicate.
add_block_result(cs, e) ==
    IF e.parent_hash \notin known(cs) THEN "UnknownParent"
    ELSE IF e.hash \in known(cs) THEN "DuplicateBlock"
    ELSE IF ~is_ancestor(cs, cs.final_hash, e.parent_hash) THEN "ConflictsWithFinalized"
    ELSE "Ok"

insert(cs, e) == [cs EXCEPT !.entries = Put(@, e.hash, e)]

\* The first block of a (slot, producer) is indexed; the first different one
\* becomes evidence, and later ones leave that evidence alone.
record_equivocation(cs, e) ==
    LET key == <<e.slot, e.producer>> IN
    IF key \notin DOMAIN cs.slot_producers
    THEN [cs EXCEPT !.slot_producers = Put(@, key, e.hash)]
    ELSE IF cs.slot_producers[key] # e.hash /\ key \notin DOMAIN cs.equivocations
    THEN [cs EXCEPT !.equivocations =
            Put(@, key, [first |-> cs.slot_producers[key], second |-> e.hash])]
    ELSE cs

\* Faulty: among equal heights the first block seen stays the tip.
becomes_tip_first_seen(cs, e) == e.height > tip_height(cs)

\* Faulty: among equal heights the last block seen becomes the tip.
becomes_tip_last_seen(cs, e) == e.height >= tip_height(cs)

\* Longer chain, or equal height and lower hash.
becomes_tip(cs, e) ==
    \/ e.height > tip_height(cs)
    \/ e.height = tip_height(cs) /\ e.hash < cs.tip

\* Faulty: the final point is one block short of k below the tip.
advance_finality_late(cs) ==
    LET target == tip_height(cs) - k_finality - 1
        walked == {h \in cs.entries[cs.tip].lineage : cs.entries[h].height = target}
    IN  IF target <= cs.final_height \/ walked = {}
        THEN cs
        ELSE [cs EXCEPT !.final_hash = CHOOSE h \in walked : TRUE,
                        !.final_height = target]

\* Final point k blocks below the tip, on the tip's chain, never backwards.
advance_finality(cs) ==
    LET target == tip_height(cs) - k_finality
        walked == {h \in cs.entries[cs.tip].lineage : cs.entries[h].height = target}
    IN  IF target <= cs.final_height \/ walked = {}
        THEN cs
        ELSE [cs EXCEPT !.final_hash = CHOOSE h \in walked : TRUE,
                        !.final_height = target]

add_block(cs, e) ==
    IF add_block_result(cs, e) # "Ok"
    THEN cs
    ELSE LET stored == record_equivocation(insert(cs, e), e)
         IN  IF becomes_tip(stored, e)
             THEN advance_finality([stored EXCEPT !.tip = e.hash])
             ELSE stored

-------------------------------------------------------------------------------
VARIABLES
    produced,   \* every block anybody produced, by hash
    chain       \* the ChainState of each node

vars == <<produced, chain>>

Init ==
    /\ produced = [h \in {ZERO} |-> GenesisEntry]
    /\ chain = [n \in Nodes |-> genesis]

\* Somebody, honest or not, extends any block there is.  Height and slot obey
\* the linkage every node checks before add_block (qv-node validate_chain_linkage).
Produce(h, p, s, q) ==
    /\ h \notin DOMAIN produced
    /\ p \in DOMAIN produced
    /\ s > produced[p].slot
    /\ produced' = Put(produced, h, ChainEntry(h, produced[p], s, q))
    /\ UNCHANGED chain

\* Node n is handed block h: for the first time, again, or before its parent.
Deliver(n, h) ==
    /\ h \in DOMAIN produced
    /\ chain' = [chain EXCEPT ![n] = add_block(@, produced[h])]
    /\ UNCHANGED produced

Next ==
    \/ \E h \in Hashes, p \in Hashes \cup {ZERO}, s \in 1..MaxSlot, q \in Producers :
          Produce(h, p, s, q)
    \/ \E n \in Nodes, h \in Hashes : Deliver(n, h)

Spec == Init /\ [][Next]_vars

-------------------------------------------------------------------------------
Entries(D) ==
    [hash : D, parent_hash : D, height : Nat, slot : 0..MaxSlot,
     producer : Producers \cup {ZERO}, lineage : SUBSET D]

Keys == (0..MaxSlot) \X (Producers \cup {ZERO})

\* Every ChainState is well typed and holds blocks that were produced.
TypeOK ==
    LET D == Hashes \cup {ZERO} IN
    /\ DOMAIN produced \subseteq D
    /\ produced \in [DOMAIN produced -> Entries(D)]
    /\ \A n \in Nodes :
        LET cs == chain[n] IN
        /\ known(cs) \subseteq DOMAIN produced
        /\ \A h \in known(cs) : cs.entries[h] = produced[h]
        /\ cs.tip \in known(cs)
        /\ cs.final_hash \in known(cs)
        /\ cs.final_height = cs.entries[cs.final_hash].height
        /\ DOMAIN cs.slot_producers \subseteq Keys
        /\ DOMAIN cs.equivocations \subseteq Keys

\* The walk along parent links that stops at the ancestor's height decides
\* ancestry between any two stored blocks.
WalkDecidesAncestry ==
    \A n \in Nodes : \A a, d \in known(chain[n]) :
        ancestor_walk(chain[n], a, d) = is_ancestor(chain[n], a, d)

\* The order of fork choice on entries: higher first, then lower hash.
Better(a, b) == a.height > b.height \/ (a.height = b.height /\ a.hash < b.hash)

\* Whatever the order of arrival, the tip is the best of all stored blocks:
\* comparing each arrival with the tip alone never settles for less.
TipIsBest ==
    \A n \in Nodes : \A h \in known(chain[n]) :
        ~Better(chain[n].entries[h], chain[n].entries[chain[n].tip])

\* The final block is on the tip's chain, exactly k below it (or genesis),
\* although advance_finality moves only when the tip moves and never back.
FinalPointExact ==
    \A n \in Nodes :
        LET cs == chain[n] IN
        /\ is_ancestor(cs, cs.final_hash, cs.tip)
        /\ cs.final_height = IF tip_height(cs) > k_finality
                             THEN tip_height(cs) - k_finality ELSE 0

\* Once is_final answers true for a block it answers true for ever.
FinalityIsSticky ==
    [][\A n \in Nodes : \A h \in known(chain[n]) :
          is_final(chain[n], h) => is_final(chain'[n], h)]_vars

\* Evidence exists exactly for the (slot, producer) pairs with two stored
\* blocks, and names two such blocks.
EquivocationEvidence ==
    \A n \in Nodes :
        LET cs == chain[n]
            at(key) == {h \in known(cs) \ {ZERO} :
                           <<cs.entries[h].slot, cs.entries[h].producer>> = key}
        IN  /\ \A key \in DOMAIN cs.equivocations :
                  LET proof == cs.equivocations[key]
                  IN  proof.first # proof.second /\ {proof.first, proof.second} \subseteq at(key)
            /\ \A g, h \in known(cs) \ {ZERO} :
                  (g # h /\ h \in at(<<cs.entries[g].slot, cs.entries[g].producer>>))
                  => <<cs.entries[g].slot, cs.entries[g].producer>> \in DOMAIN cs.equivocations

\* Two nodes that store the same blocks agree on tip and finality, in
\* whatever orders the blocks reached them.
SameBlocksSameChain ==
    \A n, m \in Nodes :
        chain[n].entries = chain[m].entries =>
            /\ chain[n].tip = chain[m].tip
            /\ chain[n].final_hash = chain[m].final_hash

\* No two produced branches both run more than k blocks past their fork.
ShallowForks ==
    \A x, y \in DOMAIN produced :
        \E c \in produced[x].lineage \cap produced[y].lineage :
            \/ produced[x].height - produced[c].height <= k_finality
            \/ produced[y].height - produced[c].height <= k_finality

\* Offering n any produced block again would not change its state.
Settled(n) ==
    \A h \in DOMAIN produced :
        \/ h \in known(chain[n])
        \/ chain[n].final_hash \notin produced[h].lineage

\* Nodes that were offered every block agree on the tip, even if each has
\* rejected different blocks, as long as no fork is deeper than k.
Convergence ==
    ShallowForks =>
        \A n, m \in Nodes : Settled(n) /\ Settled(m) => chain[n].tip = chain[m].tip

-------------------------------------------------------------------------------
\* The bound of the run: while several nodes take part, the largest hash stays unused.
OneNodeOrFewBlocks ==
    \/ \E h \in Hashes \ DOMAIN produced : \A g \in Hashes : g <= h
    \/ \E n \in Nodes : \A m \in Nodes \ {n} : chain[m] = genesis

NodeSymmetry == Permutations(Nodes)

===============================================================================
