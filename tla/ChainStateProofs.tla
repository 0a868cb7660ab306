--------------------------- MODULE ChainStateProofs ---------------------------
(***************************************************************************)
(* Safety of fork choice and finality (module ChainState) for any number   *)
(* of nodes, blocks, slots and producers and for every k.                  *)
(*                                                                         *)
(* The inductive invariant has two halves.  Tree(P) says that the produced *)
(* blocks form a tree rooted in genesis: a lineage is a chain with one     *)
(* block per height.  ChainInv(P, cs) says what one ChainState knows of    *)
(* that tree.  Every node is treated alone; only the last two theorems     *)
(* compare nodes.                                                          *)
(***************************************************************************)
EXTENDS ChainState, SumTheorems, TLAPS

\* The (slot, producer) key of an entry.
KeyOf(e) == <<e.slot, e.producer>>

TreeBlock(P, h) ==
    /\ P[h] \in Entries(DOMAIN P)
    /\ P[h].hash = h
    /\ h \in P[h].lineage
    /\ ZERO \in P[h].lineage
    /\ h # ZERO => /\ P[h].parent_hash # h
                   /\ P[h].lineage = P[P[h].parent_hash].lineage \cup {h}

TreeLineage(P, h) ==
    /\ \A a \in P[h].lineage : P[a].lineage \subseteq P[h].lineage
    /\ \A a \in P[h].lineage : a = h \/ P[a].height < P[h].height
    /\ \A a, b \in P[h].lineage : P[a].height <= P[b].height => a \in P[b].lineage
    /\ \A i \in 0..P[h].height : \E a \in P[h].lineage : P[a].height = i

Tree(P) ==
    /\ ZERO \in DOMAIN P /\ P[ZERO] = GenesisEntry
    /\ DOMAIN P \subseteq Hashes \cup {ZERO}
    /\ P = [h \in DOMAIN P |-> P[h]]
    /\ \A h \in DOMAIN P : TreeBlock(P, h)
    /\ \A h \in DOMAIN P : TreeLineage(P, h)

Shape(cs) ==
    cs = [entries |-> cs.entries, tip |-> cs.tip, final_hash |-> cs.final_hash,
          final_height |-> cs.final_height, slot_producers |-> cs.slot_producers,
          equivocations |-> cs.equivocations]

Stored(P, cs) ==
    /\ known(cs) \subseteq DOMAIN P
    /\ ZERO \in known(cs)
    /\ \A h \in known(cs) : cs.entries[h] = P[h] /\ P[h].lineage \subseteq known(cs)

TipInv(cs) ==
    /\ cs.tip \in known(cs)
    /\ \A h \in known(cs) : ~Better(cs.entries[h], cs.entries[cs.tip])

FinalInv(cs) ==
    /\ cs.final_hash \in known(cs)
    /\ cs.final_height = cs.entries[cs.final_hash].height
    /\ cs.final_hash \in cs.entries[cs.tip].lineage
    /\ cs.final_height = IF tip_height(cs) > k_finality
                         THEN tip_height(cs) - k_finality ELSE 0

Evidence(cs) ==
    /\ DOMAIN cs.slot_producers \subseteq Keys
    /\ DOMAIN cs.equivocations \subseteq Keys
    /\ \A h \in known(cs) \ {ZERO} : KeyOf(cs.entries[h]) \in DOMAIN cs.slot_producers
    /\ \A key \in DOMAIN cs.slot_producers :
          /\ cs.slot_producers[key] \in known(cs) \ {ZERO}
          /\ KeyOf(cs.entries[cs.slot_producers[key]]) = key
    /\ \A g, h \in known(cs) \ {ZERO} :
          g # h /\ KeyOf(cs.entries[g]) = KeyOf(cs.entries[h])
          => KeyOf(cs.entries[g]) \in DOMAIN cs.equivocations
    /\ \A key \in DOMAIN cs.equivocations :
          LET proof == cs.equivocations[key] IN
          /\ proof.first # proof.second
          /\ proof.first \in known(cs) \ {ZERO} /\ KeyOf(cs.entries[proof.first]) = key
          /\ proof.second \in known(cs) \ {ZERO} /\ KeyOf(cs.entries[proof.second]) = key

ChainInv(P, cs) ==
    /\ Shape(cs)
    /\ Stored(P, cs)
    /\ TipInv(cs)
    /\ FinalInv(cs)
    /\ Evidence(cs)

IInv ==
    /\ Tree(produced)
    /\ chain = [n \in Nodes |-> chain[n]]
    /\ \A n \in Nodes : ChainInv(produced, chain[n])

-------------------------------------------------------------------------------
\* Put adds or replaces exactly one pair (BTreeMap::insert).
LEMMA PutFacts ==
    ASSUME NEW f, NEW x, NEW v
    PROVE  /\ DOMAIN Put(f, x, v) = DOMAIN f \cup {x}
           /\ Put(f, x, v)[x] = v
           /\ \A y \in DOMAIN f : y # x => Put(f, x, v)[y] = f[y]
           /\ Put(f, x, v) = [y \in DOMAIN Put(f, x, v) |-> Put(f, x, v)[y]]
  BY DEF Put

\* A block that extends any block of the tree gives a tree again.
LEMMA TreeProduce ==
    ASSUME NEW P, Tree(P), NEW h \in Hashes, h \notin DOMAIN P,
           NEW p \in DOMAIN P, NEW s \in 1..MaxSlot, NEW q \in Producers
    PROVE  Tree(Put(P, h, ChainEntry(h, P[p], s, q)))
  <1> DEFINE e == ChainEntry(h, P[p], s, q)
             Q == Put(P, h, e)
  <1> HIDE DEF e
  <1>1. /\ DOMAIN Q = DOMAIN P \cup {h}
        /\ Q[h] = e
        /\ \A y \in DOMAIN P : Q[y] = P[y]
        /\ Q = [y \in DOMAIN Q |-> Q[y]]
    BY DEF Put
  <1>2. /\ e.hash = h /\ e.parent_hash = p /\ e.height = P[p].height + 1
        /\ e.slot = s /\ e.producer = q /\ e.lineage = P[p].lineage \cup {h}
        /\ e = [hash |-> h, parent_hash |-> p, height |-> P[p].height + 1,
                slot |-> s, producer |-> q, lineage |-> P[p].lineage \cup {h}]
    BY DEF e, ChainEntry, Tree, TreeBlock
  <1> HIDE DEF Q
  <1>3. h # ZERO /\ h \in Nat
    BY HashesAssumption DEF ZERO
  <1>4. \A x \in DOMAIN P : /\ P[x].lineage \subseteq DOMAIN P
                            /\ P[x].height \in Nat
                            /\ P[x].parent_hash \in DOMAIN P
    BY DEF Tree, TreeBlock, Entries
  <1>5. \A x \in DOMAIN Q : TreeBlock(Q, x)
    <2> SUFFICES ASSUME NEW x \in DOMAIN Q PROVE TreeBlock(Q, x)
      OBVIOUS
    <2>1. CASE x = h
      <3>1. Q[x] \in Entries(DOMAIN Q)
        BY <1>1, <1>2, <1>4, <2>1, SlotAssumption DEF Entries
      <3>2. h \in e.lineage /\ ZERO \in e.lineage
        BY <1>2 DEF Tree, TreeBlock
      <3> QED
        BY <1>1, <1>2, <2>1, <3>1, <3>2 DEF TreeBlock
    <2>2. CASE x \in DOMAIN P
      <3>1. TreeBlock(P, x) /\ Q[x] = P[x]
        BY <1>1, <2>2 DEF Tree
      <3>2. Q[x] \in Entries(DOMAIN Q)
        BY <1>1, <3>1 DEF TreeBlock, Entries
      <3>3. Q[P[x].parent_hash] = P[P[x].parent_hash]
        BY <1>1, <1>4, <2>2
      <3> QED
        BY <3>1, <3>2, <3>3 DEF TreeBlock
    <2> QED
      BY <1>1, <2>1, <2>2
  <1>6. \A x \in DOMAIN Q : TreeLineage(Q, x)
    <2> SUFFICES ASSUME NEW x \in DOMAIN Q PROVE TreeLineage(Q, x)
      OBVIOUS
    <2>1. CASE x \in DOMAIN P
      <3>1. TreeLineage(P, x) /\ Q[x] = P[x] /\ \A a \in P[x].lineage : Q[a] = P[a]
        BY <1>1, <1>4, <2>1 DEF Tree
      <3> QED
        BY <3>1 DEF TreeLineage
    <2>2. CASE x = h
      <3>0. TreeLineage(P, p) /\ P[p].height \in Nat
        BY <1>4 DEF Tree
      <3>1. \A a \in P[p].lineage :
               /\ a \in DOMAIN P /\ a # h /\ Q[a] = P[a] /\ P[a].height \in Nat
               /\ P[a].lineage \subseteq P[p].lineage
               /\ P[a].height < e.height
        <4> SUFFICES ASSUME NEW a \in P[p].lineage
                     PROVE  /\ a \in DOMAIN P /\ a # h /\ Q[a] = P[a] /\ P[a].height \in Nat
                            /\ P[a].lineage \subseteq P[p].lineage
                            /\ P[a].height < e.height
          OBVIOUS
        <4>1. a \in DOMAIN P /\ a # h /\ Q[a] = P[a] /\ P[a].height \in Nat
          BY <1>1, <1>4
        <4>2. P[a].lineage \subseteq P[p].lineage /\ (a = p \/ P[a].height < P[p].height)
          BY <3>0 DEF TreeLineage
        <4> QED
          BY <1>2, <3>0, <4>1, <4>2
      <3>2. \A a \in e.lineage : Q[a].lineage \subseteq e.lineage
        BY <1>1, <1>2, <3>1
      <3>3. \A a \in e.lineage : a = h \/ Q[a].height < e.height
        BY <1>1, <1>2, <3>1
      <3>4. ASSUME NEW a \in e.lineage, NEW b \in e.lineage, Q[a].height <= Q[b].height
            PROVE  a \in Q[b].lineage
        <4>1. CASE b = h
          BY <1>1, <4>1
        <4>2. CASE b # h /\ a = h
          BY <1>1, <1>2, <3>0, <3>1, <3>4, <4>2
        <4>3. CASE b # h /\ a # h
          BY <1>2, <3>0, <3>1, <3>4, <4>3 DEF TreeLineage
        <4> QED
          BY <4>1, <4>2, <4>3
      <3>5. ASSUME NEW i \in 0..e.height
            PROVE  \E a \in e.lineage : Q[a].height = i
        <4>1. CASE i = e.height
          BY <1>1, <1>2, <4>1
        <4>2. CASE i # e.height
          <5>1. i \in 0..P[p].height
            BY <1>2, <3>0, <4>2
          <5> QED
            BY <1>2, <3>0, <3>1, <5>1 DEF TreeLineage
        <4> QED
          BY <4>1, <4>2
      <3> QED
        BY <1>1, <2>2, <3>2, <3>3, <3>4, <3>5 DEF TreeLineage
    <2> QED
      BY <1>1, <2>1, <2>2
  <1>7. ZERO \in DOMAIN Q /\ Q[ZERO] = GenesisEntry
    BY <1>1 DEF Tree
  <1> QED
    BY <1>1, <1>5, <1>6, <1>7 DEF Tree, Q, e

\* What the other lemmas need to know of the entries of a stored tree.
LEMMA StoredFacts ==
    ASSUME NEW P, Tree(P), NEW cs, Stored(P, cs)
    PROVE  \A h \in known(cs) :
             /\ h \in DOMAIN P /\ cs.entries[h] = P[h]
             /\ P[h].hash = h /\ h \in Nat /\ P[h].height \in Nat
             /\ h \in P[h].lineage /\ P[h].lineage \subseteq known(cs)
             /\ KeyOf(P[h]) \in Keys
  <1> SUFFICES ASSUME NEW h \in known(cs)
               PROVE  /\ h \in DOMAIN P /\ cs.entries[h] = P[h]
                      /\ P[h].hash = h /\ h \in Nat /\ P[h].height \in Nat
                      /\ h \in P[h].lineage /\ P[h].lineage \subseteq known(cs)
                      /\ KeyOf(P[h]) \in Keys
    OBVIOUS
  <1>1. h \in DOMAIN P /\ cs.entries[h] = P[h] /\ P[h].lineage \subseteq known(cs)
    BY DEF Stored
  <1>2. TreeBlock(P, h) /\ h \in Hashes \cup {ZERO}
    BY <1>1 DEF Tree
  <1>3. P[h].slot \in 0..MaxSlot /\ P[h].producer \in Producers \cup {ZERO}
        /\ P[h].height \in Nat /\ P[h].hash = h /\ h \in P[h].lineage
    BY <1>2 DEF TreeBlock, Entries
  <1>4. KeyOf(P[h]) \in Keys
    BY <1>3 DEF KeyOf, Keys
  <1>5. h \in Nat
    BY <1>2, HashesAssumption DEF ZERO
  <1> QED
    BY <1>1, <1>3, <1>4, <1>5

\* Storing an accepted block and indexing its (slot, producer) keeps the
\* store a part of the tree and the evidence sound and complete.
LEMMA StoreBlock ==
    ASSUME NEW P, Tree(P), NEW cs, ChainInv(P, cs),
           NEW h \in DOMAIN P, h \notin known(cs), P[h].parent_hash \in known(cs),
           NEW c2, c2 = record_equivocation(insert(cs, P[h]), P[h])
    PROVE  /\ Shape(c2)
           /\ c2.tip = cs.tip /\ c2.final_hash = cs.final_hash
           /\ c2.final_height = cs.final_height
           /\ known(c2) = known(cs) \cup {h}
           /\ Stored(P, c2)
           /\ Evidence(c2)
  <1> DEFINE e == P[h]
             c1 == insert(cs, e)
             key == KeyOf(e)
  <1>1. e.hash = h /\ h # ZERO /\ TreeBlock(P, h)
    BY DEF Tree, TreeBlock, ChainInv, Stored
  <1>2. /\ Shape(c1)
        /\ c1.tip = cs.tip /\ c1.final_hash = cs.final_hash
        /\ c1.final_height = cs.final_height
        /\ c1.slot_producers = cs.slot_producers /\ c1.equivocations = cs.equivocations
        /\ c1.entries = Put(cs.entries, h, e)
    BY <1>1 DEF insert, Shape, ChainInv
  <1>3. /\ known(c1) = known(cs) \cup {h}
        /\ c1.entries[h] = e
        /\ \A g \in known(cs) : c1.entries[g] = cs.entries[g]
    BY <1>2 DEF known, Put
  <1> HIDE DEF c1
  <1>4. Stored(P, c1)
    <2>1. e.lineage = P[e.parent_hash].lineage \cup {h}
      BY <1>1 DEF TreeBlock
    <2>2. P[e.parent_hash].lineage \subseteq known(cs)
      BY DEF ChainInv, Stored
    <2> QED
      BY <1>3, <2>1, <2>2 DEF ChainInv, Stored
  <1>5. key \in Keys
    BY <1>1 DEF TreeBlock, Entries, KeyOf, Keys
  <1>6. \A g \in known(cs) \ {ZERO} : g # h /\ KeyOf(c1.entries[g]) = KeyOf(cs.entries[g])
    BY <1>3
  <1>7. Evidence(cs)
    BY DEF ChainInv
  <1>8. CASE key \notin DOMAIN cs.slot_producers
    <2>1. c2 = [c1 EXCEPT !.slot_producers = Put(@, key, h)]
      BY <1>1, <1>2, <1>8 DEF record_equivocation, c1, KeyOf
    <2>2. /\ Shape(c2) /\ c2.entries = c1.entries /\ c2.tip = c1.tip
          /\ c2.final_hash = c1.final_hash /\ c2.final_height = c1.final_height
          /\ c2.equivocations = c1.equivocations
          /\ c2.slot_producers = Put(c1.slot_producers, key, h)
      BY <1>2, <2>1 DEF Shape
    <2>3. /\ DOMAIN c2.slot_producers = DOMAIN cs.slot_producers \cup {key}
          /\ c2.slot_producers[key] = h
          /\ \A k \in DOMAIN cs.slot_producers : c2.slot_producers[k] = cs.slot_producers[k]
      BY <1>2, <1>8, <2>2 DEF Put
    <2>4. known(c2) = known(cs) \cup {h}
      BY <1>3, <2>2 DEF known
    <2>5. Evidence(c2)
      <3>1. \A g \in known(c2) \ {ZERO} :
               KeyOf(c2.entries[g]) \in DOMAIN c2.slot_producers
        BY <1>3, <1>6, <1>7, <2>2, <2>3, <2>4 DEF Evidence
      <3>2. \A k \in DOMAIN c2.slot_producers :
               /\ c2.slot_producers[k] \in known(c2) \ {ZERO}
               /\ KeyOf(c2.entries[c2.slot_producers[k]]) = k
        BY <1>1, <1>3, <1>6, <1>7, <2>2, <2>3, <2>4 DEF Evidence
      <3>3. \A f, g \in known(c2) \ {ZERO} :
               f # g /\ KeyOf(c2.entries[f]) = KeyOf(c2.entries[g])
               => KeyOf(c2.entries[f]) \in DOMAIN c2.equivocations
        BY <1>2, <1>3, <1>6, <1>7, <1>8, <2>2, <2>4 DEF Evidence
      <3>4. DOMAIN c2.slot_producers \subseteq Keys /\ DOMAIN c2.equivocations \subseteq Keys
        BY <1>2, <1>5, <1>7, <2>2, <2>3 DEF Evidence
      <3>5. \A k \in DOMAIN c2.equivocations :
              LET proof == c2.equivocations[k] IN
              /\ proof.first # proof.second
              /\ proof.first \in known(c2) \ {ZERO} /\ KeyOf(c2.entries[proof.first]) = k
              /\ proof.second \in known(c2) \ {ZERO} /\ KeyOf(c2.entries[proof.second]) = k
        BY <1>2, <1>6, <1>7, <2>2, <2>4 DEF Evidence
      <3> QED
        BY <3>1, <3>2, <3>3, <3>4, <3>5 DEF Evidence
    <2> QED
      BY <1>2, <1>4, <2>2, <2>4, <2>5 DEF Stored, known
  <1>9. CASE key \in DOMAIN cs.slot_producers
    <2> DEFINE fst == cs.slot_producers[key]
               pf == [first |-> fst, second |-> h]
    <2>1. fst \in known(cs) \ {ZERO} /\ fst # h /\ KeyOf(cs.entries[fst]) = key
      BY <1>7, <1>9 DEF Evidence
    <2>2. c2 = IF key \notin DOMAIN cs.equivocations
               THEN [c1 EXCEPT !.equivocations = Put(@, key, pf)] ELSE c1
      BY <1>1, <1>2, <1>9, <2>1 DEF record_equivocation, c1, KeyOf
    <2> HIDE DEF fst
    <2>3. /\ Shape(c2) /\ c2.entries = c1.entries /\ c2.tip = c1.tip
          /\ c2.final_hash = c1.final_hash /\ c2.final_height = c1.final_height
          /\ c2.slot_producers = cs.slot_producers
          /\ c2.equivocations = IF key \notin DOMAIN cs.equivocations
                                THEN Put(cs.equivocations, key, pf) ELSE cs.equivocations
      BY <1>2, <2>2 DEF Shape
    <2>4. /\ DOMAIN c2.equivocations = DOMAIN cs.equivocations \cup {key}
          /\ \A k \in DOMAIN cs.equivocations : c2.equivocations[k] = cs.equivocations[k]
          /\ key \notin DOMAIN cs.equivocations => c2.equivocations[key] = pf
      BY <2>3 DEF Put
    <2>5. known(c2) = known(cs) \cup {h}
      BY <1>3, <2>3 DEF known
    <2>6. Evidence(c2)
      <3>1. \A g \in known(c2) \ {ZERO} :
               KeyOf(c2.entries[g]) \in DOMAIN c2.slot_producers
        BY <1>3, <1>6, <1>7, <1>9, <2>3, <2>5 DEF Evidence
      <3>2. \A k \in DOMAIN c2.slot_producers :
               /\ c2.slot_producers[k] \in known(c2) \ {ZERO}
               /\ KeyOf(c2.entries[c2.slot_producers[k]]) = k
        BY <1>6, <1>7, <2>3, <2>5 DEF Evidence
      <3>3. \A f, g \in known(c2) \ {ZERO} :
               f # g /\ KeyOf(c2.entries[f]) = KeyOf(c2.entries[g])
               => KeyOf(c2.entries[f]) \in DOMAIN c2.equivocations
        BY <1>3, <1>6, <1>7, <2>3, <2>4, <2>5 DEF Evidence
      <3>4. DOMAIN c2.slot_producers \subseteq Keys /\ DOMAIN c2.equivocations \subseteq Keys
        BY <1>5, <1>7, <2>3, <2>4 DEF Evidence
      <3>5. ASSUME NEW k \in DOMAIN c2.equivocations
            PROVE LET proof == c2.equivocations[k] IN
              /\ proof.first # proof.second
              /\ proof.first \in known(c2) \ {ZERO} /\ KeyOf(c2.entries[proof.first]) = k
              /\ proof.second \in known(c2) \ {ZERO} /\ KeyOf(c2.entries[proof.second]) = k
        <4>1. CASE k \in DOMAIN cs.equivocations
          BY <1>6, <1>7, <2>3, <2>4, <2>5, <4>1 DEF Evidence
        <4>2. CASE k \notin DOMAIN cs.equivocations
          <5>1. k = key /\ c2.equivocations[k] = pf
            BY <2>4, <4>2
          <5>2. c2.equivocations[k].first = fst /\ c2.equivocations[k].second = h
            BY <5>1
          <5> QED
            BY <1>1, <1>3, <1>6, <2>1, <2>3, <2>5, <5>1, <5>2
        <4> QED
          BY <4>1, <4>2
      <3> QED
        BY <3>1, <3>2, <3>3, <3>4, <3>5 DEF Evidence
    <2> QED
      BY <1>2, <1>4, <2>3, <2>5, <2>6 DEF Stored, known
  <1> QED
    BY <1>8, <1>9

\* advance_finality finds the block k below the tip: it is on the tip's
\* chain, at or above the old final block, which stays an ancestor.
LEMMA AdvanceFinality ==
    ASSUME NEW P, Tree(P), NEW cs, Shape(cs), Stored(P, cs),
           cs.tip \in known(cs), cs.final_hash \in known(cs),
           cs.final_height = cs.entries[cs.final_hash].height,
           cs.final_hash \in cs.entries[cs.tip].lineage,
           \/ cs.final_height = 0
           \/ cs.final_height <= tip_height(cs) - k_finality,
           NEW ct, ct = advance_finality(cs)
    PROVE  /\ Shape(ct)
           /\ ct.entries = cs.entries /\ ct.tip = cs.tip
           /\ ct.slot_producers = cs.slot_producers /\ ct.equivocations = cs.equivocations
           /\ FinalInv(ct)
           /\ cs.final_hash \in P[ct.final_hash].lineage
  <1> DEFINE t == cs.tip
             target == tip_height(cs) - k_finality
             walked == {h \in cs.entries[t].lineage : cs.entries[h].height = target}
  <1>1. /\ tip_height(cs) \in Nat /\ tip_height(cs) = P[t].height
        /\ cs.final_height \in Nat /\ target \in Int
        /\ cs.final_hash \in P[cs.final_hash].lineage
        /\ t \in DOMAIN P /\ cs.entries[t] = P[t] /\ P[t].lineage \subseteq known(cs)
        /\ \A h \in known(cs) : cs.entries[h] = P[h]
    BY StoredFacts, FinalityAssumption DEF tip_height
  <1>2. TreeLineage(P, t)
    BY <1>1 DEF Tree
  <1>3. CASE target <= cs.final_height
    <2>1. ct = cs
      BY <1>3 DEF advance_finality
    <2> QED
      BY <1>1, <1>3, <2>1, FinalityAssumption DEF FinalInv
  <1>4. CASE ~(target <= cs.final_height)
    <2>1. target \in 0..P[t].height
      BY <1>1, <1>4, FinalityAssumption
    <2>2. walked # {}
      <3>1. PICK a \in P[t].lineage : P[a].height = target
        BY <1>2, <2>1 DEF TreeLineage
      <3>2. a \in walked
        BY <1>1, <3>1
      <3> QED
        BY <3>2
    <2> DEFINE f == CHOOSE h \in walked : TRUE
    <2>3. f \in walked
      BY <2>2
    <2>4. ct = [cs EXCEPT !.final_hash = f, !.final_height = target]
      BY <1>4, <2>2 DEF advance_finality
    <2> HIDE DEF f
    <2>5. /\ Shape(ct) /\ ct.final_hash = f /\ ct.final_height = target
          /\ ct.entries = cs.entries /\ ct.tip = cs.tip
          /\ ct.slot_producers = cs.slot_producers /\ ct.equivocations = cs.equivocations
      BY <2>4 DEF Shape
    <2>6. f \in P[t].lineage /\ f \in known(cs) /\ cs.entries[f] = P[f] /\ P[f].height = target
      BY <1>1, <2>3
    <2>7. cs.final_hash \in P[f].lineage
      <3>1. cs.final_hash \in P[t].lineage /\ P[cs.final_hash].height <= P[f].height
        BY <1>1, <1>4, <2>6
      <3> QED
        BY <1>2, <2>6, <3>1 DEF TreeLineage
    <2>8. tip_height(ct) = tip_height(cs) /\ known(ct) = known(cs)
      BY <2>5 DEF tip_height, known
    <2>9. tip_height(cs) > k_finality
      BY <1>1, <1>4, FinalityAssumption
    <2>10. FinalInv(ct)
      BY <1>1, <2>5, <2>6, <2>8, <2>9 DEF FinalInv
    <2> QED
      BY <2>5, <2>7, <2>10
  <1> QED
    BY <1>3, <1>4

\* add_block preserves the invariant of one ChainState and never takes
\* finality back, whichever produced block it is given.
LEMMA AddBlock ==
    ASSUME NEW P, Tree(P), NEW cs, ChainInv(P, cs), NEW h \in DOMAIN P,
           NEW ct, ct = add_block(cs, P[h])
    PROVE  /\ ChainInv(P, ct)
           /\ known(cs) \subseteq known(ct)
           /\ cs.final_hash \in P[ct.final_hash].lineage
  <1> DEFINE e == P[h]
             c2 == record_equivocation(insert(cs, e), e)
  <1>1. /\ Stored(P, cs) /\ TipInv(cs) /\ FinalInv(cs) /\ Shape(cs)
        /\ e.hash = h /\ TreeBlock(P, h) /\ TreeLineage(P, h)
    BY DEF ChainInv, Tree, TreeBlock
  <1>2. cs.final_hash \in P[cs.final_hash].lineage
    BY <1>1, StoredFacts DEF FinalInv
  <1>3. CASE add_block_result(cs, e) # "Ok"
    BY <1>2, <1>3 DEF add_block
  <1>4. CASE add_block_result(cs, e) = "Ok"
    <2>1. /\ e.parent_hash \in known(cs) /\ h \notin known(cs)
          /\ is_ancestor(cs, cs.final_hash, e.parent_hash)
      BY <1>1, <1>4 DEF add_block_result
    <2>2. ct = IF becomes_tip(c2, e) THEN advance_finality([c2 EXCEPT !.tip = h]) ELSE c2
      BY <1>1, <1>4 DEF add_block
    <2> HIDE DEF c2
    <2>3. /\ Shape(c2)
          /\ c2.tip = cs.tip /\ c2.final_hash = cs.final_hash
          /\ c2.final_height = cs.final_height
          /\ known(c2) = known(cs) \cup {h}
          /\ Stored(P, c2)
          /\ Evidence(c2)
      BY <2>1, StoreBlock DEF c2
    <2>4. /\ \A g \in known(cs) : c2.entries[g] = cs.entries[g] /\ c2.entries[g] = P[g]
          /\ c2.entries[h] = e
      BY <1>1, <2>3 DEF Stored
    <2>5. /\ \A g \in known(c2) : c2.entries[g].height \in Nat /\ c2.entries[g].hash = g /\ g \in Nat
          /\ cs.tip \in known(c2) /\ h \in known(c2)
          /\ tip_height(c2) = tip_height(cs)
      BY <1>1, <2>3, <2>4, StoredFacts DEF TipInv, tip_height
    <2>6. CASE ~becomes_tip(c2, e)
      <3>1. ct = c2
        BY <2>2, <2>6
      <3>2. TipInv(c2)
        BY <1>1, <2>3, <2>4, <2>5, <2>6 DEF TipInv, Better, becomes_tip, tip_height
      <3>3. FinalInv(c2)
        BY <1>1, <2>3, <2>4, <2>5 DEF FinalInv, TipInv
      <3> QED
        BY <1>2, <2>3, <3>1, <3>2, <3>3 DEF ChainInv
    <2>7. CASE becomes_tip(c2, e)
      <3> DEFINE c3 == [c2 EXCEPT !.tip = h]
      <3>1. /\ Shape(c3) /\ c3.entries = c2.entries /\ c3.tip = h
            /\ c3.final_hash = cs.final_hash /\ c3.final_height = cs.final_height
            /\ c3.slot_producers = c2.slot_producers /\ c3.equivocations = c2.equivocations
        BY <2>3 DEF Shape
      <3>2. ct = advance_finality(c3)
        BY <2>2, <2>7
      <3> HIDE DEF c3
      <3>3. known(c3) = known(c2) /\ Stored(P, c3)
        BY <2>3, <3>1 DEF Stored, known
      <3>4. cs.final_hash \in e.lineage
        BY <1>1, <2>1, <2>4 DEF is_ancestor, TreeBlock, Stored
      <3>5. tip_height(c3) >= tip_height(cs) /\ tip_height(c3) \in Nat /\ tip_height(cs) \in Nat
            /\ tip_height(c3) = e.height
        BY <2>3, <2>4, <2>5, <2>7, <3>1 DEF becomes_tip, tip_height
      <3>6. /\ c3.final_hash \in known(c3)
            /\ c3.final_height = c3.entries[c3.final_hash].height
            /\ c3.final_hash \in c3.entries[c3.tip].lineage
            /\ (c3.final_height = 0 \/ c3.final_height <= tip_height(c3) - k_finality)
        <4>1. cs.final_hash \in known(cs) /\ cs.final_height = cs.entries[cs.final_hash].height
          BY <1>1 DEF FinalInv
        <4>2. cs.final_height = 0 \/ cs.final_height <= tip_height(c3) - k_finality
          BY <1>1, <3>5, FinalityAssumption DEF FinalInv
        <4> QED
          BY <2>3, <2>4, <3>1, <3>3, <3>4, <4>1, <4>2
      <3>7. /\ Shape(ct)
            /\ ct.entries = c3.entries /\ ct.tip = c3.tip
            /\ ct.slot_producers = c3.slot_producers /\ ct.equivocations = c3.equivocations
            /\ FinalInv(ct)
            /\ c3.final_hash \in P[ct.final_hash].lineage
        BY <2>5, <3>1, <3>2, <3>3, <3>6, AdvanceFinality
      <3>8. known(ct) = known(c2) /\ ct.entries = c2.entries
        BY <3>1, <3>7 DEF known
      <3>9. TipInv(ct)
        <4>1. \A g \in known(cs) : ~Better(c2.entries[g], c2.entries[cs.tip])
          BY <1>1, <2>4 DEF TipInv
        <4>2. \A g \in known(cs) : ~Better(c2.entries[g], e)
          BY <1>1, <2>3, <2>4, <2>5, <2>7, <4>1 DEF Better, becomes_tip, tip_height
        <4>3. ~Better(e, e)
          BY <2>4, <2>5 DEF Better
        <4> QED
          BY <2>3, <2>4, <2>5, <3>1, <3>7, <3>8, <4>2, <4>3 DEF TipInv
      <3>10. Stored(P, ct) /\ Evidence(ct)
        BY <2>3, <3>1, <3>7, <3>8 DEF Stored, Evidence
      <3> QED
        BY <2>3, <3>1, <3>7, <3>8, <3>9, <3>10 DEF ChainInv
    <2> QED
      BY <2>6, <2>7
  <1> QED
    BY <1>3, <1>4

-------------------------------------------------------------------------------
\* Genesis satisfies the invariant.
LEMMA InitIInv == Init => IInv
  <1> SUFFICES ASSUME Init PROVE IInv
    OBVIOUS
  <1> DEFINE P == [h \in {ZERO} |-> GenesisEntry]
  <1>1. produced = P /\ chain = [n \in Nodes |-> genesis]
    BY DEF Init
  <1>2. DOMAIN P = {ZERO} /\ P[ZERO] = GenesisEntry
    OBVIOUS
  <1>3. Tree(P)
    <2>1. TreeBlock(P, ZERO)
      BY <1>2, SlotAssumption DEF TreeBlock, GenesisEntry, Entries, ZERO
    <2>2. TreeLineage(P, ZERO)
      BY <1>2 DEF TreeLineage, GenesisEntry, ZERO
    <2> QED
      BY <1>2, <2>1, <2>2 DEF Tree
  <1>4. ChainInv(P, genesis)
    <2>1. /\ genesis.entries = P /\ genesis.tip = ZERO /\ genesis.final_hash = ZERO
          /\ genesis.final_height = 0 /\ known(genesis) = {ZERO}
          /\ DOMAIN genesis.slot_producers = {} /\ DOMAIN genesis.equivocations = {}
      BY DEF genesis, known, EmptyMap
    <2>2. GenesisEntry.height = 0 /\ GenesisEntry.lineage = {ZERO} /\ GenesisEntry.hash = ZERO
      BY DEF GenesisEntry
    <2>3. Shape(genesis)
      BY DEF Shape, genesis
    <2>4. Stored(P, genesis) /\ TipInv(genesis)
      BY <1>2, <2>1, <2>2 DEF Stored, TipInv, Better, ZERO
    <2>5. FinalInv(genesis)
      BY <1>2, <2>1, <2>2, FinalityAssumption DEF FinalInv, tip_height
    <2>6. Evidence(genesis)
      BY <2>1 DEF Evidence
    <2> QED
      BY <2>3, <2>4, <2>5, <2>6 DEF ChainInv
  <1> HIDE DEF P
  <1> QED
    BY <1>1, <1>3, <1>4 DEF IInv

\* Producing a block leaves every stored chain as it was.
LEMMA ProduceIInv ==
    ASSUME IInv, NEW h \in Hashes, NEW p \in Hashes \cup {ZERO}, NEW s \in 1..MaxSlot,
           NEW q \in Producers, Produce(h, p, s, q)
    PROVE  IInv'
  <1>1. Tree(produced')
    BY TreeProduce DEF IInv, Produce
  <1>2. /\ DOMAIN produced' = DOMAIN produced \cup {h}
        /\ \A g \in DOMAIN produced : produced'[g] = produced[g]
        /\ chain' = chain
    BY DEF Produce, Put
  <1>3. ASSUME NEW n \in Nodes PROVE ChainInv(produced', chain[n])
    BY <1>2 DEF IInv, ChainInv, Stored
  <1> QED
    BY <1>1, <1>2, <1>3 DEF IInv

\* Delivering any produced block to any node, and what it does to finality.
LEMMA DeliverIInv ==
    ASSUME IInv, NEW m \in Nodes, NEW h \in Hashes, Deliver(m, h)
    PROVE  /\ IInv'
           /\ \A n \in Nodes : /\ known(chain[n]) \subseteq known(chain'[n])
                              /\ chain[n].final_hash \in produced[chain'[n].final_hash].lineage
  <1>1. /\ h \in DOMAIN produced /\ produced' = produced
        /\ chain' = [chain EXCEPT ![m] = add_block(chain[m], produced[h])]
    BY DEF Deliver
  <1>2. /\ chain' = [n \in Nodes |-> chain'[n]]
        /\ chain'[m] = add_block(chain[m], produced[h])
        /\ \A n \in Nodes \ {m} : chain'[n] = chain[n]
    BY <1>1 DEF IInv
  <1>3. /\ ChainInv(produced, chain'[m])
        /\ known(chain[m]) \subseteq known(chain'[m])
        /\ chain[m].final_hash \in produced[chain'[m].final_hash].lineage
    BY <1>1, <1>2, AddBlock DEF IInv
  <1>4. \A n \in Nodes : chain[n].final_hash \in produced[chain[n].final_hash].lineage
    BY StoredFacts DEF IInv, ChainInv, FinalInv
  <1>5. \A n \in Nodes : ChainInv(produced', chain'[n])
    BY <1>1, <1>2, <1>3 DEF IInv
  <1>6. IInv'
    BY <1>1, <1>2, <1>5 DEF IInv
  <1> QED
    BY <1>2, <1>3, <1>4, <1>6

\* The inductive invariant holds in every reachable state.
THEOREM Invariance == Spec => []IInv
  <1>1. IInv /\ [Next]_vars => IInv'
    <2> SUFFICES ASSUME IInv, [Next]_vars PROVE IInv'
      OBVIOUS
    <2>1. ASSUME NEW h \in Hashes, NEW p \in Hashes \cup {ZERO}, NEW s \in 1..MaxSlot,
                 NEW q \in Producers, Produce(h, p, s, q)
          PROVE  IInv'
      BY <2>1, ProduceIInv
    <2>2. ASSUME NEW n \in Nodes, NEW h \in Hashes, Deliver(n, h)
          PROVE  IInv'
      BY <2>2, DeliverIInv
    <2>3. CASE UNCHANGED vars
      BY <2>3 DEF vars, IInv
    <2> QED
      BY <2>1, <2>2, <2>3 DEF Next
  <1> QED
    BY <1>1, InitIInv, PTL DEF Spec

\* Type correctness.
THEOREM TypeCorrect == Spec => []TypeOK
  <1>1. IInv => TypeOK
    <2> SUFFICES ASSUME IInv PROVE TypeOK
      OBVIOUS
    <2> DEFINE D == Hashes \cup {ZERO}
    <2>1. DOMAIN produced \subseteq D
      BY DEF IInv, Tree
    <2>2. \A h \in DOMAIN produced : produced[h] \in Entries(D)
      BY <2>1 DEF IInv, Tree, TreeBlock, Entries
    <2>3. produced \in [DOMAIN produced -> Entries(D)]
      BY <2>2 DEF IInv, Tree
    <2>4. ASSUME NEW n \in Nodes
          PROVE  LET cs == chain[n] IN
                 /\ known(cs) \subseteq DOMAIN produced
                 /\ \A h \in known(cs) : cs.entries[h] = produced[h]
                 /\ cs.tip \in known(cs)
                 /\ cs.final_hash \in known(cs)
                 /\ cs.final_height = cs.entries[cs.final_hash].height
                 /\ DOMAIN cs.slot_producers \subseteq Keys
                 /\ DOMAIN cs.equivocations \subseteq Keys
      BY DEF IInv, ChainInv, Stored, TipInv, FinalInv, Evidence
    <2> QED
      BY <2>1, <2>3, <2>4 DEF TypeOK
  <1> QED
    BY <1>1, Invariance, PTL

\* Fork choice: the tip is the best stored block, whatever the order of arrival.
THEOREM ForkChoice == Spec => []TipIsBest
  <1>1. IInv => TipIsBest
    BY DEF IInv, ChainInv, TipInv, TipIsBest
  <1> QED
    BY <1>1, Invariance, PTL

\* Finality: the final block is on the tip's chain, exactly k below the tip.
THEOREM FinalPoint == Spec => []FinalPointExact
  <1>1. IInv => FinalPointExact
    BY DEF IInv, ChainInv, TipInv, FinalInv, FinalPointExact, is_ancestor
  <1> QED
    BY <1>1, Invariance, PTL

\* Finality is never revoked: is_final, once true of a block, stays true.
THEOREM StickyFinality == Spec => FinalityIsSticky
  <1>1. IInv /\ IInv' /\ [Next]_vars =>
          [\A n \in Nodes : \A h \in known(chain[n]) :
              is_final(chain[n], h) => is_final(chain'[n], h)]_vars
    <2> SUFFICES ASSUME IInv, IInv', [Next]_vars, NEW n \in Nodes, NEW h \in known(chain[n]),
                        is_final(chain[n], h)
                 PROVE  is_final(chain'[n], h)
      OBVIOUS
    <2>1. CASE chain' = chain
      BY <2>1
    <2>2. ASSUME NEW m \in Nodes, NEW b \in Hashes, Deliver(m, b)
          PROVE  is_final(chain'[n], h)
      <3> DEFINE old == chain[n].final_hash
                 new == chain'[n].final_hash
      <3>1. known(chain[n]) \subseteq known(chain'[n]) /\ old \in produced[new].lineage
        BY <2>2, DeliverIInv
      <3>2. produced' = produced
        BY <2>2 DEF Deliver
      <3>3. h \in produced[old].lineage
        BY DEF is_final, is_ancestor, IInv, ChainInv, Stored
      <3>4. new \in known(chain'[n]) /\ chain'[n].entries[new] = produced[new]
            /\ new \in DOMAIN produced
        BY <3>2 DEF IInv, ChainInv, Stored, FinalInv
      <3>5. produced[old].lineage \subseteq produced[new].lineage
        BY <3>1, <3>4 DEF IInv, Tree, TreeLineage
      <3> QED
        BY <3>1, <3>3, <3>4, <3>5 DEF is_final, is_ancestor
    <2> QED
      BY <2>1, <2>2 DEF Next, Produce, vars
  <1> QED
    BY <1>1, Invariance, PTL DEF FinalityIsSticky, Spec

\* Accountability: equivocation evidence is sound and complete.
THEOREM Accountability == Spec => []EquivocationEvidence
  <1>1. IInv => EquivocationEvidence
    <2> SUFFICES ASSUME IInv, NEW n \in Nodes
                 PROVE  LET cs == chain[n]
                            at(key) == {h \in known(cs) \ {ZERO} :
                               <<cs.entries[h].slot, cs.entries[h].producer>> = key}
                        IN  /\ \A key \in DOMAIN cs.equivocations :
                                 LET proof == cs.equivocations[key]
                                 IN  /\ proof.first # proof.second
                                     /\ {proof.first, proof.second} \subseteq at(key)
                            /\ \A g, h \in known(cs) \ {ZERO} :
                                 (g # h /\ h \in at(<<cs.entries[g].slot, cs.entries[g].producer>>))
                                 => <<cs.entries[g].slot, cs.entries[g].producer>>
                                       \in DOMAIN cs.equivocations
      BY DEF EquivocationEvidence
    <2>1. Evidence(chain[n])
      BY DEF IInv, ChainInv
    <2> DEFINE cs == chain[n]
               pair(h) == <<cs.entries[h].slot, cs.entries[h].producer>>
    <2>2. ASSUME NEW key \in DOMAIN cs.equivocations
          PROVE  /\ cs.equivocations[key].first # cs.equivocations[key].second
                 /\ cs.equivocations[key].first \in {h \in known(cs) \ {ZERO} : pair(h) = key}
                 /\ cs.equivocations[key].second \in {h \in known(cs) \ {ZERO} : pair(h) = key}
      BY <2>1 DEF Evidence, KeyOf
    <2>3. ASSUME NEW g \in known(cs) \ {ZERO}, NEW h \in known(cs) \ {ZERO}, g # h, pair(h) = pair(g)
          PROVE  pair(g) \in DOMAIN cs.equivocations
      BY <2>1, <2>3 DEF Evidence, KeyOf
    <2> QED
      BY <2>2, <2>3
  <1> QED
    BY <1>1, Invariance, PTL

\* Order independence: nodes that store the same blocks have the same tip
\* and the same final block.
THEOREM SameBlocks == Spec => []SameBlocksSameChain
  <1>1. IInv => SameBlocksSameChain
    <2> SUFFICES ASSUME IInv, NEW n \in Nodes, NEW m \in Nodes,
                        chain[n].entries = chain[m].entries
                 PROVE  chain[n].tip = chain[m].tip /\ chain[n].final_hash = chain[m].final_hash
      BY DEF SameBlocksSameChain
    <2> DEFINE a == chain[n]
               b == chain[m]
    <2>1. known(a) = known(b)
      BY DEF known
    <2>2. /\ a.tip \in known(a) /\ b.tip \in known(a)
          /\ ~Better(a.entries[a.tip], a.entries[b.tip])
          /\ ~Better(a.entries[b.tip], a.entries[a.tip])
      BY <2>1 DEF IInv, ChainInv, TipInv
    <2>3. \A h \in known(a) : a.entries[h] = produced[h] /\ produced[h].hash = h /\ h \in Nat
                              /\ produced[h].height \in Nat /\ h \in DOMAIN produced
      BY StoredFacts DEF IInv, ChainInv
    <2>4. a.tip = b.tip
      BY <2>2, <2>3 DEF Better
    <2>5. /\ a.final_hash \in known(a) /\ b.final_hash \in known(a)
          /\ a.final_hash \in produced[a.tip].lineage
          /\ b.final_hash \in produced[a.tip].lineage
          /\ produced[a.final_hash].height = produced[b.final_hash].height
      BY <2>1, <2>2, <2>3, <2>4 DEF IInv, ChainInv, FinalInv, tip_height
    <2>6. TreeLineage(produced, a.tip) /\ TreeLineage(produced, b.final_hash)
      BY <2>2, <2>3, <2>5 DEF IInv, Tree
    <2>7. a.final_hash \in produced[b.final_hash].lineage
      BY <2>3, <2>5, <2>6 DEF TreeLineage
    <2>8. a.final_hash = b.final_hash
      BY <2>3, <2>5, <2>6, <2>7 DEF TreeLineage
    <2> QED
      BY <2>4, <2>8
  <1> QED
    BY <1>1, Invariance, PTL

\* A settled node's tip is at least as good as every other node's tip,
\* provided that no fork is deeper than k.
LEMMA SettledTip ==
    ASSUME IInv, ShallowForks, NEW n \in Nodes, Settled(n), NEW m \in Nodes
    PROVE  ~Better(produced[chain[m].tip], produced[chain[n].tip])
  <1> DEFINE x == chain[n].tip
             y == chain[m].tip
             f == chain[n].final_hash
  <1>1. /\ x \in DOMAIN produced /\ produced[x].height \in Nat
        /\ f \in DOMAIN produced /\ produced[f].height \in Nat
        /\ y \in DOMAIN produced /\ produced[y].height \in Nat
        /\ chain[n].entries[x] = produced[x] /\ chain[n].entries[f] = produced[f]
    BY StoredFacts DEF IInv, ChainInv, TipInv, FinalInv
  <1>2. CASE y \in known(chain[n])
    BY <1>1, <1>2 DEF IInv, ChainInv, TipInv, Stored
  <1>3. CASE y \notin known(chain[n])
    <2>1. f \notin produced[y].lineage
      BY <1>1, <1>3 DEF Settled
    <2>2. PICK c \in produced[x].lineage \cap produced[y].lineage :
            \/ produced[x].height - produced[c].height <= k_finality
            \/ produced[y].height - produced[c].height <= k_finality
      BY <1>1 DEF ShallowForks
    <2>3. /\ TreeLineage(produced, x) /\ TreeLineage(produced, y)
          /\ c \in DOMAIN produced /\ produced[c].height \in Nat
          /\ f \in produced[x].lineage
      <3>1. c \in DOMAIN produced
        BY <1>1, <2>2 DEF IInv, Tree, TreeBlock, Entries
      <3> QED
        BY <1>1, <3>1 DEF IInv, Tree, TreeBlock, Entries, ChainInv, FinalInv
    <2>4. produced[c].height < produced[f].height
      <3>1. f \notin produced[c].lineage
        BY <2>1, <2>2, <2>3 DEF TreeLineage
      <3>2. ~(produced[f].height <= produced[c].height)
        BY <2>2, <2>3, <3>1 DEF TreeLineage
      <3> QED
        BY <1>1, <2>3, <3>2
    <2>5. produced[f].height = produced[x].height - k_finality
      BY <1>1, <2>3, <2>4, FinalityAssumption DEF IInv, ChainInv, FinalInv, tip_height
    <2>6. produced[y].height < produced[x].height
      BY <1>1, <2>2, <2>3, <2>4, <2>5, FinalityAssumption
    <2> QED
      BY <1>1, <2>6 DEF Better
  <1> QED
    BY <1>2, <1>3

\* Convergence: nodes that have been offered every block agree on the tip,
\* even if they rejected different blocks, when no fork is deeper than k.
THEOREM Agreement == Spec => []Convergence
  <1>1. IInv => Convergence
    <2> SUFFICES ASSUME IInv, ShallowForks, NEW n \in Nodes, NEW m \in Nodes,
                        Settled(n), Settled(m)
                 PROVE  chain[n].tip = chain[m].tip
      BY DEF Convergence
    <2> DEFINE x == chain[n].tip
               y == chain[m].tip
    <2>1. ~Better(produced[y], produced[x]) /\ ~Better(produced[x], produced[y])
      BY SettledTip
    <2>2. /\ produced[x].hash = x /\ x \in Nat /\ produced[x].height \in Nat
          /\ produced[y].hash = y /\ y \in Nat /\ produced[y].height \in Nat
      BY StoredFacts DEF IInv, ChainInv, TipInv
    <2> QED
      BY <2>1, <2>2 DEF Better
  <1> QED
    BY <1>1, Invariance, PTL

-------------------------------------------------------------------------------
(* The walk along parent links.                                            *)

\* One turn of the loop in is_ancestor, from each stored block.
Turn(cs, a, w) ==
    [current \in known(cs) |->
        IF current = a THEN TRUE
        ELSE LET e == cs.entries[current] IN
             /\ e.height > cs.entries[a].height
             /\ current # e.parent_hash
             /\ e.parent_hash \in known(cs)
             /\ w[e.parent_hash]]

\* One step down from d, other than a, a lineage loses d and nothing else.
LEMMA WalkStep ==
    ASSUME NEW P, Tree(P), NEW cs, Stored(P, cs), NEW a \in known(cs), NEW d \in known(cs), a # d,
           NEW e, e = cs.entries[d]
    PROVE  /\ a \in e.lineage
                <=> /\ e.height > cs.entries[a].height
                    /\ d # e.parent_hash
                    /\ e.parent_hash \in known(cs)
                    /\ a \in cs.entries[e.parent_hash].lineage
           /\ d # e.parent_hash /\ e.parent_hash \in known(cs)
                => cs.entries[e.parent_hash].height < e.height
  <1>1. /\ d \in DOMAIN P /\ a \in DOMAIN P /\ e = P[d] /\ cs.entries[a] = P[a]
        /\ e.lineage \subseteq known(cs) /\ \A h \in known(cs) : cs.entries[h] = P[h]
    BY StoredFacts
  <1>2. TreeBlock(P, d) /\ TreeLineage(P, d) /\ P[ZERO] = GenesisEntry
    BY <1>1 DEF Tree
  <1>3. P[d].height \in Nat /\ P[a].height \in Nat
    BY StoredFacts
  <1>4. CASE d = ZERO
    <2>1. e.lineage = {ZERO} /\ e.parent_hash = ZERO
      BY <1>1, <1>2, <1>4 DEF GenesisEntry
    <2> QED BY <1>4, <2>1
  <1>5. CASE d # ZERO
    <2> PICK p : p = e.parent_hash
      OBVIOUS
    <2>1. p # d /\ e.lineage = P[p].lineage \cup {d} /\ p \in DOMAIN P
      BY <1>1, <1>2, <1>5 DEF TreeBlock, Entries
    <2>2. p \in P[p].lineage
      BY <2>1 DEF Tree, TreeBlock
    <2>3. p \in known(cs) /\ P[p].height < P[d].height
      BY <1>1, <1>2, <2>1, <2>2 DEF TreeLineage
    <2>4. a \in e.lineage => P[a].height < P[d].height
      BY <1>1, <1>2 DEF TreeLineage
    <2>5. e.height > cs.entries[a].height <=> P[a].height < P[d].height
      BY <1>1, <1>3
    <2>6. cs.entries[p] = P[p]
      BY <1>1, <2>3
    <2>7. a \in e.lineage <=> a \in P[p].lineage
      BY <2>1
    <2>8. cs.entries[p].height < e.height
      BY <1>1, <2>3, <2>6
    <2> QED BY <2>1, <2>3, <2>4, <2>5, <2>6, <2>7, <2>8
  <1> QED BY <1>4, <1>5

\* Two truth values that imply one another are equal.
LEMMA SameTruth == ASSUME NEW x \in BOOLEAN, NEW y, NEW S, x <=> y \in S PROVE x = (y \in S)
  OBVIOUS

\* The loop decides ancestry: membership in the lineage solves its recursion,
\* and nothing else does.
LEMMA WalkExact ==
    ASSUME NEW P, Tree(P), NEW cs, Stored(P, cs), NEW a \in known(cs), NEW d \in known(cs)
    PROVE  ancestor_walk(cs, a, d) = (a \in cs.entries[d].lineage)
  <1> DEFINE lin == [c \in known(cs) |-> a \in cs.entries[c].lineage]
             walk == CHOOSE w : w = Turn(cs, a, w)
  <1>0. a \in cs.entries[a].lineage
    BY StoredFacts
  <1>1. lin = Turn(cs, a, lin)
    <2>1. ASSUME NEW c \in known(cs)
          PROVE  (a \in cs.entries[c].lineage)
                   = Turn(cs, a, lin)[c]
      <3>1. CASE c = a
        BY <1>0, <3>1 DEF Turn
      <3>2. CASE c # a
        <4> PICK e : e = cs.entries[c]
          OBVIOUS
        <4>1. Turn(cs, a, lin)[c]
                = (/\ e.height > cs.entries[a].height
                   /\ c # e.parent_hash
                   /\ e.parent_hash \in known(cs)
                   /\ lin[e.parent_hash])
          BY <3>2 DEF Turn
        <4>2. e.parent_hash \in known(cs)
                => (lin[e.parent_hash] <=> a \in cs.entries[e.parent_hash].lineage)
          OBVIOUS
        <4>3. a \in e.lineage
                <=> /\ e.height > cs.entries[a].height
                    /\ c # e.parent_hash
                    /\ e.parent_hash \in known(cs)
                    /\ a \in cs.entries[e.parent_hash].lineage
          BY <3>2, WalkStep
        <4> HIDE DEF lin
        <4>4. Turn(cs, a, lin)[c] \in BOOLEAN /\ (Turn(cs, a, lin)[c] <=> a \in e.lineage)
          BY <4>1, <4>2, <4>3, Zenon
        <4> QED BY <4>4, SameTruth
      <3> QED BY <3>1, <3>2
    <2> QED BY <2>1 DEF Turn
  <1> HIDE DEF lin
  <1>2. walk = Turn(cs, a, walk)
    BY <1>1
  <1>3. ancestor_walk(cs, a, d) = walk[d]
    BY DEF ancestor_walk, Turn
  <1> HIDE DEF walk
  <1> DEFINE Good(c) == walk[c] = (a \in cs.entries[c].lineage)
             U == {n \in Nat : \A c \in known(cs) : cs.entries[c].height < n => Good(c)}
  <1>4. \A c \in known(cs) : cs.entries[c].height \in Nat
    BY StoredFacts
  <1>5. 0 \in U
    BY <1>4
  <1>6. ASSUME NEW n \in Nat, n \in U PROVE n + 1 \in U
    <2> SUFFICES ASSUME NEW c \in known(cs), cs.entries[c].height < n + 1 PROVE Good(c)
      OBVIOUS
    <2>1. CASE c = a
      BY <1>0, <1>2, <2>1 DEF Turn
    <2>2. CASE c # a
      <3> PICK e : e = cs.entries[c]
        OBVIOUS
      <3>1. walk[c] = (/\ e.height > cs.entries[a].height
                       /\ c # e.parent_hash
                       /\ e.parent_hash \in known(cs)
                       /\ walk[e.parent_hash])
        BY <1>2, <2>2 DEF Turn
      <3>2. a \in e.lineage
                <=> /\ e.height > cs.entries[a].height
                    /\ c # e.parent_hash
                    /\ e.parent_hash \in known(cs)
                    /\ a \in cs.entries[e.parent_hash].lineage
        BY <2>2, WalkStep
      <3>3. c # e.parent_hash /\ e.parent_hash \in known(cs)
                => cs.entries[e.parent_hash].height < e.height
        BY <2>2, WalkStep
      <3>4. c # e.parent_hash /\ e.parent_hash \in known(cs)
                => cs.entries[e.parent_hash].height < n
        BY <1>4, <3>3
      <3>5. c # e.parent_hash /\ e.parent_hash \in known(cs)
                => walk[e.parent_hash] = (a \in cs.entries[e.parent_hash].lineage)
        BY <1>6, <3>4
      <3>6. walk[c] \in BOOLEAN /\ (walk[c] <=> a \in e.lineage)
        BY <3>1, <3>2, <3>5, Zenon
      <3> QED BY <3>6, SameTruth
    <2> QED BY <2>1, <2>2
  <1> HIDE DEF U
  <1>7. Nat \subseteq U
    BY <1>5, <1>6, NatSetInduction
  <1>8. cs.entries[d].height + 1 \in U /\ cs.entries[d].height < cs.entries[d].height + 1
    BY <1>4, <1>7
  <1> QED BY <1>3, <1>8 DEF U

\* is_ancestor, asked through its loop over parent links, answers whether one
\* stored block is an ancestor of the other: the loop never stops early at the
\* ancestor's height, at genesis or at a missing parent.
THEOREM Walk == Spec => []WalkDecidesAncestry
  <1>1. ASSUME IInv, NEW n \in Nodes, NEW a \in known(chain[n]), NEW d \in known(chain[n])
        PROVE  ancestor_walk(chain[n], a, d) = is_ancestor(chain[n], a, d)
    <2>1. Tree(produced) /\ Stored(produced, chain[n])
      BY <1>1 DEF IInv, ChainInv
    <2>2. ancestor_walk(chain[n], a, d) = (a \in chain[n].entries[d].lineage)
      BY <2>1, WalkExact
    <2>3. is_ancestor(chain[n], a, d) = (a \in chain[n].entries[d].lineage)
      <3>1. /\ is_ancestor(chain[n], a, d) \in BOOLEAN
            /\ is_ancestor(chain[n], a, d) <=> a \in chain[n].entries[d].lineage
        BY DEF is_ancestor
      <3> QED BY <3>1, SameTruth
    <2> QED BY <2>2, <2>3
  <1>2. IInv => WalkDecidesAncestry
    BY <1>1 DEF WalkDecidesAncestry
  <1> QED BY <1>2, Invariance, PTL

===============================================================================
