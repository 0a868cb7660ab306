------------------------------ MODULE NodeProofs ------------------------------
(***************************************************************************)
(* Safety of the node (module Node) for every set of transactions, every   *)
(* supply of blocks by peers, every k and every interleaving of the main   *)
(* loop, the slot ticker, gossip and RPC.                                  *)
(***************************************************************************)
EXTENDS Node, UtxoSetProofs, TLAPS

CPP == INSTANCE ClearPoolProofs WITH
        max_tx_count <- Cardinality(PoolTxs) + 1, max_pool_bytes <- Cardinality(PoolTxs) + 1,
        min_fee <- 0, max_age_secs <- 1,
        Txs <- {}, Fees <- {}, Outpoints <- {}, MaxTime <- 0, now <- 0

-------------------------------------------------------------------------------
(* What the node handles.                                                  *)

AllOuts == UNION {outs(t) : t \in AllTxs}

\* A block as it arrives, and with its hash as it is applied and stored.
Proposals ==
    [prev_hash : Nat, height : Nat, slot_ok : BOOLEAN, txs : Seq(AllTxs),
     utxo_commitment : SUBSET AllOuts]
Blocks ==
    {b \in [hash : Nat, prev_hash : Nat, height : Nat, slot_ok : BOOLEAN, txs : Seq(AllTxs),
            utxo_commitment : SUBSET AllOuts] :
        b.height = 0 => \A i \in DOMAIN b.txs : b.txs[i].lock_time = 0}

Events ==
    [kind : {"BlockReceived"}, block : Proposals] \cup [kind : {"TxReceived"}, tx : PoolTxs]

TickerStates ==
    {Waiting}
      \cup [pc : {"tip"}, prev_hash : Nat, height : 1..MaxHeight]
      \cup [pc : {"batch", "body"}, prev_hash : Nat, height : 1..MaxHeight, txs : Seq(AllTxs)]
      \cup [pc : {"send"}, block : Proposals]

LoopStates == {Receiving} \cup [pc : {"applied", "committed", "stored"}, block : Blocks]

-------------------------------------------------------------------------------
(* The block store as a chain.                                             *)

ByHeight(S) == [n \in 1..Cardinality(S) |-> CHOOSE b \in S : b.height = n - 1]

\* The hash under which the chain state knows the block of a height.
link(h) == IF h = 0 THEN CS!ZERO ELSE h + 1

\* One block per height, linked from genesis on.
Linked(S) ==
    /\ IsFiniteSet(S)
    /\ S \subseteq Blocks
    /\ {b.height : b \in S} = 0..(Cardinality(S) - 1)
    /\ \A b, c \in S : b.height = c.height => b = c
    /\ \A b \in S : /\ b.hash = b.height + 1
                    /\ b.height > 0 => b.prev_hash = link(b.height - 1)
    /\ GenesisBlock \in S

\* Sequences with the same elements are equal.
LEMMA SameSeq ==
    ASSUME NEW B, NEW s \in Seq(B), NEW t \in Seq(B), Len(s) = Len(t),
           \A n \in 1..Len(s) : s[n] = t[n]
    PROVE  s = t
  OBVIOUS

LEMMA SoundBlocks == Sound(Blocks, AllTxs)
  BY TransactionsAssumption DEF Sound, Blocks

LEMMA LinkedFacts ==
    ASSUME NEW S, Linked(S)
    PROVE  /\ Cardinality(S) \in Nat \ {0}
           /\ ByHeight(S) \in Seq(Blocks)
           /\ Len(ByHeight(S)) = Cardinality(S)
           /\ \A n \in 1..Cardinality(S) : ByHeight(S)[n] \in S /\ ByHeight(S)[n].height = n - 1
           /\ \A b \in S : b = ByHeight(S)[b.height + 1] /\ b.height \in 0..(Cardinality(S) - 1)
  <1>1. Cardinality(S) \in Nat
    BY FS_CardinalityType DEF Linked
  <1>2. Cardinality(S) # 0
    BY FS_EmptySet DEF Linked
  <1>3. ASSUME NEW n \in 1..Cardinality(S)
        PROVE  ByHeight(S)[n] \in S /\ ByHeight(S)[n].height = n - 1
    <2>1. n - 1 \in 0..(Cardinality(S) - 1)
      BY <1>1
    <2>2. \E b \in S : b.height = n - 1
      BY <2>1 DEF Linked
    <2> QED BY <2>2 DEF ByHeight
  <1>4. ByHeight(S) \in Seq(Blocks) /\ Len(ByHeight(S)) = Cardinality(S)
    <2>1. ByHeight(S) \in [1..Cardinality(S) -> Blocks]
      BY <1>3 DEF ByHeight, Linked
    <2> QED BY <2>1, <1>1
  <1>5. ASSUME NEW b \in S
        PROVE  b = ByHeight(S)[b.height + 1] /\ b.height \in 0..(Cardinality(S) - 1)
    <2>1. b.height \in 0..(Cardinality(S) - 1)
      BY DEF Linked
    <2>2. b.height + 1 \in 1..Cardinality(S) /\ (b.height + 1) - 1 = b.height
      BY <2>1, <1>1
    <2>3. ByHeight(S)[b.height + 1] \in S /\ ByHeight(S)[b.height + 1].height = b.height
      BY <1>3, <2>2
    <2> QED BY <2>1, <2>3 DEF Linked
  <1> QED BY <1>1, <1>2, <1>3, <1>4, <1>5

\* Storing the next block appends it to the chain.
LEMMA LinkedAppend ==
    ASSUME NEW S, Linked(S), NEW b \in Blocks, b.height = Cardinality(S),
           b.hash = b.height + 1, b.prev_hash = link(b.height - 1)
    PROVE  /\ Linked(S \cup {b})
           /\ Cardinality(S \cup {b}) = Cardinality(S) + 1
           /\ ByHeight(S \cup {b}) = Append(ByHeight(S), b)
  <1> DEFINE T == S \cup {b}
             N == Cardinality(S)
  <1>1. N \in Nat \ {0} /\ \A c \in S : c.height \in 0..(N - 1)
    BY LinkedFacts
  <1>2. b \notin S
    BY <1>1
  <1>3. IsFiniteSet(T) /\ Cardinality(T) = N + 1
    BY <1>2, FS_AddElement DEF Linked
  <1>4. Linked(T)
    <2>1. {c.height : c \in T} = 0..(Cardinality(T) - 1)
      <3>1. {c.height : c \in S} = 0..(N - 1)
        BY DEF Linked
      <3>2. {c.height : c \in T} = {c.height : c \in S} \cup {N}
        OBVIOUS
      <3>3. (0..(N - 1)) \cup {N} = 0..N
        BY <1>1
      <3>4. Cardinality(T) - 1 = N
        BY <1>1, <1>3
      <3> QED BY <3>1, <3>2, <3>3, <3>4
    <2>2. \A c, d \in T : c.height = d.height => c = d
      BY <1>1 DEF Linked
    <2>3. \A c \in T : c.hash = c.height + 1 /\ (c.height > 0 => c.prev_hash = link(c.height - 1))
      BY DEF Linked
    <2> QED BY <1>3, <2>1, <2>2, <2>3 DEF Linked
  <1>5. ByHeight(T) = Append(ByHeight(S), b)
    <2>1. /\ ByHeight(S) \in Seq(Blocks) /\ Len(ByHeight(S)) = N
          /\ \A n \in 1..N : ByHeight(S)[n] \in S /\ ByHeight(S)[n].height = n - 1
      BY LinkedFacts
    <2>2. /\ ByHeight(T) \in Seq(Blocks) /\ Len(ByHeight(T)) = N + 1
          /\ \A n \in 1..(N + 1) : ByHeight(T)[n] \in T /\ ByHeight(T)[n].height = n - 1
      BY <1>4, <1>3, LinkedFacts
    <2>3. Append(ByHeight(S), b) \in Seq(Blocks) /\ Len(Append(ByHeight(S), b)) = N + 1
      BY <2>1, AppendFacts
    <2>4. ASSUME NEW n \in 1..(N + 1) PROVE ByHeight(T)[n] = Append(ByHeight(S), b)[n]
      <3>1. CASE n \in 1..N
        <4>1. Append(ByHeight(S), b)[n] = ByHeight(S)[n]
          BY <3>1, <2>1, AppendFacts
        <4>2. ByHeight(S)[n] \in T /\ ByHeight(S)[n].height = ByHeight(T)[n].height
          BY <3>1, <2>1, <2>2
        <4> QED BY <4>1, <4>2, <2>2, <1>4 DEF Linked
      <3>2. CASE n = N + 1
        <4>1. Append(ByHeight(S), b)[n] = b
          BY <3>2, <2>1, AppendFacts
        <4>2. ByHeight(T)[n].height = b.height /\ b \in T /\ ByHeight(T)[n] \in T
          <5>1. n - 1 = N /\ n \in 1..(N + 1)
            BY <3>2, <1>1
          <5>2. ByHeight(T)[n].height = n - 1 /\ ByHeight(T)[n] \in T
            BY <2>2, <5>1
          <5> QED BY <5>1, <5>2
        <4> QED BY <4>1, <4>2, <1>4 DEF Linked
      <3>3. n \in 1..N \/ n = N + 1
        <4> HIDE DEF N
        <4> QED BY <1>1
      <3> QED BY <3>1, <3>2, <3>3
    <2>5. \A n \in 1..Len(ByHeight(T)) : ByHeight(T)[n] = Append(ByHeight(S), b)[n]
      BY <2>2, <2>4
    <2>6. Len(ByHeight(T)) = Len(Append(ByHeight(S), b))
      BY <2>2, <2>3
    <2> HIDE DEF T
    <2> QED BY <2>2, <2>3, <2>5, <2>6, SameSeq
  <1> QED BY <1>3, <1>4, <1>5

-------------------------------------------------------------------------------
(* The chain state of a node that only extends its tip.                    *)

\* cs holds the blocks of the heights below n, and the highest is its tip.
Tracks(cs, n) ==
    /\ cs = [entries |-> cs.entries, tip |-> cs.tip, final_hash |-> cs.final_hash,
             final_height |-> cs.final_height, slot_producers |-> cs.slot_producers,
             equivocations |-> cs.equivocations]
    /\ DOMAIN cs.entries = {link(h) : h \in 0..(n - 1)}
    /\ \A h \in 0..(n - 1) : cs.entries[link(h)].hash = link(h) /\ cs.entries[link(h)].height = h
    /\ cs.tip = link(n - 1)

LEMMA TracksGenesis == Tracks(CS!genesis, 1)
  <1>1. 0..(1 - 1) = {0}
    OBVIOUS
  <1>2. link(0) = 0
    BY DEF link, CS!ZERO
  <1> QED BY <1>1, <1>2 DEF Tracks, CS!genesis, CS!GenesisEntry, CS!ZERO, CS!EmptyMap

LEMMA TracksTip ==
    ASSUME NEW n \in Nat \ {0}, NEW cs, Tracks(cs, n)
    PROVE  /\ CS!tip_height(cs) = n - 1
           /\ cs.tip = link(n - 1) /\ cs.tip \in Nat
           /\ \A h \in 0..(n - 1) : link(h) \in CS!known(cs)
           /\ n + 1 \notin CS!known(cs)
  BY DEF Tracks, CS!tip_height, CS!known, link, CS!ZERO

\* add_block on a child of the tip: the new block becomes the tip.
LEMMA TracksAdd ==
    ASSUME NEW n \in Nat \ {0}, NEW cs, Tracks(cs, n), NEW slot,
           NEW e, e = CS!ChainEntry(n + 1, cs.entries[cs.tip], slot, 0),
           CS!add_block_result(cs, e) = "Ok"
    PROVE  Tracks(CS!add_block(cs, e), n + 1)
  <1>1. /\ e.hash = n + 1 /\ e.height = n
        /\ cs.tip = link(n - 1) /\ cs.entries[cs.tip].height = n - 1
    BY DEF CS!ChainEntry, Tracks
  <1> PICK c1 : c1 = CS!insert(cs, e)
    OBVIOUS
  <1>2. /\ c1 = [entries |-> CS!Put(cs.entries, e.hash, e), tip |-> cs.tip,
                 final_hash |-> cs.final_hash,
                 final_height |-> cs.final_height, slot_producers |-> cs.slot_producers,
                 equivocations |-> cs.equivocations]
    BY DEF CS!insert, Tracks
  <1> PICK c2 : c2 = CS!record_equivocation(c1, e)
    OBVIOUS
  <1>3. c2 = [entries |-> c1.entries, tip |-> cs.tip, final_hash |-> cs.final_hash,
              final_height |-> cs.final_height, slot_producers |-> c2.slot_producers,
              equivocations |-> c2.equivocations]
    <2> DEFINE slots == CS!Put(c1.slot_producers, <<e.slot, e.producer>>, e.hash)
               found == CS!Put(c1.equivocations, <<e.slot, e.producer>>,
                           [first |-> c1.slot_producers[<<e.slot, e.producer>>], second |-> e.hash])
    <2>1. \/ c2 = [c1 EXCEPT !.slot_producers = slots]
          \/ c2 = [c1 EXCEPT !.equivocations = found]
          \/ c2 = c1
      BY DEF CS!record_equivocation
    <2> HIDE DEF slots, found
    <2> QED BY <1>2, <2>1
  <1>4. CS!Put(cs.entries, e.hash, e)
          = [y \in DOMAIN cs.entries \cup {n + 1} |-> IF y = n + 1 THEN e ELSE cs.entries[y]]
    BY <1>1 DEF CS!Put
  <1>5. /\ c2.entries = [y \in DOMAIN cs.entries \cup {n + 1} |->
                           IF y = n + 1 THEN e ELSE cs.entries[y]]
        /\ c2.tip = cs.tip
    BY <1>2, <1>3, <1>4
  <1>6. n + 1 \notin DOMAIN cs.entries /\ link(n - 1) \in DOMAIN cs.entries
    BY TracksTip DEF CS!known, Tracks
  <1>7. CS!tip_height(c2) = n - 1
    BY <1>1, <1>5, <1>6 DEF CS!tip_height
  <1>8. CS!becomes_tip(c2, e)
    BY <1>1, <1>7 DEF CS!becomes_tip
  <1>p. PICK c3 : c3 = [c2 EXCEPT !.tip = e.hash]
    OBVIOUS
  <1>9. c3 = [entries |-> c2.entries, tip |-> n + 1, final_hash |-> c2.final_hash,
              final_height |-> c2.final_height, slot_producers |-> c2.slot_producers,
              equivocations |-> c2.equivocations]
    BY <1>1, <1>3, <1>p
  <1>q. PICK c4 : c4 = CS!advance_finality(c3)
    OBVIOUS
  <1>10. c4 = [entries |-> c2.entries, tip |-> n + 1, final_hash |-> c4.final_hash,
               final_height |-> c4.final_height, slot_producers |-> c4.slot_producers,
               equivocations |-> c4.equivocations]
    <2>1. \/ c4 = c3
          \/ \E h, t : c4 = [c3 EXCEPT !.final_hash = h, !.final_height = t]
      BY <1>q DEF CS!advance_finality
    <2>2. CASE c4 = c3
      BY <2>2, <1>9
    <2>4. CASE c4 # c3
      <3>1. PICK h, t : c4 = [c3 EXCEPT !.final_hash = h, !.final_height = t]
        BY <2>1, <2>4
      <3>2. c4 = [entries |-> c2.entries, tip |-> n + 1, final_hash |-> h,
                  final_height |-> t, slot_producers |-> c2.slot_producers,
                  equivocations |-> c2.equivocations]
        BY <3>1, <1>9
      <3> QED BY <3>2
    <2> QED BY <2>2, <2>4
  <1>11. CS!add_block(cs, e) = c4
    BY <1>8, <1>p, <1>q DEF CS!add_block
  <1>12. link(n) = n + 1
    BY DEF link
  <1>13. DOMAIN c4.entries = {link(h) : h \in 0..n}
    <2>1. DOMAIN cs.entries = {link(h) : h \in 0..(n - 1)}
      BY DEF Tracks
    <2>2. 0..n = (0..(n - 1)) \cup {n}
      OBVIOUS
    <2>3. {link(h) : h \in 0..n} = {link(h) : h \in 0..(n - 1)} \cup {link(n)}
      BY <2>2
    <2> QED BY <2>1, <2>3, <1>5, <1>10, <1>12
  <1>14. ASSUME NEW h \in 0..n
         PROVE  c4.entries[link(h)].hash = link(h) /\ c4.entries[link(h)].height = h
    <2>1. CASE h = n
      BY <2>1, <1>1, <1>5, <1>10, <1>12
    <2>2. CASE h # n
      <3>1. h \in 0..(n - 1) /\ link(h) \in DOMAIN cs.entries
        BY <2>2 DEF Tracks
      <3>2. c4.entries[link(h)] = cs.entries[link(h)]
        BY <3>1, <1>5, <1>6, <1>10
      <3> QED BY <3>1, <3>2 DEF Tracks
    <2> QED BY <2>1, <2>2
  <1> PICK m : m = n + 1 /\ m - 1 = n
    OBVIOUS
  <1>15. Tracks(c4, m)
    BY <1>10, <1>12, <1>13, <1>14 DEF Tracks
  <1> QED BY <1>11, <1>15

-------------------------------------------------------------------------------
(* The pool of a node.                                                     *)

\* The operators of the two instances of ClearPool are the same.
LEMMA SameSum == ASSUME NEW f PROVE CP!SumFunction(f) = CPP!SumFunction(f)
  BY DEF CP!SumFunction, CP!SumFunctionOnSet, CP!FoldFunctionOnSet, CP!MapThenFoldSet,
         CPP!SumFunction, CPP!SumFunctionOnSet, CPP!FoldFunctionOnSet, CPP!MapThenFoldSet

LEMMA SameRemove ==
    ASSUME NEW p, NEW ids
    PROVE  CP!remove_all(p, ids) = CPP!remove_all(p, ids)
  BY SameSum DEF CP!remove_all, CPP!remove_all, CP!from_entry, CPP!from_entry,
         CP!fee_density, CPP!fee_density, CP!size_of, CPP!size_of,
         CP!inputs_of, CPP!inputs_of, CP!Minus, CPP!Minus

LEMMA SameAdd ==
    ASSUME NEW p, NEW e, NEW t
    PROVE  CP!add(p, e, t) = CPP!add(p, e, t)
  <1>1. \A q, ids : CP!remove_all(q, ids) = CPP!remove_all(q, ids)
    BY SameRemove
  <1>2. CP!evict_expired(p, t) = CPP!evict_expired(p, t)
    BY <1>1 DEF CP!evict_expired, CPP!evict_expired, CP!Minus, CPP!Minus
  <1>3. \A q, size : CP!has_room_for(q, size) <=> CPP!has_room_for(q, size)
    BY DEF CP!has_room_for, CPP!has_room_for, CP!Cardinality, CPP!Cardinality
  <1>4. \A q : CP!lowest(q) = CPP!lowest(q)
    BY DEF CP!lowest, CPP!lowest, CP!cmp, CPP!cmp
  <1>5. ASSUME NEW q, NEW size PROVE CP!make_room(q, size) = CPP!make_room(q, size)
    <2> DEFINE ids(S) == {k.tx_id : k \in S}
               A == {S \in CP!lowest(q) : CP!has_room_for(CP!remove_all(q, ids(S)), size)}
               B == {S \in CPP!lowest(q) : CPP!has_room_for(CPP!remove_all(q, ids(S)), size)}
    <2>1. A = B
      <3> HIDE DEF ids
      <3> QED BY <1>1, <1>3, <1>4
    <2>2. CP!make_room(q, size)
            = CP!remove_all(q, ids({k \in q.by_priority : \A S \in A : k \in S}))
      BY DEF CP!make_room
    <2>3. CPP!make_room(q, size)
            = CPP!remove_all(q, ids({k \in q.by_priority : \A S \in B : k \in S}))
      BY DEF CPP!make_room
    <2> HIDE DEF A, B, ids
    <2> QED BY <2>1, <2>2, <2>3, <1>1
  <1>6. \A q : CP!insert(q, e) = CPP!insert(q, e)
    BY DEF CP!insert, CPP!insert, CP!from_entry, CPP!from_entry, CP!fee_density, CPP!fee_density
  <1> QED BY <1>2, <1>3, <1>5, <1>6 DEF CP!add, CPP!add, CP!early_return, CPP!early_return

LEMMA SameConfirmed ==
    ASSUME NEW p, NEW spent
    PROVE  CP!remove_confirmed(p, spent) = CPP!remove_confirmed(p, spent)
  BY SameRemove DEF CP!remove_confirmed, CPP!remove_confirmed

LEMMA SameBatch ==
    ASSUME NEW p, NEW n
    PROVE  CP!get_batch(p, n) = CPP!get_batch(p, n)
  BY DEF CP!get_batch, CPP!get_batch, CP!cmp, CPP!cmp, CP!Cardinality, CPP!Cardinality

\* The configuration meets the assumptions of ClearPool.
LEMMA PoolConfig ==
    /\ {Cardinality(PoolTxs) + 1, Cardinality(PoolTxs) + 1, 0, 1, U64Max} \subseteq Nat
    /\ \A t \in {} : t.tx_id \in Nat /\ t.size \in Nat /\ t.inputs \subseteq {}
    /\ \A t, u \in {} : t.tx_id = u.tx_id => t = u
    /\ {} \subseteq Nat
  BY TransactionsAssumption, BoundsAssumption, FS_CardinalityType

\* A pool with entries of user transactions and consistent indices.
PoolOK(p) ==
    /\ CPP!Consistent(p)
    /\ IsFiniteSet(DOMAIN p.by_id)
    /\ \A i \in DOMAIN p.by_id :
          /\ p.by_id[i].fee \in Int
          /\ \E t \in PoolTxs : p.by_id[i] = Entry(t, p.by_id[i].fee)

LEMMA TxOf == ASSUME NEW t \in AllTxs PROVE tx_of(t.id) = t
  BY TransactionsAssumption DEF tx_of

LEMMA PoolFacts ==
    ASSUME NEW p, PoolOK(p), NEW i \in DOMAIN p.by_id
    PROVE  /\ tx_of(i) \in PoolTxs /\ tx_of(i) \in AllTxs /\ tx_of(i).id = i
           /\ p.by_id[i].inputs = tx_of(i).inputs
           /\ p.by_id[i].fee \in Int /\ p.by_id[i].size = 1 /\ p.by_id[i].added_at = 0
           /\ p.by_id[i].tx_id = i /\ i \in Nat
  <1>1. PICK t \in PoolTxs, f \in Int : p.by_id[i] = Entry(t, f)
    BY DEF PoolOK
  <1>2. p.by_id[i].tx_id = i
    BY DEF PoolOK, CPP!Consistent
  <1>3. t.id = i /\ t \in AllTxs
    BY <1>1, <1>2 DEF Entry, AllTxs
  <1>4. tx_of(i) = t /\ i \in Nat
    BY <1>3, TxOf, TransactionsAssumption
  <1> QED BY <1>1, <1>2, <1>3, <1>4 DEF Entry

LEMMA PoolAdd ==
    ASSUME NEW p, PoolOK(p), NEW t \in PoolTxs, NEW f \in Int
    PROVE  /\ PoolOK(CP!add(p, Entry(t, f), 0))
           /\ \A i \in DOMAIN CP!add(p, Entry(t, f), 0).by_id : i \in DOMAIN p.by_id \/ i = t.id
  <1> PICK e : e = Entry(t, f)
    OBVIOUS
  <1> PICK q : q = CP!add(p, e, 0)
    OBVIOUS
  <1>1. q = CPP!add(p, e, 0) /\ CPP!Consistent(p)
    BY SameAdd DEF PoolOK
  <1>2. /\ CPP!Consistent(q)
        /\ \A i \in DOMAIN q.by_id :
              (i \in DOMAIN p.by_id /\ q.by_id[i] = p.by_id[i]) \/ q.by_id[i] = e
    BY <1>1, PoolConfig, CPP!AddConsistent
  <1>3. \A i \in DOMAIN q.by_id : i \in DOMAIN p.by_id \/ i = t.id
    <2>1. e.tx_id = t.id
      BY DEF Entry
    <2> QED BY <1>2, <2>1 DEF CPP!Consistent
  <1>4. IsFiniteSet(DOMAIN q.by_id)
    <2>1. DOMAIN q.by_id \in SUBSET (DOMAIN p.by_id \cup {t.id})
      BY <1>3
    <2>2. IsFiniteSet(DOMAIN p.by_id \cup {t.id})
      BY FS_AddElement DEF PoolOK
    <2> QED BY <2>1, <2>2, FS_Subset
  <1>5. e.fee = f
    BY DEF Entry
  <1>6. PoolOK(q)
    BY <1>2, <1>4, <1>5 DEF PoolOK
  <1> QED BY <1>3, <1>6

LEMMA PoolConfirmed ==
    ASSUME NEW p, PoolOK(p), NEW spent
    PROVE  /\ PoolOK(CP!remove_confirmed(p, spent))
           /\ \A i \in DOMAIN CP!remove_confirmed(p, spent).by_id :
                 i \in DOMAIN p.by_id /\ tx_of(i).inputs \cap spent = {}
  <1> PICK q : q = CP!remove_confirmed(p, spent)
    OBVIOUS
  <1>1. q = CPP!remove_confirmed(p, spent) /\ CPP!Consistent(p)
    BY SameConfirmed DEF PoolOK
  <1>2. /\ CPP!Consistent(q) /\ CPP!Within(q, p)
        /\ \A i \in DOMAIN q.by_id : p.by_id[i].inputs \cap spent = {}
    BY <1>1, PoolConfig, CPP!ConfirmedGone
  <1>3. DOMAIN q.by_id \in SUBSET DOMAIN p.by_id
        /\ \A i \in DOMAIN q.by_id : q.by_id[i] = p.by_id[i]
    BY <1>2 DEF CPP!Within
  <1>4. IsFiniteSet(DOMAIN q.by_id)
    BY <1>3, FS_Subset DEF PoolOK
  <1>5. PoolOK(q)
    BY <1>2, <1>3, <1>4 DEF PoolOK
  <1> QED BY <1>2, <1>3, <1>5, PoolFacts

LEMMA PoolEmpty == PoolOK(CP!EmptyPool)
  <1> PICK p : p = CP!EmptyPool
    OBVIOUS
  <1>1. /\ DOMAIN p.by_id = {} /\ p.by_priority = {}
        /\ DOMAIN p.spent_outpoints = {}
    BY DEF CP!EmptyPool
  <1> QED BY <1>1, FS_EmptySet DEF PoolOK, CPP!Consistent

\* The ticker's batch.
LEMMA PoolBatch ==
    ASSUME NEW p, PoolOK(p), NEW ids, ids = CP!get_batch(p, batch_size)
    PROVE  [i \in DOMAIN ids |-> tx_of(ids[i])] \in Seq(AllTxs)
  <1>1. CPP!Ordered(p)
    <2>1. \A i \in DOMAIN p.by_id : p.by_id[i].fee \in Int /\ p.by_id[i].size \in Nat
                                     /\ p.by_id[i].added_at \in Int /\ p.by_id[i].tx_id \in Int
      BY PoolFacts
    <2>2. CPP!IsFiniteSet(DOMAIN p.by_id)
      BY DEF PoolOK, IsFiniteSet, CPP!IsFiniteSet
    <2> QED BY <2>1, <2>2 DEF CPP!Ordered
  <1>2. CPP!get_batch(p, batch_size) \in Seq(DOMAIN p.by_id)
    BY <1>1, PoolConfig, CPP!BatchPooled, BoundsAssumption DEF PoolOK
  <1>3. ids \in Seq(DOMAIN p.by_id)
    BY <1>2, SameBatch
  <1>4. \A i \in DOMAIN ids : tx_of(ids[i]) \in AllTxs
    BY <1>3, PoolFacts
  <1>5. DOMAIN ids = 1..Len(ids) /\ Len(ids) \in Nat
    BY <1>3
  <1>6. [i \in DOMAIN ids |-> tx_of(ids[i])] \in [1..Len(ids) -> AllTxs]
    BY <1>4, <1>5
  <1> QED BY <1>5, <1>6

-------------------------------------------------------------------------------
(* The worth of outputs.                                                   *)

LEMMA OutsFacts ==
    ASSUME NEW t \in AllTxs
    PROVE  /\ IsFiniteSet(outs(t)) /\ outs(t) \subseteq AllOuts
           /\ \A o \in outs(t) : value(o) \in Nat
  <1>1. t.outputs \in Seq(Nat)
    BY TransactionsAssumption
  <1>2. IsFiniteSet(outs(t))
    <2> DEFINE D == DOMAIN t.outputs
               m == [i \in D |-> <<t.id, i>>]
    <2>1. D = 1..Len(t.outputs) /\ Len(t.outputs) \in Nat
      BY <1>1
    <2>2. IsFiniteSet(D)
      BY <2>1, FS_Interval
    <2>3. m \in Surjection(D, outs(t))
      BY DEF Surjection, outs
    <2> HIDE DEF m, D
    <2> QED BY <2>2, <2>3, FS_Surjection
  <1>3. outs(t) \subseteq AllOuts
    BY DEF AllOuts
  <1>4. ASSUME NEW o \in outs(t) PROVE value(o) \in Nat
    <2>1. PICK i \in DOMAIN t.outputs : o = <<t.id, i>>
      BY DEF outs
    <2>2. tx_of(o[1]) = t /\ o[2] = i
      BY <2>1, TxOf
    <2> QED BY <1>1, <2>2 DEF value
  <1> QED BY <1>2, <1>3, <1>4

LEMMA ValueType == ASSUME NEW o \in AllOuts PROVE value(o) \in Nat
  BY OutsFacts DEF AllOuts

worth == [o \in AllOuts |-> value(o)]

\* values is the sum of one function over all outputs.
LEMMA ValuesWorth ==
    ASSUME NEW S, S \subseteq AllOuts, IsFiniteSet(S)
    PROVE  /\ values(S) = SumFunctionOnSet(worth, S)
           /\ values(S) \in Nat
           /\ \A o \in S : worth[o] \in Nat /\ worth[o] \in Int
  <1> DEFINE f == [o \in S |-> value(o)]
  <1>1. values(S) = SumFunctionOnSet(f, S)
    BY DEF values, SumFunction
  <1>2. \A o \in S : f[o] = worth[o] /\ f[o] \in Int /\ worth[o] \in Nat /\ worth[o] \in Int
    BY ValueType DEF worth
  <1> HIDE DEF f
  <1>3. SumFunctionOnSet(f, S) = SumFunctionOnSet(worth, S)
    BY <1>2, SumCongruence
  <1>4. SumFunctionOnSet(worth, S) \in Nat
    BY <1>2, SumType
  <1> QED BY <1>1, <1>2, <1>3, <1>4

LEMMA FeeType ==
    ASSUME NEW t \in AllTxs, t.inputs \subseteq AllOuts
    PROVE  fee(t) \in Int
  <1>1. values(t.inputs) \in Nat
    BY ValuesWorth, TransactionsAssumption
  <1>2. values(outs(t)) \in Nat
    BY ValuesWorth, OutsFacts
  <1> QED BY <1>1, <1>2 DEF fee

-------------------------------------------------------------------------------
(* The emission schedule.                                                  *)

\* g holds the rates of the first n + 1 periods.
Rates(n, g) ==
    /\ g \in [0..n -> Nat]
    /\ g[0] = initial_block_reward
    /\ \A k \in 1..n : g[k] = g[k - 1] \div 2

\* Tables of rates agree where both have an entry.
LEMMA RatesAgree ==
    ASSUME NEW n \in Nat, NEW m \in Nat, NEW g, NEW h, Rates(n, g), Rates(m, h),
           NEW k \in Nat, k <= n, k <= m
    PROVE  g[k] = h[k]
  <1> DEFINE U == {i \in Nat : i <= n /\ i <= m => g[i] = h[i]}
  <1>1. 0 \in U
    BY DEF Rates
  <1>2. ASSUME NEW i \in Nat, i \in U PROVE i + 1 \in U
    <2>1. SUFFICES ASSUME i + 1 <= n, i + 1 <= m PROVE g[i + 1] = h[i + 1]
      OBVIOUS
    <2>2. g[i] = h[i]
      BY <1>2, <2>1
    <2>3. i + 1 \in 1..n /\ i + 1 \in 1..m /\ (i + 1) - 1 = i
      BY <2>1
    <2> QED BY <2>2, <2>3 DEF Rates
  <1> HIDE DEF U
  <1>3. Nat \subseteq U
    BY <1>1, <1>2, NatSetInduction
  <1> QED BY <1>3 DEF U

LEMMA RatesExist == ASSUME NEW n \in Nat PROVE \E g : Rates(n, g)
  <1> DEFINE U == {i \in Nat : \E g : Rates(i, g)}
  <1>0. initial_block_reward \in Nat
    BY MonetaryAssumption
  <1>1. 0 \in U
    <2>1. Rates(0, [k \in 0..0 |-> initial_block_reward])
      BY <1>0 DEF Rates
    <2> QED BY <2>1
  <1>2. ASSUME NEW i \in Nat, i \in U PROVE i + 1 \in U
    <2>1. PICK g : Rates(i, g)
      BY <1>2
    <2>2. PICK h : h = [k \in 0..(i + 1) |-> IF k = i + 1 THEN g[i] \div 2 ELSE g[k]]
      OBVIOUS
    <2>3. g \in [0..i -> Nat]
      BY <2>1 DEF Rates
    <2>4. g[i] \div 2 \in Nat
      BY <2>3
    <2>5. h \in [0..(i + 1) -> Nat] /\ h[i + 1] = g[i] \div 2 /\ \A k \in 0..i : h[k] = g[k]
      <3>1. \A k \in 0..(i + 1) : h[k] \in Nat
        BY <2>2, <2>3, <2>4
      <3> QED BY <2>2, <3>1
    <2>6. \A k \in 1..(i + 1) : h[k] = h[k - 1] \div 2
      <3> TAKE k \in 1..(i + 1)
      <3>1. CASE k = i + 1
        BY <2>5, <3>1
      <3>2. CASE k # i + 1
        <4>1. k \in 1..i /\ k \in 0..i /\ k - 1 \in 0..i
          BY <3>2
        <4> QED BY <2>1, <2>5, <4>1 DEF Rates
      <3> QED BY <3>1, <3>2
    <2>7. h[0] = initial_block_reward
      BY <2>1, <2>5 DEF Rates
    <2>8. Rates(i + 1, h)
      BY <2>5, <2>6, <2>7 DEF Rates
    <2> QED BY <2>8
  <1> HIDE DEF U
  <1>3. Nat \subseteq U
    BY <1>1, <1>2, NatSetInduction
  <1> QED BY <1>3 DEF U

\* The recursion of rate has a solution, which rate is.
LEMMA RateType == \A k \in Nat : rate[k] \in Nat
  <1> DEFINE D(g) == [k \in Nat |-> IF k = 0 THEN initial_block_reward ELSE g[k - 1] \div 2]
             table(n) == CHOOSE g : Rates(n, g)
             r == [n \in Nat |-> table(n)[n]]
  <1>1. \A n \in Nat : Rates(n, table(n))
    BY RatesExist
  <1> HIDE DEF table
  <1>2. ASSUME NEW k \in Nat
        PROVE  r[k] = IF k = 0 THEN initial_block_reward ELSE r[k - 1] \div 2
    <2>1. CASE k = 0
      BY <1>1, <2>1 DEF Rates
    <2>2. CASE k # 0
      <3>1. k - 1 \in Nat /\ k \in 1..k /\ k - 1 <= k
        BY <2>2
      <3>2. table(k)[k] = table(k)[k - 1] \div 2
        BY <1>1, <3>1 DEF Rates
      <3>3. table(k)[k - 1] = table(k - 1)[k - 1]
        BY <1>1, <3>1, RatesAgree
      <3> QED BY <2>2, <3>1, <3>2, <3>3
    <2> QED BY <2>1, <2>2
  <1>3. r = D(r)
    BY <1>2
  <1>4. rate = CHOOSE g : g = D(g)
    BY DEF rate
  <1>5. rate = D(rate)
    BY <1>3, <1>4
  <1> DEFINE U == {k \in Nat : rate[k] \in Nat}
  <1> HIDE DEF r
  <1>6. rate[0] = initial_block_reward /\ initial_block_reward \in Nat
    BY <1>5, MonetaryAssumption
  <1>7. ASSUME NEW k \in Nat, k \in U PROVE k + 1 \in U
    <2>1. k + 1 \in Nat /\ k + 1 # 0 /\ (k + 1) - 1 = k
      OBVIOUS
    <2>2. rate[k + 1] = rate[k] \div 2
      BY <1>5, <2>1
    <2> QED BY <1>7, <2>2
  <1> HIDE DEF U, D
  <1>8. 0 \in U
    BY <1>6 DEF U
  <1>9. Nat \subseteq U
    BY <1>7, <1>8, NatSetInduction
  <1> QED BY <1>9 DEF U

\* The subsidies by height, and what each period adds for the blocks 0..n.
subsidy == [h \in Nat |-> block_subsidy(h)]
period(n) ==
    [p \in Nat |-> Least((n + 1) - p * halving_interval_blocks, halving_interval_blocks) * rate[p]]

LEMMA SubsidyType == \A h \in Nat : block_subsidy(h) \in Nat /\ subsidy[h] \in Nat /\ subsidy[h] \in Int
  <1>1. \A h \in Nat : h \div halving_interval_blocks \in Nat
    BY MonetaryAssumption
  <1> QED BY <1>1, RateType DEF block_subsidy, subsidy

\* The multiplication of whole periods by their rate adds up the subsidies.
LEMMA PeriodsAddUp ==
    ASSUME NEW n \in Nat
    PROVE  SumFunctionOnSet(period(n), 0..(n \div halving_interval_blocks))
             = SumFunctionOnSet(subsidy, 0..n)
  <1> PICK I \in Nat \ {0} : I = halving_interval_blocks
    BY MonetaryAssumption
  <1> DEFINE Good(i) == SumFunctionOnSet(period(i), 0..(i \div I)) = SumFunctionOnSet(subsidy, 0..i)
             U == {i \in Nat : Good(i)}
  <1>0. \A a, b \in Int : IsFiniteSet(a..b)
    BY FS_Interval
  <1>1. \A i, p \in Nat : p <= i \div I => /\ period(i)[p] = Least((i + 1) - p * I, I) * rate[p]
                                           /\ Least((i + 1) - p * I, I) \in Nat
                                           /\ period(i)[p] \in Int
    <2> TAKE i, p \in Nat
    <2>1. period(i)[p] = Least((i + 1) - p * I, I) * rate[p]
      BY DEF period
    <2>2. ASSUME p <= i \div I PROVE Least((i + 1) - p * I, I) \in Nat
      <3>1. (i \div I) * I <= i /\ i \div I \in Nat
        OBVIOUS
      <3>2. p * I <= (i \div I) * I
        BY <2>2, <3>1
      <3> QED BY <3>1, <3>2 DEF Least
    <2> QED BY <2>1, <2>2, RateType
  <1>2. \A i \in Nat : subsidy[i] = rate[i \div I] /\ subsidy[i] \in Int /\ rate[i \div I] \in Nat
    BY SubsidyType, RateType DEF subsidy, block_subsidy
  <1>3. 0 \in U
    <2>1. 0 \div I = 0 /\ 0..0 = {0}
      OBVIOUS
    <2>2. period(0)[0] = rate[0] /\ rate[0] \in Int
      <3>1. Least((0 + 1) - 0 * I, I) = 1
        BY DEF Least
      <3> QED BY <1>1, <2>1, <3>1, RateType
    <2>3. subsidy[0] = rate[0]
      BY <1>2, <2>1
    <2>4. IsFiniteSet({0})
      BY FS_Singleton
    <2>5. SumFunctionOnSet(period(0), {0}) = SumFunctionOnSet(subsidy, {0})
      BY <2>2, <2>3, <2>4, SumCongruence
    <2> QED BY <2>1, <2>5
  <1>4. ASSUME NEW i \in Nat, i \in U PROVE i + 1 \in U
    <2> PICK q \in Nat : q = i \div I
      OBVIOUS
    <2>1. q * I <= i /\ i < (q + 1) * I
      OBVIOUS
    <2>2. \A p \in 0..(q - 1) : (i + 1) - p * I >= I /\ (i + 2) - p * I >= I
      <3> TAKE p \in 0..(q - 1)
      <3>1. (p + 1) * I <= q * I
        OBVIOUS
      <3> QED BY <2>1, <3>1
    <2> PICK f : f = period(i)
      OBVIOUS
    <2> PICK g : g = period(i + 1)
      OBVIOUS
    <2>3. /\ SumFunctionOnSet(subsidy, 0..(i + 1)) = subsidy[i + 1] + SumFunctionOnSet(subsidy, 0..i)
      <3>1. 0..(i + 1) = (0..i) \cup {i + 1} /\ i + 1 \notin 0..i
        OBVIOUS
      <3>2. IsFiniteSet(0..i)
        BY <1>0
      <3>3. \A x \in (0..i) \cup {i + 1} : subsidy[x] \in Int
        BY <1>2
      <3> QED BY <3>1, <3>2, <3>3, SumAdd
    <2>4. SumFunctionOnSet(f, 0..q) = SumFunctionOnSet(subsidy, 0..i)
      BY <1>4
    <2>5. IsFiniteSet(0..q) /\ IsFiniteSet(0..(q - 1)) /\ (0..q) \ {q} = 0..(q - 1) /\ q \in 0..q
      BY <1>0
    <2>6. \A p \in 0..q : f[p] \in Int /\ f[p] = Least((i + 1) - p * I, I) * rate[p]
      <3> TAKE p \in 0..q
      <3>1. p \in Nat /\ p <= i \div I
        OBVIOUS
      <3> QED BY <1>1, <3>1
    <2>7. \A p \in 0..(q - 1) : Least((i + 1) - p * I, I) = I /\ Least((i + 2) - p * I, I) = I
      BY <2>2 DEF Least
    <2>8. SumFunctionOnSet(subsidy, 0..i) \in Int
      <3>1. IsFiniteSet(0..i) /\ \A x \in 0..i : subsidy[x] \in Int
        BY <1>0, <1>2
      <3> QED BY <3>1, SumType
    <2>9. CASE i + 1 < (q + 1) * I
      <3>1. (i + 1) \div I = q
        BY <2>1, <2>9
      <3>2. \A p \in 0..q : g[p] \in Int /\ g[p] = Least((i + 2) - p * I, I) * rate[p]
        <4> TAKE p \in 0..q
        <4>1. (i + 1) + 1 = i + 2 /\ i + 1 \in Nat
          OBVIOUS
        <4>2. p \in Nat /\ p <= (i + 1) \div I
          BY <3>1
        <4>3. /\ period(i + 1)[p] = Least(((i + 1) + 1) - p * I, I) * rate[p]
              /\ period(i + 1)[p] \in Int
          BY <1>1, <4>1, <4>2
        <4> QED BY <4>1, <4>3
      <3>3. SumFunctionOnSet(f, 0..q) = f[q] + SumFunctionOnSet(f, 0..(q - 1))
        <4>1. \A p \in 0..q : f[p] \in Int
          BY <2>6
        <4> QED BY <4>1, SumInterval
      <3>4. SumFunctionOnSet(g, 0..q) = g[q] + SumFunctionOnSet(g, 0..(q - 1))
        <4>1. \A p \in 0..q : g[p] \in Int
          BY <3>2
        <4> QED BY <4>1, SumInterval
      <3>5. \A p \in 0..(q - 1) : f[p] = g[p] /\ f[p] \in Int
        BY <2>6, <2>7, <3>2
      <3>6. SumFunctionOnSet(f, 0..(q - 1)) = SumFunctionOnSet(g, 0..(q - 1))
        BY <2>5, <3>5, SumCongruence
      <3>7. SumFunctionOnSet(f, 0..(q - 1)) \in Int
        BY <2>5, <3>5, SumType
      <3>8. g[q] = f[q] + rate[q]
        <4>1. Least((i + 1) - q * I, I) = (i + 1) - q * I
          BY <2>1 DEF Least
        <4>2. Least((i + 2) - q * I, I) = (i + 2) - q * I
          BY <2>1, <2>9 DEF Least
        <4>3. rate[q] \in Int /\ (i + 1) - q * I \in Int /\ (i + 2) - q * I = ((i + 1) - q * I) + 1
          BY RateType
        <4>4. \A a, b \in Int : (a + 1) * b = a * b + b
          OBVIOUS
        <4>5. f[q] = ((i + 1) - q * I) * rate[q]
          BY <2>5, <2>6, <4>1
        <4>6. g[q] = (((i + 1) - q * I) + 1) * rate[q]
          BY <2>5, <3>2, <4>2, <4>3
        <4> QED BY <4>3, <4>4, <4>5, <4>6
      <3>9. subsidy[i + 1] = rate[q] /\ rate[q] \in Int
        BY <1>2, <3>1, RateType
      <3>10. f[q] \in Int
        BY <2>5, <2>6
      <3>11. SumFunctionOnSet(g, 0..q) = SumFunctionOnSet(subsidy, 0..(i + 1))
        BY <2>3, <2>4, <2>8, <3>3, <3>4, <3>6, <3>7, <3>8, <3>9, <3>10
      <3> QED BY <3>1, <3>11
    <2>10. CASE i + 1 = (q + 1) * I
      <3>1. (i + 1) \div I = q + 1
        <4>1. (q + 1) * I <= i + 1 /\ i + 1 < ((q + 1) + 1) * I
          BY <2>10
        <4> QED BY <4>1
      <3>2. \A p \in 0..(q + 1) : g[p] \in Int /\ g[p] = Least((i + 2) - p * I, I) * rate[p]
        <4> TAKE p \in 0..(q + 1)
        <4>1. (i + 1) + 1 = i + 2 /\ i + 1 \in Nat
          OBVIOUS
        <4>2. p \in Nat /\ p <= (i + 1) \div I
          BY <3>1
        <4>3. /\ period(i + 1)[p] = Least(((i + 1) + 1) - p * I, I) * rate[p]
              /\ period(i + 1)[p] \in Int
          BY <1>1, <4>1, <4>2
        <4> QED BY <4>1, <4>3
      <3>3. 0..(q + 1) = (0..q) \cup {q + 1} /\ q + 1 \notin 0..q
        OBVIOUS
      <3>4. SumFunctionOnSet(g, 0..(q + 1)) = g[q + 1] + SumFunctionOnSet(g, 0..q)
        <4>1. \A x \in (0..q) \cup {q + 1} : g[x] \in Int
          BY <3>2, <3>3
        <4>2. q + 1 \in Nat /\ q = (q + 1) - 1
          OBVIOUS
        <4> QED BY <4>1, <4>2, <3>3, SumInterval
      <3>5. g[q + 1] = rate[q + 1] /\ rate[q + 1] \in Int
        <4>1. (i + 2) - (q + 1) * I = 1
          BY <2>10
        <4>2. Least((i + 2) - (q + 1) * I, I) = 1
          BY <4>1 DEF Least
        <4> QED BY <3>2, <4>2, RateType
      <3>6. Least((i + 1) - q * I, I) = I /\ Least((i + 2) - q * I, I) = I
        BY <2>10 DEF Least
      <3>7. \A p \in 0..q : Least((i + 1) - p * I, I) = I /\ Least((i + 2) - p * I, I) = I
        <4>1. \A p \in 0..q : p \in 0..(q - 1) \/ p = q
          OBVIOUS
        <4> QED BY <2>7, <3>6, <4>1
      <3>8. \A p \in 0..q : f[p] = g[p] /\ f[p] \in Int
        BY <2>6, <3>2, <3>7
      <3>9. SumFunctionOnSet(f, 0..q) = SumFunctionOnSet(g, 0..q)
        BY <2>5, <3>8, SumCongruence
      <3>10. subsidy[i + 1] = rate[q + 1]
        BY <1>2, <3>1
      <3>11. SumFunctionOnSet(g, 0..(q + 1)) = SumFunctionOnSet(subsidy, 0..(i + 1))
        BY <2>3, <2>4, <2>8, <3>4, <3>5, <3>9, <3>10
      <3> QED BY <3>1, <3>11
    <2>11. i + 1 < (q + 1) * I \/ i + 1 = (q + 1) * I
      BY <2>1
    <2> QED BY <2>9, <2>10, <2>11
  <1> HIDE DEF U
  <1>5. Nat \subseteq U
    BY <1>3, <1>4, NatSetInduction
  <1> QED BY <1>5 DEF U

\* cumulative_emission is what its comment says, "the sum of all block
\* subsidies from height 0 through height", cut at the total supply.
THEOREM EmissionExact ==
    ASSUME NEW n \in Nat
    PROVE  cumulative_emission(n)
             = Least(SumFunction([h \in 0..n |-> block_subsidy(h)]), total_supply)
  <1> PICK I \in Nat \ {0} : I = halving_interval_blocks
    BY MonetaryAssumption
  <1> DEFINE D == 0..(n \div I)
             f == [p \in D |-> Least((n + 1) - p * I, I) * rate[p]]
             g == [h \in 0..n |-> block_subsidy(h)]
  <1>1. cumulative_emission(n) = Least(SumFunctionOnSet(f, D), total_supply)
    BY DEF cumulative_emission, SumFunction
  <1>2. SumFunction(g) = SumFunctionOnSet(g, 0..n)
    BY DEF SumFunction
  <1>3. IsFiniteSet(D) /\ IsFiniteSet(0..n) /\ n \div I \in Nat
    <2>1. n \div I \in Nat /\ n \div I \in Int /\ 0 \in Int /\ n \in Int
      OBVIOUS
    <2> QED BY <2>1, FS_Interval
  <1>4. \A p \in D : f[p] = period(n)[p] /\ f[p] \in Int
    <2> TAKE p \in D
    <2>1. Least((n + 1) - p * I, I) \in Int /\ rate[p] \in Nat
      BY <1>3, RateType DEF Least
    <2> QED BY <2>1, <1>3 DEF period
  <1>5. \A h \in 0..n : g[h] = subsidy[h] /\ g[h] \in Int
    BY SubsidyType DEF subsidy
  <1> HIDE DEF f, g
  <1>6. SumFunctionOnSet(f, D) = SumFunctionOnSet(period(n), D)
    BY <1>3, <1>4, SumCongruence
  <1>7. SumFunctionOnSet(g, 0..n) = SumFunctionOnSet(subsidy, 0..n)
    BY <1>3, <1>5, SumCongruence
  <1>8. SumFunctionOnSet(period(n), D) = SumFunctionOnSet(subsidy, 0..n)
    BY PeriodsAddUp
  <1> QED BY <1>1, <1>2, <1>6, <1>7, <1>8 DEF g

LEMMA EmissionType == ASSUME NEW n \in Nat PROVE cumulative_emission(n) \in Int
  <1> DEFINE g == [h \in 0..n |-> block_subsidy(h)]
  <1>1. IsFiniteSet(0..n) /\ SumFunction(g) = SumFunctionOnSet(g, 0..n)
    BY FS_Interval DEF SumFunction
  <1>2. \A h \in 0..n : g[h] \in Int
    BY SubsidyType
  <1> HIDE DEF g
  <1>3. SumFunction(g) \in Int
    BY <1>1, <1>2, SumType
  <1>4. cumulative_emission(n) = Least(SumFunction(g), total_supply)
    BY EmissionExact DEF g
  <1> QED BY <1>3, <1>4, MonetaryAssumption DEF Least

-------------------------------------------------------------------------------
(* The supply.                                                             *)

\* The allocation and the subsidies of the heights 1..n, as far as they fit
\* into the total supply.
cap(n) ==
    values(outs(GenesisTx)) + Least(SumFunction([h \in 1..n |-> block_subsidy(h)]), total_supply)

\* SupplyBound, of any chain.
Funded(s) == values(created(s) \ consumed(s)) <= cap(Len(s) - 1)

LEMMA CapFacts ==
    ASSUME NEW n \in Nat
    PROVE  /\ SumFunction([h \in 1..n |-> block_subsidy(h)]) = SumFunctionOnSet(subsidy, 1..n)
           /\ SumFunctionOnSet(subsidy, 1..n) \in Nat
           /\ values(outs(GenesisTx)) \in Nat
  <1> DEFINE g == [h \in 1..n |-> block_subsidy(h)]
  <1>1. SumFunction(g) = SumFunctionOnSet(g, 1..n)
    BY DEF SumFunction
  <1>2. IsFiniteSet(1..n)
    BY FS_Interval
  <1>3. \A h \in 1..n : g[h] = subsidy[h] /\ g[h] \in Int /\ subsidy[h] \in Nat /\ subsidy[h] \in Int
    BY SubsidyType DEF subsidy
  <1> HIDE DEF g
  <1>4. SumFunctionOnSet(g, 1..n) = SumFunctionOnSet(subsidy, 1..n)
    BY <1>2, <1>3, SumCongruence
  <1>5. SumFunctionOnSet(subsidy, 1..n) \in Nat
    BY <1>2, <1>3, SumType
  <1>6. values(outs(GenesisTx)) \in Nat
    BY OutsFacts, ValuesWorth DEF AllTxs
  <1> QED BY <1>1, <1>4, <1>5, <1>6 DEF g

LEMMA LeastStep ==
    ASSUME NEW w \in Nat, NEW e \in Nat, NEW x \in Nat, NEW y \in Nat, NEW T \in Nat,
           NEW v \in Int, v <= w + Least(e, T),
           NEW r \in Int, r <= Least(x, T - Least(y + e, T))
    PROVE  v + r <= w + Least(x + e, T)
  BY DEF Least

\* What a block may mint fits under the cap of its height.
LEMMA CapStep ==
    ASSUME NEW n \in Nat \ {0}, NEW m, m = n - 1, NEW v \in Int, v <= cap(m), NEW r \in Int,
           r <= Least(block_subsidy(n), total_supply - cumulative_emission(m))
    PROVE  v + r <= cap(n)
  <1>1. m \in Nat /\ n \in Nat
    OBVIOUS
  <1> PICK e : e = SumFunctionOnSet(subsidy, 1..m)
    OBVIOUS
  <1> PICK d : d = SumFunctionOnSet(subsidy, 1..n)
    OBVIOUS
  <1> PICK a : a = SumFunctionOnSet(subsidy, 0..m)
    OBVIOUS
  <1>2. \A h \in Nat : subsidy[h] \in Nat /\ subsidy[h] \in Int /\ subsidy[h] = block_subsidy(h)
    BY SubsidyType DEF subsidy
  <1>3. d = block_subsidy(n) + e
    <2>1. \A h \in 1..n : subsidy[h] \in Int
      BY <1>2
    <2>2. 1 \in Int /\ n \in Int /\ 1 <= n
      OBVIOUS
    <2>3. d = subsidy[n] + e
      BY <2>1, <2>2, SumInterval
    <2> QED BY <1>1, <1>2, <2>3
  <1>4. a = block_subsidy(0) + e
    <2> PICK S : S = 0..m
      OBVIOUS
    <2>1. S \ {0} = 1..m /\ 0 \in S /\ S \subseteq Nat
      OBVIOUS
    <2>2. IsFiniteSet(S)
      BY <1>1, FS_Interval
    <2>3. SumFunctionOnSet(subsidy, S) = subsidy[0] + SumFunctionOnSet(subsidy, S \ {0})
      <3>1. \A h \in S : subsidy[h] \in Int
        BY <1>2, <2>1
      <3> QED BY <2>1, <2>2, <3>1, SumTake
    <2> QED BY <1>2, <2>1, <2>3
  <1>5. e \in Nat /\ d \in Nat /\ block_subsidy(0) \in Nat /\ block_subsidy(n) \in Nat
    BY <1>1, <1>2, CapFacts
  <1>6. cumulative_emission(m) = Least(a, total_supply)
    <2>1. SumFunction([h \in 0..m |-> block_subsidy(h)]) = a
      <3> DEFINE g == [h \in 0..m |-> block_subsidy(h)]
      <3>1. SumFunction(g) = SumFunctionOnSet(g, 0..m) /\ IsFiniteSet(0..m)
        BY <1>1, FS_Interval DEF SumFunction
      <3>2. \A h \in 0..m : g[h] = subsidy[h] /\ g[h] \in Int
        BY <1>2
      <3> HIDE DEF g
      <3>3. SumFunctionOnSet(g, 0..m) = a
        BY <3>1, <3>2, SumCongruence
      <3> QED BY <3>1, <3>3 DEF g
    <2> QED BY <1>1, <2>1, EmissionExact
  <1> PICK w : w = values(outs(GenesisTx))
    OBVIOUS
  <1>7. w \in Nat /\ cap(m) = w + Least(e, total_supply) /\ cap(n) = w + Least(d, total_supply)
    BY <1>1, CapFacts DEF cap
  <1>8. total_supply \in Nat
    BY MonetaryAssumption
  <1> PICK x \in Nat : x = block_subsidy(n)
    BY <1>5
  <1> PICK y \in Nat : y = block_subsidy(0)
    BY <1>5
  <1>9. v <= w + Least(e, total_supply) /\ r <= Least(x, total_supply - Least(y + e, total_supply))
    BY <1>4, <1>6, <1>7
  <1>10. v + r <= w + Least(x + e, total_supply)
    BY <1>5, <1>7, <1>8, <1>9, LeastStep
  <1> QED BY <1>3, <1>7, <1>10

\* The outputs and inputs of blocks are finite sets.
LEMMA BlockFinite ==
    ASSUME NEW b \in Blocks
    PROVE  /\ IsFiniteSet(DOMAIN b.txs)
           /\ IsFiniteSet(block_outputs(b)) /\ block_outputs(b) \subseteq AllOuts
           /\ IsFiniteSet(block_inputs(b))
  <1> PICK D : D = DOMAIN b.txs
    OBVIOUS
  <1>1. b.txs \in Seq(AllTxs)
    BY DEF Blocks
  <1>2. \A i \in D : b.txs[i] \in AllTxs
    BY <1>1
  <1>3. IsFiniteSet(D)
    <2>1. D = 1..Len(b.txs) /\ Len(b.txs) \in Nat
      BY <1>1
    <2> QED BY <2>1, FS_Interval
  <1>p. PICK O : O = [i \in D |-> outs(b.txs[i])]
    OBVIOUS
  <1>q. PICK X : X = [i \in D |-> b.txs[i].inputs]
    OBVIOUS
  <1>4. \A i \in D : IsFiniteSet(O[i]) /\ O[i] \subseteq AllOuts
    BY <1>p, <1>2, OutsFacts
  <1>5. \A i \in D : IsFiniteSet(X[i])
    BY <1>q, <1>2, TransactionsAssumption
  <1>6. block_outputs(b) = UNION {O[i] : i \in D}
    BY <1>p DEF block_outputs
  <1>7. block_inputs(b) = UNION {X[i] : i \in D}
    BY <1>q DEF block_inputs
  <1>8. IsFiniteSet(block_outputs(b))
    BY <1>3, <1>4, <1>6, FiniteFamily
  <1>9. IsFiniteSet(block_inputs(b))
    BY <1>3, <1>5, <1>7, FiniteFamily
  <1> QED BY <1>3, <1>4, <1>6, <1>8, <1>9

LEMMA ChainFinite ==
    ASSUME NEW s \in Seq(Blocks)
    PROVE  IsFiniteSet(created(s))
  <1> PICK D : D = DOMAIN s
    OBVIOUS
  <1>1. D = 1..Len(s) /\ Len(s) \in Nat /\ \A n \in D : s[n] \in Blocks
    OBVIOUS
  <1>p. PICK O : O = [n \in D |-> block_outputs(s[n])]
    OBVIOUS
  <1>2. IsFiniteSet(D) /\ \A n \in D : IsFiniteSet(O[n])
    <2>1. IsFiniteSet(D)
      BY <1>1, FS_Interval
    <2>2. \A n \in D : IsFiniteSet(O[n])
      BY <1>1, <1>p, BlockFinite
    <2> QED BY <2>1, <2>2
  <1>3. created(s) = UNION {O[n] : n \in D}
    BY <1>p DEF created
  <1> QED BY <1>2, <1>3, FiniteFamily

\* A block's outputs are its coinbase and what its inputs pay for, less fees.
LEMMA BlockBalance ==
    ASSUME NEW b \in Blocks, b.height > 0, validate_structure(b), block_inputs(b) \subseteq AllOuts,
           \A i, j \in DOMAIN b.txs : i # j => b.txs[i].inputs \cap b.txs[j].inputs = {}
    PROVE  /\ values(block_outputs(b)) + total_fees(b.txs)
                = values(coinbase_outputs(b)) + values(block_inputs(b))
           /\ total_fees(b.txs) \in Int
           /\ values(coinbase_outputs(b)) \in Nat
  <1>p. PICK D : D = {j \in DOMAIN b.txs : b.txs[j].inputs # {}}
    OBVIOUS
  <1>0. D \subseteq DOMAIN b.txs
    BY <1>p
  <1>1. \A i \in DOMAIN b.txs : b.txs[i] \in AllTxs
    BY DEF Blocks
  <1>2. IsFiniteSet(D)
    BY <1>0, BlockFinite, FS_Subset
  <1>q. PICK X : X = [i \in D |-> b.txs[i].inputs]
    OBVIOUS
  <1>r. PICK O : O = [i \in D |-> outs(b.txs[i])]
    OBVIOUS
  <1>s. PICK gx : gx = [i \in D |-> SumFunctionOnSet(worth, X[i])]
    OBVIOUS
  <1>t. PICK go : go = [i \in D |-> SumFunctionOnSet(worth, O[i])]
    OBVIOUS
  <1>u. PICK h : h = [i \in D |-> fee(b.txs[i])]
    OBVIOUS
  <1>3. ASSUME NEW i \in D
        PROVE  /\ IsFiniteSet(X[i]) /\ X[i] \subseteq AllOuts
               /\ IsFiniteSet(O[i]) /\ O[i] \subseteq AllOuts
    <2>1. b.txs[i] \in AllTxs /\ X[i] = b.txs[i].inputs /\ O[i] = outs(b.txs[i]) /\ i \in DOMAIN b.txs
      BY <1>0, <1>1, <1>q, <1>r
    <2>2. X[i] \subseteq AllOuts
      BY <2>1 DEF block_inputs
    <2> QED BY <2>1, <2>2, OutsFacts, TransactionsAssumption
  <1>4. ASSUME NEW i \in D
        PROVE  gx[i] \in Int /\ go[i] \in Int /\ h[i] = gx[i] - go[i]
    <2>1. X[i] = b.txs[i].inputs /\ O[i] = outs(b.txs[i])
      BY <1>q, <1>r
    <2>2. /\ values(X[i]) = gx[i] /\ values(X[i]) \in Nat
          /\ values(O[i]) = go[i] /\ values(O[i]) \in Nat
      BY <1>3, <1>s, <1>t, ValuesWorth
    <2>3. h[i] = values(X[i]) - values(O[i])
      BY <1>u, <2>1 DEF fee
    <2> QED BY <2>2, <2>3
  <1>5. SumFunctionOnSet(h, D) = SumFunctionOnSet(gx, D) - SumFunctionOnSet(go, D)
    BY <1>2, <1>4, SumDifference
  <1>6. total_fees(b.txs) = SumFunctionOnSet(h, D)
    BY <1>p, <1>u DEF total_fees, SumFunction
  <1> PICK UX : UX = UNION {X[i] : i \in D}
    OBVIOUS
  <1> PICK UO : UO = UNION {O[i] : i \in D}
    OBVIOUS
  <1>7. UX = block_inputs(b)
    <2>1. \A o \in block_inputs(b) : o \in UX
      <3> TAKE o \in block_inputs(b)
      <3>1. PICK i \in DOMAIN b.txs : o \in b.txs[i].inputs
        BY BlockMembers
      <3>2. i \in D /\ o \in X[i]
        BY <1>p, <1>q, <3>1
      <3> QED BY <3>2
    <2>2. \A o \in UX : o \in block_inputs(b)
      BY <1>0, <1>q, BlockMembers
    <2> QED BY <2>1, <2>2
  <1>8. \A o \in AllOuts : worth[o] \in Int
    BY ValueType DEF worth
  <1>9. Family(worth, gx, X, D)
    <2>1. \A i \in D : gx[i] = SumFunctionOnSet(worth, X[i])
      BY <1>s
    <2>2. \A i \in D : \A o \in X[i] : worth[o] \in Int
      BY <1>3, <1>8
    <2>3. \A i, j \in D : i # j => X[i] \cap X[j] = {}
      BY <1>0, <1>q
    <2> QED BY <1>2, <1>3, <2>1, <2>2, <2>3 DEF Family
  <1>10. \A i, j \in DOMAIN b.txs : i # j => outs(b.txs[i]) \cap outs(b.txs[j]) = {}
    BY OutsOwner DEF validate_structure
  <1>11. Family(worth, go, O, D)
    <2>1. \A i \in D : go[i] = SumFunctionOnSet(worth, O[i])
      BY <1>t
    <2>2. \A i \in D : \A o \in O[i] : worth[o] \in Int
      BY <1>3, <1>8
    <2>3. \A i, j \in D : i # j => O[i] \cap O[j] = {}
      BY <1>0, <1>10, <1>r
    <2> QED BY <1>2, <1>3, <2>1, <2>2, <2>3 DEF Family
  <1>12. SumFunctionOnSet(worth, UX) = SumFunctionOnSet(gx, D)
    BY <1>9, SumFamily
  <1>13. SumFunctionOnSet(worth, UO) = SumFunctionOnSet(go, D)
    BY <1>11, SumFamily
  <1> PICK C : C = coinbase_outputs(b)
    OBVIOUS
  <1>14. ASSUME NEW o PROVE o \in C <=> \E i \in DOMAIN b.txs : b.txs[i].inputs = {} /\ o \in outs(b.txs[i])
    <2>1. \A i \in DOMAIN b.txs : b.txs[i].inputs = {} => i = 1
      BY DEF validate_structure, no_input_rule, Blocks
    <2> QED BY <2>1 DEF coinbase_outputs
  <1>15. block_outputs(b) = C \cup UO
    <2>1. ASSUME NEW o \in block_outputs(b) PROVE o \in C \cup UO
      <3>1. PICK i \in DOMAIN b.txs : o \in outs(b.txs[i])
        BY BlockMembers
      <3>2. CASE b.txs[i].inputs = {}
        BY <1>14, <3>1, <3>2
      <3>3. CASE b.txs[i].inputs # {}
        <4>1. i \in D /\ o \in O[i]
          BY <1>p, <1>r, <3>1, <3>3
        <4> QED BY <4>1
      <3> QED BY <3>2, <3>3
    <2>2. ASSUME NEW o \in UO PROVE o \in block_outputs(b)
      BY <1>0, <1>r, BlockMembers
    <2>3. C \subseteq block_outputs(b)
      BY CoinbaseInOutputs
    <2> QED BY <2>1, <2>2, <2>3
  <1>16. C \cap UO = {}
    <2> SUFFICES ASSUME NEW o, o \in C, o \in UO PROVE FALSE
      OBVIOUS
    <2>1. PICK i \in DOMAIN b.txs : b.txs[i].inputs = {} /\ o \in outs(b.txs[i])
      BY <1>14
    <2>2. PICK j \in D : o \in O[j]
      OBVIOUS
    <2>3. j \in DOMAIN b.txs /\ b.txs[j].inputs # {} /\ o \in outs(b.txs[j])
      BY <1>p, <1>r, <2>2
    <2> QED BY <1>10, <2>1, <2>3
  <1>17. /\ IsFiniteSet(block_outputs(b)) /\ block_outputs(b) \subseteq AllOuts
         /\ IsFiniteSet(block_inputs(b))
    BY BlockFinite
  <1>18. IsFiniteSet(C) /\ IsFiniteSet(UO) /\ C \subseteq AllOuts /\ UO \subseteq AllOuts
    BY <1>15, <1>17, FS_Subset
  <1>19. SumFunctionOnSet(worth, C \cup UO) = SumFunctionOnSet(worth, C) + SumFunctionOnSet(worth, UO)
    <2>1. \A o \in C \cup UO : worth[o] \in Int
      BY <1>8, <1>18
    <2> QED BY <1>16, <1>18, <2>1, SumUnion
  <1>20. /\ values(block_outputs(b)) = SumFunctionOnSet(worth, C \cup UO)
         /\ values(block_inputs(b)) = SumFunctionOnSet(worth, UX) /\ values(block_inputs(b)) \in Nat
         /\ values(C) = SumFunctionOnSet(worth, C) /\ values(C) \in Nat
         /\ values(UO) = SumFunctionOnSet(worth, UO) /\ values(UO) \in Nat
    BY <1>7, <1>15, <1>17, <1>18, ValuesWorth
  <1> QED BY <1>5, <1>6, <1>12, <1>13, <1>19, <1>20

-------------------------------------------------------------------------------
(* The inductive invariant.                                                *)

\* The chain whose outputs the UTXO set holds: the stored blocks, and the one
\* in hand while it is applied but not stored.
line(S, l) ==
    IF l.pc \in {"applied", "committed"} THEN Append(ByHeight(S), l.block) ELSE ByHeight(S)

\* The number of blocks that the chain state has.
committed(S, l) == IF l.pc = "committed" THEN Cardinality(S) + 1 ELSE Cardinality(S)

\* The block in hand is the next one, or the last one.
InHand(S, l) ==
    /\ l.pc \in {"applied", "committed"} =>
          /\ l.block.height = Cardinality(S)
          /\ l.block.hash = Cardinality(S) + 1
          /\ l.block.prev_hash = link(Cardinality(S) - 1)
    /\ l.pc = "stored" => l.block \in S /\ l.block.height = Cardinality(S) - 1

\* OnlyMatureSpent, of any chain.
MatureOn(s) ==
    \A n, m \in DOMAIN s :
        block_inputs(s[n]) \cap coinbase_outputs(s[m]) # {} => s[n].height >= s[m].height + k_finality

ChainOK(u, c, S, l) ==
    /\ Linked(S)
    /\ Tracks(c, committed(S, l))
    /\ l \in LoopStates
    /\ InHand(S, l)
    /\ Ledger(Blocks, u, line(S, l))
    /\ MatureOn(line(S, l))
    /\ Funded(ByHeight(S)) /\ Funded(line(S, l))

\* An output that the next block may spend, given the stored chain s.
Fit(o, s) ==
    /\ o \in created(s) \ consumed(s)
    /\ \A m \in DOMAIN s : o \in coinbase_outputs(s[m]) => Len(s) >= s[m].height + k_finality

VettedOK(v, p, S, l) ==
    /\ v \subseteq DOMAIN p.by_id
    /\ \A i \in v : \A o \in tx_of(i).inputs :
          \/ Fit(o, ByHeight(S))
          \/ l.pc = "stored" /\ o \in block_inputs(l.block)

IInv ==
    /\ ChainOK(us, chain, block_store, loop)
    /\ PoolOK(pool)
    /\ VettedOK(vetted, pool, block_store, loop)
    /\ events \in Seq(Events) /\ Len(events) <= event_capacity
    /\ ticker \in TickerStates

\* Nothing on a chain comes from outside.
LEMMA CreatedOuts ==
    ASSUME NEW s \in Seq(Blocks)
    PROVE  created(s) \subseteq AllOuts
  <1> SUFFICES ASSUME NEW n \in DOMAIN s, NEW o \in block_outputs(s[n]) PROVE o \in AllOuts
    BY DEF created
  <1>1. PICK i \in DOMAIN s[n].txs : o \in outs(s[n].txs[i])
    BY BlockMembers
  <1>2. s[n].txs \in Seq(AllTxs)
    BY DEF Blocks
  <1> QED BY <1>1, <1>2 DEF AllOuts

LEMMA EntriesOuts ==
    ASSUME NEW u, NEW s, Ledger(Blocks, u, s)
    PROVE  u.entries \subseteq AllOuts
  BY CreatedOuts DEF Ledger, FoldOf, ChainShape

\* Where the node stands between two events.
LEMMA AtRest ==
    ASSUME IInv, loop.pc \in {"recv", "stored"}
    PROVE  /\ Ledger(Blocks, us, ByHeight(block_store))
           /\ tip_height = Cardinality(block_store) - 1
           /\ Tracks(chain, Cardinality(block_store))
  <1>1. Linked(block_store) /\ Tracks(chain, Cardinality(block_store))
        /\ Ledger(Blocks, us, ByHeight(block_store))
    BY DEF IInv, ChainOK, line, committed
  <1>2. Cardinality(block_store) \in Nat \ {0}
    BY <1>1, LinkedFacts
  <1> QED BY <1>1, <1>2, TracksTip DEF tip_height

LEMMA TipFacts ==
    ASSUME IInv
    PROVE  tip_height \in Nat /\ chain.tip \in Nat /\ us.entries \subseteq AllOuts
  <1>1. /\ Linked(block_store) /\ Tracks(chain, committed(block_store, loop))
        /\ Ledger(Blocks, us, line(block_store, loop))
    BY DEF IInv, ChainOK
  <1>2. Cardinality(block_store) \in Nat \ {0}
    BY <1>1, LinkedFacts
  <1>3. committed(block_store, loop) \in Nat \ {0}
    BY <1>2 DEF committed
  <1> QED BY <1>1, <1>3, TracksTip, EntriesOuts DEF tip_height

-------------------------------------------------------------------------------
(* The initial state.                                                      *)

LEMMA GenesisFacts ==
    /\ GenesisBlock \in Blocks
    /\ block_inputs(GenesisBlock) = {}
    /\ apply_ok(EmptyStore, GenesisBlock)
    /\ Linked({GenesisBlock})
    /\ ByHeight({GenesisBlock}) = Append(<<>>, GenesisBlock)
  <1> PICK g : g = GenesisBlock
    OBVIOUS
  <1>1. g.hash = 1 /\ g.height = 0 /\ g.txs = <<GenesisTx>> /\ g.prev_hash = 0
        /\ g.slot_ok = TRUE /\ g.utxo_commitment = {}
    BY DEF GenesisBlock, CS!ZERO
  <1>2. GenesisTx \in AllTxs
    BY DEF AllTxs
  <1>3. <<GenesisTx>> \in Seq(AllTxs) /\ DOMAIN g.txs = {1} /\ g.txs[1] = GenesisTx
    BY <1>1, <1>2
  <1>4. GenesisTx.inputs = {} /\ GenesisTx.lock_time = 0 /\ GenesisTx.outputs # <<>>
    BY TransactionsAssumption
  <1>5. g \in Blocks
    <2>1. g \in [hash : Nat, prev_hash : Nat, height : Nat, slot_ok : BOOLEAN, txs : Seq(AllTxs),
                 utxo_commitment : SUBSET AllOuts]
      BY <1>3 DEF GenesisBlock, CS!ZERO
    <2> QED BY <1>3, <1>4, <2>1 DEF Blocks
  <1>6. block_inputs(g) = {}
    BY <1>3, <1>4 DEF block_inputs
  <1>7. validate_structure(g)
    BY <1>1, <1>3, <1>4 DEF validate_structure, no_input_rule
  <1>8. apply_ok(EmptyStore, g)
    <2>1. EmptyStore.entries = {}
      BY DEF EmptyStore
    <2> QED BY <1>3, <1>4, <1>7, <2>1 DEF apply_ok
  <1>9. IsFiniteSet({g}) /\ Cardinality({g}) = 1
    BY FS_Singleton
  <1>10. Linked({g})
    <2>1. {b.height : b \in {g}} = {0}
      BY <1>1
    <2>2. 0..(1 - 1) = {0}
      OBVIOUS
    <2> QED BY <1>1, <1>5, <1>9, <2>1, <2>2 DEF Linked
  <1>11. ByHeight({g}) = <<g>>
    <2>1. /\ ByHeight({g}) \in Seq(Blocks) /\ Len(ByHeight({g})) = 1
          /\ \A n \in 1..1 : ByHeight({g})[n] \in {g}
      BY <1>9, <1>10, LinkedFacts
    <2>2. <<g>> \in Seq(Blocks) /\ Len(<<g>>) = 1 /\ \A n \in 1..1 : <<g>>[n] = g
      BY <1>5
    <2>3. \A n \in 1..Len(ByHeight({g})) : ByHeight({g})[n] = <<g>>[n]
      BY <2>1, <2>2
    <2> QED BY <2>1, <2>2, <2>3, SameSeq
  <1>12. <<g>> = Append(<<>>, g)
    OBVIOUS
  <1> QED BY <1>5, <1>6, <1>8, <1>10, <1>11, <1>12

LEMMA GenesisFunded == Funded(Append(<<>>, GenesisBlock))
  <1> PICK s : s = Append(<<>>, GenesisBlock)
    OBVIOUS
  <1>1. Len(s) = 1 /\ DOMAIN s = {1} /\ s[1] = GenesisBlock
    OBVIOUS
  <1>2. GenesisBlock.txs = <<GenesisTx>> /\ block_inputs(GenesisBlock) = {}
    BY GenesisFacts DEF GenesisBlock
  <1>3. block_outputs(GenesisBlock) = outs(GenesisTx)
    <2>1. DOMAIN <<GenesisTx>> = {1} /\ <<GenesisTx>>[1] = GenesisTx
      OBVIOUS
    <2> QED BY <1>2, <2>1 DEF block_outputs
  <1>4. created(s) \ consumed(s) = outs(GenesisTx)
    BY <1>1, <1>2, <1>3 DEF created, consumed
  <1>5. 0 \in Nat /\ Len(s) - 1 = 0
    BY <1>1
  <1>6. values(outs(GenesisTx)) <= cap(0)
    <2>1. /\ SumFunction([h \in 1..0 |-> block_subsidy(h)]) = SumFunctionOnSet(subsidy, 1..0)
          /\ SumFunctionOnSet(subsidy, 1..0) \in Nat
          /\ values(outs(GenesisTx)) \in Nat
      BY <1>5, CapFacts
    <2>2. total_supply \in Nat
      BY MonetaryAssumption
    <2> QED BY <2>1, <2>2 DEF cap, Least
  <1> QED BY <1>4, <1>5, <1>6 DEF Funded

LEMMA Initial == Init => IInv
  <1> SUFFICES ASSUME Init PROVE IInv
    OBVIOUS
  <1> DEFINE S == {GenesisBlock}
             s == Append(<<>>, GenesisBlock)
  <1>1. /\ us = apply_block(EmptyStore, GenesisBlock) /\ block_store = S
        /\ chain = CS!genesis /\ pool = CP!EmptyPool /\ events = <<>>
        /\ loop = Receiving /\ ticker = Waiting /\ vetted = {}
    BY DEF Init
  <1>2. Linked(S) /\ ByHeight(S) = s /\ GenesisBlock \in Blocks /\ block_inputs(GenesisBlock) = {}
    BY GenesisFacts
  <1>3. Ledger(Blocks, us, s)
    <2>1. GenesisBlock.height = Len(<<>>) /\ DOMAIN <<>> = {}
      BY DEF GenesisBlock
    <2> QED BY <1>1, <2>1, GenesisFacts, EmptyLedger, SoundBlocks, ApplyLedger
  <1>4. Cardinality(S) = 1
    BY FS_Singleton
  <1>5. loop \in LoopStates /\ loop.pc = "recv" /\ ticker \in TickerStates
    BY <1>1 DEF LoopStates, TickerStates, Receiving
  <1>6. Tracks(chain, committed(block_store, loop))
    BY <1>1, <1>4, <1>5, TracksGenesis DEF committed
  <1>7. line(block_store, loop) = s /\ InHand(block_store, loop)
    BY <1>1, <1>2, <1>5 DEF line, InHand
  <1>8. MatureOn(s)
    <2>1. DOMAIN s = {1} /\ s[1] = GenesisBlock
      OBVIOUS
    <2> HIDE DEF s
    <2> QED BY <2>1, <1>2 DEF MatureOn
  <1>9. ChainOK(us, chain, block_store, loop)
    <2>1. Funded(s)
      BY GenesisFunded
    <2> HIDE DEF S, s
    <2> QED BY <1>1, <1>2, <1>3, <1>5, <1>6, <1>7, <1>8, <2>1 DEF ChainOK
  <1>10. PoolOK(pool)
    BY <1>1, PoolEmpty
  <1>11. VettedOK(vetted, pool, block_store, loop)
    BY <1>1 DEF VettedOK
  <1>12. events \in Seq(Events) /\ Len(events) <= event_capacity
    BY <1>1, BoundsAssumption
  <1> QED BY <1>5, <1>9, <1>10, <1>11, <1>12 DEF IInv

-------------------------------------------------------------------------------
(* What arrives.                                                           *)

LEMMA SpeculativeOuts ==
    ASSUME NEW E, E \subseteq AllOuts, NEW txs \in Seq(AllTxs)
    PROVE  speculative_set(E, txs) \in SUBSET AllOuts
  <1>1. \A i \in DOMAIN txs : outs(txs[i]) \subseteq AllOuts
    BY OutsFacts
  <1> QED BY <1>1 DEF speculative_set

LEMMA PeerBlockType ==
    ASSUME IInv, tip_height < MaxHeight, NEW pb \in PeerBlocks(tip_height + 1)
    PROVE  PeerBlock(pb[1], pb[2]) \in Proposals
  <1>1. tip_height \in Nat /\ chain.tip \in Nat /\ us.entries \subseteq AllOuts
    BY TipFacts
  <1>2. tip_height + 1 \in 1..MaxHeight
    BY <1>1, BoundsAssumption
  <1>3. pb[1] \in Seq(AllTxs)
    BY <1>2, TransactionsAssumption
  <1>4. speculative_set(us.entries, pb[1]) \in SUBSET AllOuts
    BY <1>1, <1>3, SpeculativeOuts
  <1>5. CS!GenesisEntry.hash = 0
    BY DEF CS!GenesisEntry, CS!ZERO
  <1> QED BY <1>1, <1>3, <1>4, <1>5 DEF PeerBlock, Proposals

\* Sending an event only changes the channel and the ticker.
LEMMA SendKeeps ==
    ASSUME IInv, NEW e \in Events, Send(e), ticker' \in TickerStates,
           UNCHANGED <<us, chain, block_store, pool, loop, vetted>>
    PROVE  IInv'
  <1>1. events \in Seq(Events) /\ Len(events) \in Nat /\ event_capacity \in Nat
    BY BoundsAssumption DEF IInv
  <1>2. events' \in Seq(Events) /\ Len(events') = Len(events) + 1 /\ Len(events) < event_capacity
    BY <1>1 DEF Send
  <1>3. Len(events') <= event_capacity
    BY <1>1, <1>2
  <1> QED BY <1>2, <1>3 DEF IInv

LEMMA ReceiveBlockKeeps ==
    ASSUME IInv, NEW pb \in PeerBlocks(tip_height + 1),
           ReceiveBlock(pb[1], pb[2]) \/ SubmitBlock(pb[1], pb[2])
    PROVE  IInv'
  <1> PICK b : b = PeerBlock(pb[1], pb[2])
    OBVIOUS
  <1>1. /\ tip_height < MaxHeight /\ Send(BlockEvent(b))
        /\ UNCHANGED <<us, chain, block_store, pool, loop, ticker, vetted>>
    BY DEF ReceiveBlock, SubmitBlock, stores
  <1>2. b \in Proposals
    BY <1>1, PeerBlockType
  <1>3. BlockEvent(b) \in Events
    BY <1>2 DEF BlockEvent, Events
  <1>4. ticker' \in TickerStates
    BY <1>1 DEF IInv
  <1> QED BY <1>1, <1>3, <1>4, SendKeeps

LEMMA ReceiveTxKeeps ==
    ASSUME IInv, NEW t \in GossipTxs, ReceiveTx(t)
    PROVE  IInv'
  <1>1. Send(TxEvent(t)) /\ UNCHANGED <<us, chain, block_store, pool, loop, ticker, vetted>>
    BY DEF ReceiveTx, stores
  <1>2. t \in PoolTxs
    BY TransactionsAssumption
  <1>3. TxEvent(t) \in Events
    BY <1>2 DEF TxEvent, Events
  <1>4. ticker' \in TickerStates
    BY <1>1 DEF IInv
  <1> QED BY <1>1, <1>3, <1>4, SendKeeps

LEMMA DispatchKeeps == ASSUME IInv, Dispatch PROVE IInv'
  <1> PICK b : b = ticker.block
    OBVIOUS
  <1>1. /\ ticker.pc = "send" /\ Send(BlockEvent(b)) /\ ticker' = Waiting
        /\ UNCHANGED <<us, chain, block_store, pool, loop, vetted>>
    BY DEF Dispatch, stores
  <1>2. b \in Proposals
    BY <1>1 DEF IInv, TickerStates, Waiting
  <1>3. BlockEvent(b) \in Events
    BY <1>2 DEF BlockEvent, Events
  <1>4. ticker' \in TickerStates
    BY <1>1 DEF TickerStates
  <1> QED BY <1>1, <1>3, <1>4, SendKeeps

-------------------------------------------------------------------------------
(* The slot ticker.                                                        *)

LEMMA TickerFrame ==
    ASSUME IInv, ticker' \in TickerStates,
           UNCHANGED <<us, chain, block_store, pool, events, loop, vetted>>
    PROVE  IInv'
  BY DEF IInv

LEMMA ReadTipKeeps == ASSUME IInv, ReadTip PROVE IInv'
  <1>1. tip_height \in Nat /\ chain.tip \in Nat /\ tip_height < MaxHeight
    BY TipFacts DEF ReadTip
  <1>2. tip_height + 1 \in 1..MaxHeight
    BY <1>1, BoundsAssumption
  <1>3. ticker' \in TickerStates
    BY <1>1, <1>2 DEF ReadTip, TickerStates
  <1> QED BY <1>3, TickerFrame DEF ReadTip, stores

LEMMA TakeBatchKeeps == ASSUME IInv, TakeBatch PROVE IInv'
  <1> PICK ids : ids = CP!get_batch(pool, batch_size)
    OBVIOUS
  <1>p. PICK txs : txs = [i \in DOMAIN ids |-> tx_of(ids[i])]
    OBVIOUS
  <1>1. txs \in Seq(AllTxs)
    BY <1>p, PoolBatch DEF IInv
  <1>2. ticker.prev_hash \in Nat /\ ticker.height \in 1..MaxHeight
    BY DEF IInv, TickerStates, TakeBatch, Waiting
  <1>3. ticker' = [pc |-> "batch", prev_hash |-> ticker.prev_hash, height |-> ticker.height,
                   txs |-> txs]
    BY <1>p DEF TakeBatch
  <1>4. ticker' \in TickerStates
    BY <1>1, <1>2, <1>3 DEF TickerStates
  <1> QED BY <1>4, TickerFrame DEF TakeBatch, stores

LEMMA CoinbaseType ==
    ASSUME NEW h \in 1..MaxHeight, NEW r \in 1..MaxReward
    PROVE  new_coinbase(h, r) \in AllTxs
  <1>1. \E t \in Coinbases : t.lock_time = h /\ t.outputs = <<r>>
    BY TransactionsAssumption
  <1> QED BY <1>1 DEF new_coinbase, AllTxs

LEMMA ClaimRewardKeeps == ASSUME IInv, ClaimReward PROVE IInv'
  <1> PICK txs : txs = ticker.txs
    OBVIOUS
  <1> PICK r : r = total_block_reward(ticker.height, total_fees(txs))
    OBVIOUS
  <1>1. ticker \in [pc : {"batch", "body"}, prev_hash : Nat, height : 1..MaxHeight, txs : Seq(AllTxs)]
    BY DEF IInv, TickerStates, ClaimReward, Waiting
  <1>2. \/ ticker' = Waiting
        \/ /\ coinbase_enabled => r \in 0..MaxReward
           /\ ticker' = [ticker EXCEPT !.pc = "body", !.txs = with_coinbase(ticker.height, txs)]
    BY DEF ClaimReward
  <1>3. CASE ticker' = Waiting
    <2>1. ticker' \in TickerStates
      BY <1>3 DEF TickerStates
    <2> QED BY <2>1, TickerFrame DEF ClaimReward, stores
  <1>4. CASE /\ coinbase_enabled => r \in 0..MaxReward
             /\ ticker' = [ticker EXCEPT !.pc = "body", !.txs = with_coinbase(ticker.height, txs)]
    <2>1. with_coinbase(ticker.height, txs) \in Seq(AllTxs)
      <3>1. CASE coinbase_enabled /\ r > 0
        <4>1. r \in 1..MaxReward
          BY <1>4, <3>1, BoundsAssumption
        <4>2. new_coinbase(ticker.height, r) \in AllTxs
          BY <1>1, <4>1, CoinbaseType
        <4>3. with_coinbase(ticker.height, txs) = <<new_coinbase(ticker.height, r)>> \o txs
          BY <3>1 DEF with_coinbase
        <4> QED BY <1>1, <4>2, <4>3
      <3>2. CASE ~(coinbase_enabled /\ r > 0)
        BY <1>1, <3>2 DEF with_coinbase
      <3> QED BY <3>1, <3>2
    <2>2. ticker' \in TickerStates
      BY <1>1, <1>4, <2>1 DEF TickerStates
    <2> QED BY <2>2, TickerFrame DEF ClaimReward, stores
  <1> QED BY <1>2, <1>3, <1>4

LEMMA StampBlockKeeps == ASSUME IInv, StampBlock PROVE IInv'
  <1> DEFINE set == speculative_set(us.entries, ticker.txs)
             block(ok) == [prev_hash |-> ticker.prev_hash, height |-> ticker.height, slot_ok |-> ok,
                           txs |-> ticker.txs, utxo_commitment |-> set]
  <1>1. /\ ticker.prev_hash \in Nat /\ ticker.height \in 1..MaxHeight
        /\ ticker.txs \in Seq(AllTxs)
    BY DEF IInv, TickerStates, StampBlock, Waiting
  <1>2. us.entries \subseteq AllOuts
    BY TipFacts
  <1>3. set \in SUBSET AllOuts
    BY <1>1, <1>2, SpeculativeOuts
  <1>4. PICK ok \in ticker_slot_ok : ticker' = [pc |-> "send", block |-> block(ok)] \/ ticker' = Waiting
    BY DEF StampBlock
  <1>5. ok \in BOOLEAN
    BY BoundsAssumption
  <1> HIDE DEF set
  <1>6. block(ok) \in Proposals
    BY <1>1, <1>3, <1>5 DEF Proposals
  <1>7. ticker' \in TickerStates
    BY <1>4, <1>6 DEF TickerStates
  <1> QED BY <1>7, TickerFrame DEF StampBlock, stores

-------------------------------------------------------------------------------
(* The pool.                                                               *)

\* What the store says of an output is what the chain says of it.
LEMMA FitExact ==
    ASSUME NEW u, NEW s, Ledger(Blocks, u, s), NEW o
    PROVE  Fit(o, s) <=> o \in u.entries /\ matured(u, o, Len(s))
  <1>1. u.entries = created(s) \ consumed(s)
    BY DEF Ledger, FoldOf
  <1>2. DOMAIN u.cbh = u.entries \cap coinbases(s)
    BY DEF Ledger, RecordsOf
  <1>3. \A m \in DOMAIN s : o \in coinbase_outputs(s[m]) /\ o \in u.entries => u.cbh[o] = s[m].height
    BY DEF Ledger, RecordsOf
  <1>4. o \in coinbases(s) <=> \E m \in DOMAIN s : o \in coinbase_outputs(s[m])
    BY DEF coinbases
  <1> QED BY <1>1, <1>2, <1>3, <1>4 DEF Fit, matured

LEMMA SendTransactionKeeps ==
    ASSUME IInv, NEW t \in RpcTxs, SendTransaction(t)
    PROVE  IInv'
  <1>1. /\ pool' = CP!add(pool, Entry(t, 0), 0)
        /\ vetted' = vetted \cap DOMAIN pool'.by_id
        /\ UNCHANGED <<us, chain, block_store, events, loop, ticker>>
    BY DEF SendTransaction, stores
  <1>2. t \in PoolTxs /\ 0 \in Int
    BY TransactionsAssumption
  <1>3. PoolOK(pool')
    BY <1>1, <1>2, PoolAdd DEF IInv
  <1>4. VettedOK(vetted', pool', block_store', loop')
    BY <1>1 DEF IInv, VettedOK
  <1> QED BY <1>1, <1>3, <1>4 DEF IInv

LEMMA TailEvents ==
    ASSUME IInv, events # <<>>, events' = Tail(events)
    PROVE  /\ events' \in Seq(Events) /\ Len(events') <= event_capacity
           /\ Head(events) \in Events
  <1>1. events \in Seq(Events) /\ Len(events) <= event_capacity /\ event_capacity \in Nat
    BY BoundsAssumption DEF IInv
  <1> QED BY <1>1

LEMMA HandleTxKeeps == ASSUME IInv, HandleTx PROVE IInv'
  <1> PICK tx : tx = Head(events).tx
    OBVIOUS
  <1> PICK after : after = CP!add(pool, Entry(tx, fee(tx)), 0)
    OBVIOUS
  <1>1. /\ loop.pc = "recv" /\ events # <<>> /\ Head(events).kind = "TxReceived"
        /\ events' = Tail(events)
        /\ UNCHANGED <<us, chain, block_store, loop, ticker>>
    BY DEF HandleTx, stores
  <1>2. /\ events' \in Seq(Events) /\ Len(events') <= event_capacity
        /\ Head(events) \in Events
    BY <1>1, TailEvents
  <1>3. tx \in PoolTxs /\ tx \in AllTxs
    BY <1>1, <1>2 DEF Events, AllTxs
  <1>4. CASE check_coinbase_maturity(tx) /\ validate_transaction(tx)
    <2>1. /\ pool' = after
          /\ vetted' = (vetted \cap DOMAIN after.by_id) \cup (DOMAIN after.by_id \ DOMAIN pool.by_id)
      BY <1>4 DEF HandleTx
    <2>2. tx.inputs \subseteq us.entries /\ \A o \in tx.inputs : matured(us, o, tip_height + 1)
      BY <1>4 DEF check_coinbase_maturity, validate_transaction
    <2>3. us.entries \subseteq AllOuts
      BY TipFacts
    <2>4. fee(tx) \in Int
      BY <1>3, <2>2, <2>3, FeeType
    <2>5. PoolOK(after) /\ \A i \in DOMAIN after.by_id : i \in DOMAIN pool.by_id \/ i = tx.id
      BY <1>3, <2>4, PoolAdd DEF IInv
    <2>6. ASSUME NEW o \in tx.inputs PROVE Fit(o, ByHeight(block_store))
      <3>1. /\ Ledger(Blocks, us, ByHeight(block_store))
            /\ tip_height = Cardinality(block_store) - 1
        BY <1>1, AtRest
      <3>2. Len(ByHeight(block_store)) = Cardinality(block_store) /\ Cardinality(block_store) \in Nat
        BY LinkedFacts DEF IInv, ChainOK
      <3>3. tip_height + 1 = Len(ByHeight(block_store))
        BY <3>1, <3>2
      <3> QED BY <2>2, <3>1, <3>3, FitExact
    <2>7. \A i \in vetted' : \A o \in tx_of(i).inputs :
             \/ Fit(o, ByHeight(block_store))
             \/ loop.pc = "stored" /\ o \in block_inputs(loop.block)
      <3>1. tx_of(tx.id) = tx
        BY <1>3, TxOf
      <3> QED BY <2>1, <2>5, <2>6, <3>1 DEF IInv, VettedOK
    <2>8. VettedOK(vetted', pool', block_store', loop')
      BY <1>1, <2>1, <2>7 DEF VettedOK, IInv
    <2> QED BY <1>1, <1>2, <2>1, <2>5, <2>8 DEF IInv
  <1>5. CASE ~(check_coinbase_maturity(tx) /\ validate_transaction(tx))
    <2>1. UNCHANGED <<pool, vetted>>
      BY <1>5 DEF HandleTx
    <2> QED BY <1>1, <1>2, <2>1 DEF IInv
  <1> QED BY <1>4, <1>5

LEMMA RejectBlockKeeps == ASSUME IInv, RejectBlock PROVE IInv'
  <1>1. /\ events # <<>> /\ events' = Tail(events)
        /\ UNCHANGED <<us, chain, block_store, pool, loop, ticker, vetted>>
    BY DEF RejectBlock, stores
  <1>2. events' \in Seq(Events) /\ Len(events') <= event_capacity
    BY <1>1, TailEvents
  <1> QED BY <1>1, <1>2 DEF IInv

LEMMA CleanPoolKeeps == ASSUME IInv, CleanPool PROVE IInv'
  <1> PICK b : b = loop.block
    OBVIOUS
  <1>1. /\ loop.pc = "stored" /\ loop' = Receiving
        /\ pool' = CP!remove_confirmed(pool, block_inputs(b))
        /\ vetted' = vetted \cap DOMAIN pool'.by_id
        /\ UNCHANGED <<us, chain, block_store, events, ticker>>
    BY DEF CleanPool, stores, spent_outpoints
  <1>2. /\ PoolOK(pool')
        /\ \A i \in DOMAIN pool'.by_id : tx_of(i).inputs \cap block_inputs(b) = {}
    BY <1>1, PoolConfirmed DEF IInv
  <1>3. loop'.pc = "recv" /\ loop' \in LoopStates
    BY <1>1 DEF Receiving, LoopStates
  <1>4. VettedOK(vetted', pool', block_store', loop')
    BY <1>1, <1>2 DEF IInv, VettedOK
  <1>5. ChainOK(us', chain', block_store', loop')
    BY <1>1, <1>3 DEF IInv, ChainOK, line, committed, InHand
  <1> QED BY <1>1, <1>2, <1>4, <1>5 DEF IInv

-------------------------------------------------------------------------------
(* A block on its way through the main loop.                               *)

\* The stored chain, and the next block on it.
LEMMA ChainFacts ==
    ASSUME NEW S, Linked(S)
    PROVE  /\ Len(ByHeight(S)) = Cardinality(S) /\ Cardinality(S) \in Nat \ {0}
           /\ ByHeight(S) \in Seq(Blocks)
           /\ \A n \in DOMAIN ByHeight(S) : ByHeight(S)[n].hash # Cardinality(S) + 1
           /\ \A b \in S : b.hash # Cardinality(S) + 1 /\ b.height # Cardinality(S)
  <1>1. /\ Cardinality(S) \in Nat \ {0}
        /\ ByHeight(S) \in Seq(Blocks)
        /\ Len(ByHeight(S)) = Cardinality(S)
        /\ \A n \in 1..Cardinality(S) : ByHeight(S)[n] \in S
        /\ \A b \in S : b.height \in 0..(Cardinality(S) - 1)
    BY LinkedFacts
  <1>2. DOMAIN ByHeight(S) = 1..Cardinality(S)
    BY <1>1
  <1>3. \A b \in S : b.hash = b.height + 1
    BY DEF Linked
  <1>4. \A b \in S : b.hash # Cardinality(S) + 1 /\ b.height # Cardinality(S)
    BY <1>1, <1>3
  <1> QED BY <1>1, <1>2, <1>4

\* Every input of an acceptable block is mature on the chain it extends.
LEMMA MatureAppend ==
    ASSUME NEW s \in Seq(Blocks), NEW b \in Blocks, Ledger(Blocks, us, s), MatureOn(s),
           b.height = Len(s), validate_block_rewards(b), apply_ok(us, b),
           Ledger(Blocks, apply_block(us, b), Append(s, b))
    PROVE  MatureOn(Append(s, b))
  <1> PICK t : t = Append(s, b)
    OBVIOUS
  <1>1. /\ DOMAIN t = DOMAIN s \cup {Len(s) + 1} /\ t[Len(s) + 1] = b
        /\ \A n \in DOMAIN s : t[n] = s[n]
    BY AppendFacts
  <1>2. block_outputs(b) \cap created(s) = {}
    BY LastBlock DEF Ledger
  <1>3. \A n \in DOMAIN s : block_inputs(s[n]) \subseteq created(s)
    BY Causal DEF Ledger, consumed
  <1>4. coinbase_outputs(b) \subseteq block_outputs(b)
    BY CoinbaseInOutputs
  <1>5. \A m \in DOMAIN s : coinbase_outputs(s[m]) \subseteq created(s)
    BY CoinbaseInOutputs DEF created
  <1>6. ASSUME NEW o \in block_inputs(b)
        PROVE  \/ o \in block_outputs(b) /\ o \notin coinbase_outputs(b)
               \/ o \in us.entries /\ matured(us, o, Len(s))
    <2>1. PICK i \in DOMAIN b.txs : o \in b.txs[i].inputs
      BY BlockMembers
    <2>2. \/ o \in (UNION {outs(b.txs[j]) : j \in 1..(i - 1)}) \ coinbase_outputs(b)
          \/ o \in us.entries /\ matured(us, o, b.height)
      BY <2>1 DEF validate_block_rewards
    <2>3. CASE o \in (UNION {outs(b.txs[j]) : j \in 1..(i - 1)}) \ coinbase_outputs(b)
      <3>1. PICK j \in 1..(i - 1) : o \in outs(b.txs[j])
        BY <2>3
      <3>2. b.txs \in Seq(AllTxs)
        BY DEF Blocks
      <3>3. j \in DOMAIN b.txs
        BY <3>2
      <3> QED BY <2>3, <3>1, <3>3, BlockMembers
    <2> QED BY <2>2, <2>3
  <1>7. \A o \in us.entries : matured(us, o, Len(s)) =>
           \A m \in DOMAIN s : o \in coinbase_outputs(s[m]) => Len(s) >= s[m].height + k_finality
    BY FitExact DEF Fit
  <1>8. block_outputs(b) \cap us.entries = {}
    BY DEF apply_ok
  <1>9. ASSUME NEW n \in DOMAIN t, NEW m \in DOMAIN t,
               NEW o, o \in block_inputs(t[n]), o \in coinbase_outputs(t[m])
        PROVE  t[n].height >= t[m].height + k_finality
    <2>1. CASE n \in DOMAIN s /\ m \in DOMAIN s
      <3>1. t[n] = s[n] /\ t[m] = s[m]
        BY <1>1, <2>1
      <3> QED BY <1>9, <2>1, <3>1 DEF MatureOn
    <2>2. CASE n \in DOMAIN s /\ m = Len(s) + 1
      BY <1>1, <1>2, <1>3, <1>4, <1>9, <2>2
    <2>3. CASE n = Len(s) + 1 /\ m \in DOMAIN s
      <3>1. o \in block_inputs(b) /\ o \in coinbase_outputs(s[m])
        BY <1>1, <1>9, <2>3
      <3>2. o \in us.entries /\ matured(us, o, Len(s))
        BY <1>2, <1>5, <1>6, <2>3, <3>1
      <3>3. Len(s) >= s[m].height + k_finality
        BY <1>7, <2>3, <3>1, <3>2
      <3>4. t[n].height = Len(s) /\ t[m].height = s[m].height
        BY <1>1, <2>3
      <3> QED BY <3>3, <3>4
    <2>4. CASE n = Len(s) + 1 /\ m = Len(s) + 1
      BY <1>1, <1>4, <1>6, <1>8, <1>9, <2>4
    <2> QED BY <1>1, <2>1, <2>2, <2>3, <2>4
  <1> QED BY <1>9 DEF MatureOn

\* A block at height n with outputs o, inputs x, coinbase c and fees d takes
\* the supply from e to f.
Mints(n, e, f, o, x, c, d) ==
    /\ n \in Nat \ {0}
    /\ e \in Int /\ f \in Int /\ o \in Int /\ x \in Int /\ c \in Int /\ d \in Int
    /\ f + x = e + o
    /\ o + d = c + x
    /\ e <= cap(n - 1)
    /\ c <= Least(block_subsidy(n), total_supply - cumulative_emission(n - 1)) + d

LEMMA MintStep ==
    ASSUME NEW n, NEW e, NEW f, NEW o, NEW x, NEW c, NEW d, Mints(n, e, f, o, x, c, d)
    PROVE  f <= cap(n)
  <1>m. PICK m : m = n - 1
    OBVIOUS
  <1> USE DEF Mints
  <1>r. PICK r : r = Least(block_subsidy(n), total_supply - cumulative_emission(m))
    OBVIOUS
  <1>1. r \in Int
    <2>1. m \in Nat /\ block_subsidy(n) \in Nat /\ total_supply \in Nat
      BY <1>m, SubsidyType, MonetaryAssumption
    <2>2. cumulative_emission(m) \in Int
      BY <2>1, EmissionType
    <2> QED BY <1>r, <2>1, <2>2 DEF Least
  <1>2. c - d \in Int /\ c - d <= r /\ f = e + (c - d)
    BY <1>1, <1>r, <1>m
  <1>3. e + (c - d) <= cap(n)
    BY <1>m, <1>r, <1>2, CapStep
  <1> QED BY <1>2, <1>3

\* An acceptable block mints no more than the schedule allows.
LEMMA FundedAppend ==
    ASSUME NEW s \in Seq(Blocks), NEW b \in Blocks, Ledger(Blocks, us, s), Funded(s),
           b.height = Len(s), Len(s) > 0, validate_block_rewards(b), apply_ok(us, b),
           Ledger(Blocks, apply_block(us, b), Append(s, b))
    PROVE  Funded(Append(s, b))
  <1> PICK t : t = Append(s, b)
    OBVIOUS
  <1> PICK E : E = us.entries
    OBVIOUS
  <1> PICK X : X = block_inputs(b)
    OBVIOUS
  <1> PICK O : O = block_outputs(b)
    OBVIOUS
  <1> PICK F : F = created(t) \ consumed(t)
    OBVIOUS
  <1>1. created(t) = created(s) \cup O /\ consumed(t) = consumed(s) \cup X /\ Len(t) = Len(s) + 1
    BY FoldAppend, AppendFacts
  <1>2. E = created(s) \ consumed(s) /\ consumed(s) \subseteq created(s)
    BY Causal DEF Ledger, FoldOf
  <1>3. O \cap created(s) = {} /\ X \cap consumed(s) = {} /\ X \subseteq created(s) \cup O
    BY LastBlock DEF Ledger
  <1>4. /\ F \cup X = E \cup O /\ F \cap X = {} /\ E \cap O = {}
    BY <1>1, <1>2, <1>3
  <1>5. /\ IsFiniteSet(O) /\ O \subseteq AllOuts /\ IsFiniteSet(X)
    BY BlockFinite
  <1>6. IsFiniteSet(E) /\ E \subseteq AllOuts
    <2>1. IsFiniteSet(created(s)) /\ created(s) \subseteq AllOuts
      BY ChainFinite, CreatedOuts
    <2> QED BY <1>2, <2>1, FS_Subset
  <1>7. IsFiniteSet(E \cup O)
    BY <1>5, <1>6, FS_Union
  <1>8. IsFiniteSet(F) /\ F \subseteq AllOuts /\ X \subseteq AllOuts
    <2>1. F \in SUBSET (E \cup O) /\ X \in SUBSET (E \cup O)
      BY <1>4
    <2> QED BY <1>5, <1>6, <1>7, <2>1, FS_Subset
  <1>9. \A o \in AllOuts : worth[o] \in Int
    BY ValueType DEF worth
  <1>10. values(F) + values(X) = values(E) + values(O)
    <2>1. SumFunctionOnSet(worth, F \cup X) = SumFunctionOnSet(worth, F) + SumFunctionOnSet(worth, X)
      BY <1>4, <1>5, <1>8, <1>9, SumUnion
    <2>2. SumFunctionOnSet(worth, E \cup O) = SumFunctionOnSet(worth, E) + SumFunctionOnSet(worth, O)
      BY <1>4, <1>5, <1>6, <1>9, SumUnion
    <2>3. /\ values(F) = SumFunctionOnSet(worth, F) /\ values(X) = SumFunctionOnSet(worth, X)
          /\ values(E) = SumFunctionOnSet(worth, E) /\ values(O) = SumFunctionOnSet(worth, O)
      BY <1>5, <1>6, <1>8, ValuesWorth
    <2>4. SumFunctionOnSet(worth, F \cup X) = SumFunctionOnSet(worth, E \cup O)
      BY <1>4
    <2> QED BY <2>1, <2>2, <2>3, <2>4
  <1>c. PICK c : c = values(coinbase_outputs(b))
    OBVIOUS
  <1>d. PICK fees : fees = total_fees(b.txs)
    OBVIOUS
  <1>11. values(O) + fees = c + values(X) /\ fees \in Int /\ c \in Nat
    BY <1>8, <1>c, <1>d, BlockBalance DEF apply_ok
  <1>n. PICK n : n = Len(s)
    OBVIOUS
  <1>m. PICK m : m = n - 1
    OBVIOUS
  <1>12. n \in Nat \ {0} /\ Len(t) - 1 = n /\ n # 0
    BY <1>1, <1>n
  <1>13. c <= Least(block_subsidy(n), total_supply - cumulative_emission(m)) + fees
    BY <1>c, <1>d, <1>n, <1>m, <1>12 DEF validate_block_rewards, total_block_reward
  <1>14. values(E) <= cap(m)
    BY <1>2, <1>n, <1>m DEF Funded
  <1>15. values(E) \in Nat /\ values(F) \in Nat /\ values(X) \in Nat /\ values(O) \in Nat
    BY <1>5, <1>6, <1>8, ValuesWorth
  <1>16. /\ values(E) \in Int /\ values(F) \in Int /\ values(X) \in Int /\ values(O) \in Int
         /\ c \in Int /\ fees \in Int
    BY <1>11, <1>15
  <1>17. Mints(n, values(E), values(F), values(O), values(X), c, fees)
    BY <1>m, <1>10, <1>11, <1>12, <1>13, <1>14, <1>16 DEF Mints
  <1>18. values(F) <= cap(n)
    BY <1>17, MintStep
  <1> QED BY <1>12, <1>18 DEF Funded

LEMMA MaturePrefix ==
    ASSUME NEW s \in Seq(Blocks), NEW b \in Blocks, MatureOn(Append(s, b))
    PROVE  MatureOn(s)
  <1> PICK t : t = Append(s, b)
    OBVIOUS
  <1>1. DOMAIN s \subseteq DOMAIN t /\ \A n \in DOMAIN s : t[n] = s[n]
    BY AppendFacts
  <1> QED BY <1>1 DEF MatureOn

\* What the block in hand and the stored chain have to do with each other.
LEMMA HandFacts ==
    ASSUME IInv, loop.pc \in {"applied", "committed"}
    PROVE  /\ Linked(block_store) /\ ByHeight(block_store) \in Seq(Blocks) /\ loop.block \in Blocks
           /\ Cardinality(block_store) \in Nat \ {0}
           /\ Ledger(Blocks, us, Append(ByHeight(block_store), loop.block))
           /\ MatureOn(Append(ByHeight(block_store), loop.block))
           /\ Funded(ByHeight(block_store))
           /\ Funded(Append(ByHeight(block_store), loop.block))
           /\ loop.block.height = Cardinality(block_store)
           /\ loop.block.hash = Cardinality(block_store) + 1
           /\ loop.block.prev_hash = link(Cardinality(block_store) - 1)
           /\ loop = [pc |-> loop.pc, block |-> loop.block]
  <1>1. Linked(block_store) /\ loop \in LoopStates
    BY DEF IInv, ChainOK
  <1>2. loop.block \in Blocks /\ loop = [pc |-> loop.pc, block |-> loop.block]
    BY <1>1 DEF LoopStates, Receiving
  <1> QED BY <1>1, <1>2, ChainFacts DEF IInv, ChainOK, line, InHand

LEMMA ApplyBlockKeeps == ASSUME IInv, ApplyBlock PROVE IInv'
  <1> PICK p : p = Head(events).block
    OBVIOUS
  <1> PICK b : b = hashed(p)
    OBVIOUS
  <1> DEFINE S == block_store
             s == ByHeight(S)
             N == Cardinality(S)
  <1>1. /\ loop.pc = "recv" /\ events # <<>> /\ Head(events).kind = "BlockReceived"
        /\ acceptable(p) /\ us' = apply_block(us, b) /\ loop' = [pc |-> "applied", block |-> b]
        /\ events' = Tail(events)
        /\ UNCHANGED <<chain, block_store, pool, ticker, vetted>>
    BY DEF ApplyBlock
  <1>2. /\ events' \in Seq(Events) /\ Len(events') <= event_capacity
        /\ Head(events) \in Events
    BY <1>1, TailEvents
  <1>3. p \in Proposals
    BY <1>1, <1>2 DEF Events
  <1>4. /\ Ledger(Blocks, us, s) /\ tip_height = N - 1 /\ Tracks(chain, N)
    BY <1>1, AtRest
  <1>5. Linked(S)
    BY DEF IInv, ChainOK
  <1>6. Len(s) = N /\ N \in Nat \ {0} /\ s \in Seq(Blocks) /\ \A n \in DOMAIN s : s[n].hash # N + 1
    BY <1>5, ChainFacts
  <1>7. chain.tip = link(N - 1)
    BY <1>4 DEF Tracks
  <1>8. MatureOn(s) /\ Funded(s)
    BY <1>1 DEF IInv, ChainOK, line
  <1> HIDE DEF s, N
  <1>9. /\ p.height = N /\ p.prev_hash = link(N - 1) /\ apply_ok(us, p) /\ validate_block_rewards(p)
    BY <1>1, <1>4, <1>6, <1>7 DEF acceptable, validate_chain_linkage
  <1>10. /\ b.height = N /\ b.hash = N + 1 /\ b.prev_hash = link(N - 1) /\ b.txs = p.txs
         /\ b = [hash |-> N + 1, prev_hash |-> p.prev_hash, height |-> p.height,
                 slot_ok |-> p.slot_ok, txs |-> p.txs, utxo_commitment |-> p.utxo_commitment]
    BY <1>9 DEF hashed, N
  <1>11. b \in Blocks
    <2>1. b \in [hash : Nat, prev_hash : Nat, height : Nat, slot_ok : BOOLEAN, txs : Seq(AllTxs),
                 utxo_commitment : SUBSET AllOuts]
      <3>1. /\ p.prev_hash \in Nat /\ p.height \in Nat /\ p.slot_ok \in BOOLEAN
            /\ p.txs \in Seq(AllTxs) /\ p.utxo_commitment \in SUBSET AllOuts
        BY <1>3 DEF Proposals
      <3>2. N + 1 \in Nat
        BY <1>6
      <3> QED BY <1>10, <3>1, <3>2
    <2> QED BY <1>6, <1>10, <2>1 DEF Blocks
  <1>12. apply_ok(us, b) /\ validate_block_rewards(b)
    <2>1. /\ block_outputs(b) = block_outputs(p) /\ coinbase_outputs(b) = coinbase_outputs(p)
          /\ validate_structure(b) <=> validate_structure(p)
      BY <1>9, <1>10 DEF block_outputs, coinbase_outputs, validate_structure, no_input_rule
    <2>2. apply_ok(us, b)
      BY <1>9, <1>10, <2>1 DEF apply_ok
    <2>3. validate_block_rewards(b)
      BY <1>9, <1>10, <2>1 DEF validate_block_rewards
    <2> QED BY <2>2, <2>3
  <1>13. Ledger(Blocks, us', Append(s, b))
    BY <1>1, <1>4, <1>6, <1>10, <1>11, <1>12, SoundBlocks, ApplyLedger
  <1>14. MatureOn(Append(s, b))
    BY <1>1, <1>4, <1>6, <1>8, <1>10, <1>11, <1>12, <1>13, MatureAppend
  <1>f. Funded(Append(s, b))
    BY <1>1, <1>4, <1>6, <1>8, <1>10, <1>11, <1>12, <1>13, FundedAppend
  <1>15. loop' \in LoopStates /\ loop'.pc = "applied" /\ loop'.block = b
    BY <1>1, <1>11 DEF LoopStates
  <1>16. ChainOK(us', chain', S, loop')
    BY <1>1, <1>4, <1>5, <1>8, <1>10, <1>13, <1>14, <1>f, <1>15 DEF ChainOK, line, committed, InHand, s, N
  <1>17. VettedOK(vetted', pool', S, loop')
    BY <1>1, <1>15 DEF IInv, VettedOK
  <1> QED BY <1>1, <1>2, <1>16, <1>17 DEF IInv

\* Giving the block up restores the store of the stored chain.
LEMMA GiveUpKeeps ==
    ASSUME IInv, loop.pc = "applied", give_up(loop.block), loop' = Receiving,
           UNCHANGED <<chain, block_store, pool, events, ticker, vetted>>
    PROVE  IInv'
  <1> DEFINE s == ByHeight(block_store)
  <1>1. /\ Linked(block_store) /\ s \in Seq(Blocks) /\ loop.block \in Blocks
        /\ Ledger(Blocks, us, Append(s, loop.block)) /\ MatureOn(Append(s, loop.block))
        /\ Funded(s)
        /\ loop.block.hash = Cardinality(block_store) + 1
    BY HandFacts
  <1>2. \A n \in DOMAIN s : s[n].hash # loop.block.hash
    BY <1>1, ChainFacts
  <1>3. Ledger(Blocks, us', s)
    BY <1>1, <1>2, RevertLedger DEF give_up
  <1>4. MatureOn(s)
    BY <1>1, MaturePrefix
  <1>5. loop'.pc = "recv" /\ loop' \in LoopStates
    BY DEF Receiving, LoopStates
  <1>6. Tracks(chain, Cardinality(block_store))
    BY DEF IInv, ChainOK, committed
  <1>7. ChainOK(us', chain', block_store', loop')
    BY <1>1, <1>3, <1>4, <1>5, <1>6 DEF ChainOK, line, committed, InHand
  <1>8. VettedOK(vetted', pool', block_store', loop')
    BY <1>5 DEF IInv, VettedOK
  <1> QED BY <1>7, <1>8 DEF IInv

LEMMA CommitmentMismatchKeeps == ASSUME IInv, CommitmentMismatch PROVE IInv'
  BY GiveUpKeeps DEF CommitmentMismatch

LEMMA CommitBlockKeeps == ASSUME IInv, CommitBlock PROVE IInv'
  <1> PICK b : b = loop.block
    OBVIOUS
  <1> PICK e : e = chain_entry(b)
    OBVIOUS
  <1> PICK N : N = Cardinality(block_store)
    OBVIOUS
  <1>1. loop.pc = "applied" /\ UNCHANGED <<block_store, pool, events, ticker, vetted>>
    BY DEF CommitBlock
  <1>2. CASE CS!add_block_result(chain, e) = "Ok"
    <2>1. /\ chain' = CS!add_block(chain, e) /\ us' = us
          /\ loop' = [loop EXCEPT !.pc = "committed"]
      BY <1>2 DEF CommitBlock
    <2>2. /\ N \in Nat \ {0} /\ b.hash = N + 1 /\ b.prev_hash = link(N - 1) /\ b.height = N
          /\ loop = [pc |-> "applied", block |-> b] /\ b \in Blocks
      BY <1>1, HandFacts
    <2>3. Tracks(chain, N)
      BY <1>1 DEF IInv, ChainOK, committed
    <2>4. chain.tip = b.prev_hash
      BY <2>2, <2>3 DEF Tracks
    <2>5. PICK slot : e = CS!ChainEntry(N + 1, chain.entries[chain.tip], slot, 0)
      BY <2>2, <2>4 DEF chain_entry
    <2>6. Tracks(chain', N + 1)
      BY <1>2, <2>1, <2>2, <2>3, <2>5, TracksAdd
    <2>7. loop' = [pc |-> "committed", block |-> b] /\ loop' \in LoopStates
      BY <2>1, <2>2 DEF LoopStates
    <2>8. line(block_store, loop') = line(block_store, loop)
      BY <2>2, <2>7 DEF line
    <2>9. InHand(block_store, loop') /\ committed(block_store, loop') = N + 1
      BY <2>2, <2>7 DEF InHand, committed
    <2>10. ChainOK(us', chain', block_store', loop')
      BY <1>1, <2>1, <2>6, <2>7, <2>8, <2>9 DEF IInv, ChainOK
    <2>11. VettedOK(vetted', pool', block_store', loop')
      BY <1>1, <2>7 DEF IInv, VettedOK
    <2> QED BY <1>1, <2>10, <2>11 DEF IInv
  <1>3. CASE CS!add_block_result(chain, e) # "Ok"
    <2>1. give_up(loop.block) /\ loop' = Receiving /\ UNCHANGED chain
      BY <1>3 DEF CommitBlock
    <2> QED BY <1>1, <2>1, GiveUpKeeps
  <1> QED BY <1>2, <1>3

LEMMA PersistBlockKeeps == ASSUME IInv, PersistBlock PROVE IInv'
  <1> PICK b : b = loop.block
    OBVIOUS
  <1> PICK N : N = Cardinality(block_store)
    OBVIOUS
  <1> PICK s : s = ByHeight(block_store)
    OBVIOUS
  <1> PICK T : T = block_store \cup {b}
    OBVIOUS
  <1>1. loop.pc = "committed" /\ UNCHANGED <<us, chain, pool, events, ticker, vetted>>
    BY DEF PersistBlock
  <1>2. /\ Linked(block_store) /\ s \in Seq(Blocks) /\ b \in Blocks /\ N \in Nat \ {0}
        /\ Ledger(Blocks, us, Append(s, b)) /\ MatureOn(Append(s, b)) /\ Funded(Append(s, b))
        /\ b.height = N /\ b.hash = N + 1 /\ b.prev_hash = link(N - 1)
        /\ loop = [pc |-> "committed", block |-> b]
    BY <1>1, HandFacts
  <1>3. ~\E c \in block_store : c.hash = b.hash \/ c.height = b.height
    BY <1>2, ChainFacts
  <1>4. block_store' = T /\ loop' = [loop EXCEPT !.pc = "stored"]
    BY <1>3 DEF PersistBlock
  <1>5. loop' = [pc |-> "stored", block |-> b] /\ loop' \in LoopStates
    BY <1>2, <1>4 DEF LoopStates
  <1>6. Linked(T) /\ Cardinality(T) = N + 1 /\ ByHeight(T) = Append(s, b)
    BY <1>2, LinkedAppend
  <1>7. Tracks(chain, N + 1)
    BY <1>1 DEF IInv, ChainOK, committed
  <1>8. InHand(T, loop')
    BY <1>2, <1>5, <1>6 DEF InHand
  <1>9. line(T, loop') = Append(s, b) /\ committed(T, loop') = N + 1
    BY <1>5, <1>6 DEF line, committed
  <1>10. ChainOK(us', chain', block_store', loop')
    BY <1>1, <1>2, <1>4, <1>5, <1>6, <1>7, <1>8, <1>9 DEF ChainOK
  <1>11. ASSUME NEW o, Fit(o, s), o \notin block_inputs(b)
         PROVE  Fit(o, Append(s, b))
    <2> PICK t : t = Append(s, b)
      OBVIOUS
    <2>1. /\ DOMAIN t = DOMAIN s \cup {Len(s) + 1} /\ t[Len(s) + 1] = b
          /\ \A m \in DOMAIN s : t[m] = s[m]
          /\ Len(t) = Len(s) + 1 /\ Len(s) \in Nat
      BY <1>2, AppendFacts
    <2>2. created(t) = created(s) \cup block_outputs(b) /\ consumed(t) = consumed(s) \cup block_inputs(b)
      BY <1>2, FoldAppend
    <2>3. block_outputs(b) \cap created(s) = {} /\ coinbase_outputs(b) \subseteq block_outputs(b)
      BY <1>2, LastBlock, CoinbaseInOutputs DEF Ledger
    <2>4. o \in created(s) \ consumed(s)
      BY <1>11 DEF Fit
    <2>5. o \in created(t) \ consumed(t) /\ o \notin coinbase_outputs(b)
      BY <1>11, <2>2, <2>3, <2>4
    <2>6. ASSUME NEW m \in DOMAIN t, o \in coinbase_outputs(t[m])
          PROVE  Len(t) >= t[m].height + k_finality
      <3>1. m \in DOMAIN s /\ t[m] = s[m]
        BY <2>1, <2>5, <2>6
      <3>2. Len(s) >= s[m].height + k_finality
        BY <1>11, <2>6, <3>1 DEF Fit
      <3>3. s[m].height \in Nat /\ k_finality \in Nat
        <4>1. s[m] \in Blocks
          BY <1>2, <3>1
        <4>2. \A y \in Blocks : y.height \in Nat
          BY ONLY DEF Blocks
        <4> QED BY ONLY <4>1, <4>2, BoundsAssumption
      <3> QED BY <2>1, <3>1, <3>2, <3>3
    <2> QED BY <2>5, <2>6 DEF Fit
  <1>12. VettedOK(vetted', pool', block_store', loop')
    <2>1. vetted \subseteq DOMAIN pool.by_id
      BY DEF IInv, VettedOK
    <2>2. \A i \in vetted : \A o \in tx_of(i).inputs : Fit(o, s)
      BY <1>1 DEF IInv, VettedOK
    <2>3. loop'.pc = "stored" /\ loop'.block = b
      BY <1>5
    <2> QED BY <1>1, <1>4, <1>6, <1>11, <2>1, <2>2, <2>3 DEF VettedOK
  <1> QED BY <1>1, <1>10, <1>12 DEF IInv

-------------------------------------------------------------------------------
(* The theorems.                                                           *)

LEMMA Step == ASSUME IInv, Next PROVE IInv'
  <1>1. CASE \E pb \in PeerBlocks(tip_height + 1) :
                ReceiveBlock(pb[1], pb[2]) \/ SubmitBlock(pb[1], pb[2])
    BY <1>1, ReceiveBlockKeeps
  <1>2. CASE \E t \in GossipTxs : ReceiveTx(t)
    BY <1>2, ReceiveTxKeeps
  <1>3. CASE \E t \in RpcTxs : SendTransaction(t)
    BY <1>3, SendTransactionKeeps
  <1>4. CASE MainLoop
    BY <1>4, HandleTxKeeps, RejectBlockKeeps, ApplyBlockKeeps, CommitmentMismatchKeeps,
       CommitBlockKeeps, PersistBlockKeeps, CleanPoolKeeps DEF MainLoop
  <1>5. CASE SlotTicker
    BY <1>5, ReadTipKeeps, TakeBatchKeeps, ClaimRewardKeeps, StampBlockKeeps DEF SlotTicker
  <1>6. CASE Dispatch
    BY <1>6, DispatchKeeps
  <1> QED BY <1>1, <1>2, <1>3, <1>4, <1>5, <1>6 DEF Next

\* The inductive invariant: at every point between two locks, the UTXO set is
\* the fold of the stored chain and of the block in hand, if it is applied.
THEOREM Invariance == Spec => []IInv
  <1>1. IInv /\ UNCHANGED vars => IInv'
    BY DEF vars, IInv
  <1>2. IInv /\ [Next]_vars => IInv'
    BY <1>1, Step
  <1> QED BY <1>2, Initial, PTL DEF Spec

\* No task ever finds a shared structure in a state it cannot have, and every
\* height below the tip has its block.
THEOREM TypeCorrect == Spec => []TypeOK
  <1>1. ASSUME IInv PROVE TypeOK
    <2>1. us.entries \subseteq AllOuts
      BY <1>1, TipFacts
    <2>2. \A i \in pooled : tx_of(i) \in PoolTxs /\ tx_of(i).id = i
      BY <1>1, PoolFacts DEF IInv, pooled
    <2>3. loop.pc \in {"recv", "applied", "committed", "stored"}
      BY <1>1 DEF IInv, ChainOK, LoopStates, Receiving
    <2>4. ticker.pc \in {"wait", "tip", "batch", "body", "send"}
      BY <1>1 DEF IInv, TickerStates, Waiting
    <2>5. {b.height : b \in block_store} = 0..(Cardinality(block_store) - 1)
      BY <1>1 DEF IInv, ChainOK, Linked
    <2>6. Len(events) <= event_capacity
      BY <1>1 DEF IInv
    <2> QED BY <2>1, <2>2, <2>3, <2>4, <2>5, <2>6 DEF TypeOK, AllOuts
  <1> QED BY <1>1, Invariance, PTL

\* The UTXO set, the chain state and the block store describe one chain
\* whenever the main loop is between two events, whatever it rejected, applied
\* and took back before.
THEOREM OneChainBehindTheStores == Spec => []StoresAgree
  <1>1. ASSUME IInv, loop.pc = "recv"
        PROVE  /\ tip_height = Cardinality(block_store) - 1
               /\ \A n \in 2..Len(stored) :
                     /\ stored[n].hash \in CS!known(chain)
                     /\ stored[n].prev_hash = IF n = 2 THEN CS!ZERO ELSE stored[n - 1].hash
               /\ tip_height > 0 => chain.tip = stored[Len(stored)].hash
               /\ FoldOf(us, stored)
               /\ RecordsOf(us, stored)
               /\ DOMAIN us.undo = {b.hash : b \in block_store}
    <2> PICK N : N = Cardinality(block_store)
      OBVIOUS
    <2>p. PICK s : s = ByHeight(block_store)
      OBVIOUS
    <2>1. stored = s
      BY <2>p DEF stored, ByHeight
    <2>2. Ledger(Blocks, us, s) /\ tip_height = N - 1 /\ Tracks(chain, N)
      BY <1>1, <2>p, AtRest
    <2>3. Linked(block_store)
      BY <1>1 DEF IInv, ChainOK
    <2>4. /\ N \in Nat \ {0} /\ Len(s) = N /\ DOMAIN s = 1..N
          /\ \A n \in 1..N : s[n] \in block_store /\ s[n].height = n - 1
          /\ \A b \in block_store : b = s[b.height + 1] /\ b.height \in 0..(N - 1)
      BY <2>p, <2>3, LinkedFacts
    <2>5. \A b \in block_store : b.hash = b.height + 1
                                  /\ (b.height > 0 => b.prev_hash = link(b.height - 1))
      BY <2>3 DEF Linked
    <2>6. \A n \in 1..N : s[n].hash = n
      BY <2>4, <2>5
    <2>7. ASSUME NEW n \in 2..N
          PROVE  /\ s[n].hash \in CS!known(chain)
                 /\ s[n].prev_hash = IF n = 2 THEN CS!ZERO ELSE s[n - 1].hash
      <3>1. n - 1 \in 0..(N - 1) /\ n - 1 \in 1..N /\ n \in 1..N /\ n - 1 > 0
        BY <2>4
      <3>2. s[n].hash = link(n - 1)
        BY <2>6, <3>1 DEF link
      <3>3. s[n].hash \in CS!known(chain)
        BY <2>2, <2>4, <3>1, <3>2, TracksTip
      <3>4. s[n].prev_hash = link((n - 1) - 1)
        BY <2>4, <2>5, <3>1
      <3>5. link((n - 1) - 1) = IF n = 2 THEN CS!ZERO ELSE n - 1
        BY DEF link
      <3>6. s[n - 1].hash = n - 1
        BY <2>6, <3>1
      <3> QED BY <3>3, <3>4, <3>5, <3>6
    <2>8. ASSUME tip_height > 0 PROVE chain.tip = s[Len(s)].hash
      <3>1. chain.tip = link(N - 1) /\ N - 1 > 0
        BY <2>2, <2>4, <2>8, TracksTip
      <3>2. s[N].hash = N
        BY <2>4, <2>6
      <3> QED BY <2>4, <3>1, <3>2 DEF link
    <2>9. FoldOf(us, s) /\ RecordsOf(us, s) /\ DOMAIN us.undo = {s[n].hash : n \in DOMAIN s}
      BY <2>2 DEF Ledger, UndoExact
    <2>10. {s[n].hash : n \in DOMAIN s} = {b.hash : b \in block_store}
      <3>1. \A b \in block_store : b.height + 1 \in DOMAIN s /\ s[b.height + 1] = b
        BY <2>4
      <3> QED BY <2>4, <3>1
    <2> QED BY <2>1, <2>2, <2>4, <2>7, <2>8, <2>9, <2>10
  <1>2. IInv => StoresAgree
    BY <1>1 DEF StoresAgree
  <1> QED BY <1>2, Invariance, PTL

\* No stored block spends a coinbase output before it is k blocks deep.
THEOREM Maturity == Spec => []OnlyMatureSpent
  <1>1. ASSUME IInv PROVE MatureOn(ByHeight(block_store))
    <2>1. CASE loop.pc \in {"applied", "committed"}
      BY <1>1, <2>1, HandFacts, MaturePrefix
    <2>2. CASE loop.pc \notin {"applied", "committed"}
      BY <1>1, <2>2 DEF IInv, ChainOK, line
    <2> QED BY <2>1, <2>2
  <1>2. stored = ByHeight(block_store)
    BY DEF stored, ByHeight
  <1>3. IInv => OnlyMatureSpent
    BY <1>1, <1>2 DEF MatureOn, OnlyMatureSpent
  <1> QED BY <1>3, Invariance, PTL

\* Whatever passed the gossip checks and is still pooled can go into the next
\* block.
THEOREM GossipPoolFit == Spec => []VettedPool
  <1>1. ASSUME IInv, loop.pc = "recv", NEW i \in vetted
        PROVE  check_coinbase_maturity(tx_of(i)) /\ tx_of(i).inputs \subseteq us.entries
    <2> PICK s : s = ByHeight(block_store)
      OBVIOUS
    <2>1. Ledger(Blocks, us, s) /\ tip_height = Cardinality(block_store) - 1
      BY <1>1, AtRest
    <2>2. Len(s) = Cardinality(block_store) /\ Cardinality(block_store) \in Nat
      BY <1>1, LinkedFacts DEF IInv, ChainOK
    <2>3. tip_height + 1 = Len(s)
      BY <2>1, <2>2
    <2>4. \A o \in tx_of(i).inputs : Fit(o, s)
      BY <1>1 DEF IInv, VettedOK
    <2> QED BY <2>1, <2>3, <2>4, FitExact DEF check_coinbase_maturity
  <1>2. IInv => VettedPool
    BY <1>1 DEF VettedPool
  <1> QED BY <1>2, Invariance, PTL

\* The live outputs are never worth more than the allocation and the subsidies
\* of the heights so far, whatever coinbases peers claim.
THEOREM Supply == Spec => []SupplyBound
  <1>1. ASSUME IInv, loop.pc = "recv"
        PROVE  values(us.entries) <= cap(tip_height)
    <2> PICK s : s = ByHeight(block_store)
      OBVIOUS
    <2>1. Ledger(Blocks, us, s) /\ tip_height = Cardinality(block_store) - 1
      BY <1>1, AtRest
    <2>2. Len(s) = Cardinality(block_store)
      BY <1>1, LinkedFacts DEF IInv, ChainOK
    <2>3. us.entries = created(s) \ consumed(s)
      BY <2>1 DEF Ledger, FoldOf
    <2>4. Funded(s)
      BY <1>1 DEF IInv, ChainOK
    <2> QED BY <2>1, <2>2, <2>3, <2>4 DEF Funded
  <1>2. IInv => SupplyBound
    BY <1>1 DEF SupplyBound, cap
  <1> QED BY <1>2, Invariance, PTL

===============================================================================
