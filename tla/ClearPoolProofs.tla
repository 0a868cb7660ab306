--------------------------- MODULE ClearPoolProofs ---------------------------
(***************************************************************************)
(* The clear mempool for every configuration and every set of              *)
(* transactions: its indices agree, its byte counter is exact, it keeps to *)
(* its limits, and it evicts from the low end only.                        *)
(***************************************************************************)
EXTENDS ClearPool, Sequences, SumTheorems, TLAPS

\* IndicesAgree, and entries under their own ids, of any pool.
Consistent(p) ==
    /\ \A i \in DOMAIN p.by_id : p.by_id[i].tx_id = i
    /\ p.by_priority = {from_entry(p.by_id[i]) : i \in DOMAIN p.by_id}
    /\ DOMAIN p.spent_outpoints = UNION {p.by_id[i].inputs : i \in DOMAIN p.by_id}
    /\ \A i \in DOMAIN p.by_id : \A o \in p.by_id[i].inputs : p.spent_outpoints[o] = i

\* Every entry of p is an entry of q.
Within(p, q) ==
    /\ DOMAIN p.by_id \subseteq DOMAIN q.by_id
    /\ \A i \in DOMAIN p.by_id : p.by_id[i] = q.by_id[i]

\* A priority key carries the id of its entry.
LEMMA KeyId == ASSUME NEW e PROVE from_entry(e).tx_id = e.tx_id
  BY DEF from_entry

\* remove leaves consistent indices, whichever ids it is called for.
LEMMA RemoveConsistent ==
  ASSUME NEW p, NEW ids, Consistent(p)
  PROVE  Consistent(remove_all(p, ids)) /\ Within(remove_all(p, ids), p)
<1> DEFINE gone == ids \cap DOMAIN p.by_id
           q == remove_all(p, ids)
           left == DOMAIN p.by_id \ gone
<1>1. /\ q.by_id = [i \in left |-> p.by_id[i]]
      /\ q.by_priority = p.by_priority \ {from_entry(p.by_id[i]) : i \in gone}
      /\ q.spent_outpoints = [o \in DOMAIN p.spent_outpoints \ inputs_of(p, gone) |->
                                p.spent_outpoints[o]]
  BY DEF remove_all
<1>2. DOMAIN q.by_id = left /\ \A i \in left : q.by_id[i] = p.by_id[i]
  BY <1>1
<1>3. left \subseteq DOMAIN p.by_id /\ gone \subseteq DOMAIN p.by_id
  OBVIOUS
<1>4. \A i \in DOMAIN p.by_id : i \in left \/ i \in gone
  OBVIOUS
<1>5. left \cap gone = {}
  OBVIOUS
<1> HIDE DEF q, gone, left
<1>6. \A i \in DOMAIN q.by_id : q.by_id[i].tx_id = i
  BY <1>2, <1>3 DEF Consistent
<1>7. q.by_priority = {from_entry(q.by_id[i]) : i \in DOMAIN q.by_id}
  <2>1. \A i, j \in DOMAIN p.by_id : from_entry(p.by_id[i]) = from_entry(p.by_id[j]) => i = j
    BY KeyId DEF Consistent
  <2>2. p.by_priority = {from_entry(p.by_id[i]) : i \in DOMAIN p.by_id}
    BY DEF Consistent
  <2>3. {from_entry(q.by_id[i]) : i \in DOMAIN q.by_id} = {from_entry(p.by_id[i]) : i \in left}
    BY <1>2
  <2> QED
    BY <1>1, <1>3, <1>4, <1>5, <2>1, <2>2, <2>3
<1>8. \A i \in left : \A o \in p.by_id[i].inputs : o \notin inputs_of(p, gone)
  BY <1>3, <1>5 DEF Consistent, inputs_of
<1>9. DOMAIN q.spent_outpoints = UNION {q.by_id[i].inputs : i \in DOMAIN q.by_id}
  <2>1. DOMAIN q.spent_outpoints
          = (UNION {p.by_id[i].inputs : i \in DOMAIN p.by_id}) \ inputs_of(p, gone)
    BY <1>1 DEF Consistent
  <2>2. UNION {q.by_id[i].inputs : i \in DOMAIN q.by_id}
          = UNION {p.by_id[i].inputs : i \in left}
    BY <1>2
  <2> DEFINE U == UNION {p.by_id[i].inputs : i \in DOMAIN p.by_id}
             L == UNION {p.by_id[i].inputs : i \in left}
  <2>3. ASSUME NEW o \in U, o \notin inputs_of(p, gone) PROVE o \in L
    BY <1>4, <2>3 DEF inputs_of
  <2>4. ASSUME NEW o \in L PROVE o \in U /\ o \notin inputs_of(p, gone)
    BY <1>3, <1>8
  <2> HIDE DEF U, L
  <2>5. L = U \ inputs_of(p, gone)
    BY <2>3, <2>4
  <2> QED
    BY <2>1, <2>2, <2>5 DEF U, L
<1>10. \A i \in DOMAIN q.by_id : \A o \in q.by_id[i].inputs : q.spent_outpoints[o] = i
  <2> SUFFICES ASSUME NEW i \in left, NEW o \in p.by_id[i].inputs
               PROVE  q.spent_outpoints[o] = i
    BY <1>2
  <2>1. o \in DOMAIN p.spent_outpoints /\ p.spent_outpoints[o] = i
    BY <1>3 DEF Consistent
  <2> QED
    BY <1>1, <1>8, <2>1
<1>11. Consistent(q)
  BY <1>6, <1>7, <1>9, <1>10 DEF Consistent
<1>12. Within(q, p)
  BY <1>2, <1>3 DEF Within
<1> QED
  BY <1>11, <1>12 DEF q

\* Inserting an entry that is new and in conflict with nothing.
LEMMA InsertConsistent ==
  ASSUME NEW p, NEW e, Consistent(p),
         e.tx_id \notin DOMAIN p.by_id, e.inputs \cap DOMAIN p.spent_outpoints = {}
  PROVE  Consistent(insert(p, e))
<1> DEFINE q == insert(p, e)
           old == DOMAIN p.by_id
<1>1. /\ q.by_id = [i \in old \cup {e.tx_id} |-> IF i = e.tx_id THEN e ELSE p.by_id[i]]
      /\ q.by_priority = p.by_priority \cup {from_entry(e)}
      /\ q.spent_outpoints = [o \in DOMAIN p.spent_outpoints \cup e.inputs |->
                                IF o \in e.inputs THEN e.tx_id ELSE p.spent_outpoints[o]]
  BY DEF insert
<1> HIDE DEF q
<1>2. /\ DOMAIN q.by_id = old \cup {e.tx_id}
      /\ q.by_id[e.tx_id] = e
      /\ \A i \in old : q.by_id[i] = p.by_id[i]
  BY <1>1
<1>3. \A i \in DOMAIN q.by_id : q.by_id[i].tx_id = i
  BY <1>2 DEF Consistent
<1>4. q.by_priority = {from_entry(q.by_id[i]) : i \in DOMAIN q.by_id}
  BY <1>1, <1>2 DEF Consistent
<1>5. DOMAIN q.spent_outpoints = UNION {q.by_id[i].inputs : i \in DOMAIN q.by_id}
  BY <1>1, <1>2 DEF Consistent
<1>6. \A i \in DOMAIN q.by_id : \A o \in q.by_id[i].inputs : q.spent_outpoints[o] = i
  <2>1. \A o \in e.inputs : q.spent_outpoints[o] = e.tx_id
    BY <1>1
  <2>2. \A i \in old : \A o \in p.by_id[i].inputs :
           o \in DOMAIN p.spent_outpoints /\ p.spent_outpoints[o] = i
    BY DEF Consistent
  <2>3. \A i \in old : \A o \in p.by_id[i].inputs : q.spent_outpoints[o] = i
    BY <1>1, <2>2
  <2> QED
    BY <1>2, <2>1, <2>3
<1> QED
  BY <1>3, <1>4, <1>5, <1>6 DEF Consistent, q

\* add, on each of its three ways out, and what it may bring in.
LEMMA AddConsistent ==
  ASSUME NEW p, NEW e, NEW t, Consistent(p)
  PROVE  /\ Consistent(add(p, e, t))
         /\ \A i \in DOMAIN add(p, e, t).by_id :
               \/ i \in DOMAIN p.by_id /\ add(p, e, t).by_id[i] = p.by_id[i]
               \/ add(p, e, t).by_id[i] = e
<1> DEFINE fresh == evict_expired(p, t)
           room == make_room(fresh, e.size)
<1>1. Consistent(fresh) /\ Within(fresh, p)
  BY RemoveConsistent DEF evict_expired
<1>2. Consistent(room) /\ Within(room, fresh)
  BY <1>1, RemoveConsistent DEF make_room
<1>3. Within(room, p)
  BY <1>1, <1>2 DEF Within
<1> HIDE DEF room, fresh
<1>4. CASE early_return(p, e)
  <2>1. add(p, e, t) = p
    BY <1>4 DEF add
  <2> QED
    BY <2>1
<1>5. CASE ~early_return(p, e) /\ has_room_for(room, e.size)
  <2>1. add(p, e, t) = insert(room, e)
    BY <1>5 DEF add, room, fresh
  <2>2. e.tx_id \notin DOMAIN room.by_id
    BY <1>3, <1>5 DEF early_return, Within
  <2>3. DOMAIN room.spent_outpoints \subseteq DOMAIN p.spent_outpoints
    <3>1. \A o \in DOMAIN room.spent_outpoints :
            \E i \in DOMAIN room.by_id : o \in room.by_id[i].inputs
      BY <1>2 DEF Consistent
    <3>2. \A i \in DOMAIN p.by_id : p.by_id[i].inputs \subseteq DOMAIN p.spent_outpoints
      BY DEF Consistent
    <3> QED
      BY <1>3, <3>1, <3>2 DEF Within
  <2>4. e.inputs \cap DOMAIN room.spent_outpoints = {}
    BY <1>5, <2>3 DEF early_return
  <2>5. Consistent(insert(room, e))
    BY <1>2, <2>2, <2>4, InsertConsistent
  <2>6. insert(room, e).by_id = [i \in DOMAIN room.by_id \cup {e.tx_id} |->
                                    IF i = e.tx_id THEN e ELSE room.by_id[i]]
    BY DEF insert
  <2> QED
    BY <1>3, <2>1, <2>5, <2>6 DEF Within
<1>6. CASE ~early_return(p, e) /\ ~has_room_for(room, e.size)
  <2>1. add(p, e, t) = room
    BY <1>6 DEF add, room, fresh
  <2> QED
    BY <1>2, <1>3, <2>1 DEF Within
<1> QED
  BY <1>4, <1>5, <1>6

-------------------------------------------------------------------------------
(* The byte counter.                                                       *)

sizes(p) == [i \in DOMAIN p.by_id |-> p.by_id[i].size]
bytes(p, ids) == SumFunctionOnSet(sizes(p), ids)

Counted(p) ==
    /\ IsFiniteSet(DOMAIN p.by_id)
    /\ \A i \in DOMAIN p.by_id : p.by_id[i].size \in Nat
    /\ p.total_bytes = bytes(p, DOMAIN p.by_id)

LEMMA BytesType ==
    ASSUME NEW p, Counted(p), NEW ids \in SUBSET DOMAIN p.by_id
    PROVE  /\ IsFiniteSet(ids) /\ Cardinality(ids) \in Nat
           /\ \A i \in ids : sizes(p)[i] \in Nat /\ sizes(p)[i] \in Int
           /\ bytes(p, ids) \in Nat
  <1>1. IsFiniteSet(ids) /\ Cardinality(ids) \in Nat
    BY FS_Subset, FS_CardinalityType DEF Counted
  <1>2. \A i \in ids : sizes(p)[i] \in Nat /\ sizes(p)[i] \in Int
    BY DEF Counted, sizes
  <1> QED BY <1>1, <1>2, SumType DEF bytes

\* remove_all counts what it removes, once.
LEMMA RemoveCounted ==
    ASSUME NEW p, NEW ids, Counted(p)
    PROVE  /\ Counted(remove_all(p, ids))
           /\ DOMAIN remove_all(p, ids).by_id = DOMAIN p.by_id \ ids
           /\ remove_all(p, ids).total_bytes = bytes(p, DOMAIN p.by_id \ ids)
           /\ remove_all(p, ids).total_bytes <= p.total_bytes
           /\ Cardinality(DOMAIN p.by_id \ ids) <= Cardinality(DOMAIN p.by_id)
  <1> DEFINE D == DOMAIN p.by_id
             gone == ids \cap D
             left == D \ ids
             q == remove_all(p, ids)
  <1>1. left \in SUBSET D /\ gone \in SUBSET D /\ left \cap gone = {} /\ left \cup gone = D
        /\ D \in SUBSET D /\ D \ gone = left
    OBVIOUS
  <1>2. /\ q.by_id = [i \in D \ gone |-> p.by_id[i]]
        /\ q.total_bytes = Minus(p.total_bytes, size_of(p, gone))
    BY DEF remove_all
  <1> HIDE DEF q, gone, left
  <1>3. DOMAIN q.by_id = left /\ \A i \in left : q.by_id[i] = p.by_id[i]
    BY <1>1, <1>2
  <1>4. size_of(p, gone) = bytes(p, gone)
    <2> DEFINE f == [i \in gone |-> p.by_id[i].size]
    <2>1. size_of(p, gone) = SumFunctionOnSet(f, gone)
      BY DEF size_of, SumFunction
    <2>2. \A i \in gone : f[i] = sizes(p)[i] /\ f[i] \in Int
      BY <1>1 DEF sizes, Counted
    <2>3. IsFiniteSet(gone)
      BY <1>1, BytesType
    <2> HIDE DEF f
    <2>4. SumFunctionOnSet(f, gone) = SumFunctionOnSet(sizes(p), gone)
      BY <2>2, <2>3, SumCongruence
    <2> QED BY <2>1, <2>4 DEF bytes
  <1>5. bytes(p, left) \in Nat /\ bytes(p, gone) \in Nat
        /\ IsFiniteSet(left) /\ IsFiniteSet(gone) /\ IsFiniteSet(D)
    BY <1>1, BytesType
  <1>6. bytes(p, D) = bytes(p, left) + bytes(p, gone)
    <2>1. \A i \in left \cup gone : sizes(p)[i] \in Int
      BY <1>1, BytesType
    <2> QED BY <1>1, <1>5, <2>1, SumUnion DEF bytes
  <1>7. p.total_bytes = bytes(p, left) + bytes(p, gone)
    BY <1>6 DEF Counted
  <1>8. q.total_bytes = bytes(p, left)
    BY <1>2, <1>4, <1>5, <1>7 DEF Minus
  <1>9. bytes(q, left) = bytes(p, left)
    <2>1. \A i \in left : sizes(q)[i] = sizes(p)[i] /\ sizes(q)[i] \in Int
      BY <1>1, <1>3, BytesType DEF sizes
    <2> QED BY <1>5, <2>1, SumCongruence DEF bytes
  <1>10. Counted(q)
    BY <1>1, <1>3, <1>5, <1>8, <1>9 DEF Counted
  <1>11. Cardinality(left) <= Cardinality(D)
    BY <1>1, <1>5, FS_Subset
  <1> QED BY <1>3, <1>5, <1>7, <1>8, <1>10, <1>11 DEF q, left

LEMMA InsertCounted ==
    ASSUME NEW p, NEW e, Counted(p), e.tx_id \notin DOMAIN p.by_id, e.size \in Nat
    PROVE  /\ Counted(insert(p, e))
           /\ insert(p, e).total_bytes = p.total_bytes + e.size
           /\ DOMAIN insert(p, e).by_id = DOMAIN p.by_id \cup {e.tx_id}
           /\ Cardinality(DOMAIN insert(p, e).by_id) = Cardinality(DOMAIN p.by_id) + 1
  <1> DEFINE D == DOMAIN p.by_id
             q == insert(p, e)
  <1>1. /\ q.by_id = [i \in D \cup {e.tx_id} |-> IF i = e.tx_id THEN e ELSE p.by_id[i]]
        /\ q.total_bytes = p.total_bytes + e.size
    BY DEF insert
  <1> HIDE DEF q
  <1>2. /\ DOMAIN q.by_id = D \cup {e.tx_id}
        /\ q.by_id[e.tx_id] = e /\ \A i \in D : q.by_id[i] = p.by_id[i]
    BY <1>1
  <1>3. /\ IsFiniteSet(D) /\ IsFiniteSet(D \cup {e.tx_id})
        /\ Cardinality(D \cup {e.tx_id}) = Cardinality(D) + 1
    BY FS_AddElement DEF Counted
  <1>4. \A i \in D \cup {e.tx_id} : sizes(q)[i] \in Int /\ q.by_id[i].size \in Nat
    BY <1>2 DEF sizes, Counted
  <1>5. sizes(q)[e.tx_id] = e.size /\ \A i \in D : sizes(q)[i] = sizes(p)[i]
    BY <1>2 DEF sizes
  <1>6. bytes(q, D \cup {e.tx_id}) = e.size + bytes(q, D)
    BY <1>3, <1>4, <1>5, SumAdd DEF bytes
  <1>7. bytes(q, D) = bytes(p, D)
    BY <1>3, <1>4, <1>5, SumCongruence DEF bytes
  <1>8. bytes(p, D) \in Nat /\ p.total_bytes = bytes(p, D)
    BY BytesType DEF Counted
  <1>9. q.total_bytes = bytes(q, DOMAIN q.by_id)
    BY <1>1, <1>2, <1>6, <1>7, <1>8
  <1> QED BY <1>1, <1>2, <1>3, <1>4, <1>9 DEF Counted, q

\* Counting ids or counting entries is the same.
LEMMA EntriesOf ==
    ASSUME NEW p, Consistent(p), Counted(p), NEW ids \in SUBSET DOMAIN p.by_id,
           NEW E, E = {p.by_id[i] : i \in ids}
    PROVE  IsFiniteSet(E) /\ Cardinality(E) = Cardinality(ids) /\ sum_sizes(E) = bytes(p, ids)
  <1> DEFINE g == [e \in E |-> e.size]
             f == sizes(p)
             m == p.by_id
  <1>1. \A i, j \in ids : m[i] = m[j] => i = j
    BY DEF Consistent
  <1>2. \A i \in ids : f[i] \in Int /\ g[m[i]] = f[i]
    BY BytesType DEF sizes
  <1>3. IsFiniteSet(ids)
    BY BytesType
  <1>4. sum_sizes(E) = SumFunctionOnSet(g, E)
    BY DEF sum_sizes, SumFunction
  <1>e. (\A i \in ids : m[i] \in E) /\ \A y \in E : \E i \in ids : y = m[i]
    OBVIOUS
  <1> HIDE DEF f, g, m
  <1>5. /\ IsFiniteSet(E)
        /\ Cardinality(E) = Cardinality(ids)
        /\ SumFunctionOnSet(g, E) = SumFunctionOnSet(f, ids)
    <2>1. Renames(f, g, m, ids, E)
      BY <1>1, <1>2, <1>3, <1>e DEF Renames
    <2> QED BY <2>1, SumReindex
  <1> QED BY <1>4, <1>5 DEF bytes, f

Fits(p) == p.total_bytes <= max_pool_bytes /\ Cardinality(DOMAIN p.by_id) <= max_tx_count

LEMMA RemoveFits ==
    ASSUME NEW p, NEW ids, Counted(p), Fits(p)
    PROVE  Counted(remove_all(p, ids)) /\ Fits(remove_all(p, ids))
  <1> DEFINE q == remove_all(p, ids)
             D == DOMAIN p.by_id
  <1>1. /\ Counted(q) /\ DOMAIN q.by_id = D \ ids
        /\ q.total_bytes <= p.total_bytes /\ Cardinality(D \ ids) <= Cardinality(D)
    BY RemoveCounted
  <1>2. /\ q.total_bytes \in Nat /\ p.total_bytes \in Nat
        /\ Cardinality(D) \in Nat /\ Cardinality(D \ ids) \in Nat
    <2>1. p.total_bytes \in Nat /\ Cardinality(D) \in Nat
      BY BytesType DEF Counted
    <2>2. D \ ids \in SUBSET D
      OBVIOUS
    <2> QED BY <2>1, <2>2, BytesType, RemoveCounted
  <1> HIDE DEF q
  <1> QED BY <1>1, <1>2, ConfigAssumption DEF Fits, q

\* add keeps the count exact and both limits.
LEMMA AddCounted ==
    ASSUME NEW p, NEW e, NEW t, Consistent(p), Counted(p), Fits(p), e.size \in Nat
    PROVE  Counted(add(p, e, t)) /\ Fits(add(p, e, t))
  <1> DEFINE fresh == evict_expired(p, t)
             room == make_room(fresh, e.size)
  <1>1. Counted(fresh) /\ Fits(fresh)
    BY RemoveFits DEF evict_expired
  <1>2. Counted(room) /\ Fits(room)
    BY <1>1, RemoveFits DEF make_room
  <1>3. DOMAIN room.by_id \subseteq DOMAIN p.by_id
    <2>1. Consistent(fresh) /\ Within(fresh, p)
      BY RemoveConsistent DEF evict_expired
    <2>2. Within(room, fresh)
      BY <2>1, RemoveConsistent DEF make_room
    <2> QED BY <2>1, <2>2 DEF Within
  <1> HIDE DEF room, fresh
  <1>4. CASE early_return(p, e)
    BY <1>4 DEF add
  <1>5. CASE ~early_return(p, e) /\ has_room_for(room, e.size)
    <2>1. add(p, e, t) = insert(room, e)
      BY <1>5 DEF add, room, fresh
    <2>2. e.tx_id \notin DOMAIN room.by_id
      BY <1>3, <1>5 DEF early_return
    <2>3. /\ Counted(insert(room, e))
          /\ insert(room, e).total_bytes = room.total_bytes + e.size
          /\ Cardinality(DOMAIN insert(room, e).by_id) = Cardinality(DOMAIN room.by_id) + 1
      BY <1>2, <2>2, InsertCounted
    <2>4. Cardinality(DOMAIN room.by_id) \in Nat
      BY <1>2, BytesType
    <2>5. Fits(insert(room, e))
      BY <1>5, <2>3, <2>4, ConfigAssumption DEF has_room_for, Fits
    <2> QED BY <2>1, <2>3, <2>5
  <1>6. CASE ~early_return(p, e) /\ ~has_room_for(room, e.size)
    <2>1. add(p, e, t) = room
      BY <1>6 DEF add, room, fresh
    <2> QED BY <2>1, <1>2
  <1> QED BY <1>4, <1>5, <1>6

-------------------------------------------------------------------------------
(* What make_room evicts.                                                  *)

ids_of(S) == {k.tx_id : k \in S}

\* The evicted keys: what every sufficient final segment has in common.
evicted(p, size) ==
    {k \in p.by_priority :
        \A S \in {R \in lowest(p) : has_room_for(remove_all(p, ids_of(R)), size)} : k \in S}

LEMMA MakeRoom ==
    ASSUME NEW p, NEW size
    PROVE  /\ make_room(p, size) = remove_all(p, ids_of(evicted(p, size)))
           /\ \A k \in evicted(p, size), l \in p.by_priority \ evicted(p, size) : cmp(l, k)
           /\ \A k \in evicted(p, size) :
                 (\A h \in evicted(p, size) \ {k} : cmp(k, h))
                    => ~has_room_for(remove_all(p, ids_of(evicted(p, size) \ {k})), size)
  <1> DEFINE P == p.by_priority
             enough == {R \in lowest(p) : has_room_for(remove_all(p, ids_of(R)), size)}
             K == evicted(p, size)
  <1>1. make_room(p, size) = remove_all(p, ids_of(K))
    BY DEF make_room, evicted, ids_of
  <1>2. K \subseteq P /\ \A k \in P : k \in K <=> \A S \in enough : k \in S
    BY DEF evicted
  <1>3. \A S \in enough : S \subseteq P /\ \A k \in S, l \in P \ S : cmp(l, k)
    BY DEF lowest
  <1>4. \A R \in SUBSET P : (\A k \in R, l \in P \ R : cmp(l, k)) => R \in lowest(p)
    BY DEF lowest
  <1> HIDE DEF K
  <1>5. \A k \in K, l \in P \ K : cmp(l, k)
    <2> SUFFICES ASSUME NEW k \in K, NEW l \in P \ K PROVE cmp(l, k)
      OBVIOUS
    <2>1. PICK S \in enough : l \notin S
      BY <1>2
    <2> HIDE DEF enough
    <2>2. k \in S
      BY <1>2
    <2> QED BY <1>3, <2>1, <2>2
  <1>6. ASSUME NEW k \in K, \A h \in K \ {k} : cmp(k, h)
        PROVE  ~has_room_for(remove_all(p, ids_of(K \ {k})), size)
    <2> PICK R : R = K \ {k}
      OBVIOUS
    <2>1. R \in SUBSET P /\ k \notin R
      BY <1>2
    <2>2. \A h \in R, l \in P \ R : cmp(l, h)
      BY <1>5, <1>6
    <2>3. R \in lowest(p)
      BY <1>4, <2>1, <2>2
    <2>4. R \notin enough
      BY <1>2, <2>1
    <2> QED BY <2>3, <2>4
  <1> QED BY <1>1, <1>5, <1>6 DEF K

-------------------------------------------------------------------------------
(* Confirmation and block production.                                      *)

\* remove_confirmed leaves nothing that spends a confirmed outpoint.
LEMMA ConfirmedGone ==
    ASSUME NEW p, NEW spent, Consistent(p)
    PROVE  /\ Consistent(remove_confirmed(p, spent)) /\ Within(remove_confirmed(p, spent), p)
           /\ \A i \in DOMAIN remove_confirmed(p, spent).by_id : p.by_id[i].inputs \cap spent = {}
  <1> DEFINE ids == {p.spent_outpoints[o] : o \in spent \cap DOMAIN p.spent_outpoints}
             q == remove_confirmed(p, spent)
  <1>1. q = remove_all(p, ids)
    BY DEF remove_confirmed
  <1>2. Consistent(q) /\ Within(q, p)
    BY <1>1, RemoveConsistent
  <1>3. DOMAIN q.by_id = DOMAIN p.by_id \ (ids \cap DOMAIN p.by_id)
    BY <1>1 DEF remove_all
  <1>4. ASSUME NEW i \in DOMAIN q.by_id, NEW o \in p.by_id[i].inputs, o \in spent
        PROVE  FALSE
    <2>1. i \in DOMAIN p.by_id /\ i \notin ids
      BY <1>3
    <2>2. o \in DOMAIN p.spent_outpoints /\ p.spent_outpoints[o] = i
      BY <2>1 DEF Consistent
    <2> QED BY <2>1, <2>2, <1>4
  <1> QED BY <1>2, <1>4

\* Numbers in the fields that the order of priority keys compares.
Ordered(p) ==
    /\ IsFiniteSet(DOMAIN p.by_id)
    /\ \A i \in DOMAIN p.by_id : p.by_id[i].fee \in Int /\ p.by_id[i].size \in Nat
                                  /\ p.by_id[i].added_at \in Int /\ p.by_id[i].tx_id \in Int

LEMMA KeyType ==
    ASSUME NEW e, e.fee \in Int, e.size \in Nat, e.added_at \in Int, e.tx_id \in Int
    PROVE  /\ from_entry(e).neg_fee_density \in Int
           /\ from_entry(e).added_at \in Int /\ from_entry(e).tx_id \in Int
  <1>1. fee_density(e) \in Int
    BY ConfigAssumption DEF fee_density
  <1> QED BY <1>1, ConfigAssumption DEF from_entry

\* The order of the keys is a strict total order.
LEMMA KeysOrdered ==
    ASSUME NEW p, Consistent(p), Ordered(p)
    PROVE  /\ \A k \in p.by_priority : ~cmp(k, k)
           /\ \A k, l \in p.by_priority : k = l \/ cmp(k, l) \/ cmp(l, k)
           /\ \A k, l, m \in p.by_priority : cmp(k, l) /\ cmp(l, m) => cmp(k, m)
  <1>1. \A k \in p.by_priority :
           /\ k.neg_fee_density \in Int /\ k.added_at \in Int /\ k.tx_id \in Int
           /\ k.tx_id \in DOMAIN p.by_id /\ k = from_entry(p.by_id[k.tx_id])
    BY KeyType, KeyId DEF Consistent, Ordered
  <1>2. \A k, l \in p.by_priority : k.tx_id = l.tx_id => k = l
    BY <1>1
  <1> QED BY <1>1, <1>2 DEF cmp

\* In a finite strict order every rank is taken.
LEMMA EveryRank ==
    ASSUME NEW P, IsFiniteSet(P),
           \A k \in P : ~cmp(k, k),
           \A k, l \in P : k = l \/ cmp(k, l) \/ cmp(l, k),
           \A k, l, m \in P : cmp(k, l) /\ cmp(l, m) => cmp(k, m),
           NEW i \in 1..Cardinality(P)
    PROVE  \E k \in P : Cardinality({l \in P : cmp(l, k)}) + 1 = i
  <1> DEFINE below(k) == {l \in P : cmp(l, k)}
             r == [k \in P |-> Cardinality(below(k)) + 1]
             N == Cardinality(P)
  <1>1. N \in Nat
    BY FS_CardinalityType
  <1>2. ASSUME NEW k \in P
        PROVE  IsFiniteSet(below(k)) /\ Cardinality(below(k)) \in Nat
    <2>1. below(k) \in SUBSET P
      OBVIOUS
    <2> HIDE DEF below
    <2> QED BY <2>1, FS_Subset, FS_CardinalityType
  <1>3. ASSUME NEW k \in P, NEW l \in P, cmp(k, l)
        PROVE  Cardinality(below(k)) < Cardinality(below(l))
    <2>1. below(k) \cup {k} \in SUBSET below(l) /\ k \notin below(k)
      BY <1>3
    <2> HIDE DEF below
    <2>2. Cardinality(below(k) \cup {k}) = Cardinality(below(k)) + 1
      BY <2>1, <1>2, FS_AddElement
    <2>3. Cardinality(below(k) \cup {k}) <= Cardinality(below(l))
      BY <2>1, <1>2, FS_Subset
    <2> QED BY <2>2, <2>3, <1>2
  <1>4. ASSUME NEW k \in P PROVE Cardinality(below(k)) + 1 \in 1..N
    <2>1. below(k) \in SUBSET (P \ {k})
      OBVIOUS
    <2> HIDE DEF below
    <2>2. IsFiniteSet(P \ {k}) /\ Cardinality(P \ {k}) = N - 1
      BY FS_RemoveElement
    <2>3. Cardinality(below(k)) <= N - 1
      BY <2>1, <2>2, FS_Subset
    <2> QED BY <2>3, <1>1, <1>2
  <1>5. r \in [P -> 1..N]
    BY <1>4
  <1>6. r \in Injection(P, 1..N)
    <2>1. ASSUME NEW k \in P, NEW l \in P, r[k] = r[l] PROVE k = l
      <3>1. Cardinality(below(k)) = Cardinality(below(l))
        <4> HIDE DEF below
        <4> QED BY <2>1, <1>2
      <3> QED BY <3>1, <1>2, <1>3
    <2> HIDE DEF r
    <2> QED BY <1>5, <2>1 DEF Injection, IsInjective
  <1>7. IsFiniteSet(1..N) /\ Cardinality(1..N) = N
    BY <1>1, FS_Interval
  <1> HIDE DEF r
  <1>8. r \in Surjection(P, 1..N)
    BY <1>6, <1>7, FS_Injection
  <1>9. PICK k \in P : r[k] = i
    BY <1>8 DEF Surjection
  <1> QED BY <1>9 DEF r

\* get_batch returns ids of pooled transactions.
LEMMA BatchPooled ==
    ASSUME NEW p, Consistent(p), Ordered(p), NEW n \in Nat
    PROVE  get_batch(p, n) \in Seq(DOMAIN p.by_id)
  <1> DEFINE P == p.by_priority
             size == Cardinality(P)
             rank(k) == Cardinality({l \in P : cmp(l, k)}) + 1
             top == IF n < size THEN n ELSE size
  <1>1. P = {from_entry(p.by_id[i]) : i \in DOMAIN p.by_id}
        /\ \A k \in P : k.tx_id \in DOMAIN p.by_id
    BY KeyId DEF Consistent
  <1>2. IsFiniteSet(P)
    <2> DEFINE m == [i \in DOMAIN p.by_id |-> from_entry(p.by_id[i])]
    <2>1. m \in Surjection(DOMAIN p.by_id, P)
      BY <1>1 DEF Surjection
    <2> HIDE DEF m
    <2> QED BY <2>1, FS_Surjection DEF Ordered
  <1>3. size \in Nat /\ top \in Nat
    BY <1>2, FS_CardinalityType
  <1>4. ASSUME NEW i \in 1..top
        PROVE  (CHOOSE k \in P : rank(k) = i).tx_id \in DOMAIN p.by_id
    <2>1. i \in 1..size
      BY <1>3
    <2>2. \E k \in P : Cardinality({l \in P : cmp(l, k)}) + 1 = i
      <3> HIDE DEF P
      <3> QED BY <1>2, <2>1, KeysOrdered, EveryRank DEF P
    <2>3. (CHOOSE k \in P : rank(k) = i) \in P
      BY <2>2
    <2> HIDE DEF P
    <2> QED BY <2>3, <1>1
  <1>5. get_batch(p, n) = [i \in 1..top |-> (CHOOSE k \in P : rank(k) = i).tx_id]
    BY DEF get_batch
  <1>6. [i \in 1..top |-> (CHOOSE k \in P : rank(k) = i).tx_id] \in [1..top -> DOMAIN p.by_id]
    BY <1>4
  <1> HIDE DEF P, rank, top
  <1>7. get_batch(p, n) \in [1..top -> DOMAIN p.by_id]
    BY <1>5, <1>6
  <1> QED BY <1>3, <1>7

-------------------------------------------------------------------------------
\* An entry that some caller could have built by now.
Known(e) == \E t \in Txs, f \in Fees, at \in 0..now : e = Entry(t, f, at)

IInv ==
    /\ now \in Nat
    /\ Consistent(pool)
    /\ Counted(pool)
    /\ Fits(pool)
    /\ \A i \in DOMAIN pool.by_id : Known(pool.by_id[i])

LEMMA IInvImplies == IInv => TypeOK /\ IndicesAgree /\ WithinCapacity
<1> SUFFICES ASSUME IInv PROVE TypeOK /\ IndicesAgree /\ WithinCapacity
  OBVIOUS
<1>1. Consistent(pool)
  BY DEF IInv
<1>2. {k.tx_id : k \in pool.by_priority} \subseteq DOMAIN pool.by_id
  BY <1>1, KeyId DEF Consistent
<1>3. \A o \in DOMAIN pool.spent_outpoints : pool.spent_outpoints[o] \in DOMAIN pool.by_id
  BY <1>1 DEF Consistent
<1>4. TypeOK
  BY <1>1, <1>2, <1>3 DEF IInv, TypeOK, Consistent, Known
<1>5. IndicesAgree
  BY <1>1 DEF IndicesAgree, Consistent, entries
<1>6. WithinCapacity
  <2> DEFINE D == DOMAIN pool.by_id
  <2>1. sum_sizes(entries(pool)) = bytes(pool, D)
    BY <1>1, EntriesOf DEF IInv, entries
  <2> QED
    BY <2>1 DEF WithinCapacity, IInv, Counted, Fits
<1> QED
  BY <1>4, <1>5, <1>6

\* A step that only removes entries, at the same time, keeps the invariant.
LEMMA RemovalStep ==
  ASSUME IInv, NEW ids, pool' = remove_all(pool, ids), now' = now
  PROVE  IInv'
<1> PICK p : p = pool
  OBVIOUS
<1> PICK q : q = pool'
  OBVIOUS
<1>1. Consistent(q) /\ Within(q, p)
  BY RemoveConsistent DEF IInv
<1>2. \A i \in DOMAIN q.by_id : Known(q.by_id[i])
  BY <1>1 DEF IInv, Within
<1>3. Counted(q) /\ Fits(q)
  BY RemoveFits DEF IInv
<1> QED
  BY <1>1, <1>2, <1>3 DEF IInv, Known

\* The indices stay consistent, and only entries of callers are pooled.
THEOREM Invariance == Spec => []IInv
<1>1. Init => IInv
  <2> SUFFICES ASSUME Init PROVE IInv
    OBVIOUS
  <2>1. /\ DOMAIN pool.by_id = {} /\ pool.by_priority = {}
        /\ DOMAIN pool.spent_outpoints = {}
    BY DEF Init, EmptyPool
  <2>2. Consistent(pool)
    BY <2>1 DEF Consistent
  <2>3. Counted(pool) /\ Fits(pool)
    <3>1. IsFiniteSet({}) /\ Cardinality({}) = 0
      BY FS_EmptySet
    <3>2. bytes(pool, {}) = 0 /\ pool.total_bytes = 0
      BY <3>1, SumUnfold DEF bytes, Init, EmptyPool
    <3> QED
      BY <2>1, <3>1, <3>2, ConfigAssumption DEF Counted, Fits
  <2> QED
    BY <2>1, <2>2, <2>3 DEF IInv, Init
<1>2. IInv /\ [Next]_vars => IInv'
  <2> SUFFICES ASSUME IInv, [Next]_vars PROVE IInv'
    OBVIOUS
  <2>1. ASSUME NEW t \in Txs, NEW f \in Fees, NEW at \in 0..MaxTime, Add(t, f, at)
        PROVE  IInv'
    <3> DEFINE e == Entry(t, f, at)
    <3> PICK p : p = pool
      OBVIOUS
    <3> PICK q : q = pool'
      OBVIOUS
    <3>1. q = add(p, e, now) /\ now' = now /\ at \in 0..now
      BY <2>1 DEF Add, IInv
    <3>2. Known(e) /\ e.size \in Nat
      BY <3>1, TxsAssumption DEF Known, Entry
    <3> HIDE DEF e
    <3>3. Consistent(p) /\ Counted(p) /\ Fits(p)
      BY DEF IInv
    <3>c. Counted(q) /\ Fits(q)
      BY <3>1, <3>2, <3>3, AddCounted
    <3>4. /\ Consistent(q)
          /\ \A i \in DOMAIN q.by_id :
                (i \in DOMAIN p.by_id /\ q.by_id[i] = p.by_id[i]) \/ q.by_id[i] = e
      BY <3>1, <3>3, AddConsistent
    <3>5. \A i \in DOMAIN q.by_id : Known(q.by_id[i])
      BY <3>2, <3>4 DEF IInv
    <3> QED
      BY <3>1, <3>4, <3>5, <3>c DEF IInv, Known
  <2>2. ASSUME NEW t \in Txs, RemoveTx(t)
        PROVE  IInv'
    BY <2>2, RemovalStep DEF RemoveTx
  <2>3. ASSUME NEW spent \in SUBSET Outpoints, RemoveConfirmed(spent)
        PROVE  IInv'
    BY <2>3, RemovalStep DEF RemoveConfirmed, remove_confirmed
  <2>4. CASE EvictExpired
    BY <2>4, RemovalStep DEF EvictExpired, evict_expired
  <2>5. CASE Tick
    <3>1. now' \in Nat /\ 0..now \subseteq 0..now' /\ pool' = pool
      BY <2>5 DEF Tick, IInv
    <3> QED
      BY <3>1 DEF IInv, Known
  <2>6. CASE UNCHANGED vars
    BY <2>6 DEF vars, IInv, Known
  <2> QED
    BY <2>1, <2>2, <2>3, <2>4, <2>5, <2>6 DEF Next
<1> QED
  BY <1>1, <1>2, PTL DEF Spec

\* The pool is well typed in every reachable state.
THEOREM TypeCorrect == Spec => []TypeOK
  BY Invariance, IInvImplies, PTL

\* After any history of adds, removals and evictions the three indices
\* describe the same pool, and no two pooled transactions conflict.
THEOREM Indices == Spec => []IndicesAgree
  BY Invariance, IInvImplies, PTL

\* The byte counter never drifts from the sizes of the pooled transactions,
\* and both limits hold.
THEOREM Capacity == Spec => []WithinCapacity
  BY Invariance, IInvImplies, PTL

\* x is new in the pool that add leaves; fresh are the unexpired entries of
\* the pool before, stay the entries that remain.
Newcomer(p, e, t, x, fresh, stay) ==
    /\ Consistent(p) /\ Counted(p) /\ e.size \in Nat
    /\ x \in entries(add(p, e, t)) /\ x \notin entries(p)
    /\ fresh \in SUBSET entries(p)
    /\ \A r \in entries(p) : r \in fresh <=> r.added_at >= Minus(t, max_age_secs)
    /\ \A r \in entries(p) : r.added_at \in Int /\ Minus(t, max_age_secs) \in Int
    /\ stay = entries(add(p, e, t)) \ {x}

\* What add displaces for a newcomer, of any pool.
LEMMA Displaced ==
    ASSUME NEW p, NEW e, NEW t, NEW x, NEW fresh, NEW stay,
           Newcomer(p, e, t, x, fresh, stay)
    PROVE  /\ \A g \in fresh \ stay, s \in stay : cmp(from_entry(s), from_entry(g))
           /\ \A g \in fresh \ stay :
                 (\A h \in (fresh \ stay) \ {g} : cmp(from_entry(g), from_entry(h)))
                    => \/ Cardinality(stay) + 2 > max_tx_count
                       \/ sum_sizes(stay) + g.size + x.size > max_pool_bytes
  <1> USE DEF Newcomer
  <1> PICK q : q = add(p, e, t)
    OBVIOUS
  <1> PICK f : f = evict_expired(p, t)
    OBVIOUS
  <1> PICK room : room = make_room(f, e.size)
    OBVIOUS
  <1>1. Consistent(f) /\ Within(f, p) /\ Counted(f)
    BY RemoveConsistent, RemoveCounted DEF evict_expired
  <1>2. Consistent(room) /\ Within(room, f) /\ Counted(room)
    BY <1>1, RemoveConsistent, RemoveCounted DEF make_room
  <1>3. Within(room, p)
    BY <1>1, <1>2 DEF Within
  <1>4. ~early_return(p, e) /\ has_room_for(room, e.size) /\ q = insert(room, e)
    <2>1. entries(room) \subseteq entries(p)
      BY <1>3 DEF Within, entries
    <2> QED BY <2>1 DEF add
  <1>5. e.tx_id \notin DOMAIN room.by_id /\ e.tx_id \notin DOMAIN p.by_id
    BY <1>3, <1>4 DEF early_return, Within
  <1>6. entries(q) = entries(room) \cup {e} /\ e \notin entries(room)
    <2>1. q.by_id = [i \in DOMAIN room.by_id \cup {e.tx_id} |->
                        IF i = e.tx_id THEN e ELSE room.by_id[i]]
      BY <1>4 DEF insert
    <2>2. /\ DOMAIN q.by_id = DOMAIN room.by_id \cup {e.tx_id}
          /\ q.by_id[e.tx_id] = e /\ \A i \in DOMAIN room.by_id : q.by_id[i] = room.by_id[i]
      BY <1>5, <2>1
    <2> QED BY <1>2, <1>5, <2>2 DEF entries, Consistent
  <1>7. x = e /\ stay = entries(room)
    <2>1. entries(room) \subseteq entries(p)
      BY <1>3 DEF Within, entries
    <2> QED BY <1>6, <2>1
  <1>8. fresh = entries(f)
    <2> DEFINE old == {i \in DOMAIN p.by_id : p.by_id[i].added_at < Minus(t, max_age_secs)}
    <2>1. f = remove_all(p, old)
      BY DEF evict_expired
    <2>2. DOMAIN f.by_id = DOMAIN p.by_id \ old
      BY <2>1, RemoveCounted
    <2>3. \A i \in DOMAIN f.by_id : f.by_id[i] = p.by_id[i]
      BY <1>1 DEF Within
    <2>4. \A i \in DOMAIN p.by_id : p.by_id[i] \in entries(p)
      BY DEF entries
    <2>5. \A i \in DOMAIN p.by_id :
             i \in old <=> ~(p.by_id[i].added_at >= Minus(t, max_age_secs))
      BY <2>4
    <2> HIDE DEF old
    <2> QED BY <2>2, <2>3, <2>5 DEF entries
  <1> DEFINE K == evicted(f, e.size)
             key(i) == from_entry(f.by_id[i])
             D == DOMAIN f.by_id
  <1>9. /\ room = remove_all(f, ids_of(K))
        /\ \A k \in K, l \in f.by_priority \ K : cmp(l, k)
        /\ \A k \in K : (\A h \in K \ {k} : cmp(k, h))
                           => ~has_room_for(remove_all(f, ids_of(K \ {k})), e.size)
    BY MakeRoom
  <1>10. f.by_priority = {key(i) : i \in D} /\ K \subseteq f.by_priority
         /\ \A i \in D : key(i).tx_id = i
    BY <1>1, KeyId DEF Consistent, evicted
  <1> HIDE DEF K
  <1>11. \A i \in D : i \in ids_of(K) <=> key(i) \in K
    BY <1>10 DEF ids_of
  <1>12. DOMAIN room.by_id = {i \in D : key(i) \notin K}
    <2>1. DOMAIN room.by_id = D \ ids_of(K)
      BY <1>1, <1>9, RemoveCounted
    <2> QED BY <2>1, <1>11
  <1>13. stay = {f.by_id[i] : i \in {j \in D : key(j) \notin K}}
    BY <1>2, <1>7, <1>12 DEF entries, Within
  <1>14. ASSUME NEW g \in fresh \ stay PROVE \E i \in D : g = f.by_id[i] /\ key(i) \in K
    BY <1>8, <1>13 DEF entries
  <1>15. \A g \in fresh \ stay, s \in stay : cmp(from_entry(s), from_entry(g))
    <2> SUFFICES ASSUME NEW g \in fresh \ stay, NEW s \in stay
                 PROVE  cmp(from_entry(s), from_entry(g))
      OBVIOUS
    <2>1. PICK i \in D : g = f.by_id[i] /\ key(i) \in K
      BY <1>14
    <2>2. PICK j \in D : s = f.by_id[j] /\ key(j) \notin K
      BY <1>13
    <2>3. key(j) \in f.by_priority
      BY <1>10
    <2> QED BY <1>9, <2>1, <2>2, <2>3
  <1>16. ASSUME NEW g \in fresh \ stay,
                \A h \in (fresh \ stay) \ {g} : cmp(from_entry(g), from_entry(h))
         PROVE  \/ Cardinality(stay) + 2 > max_tx_count
                \/ sum_sizes(stay) + g.size + x.size > max_pool_bytes
    <2>1. PICK i \in D : g = f.by_id[i] /\ key(i) \in K
      BY <1>14
    <2>2. ASSUME NEW k \in K \ {key(i)} PROVE cmp(key(i), k)
      <3>1. PICK j \in D : k = key(j)
        BY <1>10
      <3>2. f.by_id[j] \in fresh /\ f.by_id[j] \notin stay
        <4>1. f.by_id[j] \in fresh
          BY <1>8 DEF entries
        <4>2. \A n \in D : f.by_id[n] = f.by_id[j] => n = j
          BY <1>1 DEF Consistent
        <4> QED BY <4>1, <4>2, <1>13, <3>1
      <3>3. f.by_id[j] # g
        BY <2>1, <3>1
      <3> QED BY <1>16, <2>1, <3>1, <3>2, <3>3
    <2> PICK spare : spare = remove_all(f, ids_of(K \ {key(i)}))
      OBVIOUS
    <2>3. ~has_room_for(spare, e.size)
      BY <1>9, <2>1, <2>2
    <2> DEFINE left == {j \in D : key(j) \notin K}
    <2>4. DOMAIN spare.by_id = left \cup {i} /\ i \notin left
          /\ spare.total_bytes = bytes(f, left \cup {i})
      <3>1. \A j \in D : j \in ids_of(K \ {key(i)}) <=> key(j) \in K \ {key(i)}
        BY <1>10 DEF ids_of
      <3>2. D \ ids_of(K \ {key(i)}) = left \cup {i}
        <4>1. \A j \in D : key(j) = key(i) => j = i
          BY <1>10
        <4>2. \A j \in D : j \in left <=> key(j) \notin K
          OBVIOUS
        <4>3. left \subseteq D
          OBVIOUS
        <4> HIDE DEF left, D, key
        <4> QED BY <2>1, <3>1, <4>1, <4>2, <4>3
      <3> HIDE DEF left
      <3>3. /\ DOMAIN spare.by_id = D \ ids_of(K \ {key(i)})
            /\ spare.total_bytes = bytes(f, D \ ids_of(K \ {key(i)}))
        BY <1>1, RemoveCounted
      <3> QED BY <3>2, <3>3, <2>1 DEF left
    <2>5. left \in SUBSET D /\ left \cup {i} \in SUBSET D /\ i \in D
      OBVIOUS
    <2>6. stay = {f.by_id[j] : j \in left}
      BY <1>13
    <2> HIDE DEF left
    <2>7. /\ IsFiniteSet(left) /\ Cardinality(left) \in Nat /\ bytes(f, left) \in Nat
          /\ \A j \in left \cup {i} : sizes(f)[j] \in Int
      BY <1>1, <2>5, BytesType
    <2>8. Cardinality(stay) = Cardinality(left) /\ sum_sizes(stay) = bytes(f, left)
      BY <1>1, <2>5, <2>6, EntriesOf
    <2>9. Cardinality(left \cup {i}) = Cardinality(left) + 1
      BY <2>4, <2>7, FS_AddElement
    <2>10. bytes(f, left \cup {i}) = g.size + bytes(f, left)
      <3>1. sizes(f)[i] = g.size
        BY <2>1 DEF sizes
      <3> QED BY <2>4, <2>7, <3>1, SumAdd DEF bytes
    <2>11. g.size \in Nat
      BY <1>1, <2>1 DEF Counted
    <2>12. ~(Cardinality(left) + 1 < max_tx_count)
           \/ ~(g.size + bytes(f, left) + e.size <= max_pool_bytes)
      BY <2>3, <2>4, <2>9, <2>10 DEF has_room_for
    <2> QED BY <2>7, <2>8, <2>11, <2>12, <1>7, ConfigAssumption
  <1> QED BY <1>15, <1>16

\* Eviction takes the lowest-ranked entries only, and no more than needed.
THEOREM Eviction == Spec => EvictsLowestOnly
<1>1. IInv /\ IInv' /\ [Next]_vars
        => [/\ WithinCapacity'
            /\ \A e \in entries(pool') \ entries(pool) : DisplacesLowest(e)]_vars
  <2> SUFFICES ASSUME IInv, IInv', Next
               PROVE  /\ WithinCapacity'
                      /\ \A e \in entries(pool') \ entries(pool) : DisplacesLowest(e)
    OBVIOUS
  <2>1. WithinCapacity'
    BY IInvImplies, PTL
  <2>2. ASSUME NEW x \in entries(pool') \ entries(pool)
        PROVE  DisplacesLowest(x)
    <3>1. \E t \in Txs, f \in Fees, at \in 0..MaxTime : Add(t, f, at)
      <4>1. ASSUME NEW ids, pool' = remove_all(pool, ids) PROVE FALSE
        <5>1. Within(pool', pool)
          BY <4>1, RemoveConsistent DEF IInv
        <5> QED BY <5>1 DEF Within, entries
      <4>2. pool' # pool
        OBVIOUS
      <4> QED BY <4>1, <4>2 DEF Next, RemoveTx, RemoveConfirmed, remove_confirmed,
                    EvictExpired, evict_expired, Tick
    <3>2. PICK t \in Txs, f \in Fees, at \in 0..MaxTime : Add(t, f, at)
      BY <3>1
    <3> PICK e : e = Entry(t, f, at)
      OBVIOUS
    <3>3. pool' = add(pool, e, now) /\ e.size \in Nat
      BY <3>2, TxsAssumption DEF Add, Entry
    <3>4. \A r \in entries(pool) : r.added_at \in Int /\ Minus(now, max_age_secs) \in Int
      <4>1. Minus(now, max_age_secs) \in Int
        BY ConfigAssumption DEF IInv, Minus
      <4>2. \A i \in DOMAIN pool.by_id : pool.by_id[i].added_at \in Int
        <5> SUFFICES ASSUME NEW i \in DOMAIN pool.by_id PROVE pool.by_id[i].added_at \in Int
          OBVIOUS
        <5>1. PICK u \in Txs, g \in Fees, when \in 0..now : pool.by_id[i] = Entry(u, g, when)
          BY DEF IInv, Known
        <5>2. pool.by_id[i].added_at = when
          BY <5>1 DEF Entry
        <5> QED BY <5>2 DEF IInv
      <4> QED BY <4>1, <4>2 DEF entries
    <3>5. Consistent(pool) /\ Counted(pool)
      BY DEF IInv
    <3> PICK p : p = pool
      OBVIOUS
    <3> PICK q : q = pool'
      OBVIOUS
    <3>p. PICK fresh : fresh = {r \in entries(p) : r.added_at >= Minus(now, max_age_secs)}
      OBVIOUS
    <3> PICK stay : stay = entries(q) \ {x}
      OBVIOUS
    <3>f. /\ fresh \in SUBSET entries(p)
          /\ \A r \in entries(p) : r \in fresh <=> r.added_at >= Minus(now, max_age_secs)
      BY <3>p
    <3>6. /\ \A g \in fresh \ stay, s \in stay : cmp(from_entry(s), from_entry(g))
          /\ \A g \in fresh \ stay :
                (\A h \in (fresh \ stay) \ {g} : cmp(from_entry(g), from_entry(h)))
                  => \/ Cardinality(stay) + 2 > max_tx_count
                     \/ sum_sizes(stay) + g.size + x.size > max_pool_bytes
      <4>1. Newcomer(p, e, now, x, fresh, stay)
        BY <3>3, <3>4, <3>5, <3>f DEF Newcomer
      <4> QED BY <4>1, Displaced
    <3> QED BY <3>6, <3>p DEF DisplacesLowest
  <2> QED BY <2>1, <2>2
<1> QED
  BY <1>1, Invariance, PTL DEF Spec, EvictsLowestOnly

===============================================================================
