---------------------------- MODULE UtxoSetProofs ----------------------------
(***************************************************************************)
(* What applying and reverting a block does to the store of a chain, for   *)
(* every chain and every block: lemmas for the specifications that drive   *)
(* the store (UtxoStore, UtxoApply, Node).                                 *)
(***************************************************************************)
EXTENDS UtxoSet, SumTheorems, SequenceTheorems

-------------------------------------------------------------------------------
(* The store of a chain.                                                   *)

\* B is a set of blocks with transactions of X, where equal ids mean equal
\* transactions, and the transactions of a genesis block have lock_time 0.
Sound(B, X) ==
    /\ \A t, u \in X : t.id = u.id => t = u
    /\ \A b \in B :
          /\ b.height \in Nat
          /\ b.txs \in Seq(X)
          /\ b.height = 0 => \A i \in DOMAIN b.txs : b.txs[i].lock_time = 0

\* us is a record of its four fields.
StoreShape(us) ==
    us = [entries |-> us.entries, undo |-> us.undo, cbh |-> us.cbh,
          snapshots |-> us.snapshots]

\* A chain: one well-formed block per height, each consuming only outputs of
\* itself or of blocks before it.
ChainShape(B, s) ==
    /\ s \in Seq(B)
    /\ \A n \in DOMAIN s : s[n].height = n - 1 /\ validate_structure(s[n])
    /\ \A n \in DOMAIN s : \A o \in block_inputs(s[n]) :
          \E m \in 1..n : o \in block_outputs(s[m])

OnceEach(s) ==
    \A n, m \in DOMAIN s : \A i \in DOMAIN s[n].txs, j \in DOMAIN s[m].txs :
        s[n].txs[i].id = s[m].txs[j].id => n = m /\ i = j

SpentOnce(s) ==
    \A n, m \in DOMAIN s : \A i \in DOMAIN s[n].txs, j \in DOMAIN s[m].txs :
        s[n].txs[i].inputs \cap s[m].txs[j].inputs # {} => n = m /\ i = j

\* The undo log of a block: what it took from older blocks, and the creation
\* heights of the coinbase outputs among that.
UndoOf(s, n, u) ==
    /\ u.spent = block_inputs(s[n]) \ block_outputs(s[n])
    /\ DOMAIN u.heights = u.spent \cap coinbases(s)
    /\ \A m \in DOMAIN s : \A o \in u.spent \cap coinbase_outputs(s[m]) :
          u.heights[o] = s[m].height

UndoExact(us, s) ==
    /\ DOMAIN us.undo = {s[n].hash : n \in DOMAIN s}
    /\ \A n \in DOMAIN s : UndoOf(s, n, us.undo[s[n].hash])

\* us is the store of chain s.
Ledger(B, us, s) ==
    /\ StoreShape(us)
    /\ ChainShape(B, s)
    /\ OnceEach(s)
    /\ SpentOnce(s)
    /\ FoldOf(us, s)
    /\ RecordsOf(us, s)
    /\ UndoExact(us, s)

-------------------------------------------------------------------------------
(* Outputs belong to one transaction, chains grow at the end.              *)

\* An outpoint names the transaction that creates it.
LEMMA OutsOwner ==
    ASSUME NEW t, NEW u, NEW o, o \in outs(t), o \in outs(u)
    PROVE  t.id = u.id
  BY DEF outs

LEMMA BlockMembers ==
    ASSUME NEW b, NEW o
    PROVE  /\ o \in block_outputs(b) <=> \E i \in DOMAIN b.txs : o \in outs(b.txs[i])
           /\ o \in block_inputs(b) <=> \E i \in DOMAIN b.txs : o \in b.txs[i].inputs
  BY DEF block_outputs, block_inputs

LEMMA CoinbaseInOutputs ==
    ASSUME NEW b
    PROVE  coinbase_outputs(b) \subseteq block_outputs(b)
  BY DEF coinbase_outputs, block_outputs

LEMMA AppendFacts ==
    ASSUME NEW B, NEW s \in Seq(B), NEW b \in B
    PROVE  /\ Append(s, b) \in Seq(B)
           /\ Len(Append(s, b)) = Len(s) + 1
           /\ Append(s, b)[Len(s) + 1] = b
           /\ \A n \in DOMAIN s : Append(s, b)[n] = s[n]
           /\ DOMAIN Append(s, b) = DOMAIN s \cup {Len(s) + 1}
           /\ DOMAIN s = 1..Len(s)
           /\ Len(s) \in Nat
  OBVIOUS

LEMMA FoldAppend ==
    ASSUME NEW B, NEW s \in Seq(B), NEW b \in B
    PROVE  /\ created(Append(s, b)) = created(s) \cup block_outputs(b)
           /\ consumed(Append(s, b)) = consumed(s) \cup block_inputs(b)
           /\ coinbases(Append(s, b)) = coinbases(s) \cup coinbase_outputs(b)
  <1> DEFINE t == Append(s, b)
  <1>1. DOMAIN t = DOMAIN s \cup {Len(s) + 1} /\ t[Len(s) + 1] = b
        /\ \A n \in DOMAIN s : t[n] = s[n]
    BY AppendFacts
  <1> HIDE DEF t
  <1>2. created(t) = created(s) \cup block_outputs(b)
    BY <1>1 DEF created
  <1>3. consumed(t) = consumed(s) \cup block_inputs(b)
    BY <1>1 DEF consumed
  <1>4. coinbases(t) = coinbases(s) \cup coinbase_outputs(b)
    BY <1>1 DEF coinbases
  <1> QED BY <1>2, <1>3, <1>4 DEF t

\* A chain with a last block is an Append.
LEMMA FrontLast ==
    ASSUME NEW B, NEW s \in Seq(B), Len(s) > 0
    PROVE  /\ SubSeq(s, 1, Len(s) - 1) \in Seq(B)
           /\ s[Len(s)] \in B
           /\ Len(SubSeq(s, 1, Len(s) - 1)) = Len(s) - 1
           /\ s = Append(SubSeq(s, 1, Len(s) - 1), s[Len(s)])
  <1> DEFINE f == SubSeq(s, 1, Len(s) - 1)
  <1>a. Len(s) \in Nat /\ \A i \in 1..Len(s) : s[i] \in B
    OBVIOUS
  <1>b. /\ f \in Seq(B)
        /\ Len(f) = IF 1 <= Len(s) - 1 THEN Len(s) - 1 - 1 + 1 ELSE 0
        /\ \A i \in 1..(Len(s) - 1 - 1 + 1) : f[i] = s[1 + i - 1]
    BY <1>a, SubSeqProperties
  <1> HIDE DEF f
  <1>c. s[Len(s)] \in B
    BY <1>a
  <1>d. Len(f) = Len(s) - 1
    <2>1. CASE Len(s) = 1
      <3>1. ~(1 <= Len(s) - 1)
        BY <2>1
      <3>2. Len(f) = 0
        BY <3>1, <1>b
      <3> QED BY <3>2, <2>1
    <2>2. CASE Len(s) # 1
      <3>1. 1 <= Len(s) - 1
        BY <2>2, <1>a
      <3>2. Len(f) = Len(s) - 1 - 1 + 1
        BY <3>1, <1>b
      <3> QED BY <3>2, <1>a
    <2> QED BY <2>1, <2>2
  <1>1. f \in Seq(B) /\ Len(f) = Len(s) - 1 /\ s[Len(s)] \in B
    BY <1>b, <1>c, <1>d
  <1>2. \A n \in 1..Len(f) : f[n] = s[n]
    BY <1>a, <1>b, <1>1
  <1>3. Append(f, s[Len(s)]) \in Seq(B) /\ Len(Append(f, s[Len(s)])) = Len(s)
    BY <1>1
  <1>4. \A n \in 1..Len(s) : Append(f, s[Len(s)])[n] = s[n]
    BY <1>1, <1>2
  <1>5. s = Append(f, s[Len(s)])
    BY <1>3, <1>4
  <1> QED BY <1>1, <1>5 DEF f

\* What a chain consumed it had created, also when its last block is left out.
LEMMA Causal ==
    ASSUME NEW B, NEW s, ChainShape(B, s)
    PROVE  consumed(s) \subseteq created(s)
  <1> SUFFICES ASSUME NEW n \in DOMAIN s, NEW o \in block_inputs(s[n])
               PROVE  o \in created(s)
    BY DEF consumed
  <1>1. PICK m \in 1..n : o \in block_outputs(s[m])
    BY DEF ChainShape
  <1>2. m \in DOMAIN s
    BY DEF ChainShape
  <1> QED BY <1>1, <1>2 DEF created

LEMMA LastBlock ==
    ASSUME NEW B, NEW s \in Seq(B), NEW b \in B,
           ChainShape(B, Append(s, b)), OnceEach(Append(s, b)), SpentOnce(Append(s, b))
    PROVE  /\ ChainShape(B, s) /\ OnceEach(s) /\ SpentOnce(s)
           /\ block_outputs(b) \cap created(s) = {}
           /\ block_inputs(b) \cap consumed(s) = {}
           /\ block_inputs(b) \subseteq created(s) \cup block_outputs(b)
  <1> DEFINE t == Append(s, b)
  <1>1. /\ t \in Seq(B)
        /\ DOMAIN t = DOMAIN s \cup {Len(s) + 1} /\ t[Len(s) + 1] = b
        /\ \A n \in DOMAIN s : t[n] = s[n]
        /\ DOMAIN s = 1..Len(s) /\ Len(s) \in Nat
    BY AppendFacts
  <1>2. ChainShape(B, t) /\ OnceEach(t) /\ SpentOnce(t)
    OBVIOUS
  <1> HIDE DEF t
  <1>3. ChainShape(B, s)
    <2>1. \A n \in DOMAIN s : s[n].height = n - 1 /\ validate_structure(s[n])
      BY <1>1, <1>2 DEF ChainShape
    <2>2. ASSUME NEW n \in DOMAIN s, NEW o \in block_inputs(s[n])
          PROVE  \E m \in 1..n : o \in block_outputs(s[m])
      <3>1. PICK m \in 1..n : o \in block_outputs(t[m])
        BY <1>1, <1>2 DEF ChainShape
      <3>2. t[m] = s[m]
        BY <1>1
      <3> QED BY <3>1, <3>2
    <2> QED BY <2>1, <2>2 DEF ChainShape
  <1>4. OnceEach(s)
    BY <1>1, <1>2 DEF OnceEach
  <1>5. SpentOnce(s)
    BY <1>1, <1>2 DEF SpentOnce
  <1>6. block_outputs(b) \cap created(s) = {}
    <2> SUFFICES ASSUME NEW n \in DOMAIN s, NEW o, o \in block_outputs(b), o \in block_outputs(s[n])
                 PROVE  FALSE
      BY DEF created
    <2>1. PICK i \in DOMAIN b.txs : o \in outs(b.txs[i])
      BY BlockMembers
    <2>2. PICK j \in DOMAIN s[n].txs : o \in outs(s[n].txs[j])
      BY BlockMembers
    <2>3. b.txs[i].id = s[n].txs[j].id
      BY <2>1, <2>2, OutsOwner
    <2> QED BY <2>3, <1>1, <1>2 DEF OnceEach
  <1>7. block_inputs(b) \cap consumed(s) = {}
    <2> SUFFICES ASSUME NEW n \in DOMAIN s, NEW o, o \in block_inputs(b), o \in block_inputs(s[n])
                 PROVE  FALSE
      BY DEF consumed
    <2>1. PICK i \in DOMAIN b.txs : o \in b.txs[i].inputs
      BY BlockMembers
    <2>2. PICK j \in DOMAIN s[n].txs : o \in s[n].txs[j].inputs
      BY BlockMembers
    <2> QED BY <2>1, <2>2, <1>1, <1>2 DEF SpentOnce
  <1>8. block_inputs(b) \subseteq created(s) \cup block_outputs(b)
    <2> SUFFICES ASSUME NEW o \in block_inputs(b)
                 PROVE  o \in created(s) \cup block_outputs(b)
      OBVIOUS
    <2>1. PICK m \in 1..(Len(s) + 1) : o \in block_outputs(t[m])
      BY <1>1, <1>2 DEF ChainShape
    <2> QED BY <2>1, <1>1 DEF created
  <1> QED BY <1>3, <1>4, <1>5, <1>6, <1>7, <1>8

-------------------------------------------------------------------------------
(* A block that applies is new to the chain.                               *)

\* A transaction that took effect before cannot be in a block that applies.
\* Take the first such transaction of the block.  If it has no inputs it is a
\* coinbase and commits to another height.  Otherwise its inputs are spent,
\* so they come from an earlier transaction of the block that also took
\* effect before.
LEMMA FreshTxs ==
    ASSUME NEW B, NEW X, Sound(B, X), NEW us, NEW s, NEW b \in B,
           Ledger(B, us, s), b.height = Len(s), apply_ok(us, b)
    PROVE  \A i \in DOMAIN b.txs : \A n \in DOMAIN s :
              \A j \in DOMAIN s[n].txs : b.txs[i].id # s[n].txs[j].id
  <1> DEFINE seen(i) == \E n \in DOMAIN s : \E j \in DOMAIN s[n].txs :
                           b.txs[i].id = s[n].txs[j].id
             T == {i \in DOMAIN b.txs : seen(i)}
  <1> USE DEF Ledger
  <1>0. s \in Seq(B) /\ DOMAIN s = 1..Len(s) /\ Len(s) \in Nat
    BY DEF ChainShape
  <1>d. DOMAIN b.txs \subseteq Nat /\ \A i \in DOMAIN b.txs : 1..(i - 1) \subseteq DOMAIN b.txs
    <2>1. b.txs \in Seq(X)
      BY DEF Sound
    <2> QED BY <2>1
  <1>1. SUFFICES ASSUME T # {} PROVE FALSE
    OBVIOUS
  <1>2. T \subseteq Nat
    BY <1>d
  <1>3. PICK i \in T : \A k \in T : ~(k < i)
    <2> HIDE DEF T
    <2> QED BY <1>1, <1>2, LeastElement
  <1>n. PICK n \in DOMAIN s : \E j \in DOMAIN s[n].txs :
            b.txs[i].id = s[n].txs[j].id
    OBVIOUS
  <1>4. PICK j \in DOMAIN s[n].txs : b.txs[i].id = s[n].txs[j].id
    BY <1>n
  <1>5. b.txs[i] = s[n].txs[j]
    <2>1. b.txs[i] \in X /\ s[n].txs[j] \in X
      <3>1. b.txs \in Seq(X) /\ s[n] \in B /\ s[n].txs \in Seq(X)
        BY <1>0 DEF Sound
      <3> QED BY <3>1
    <2> QED BY <2>1, <1>4 DEF Sound
  <1>6. CASE b.txs[i].inputs = {}
    <2>1. b.height > 0
      BY <1>0
    <2>2. b.txs[i].lock_time = b.height
      BY <1>6, <2>1 DEF apply_ok, validate_structure, no_input_rule
    <2>3. s[n].height = n - 1 /\ validate_structure(s[n]) /\ s[n] \in B
      BY <1>0 DEF ChainShape
    <2>4. s[n].txs[j].lock_time = s[n].height
      BY <2>3, <1>5, <1>6 DEF validate_structure, no_input_rule, Sound
    <2> QED BY <2>2, <2>3, <2>4, <1>5, <1>0
  <1>7. CASE b.txs[i].inputs # {}
    <2>1. PICK o : o \in b.txs[i].inputs
      BY <1>7
    <2>2. o \in block_inputs(s[n])
      BY <2>1, <1>5, BlockMembers
    <2>3. o \notin us.entries
      BY <2>2 DEF FoldOf, consumed
    <2>4. PICK k \in 1..(i - 1) : o \in outs(b.txs[k])
      BY <2>1, <2>3 DEF apply_ok
    <2>5. PICK m \in 1..n : o \in block_outputs(s[m])
      BY <2>2 DEF ChainShape
    <2>6. PICK l \in DOMAIN s[m].txs : o \in outs(s[m].txs[l])
      BY <2>5, BlockMembers
    <2>7. b.txs[k].id = s[m].txs[l].id
      BY <2>4, <2>6, OutsOwner
    <2>8. k \in T /\ k < i
      <3>1. m \in DOMAIN s
        BY <1>0
      <3>2. k \in DOMAIN b.txs /\ k < i
        BY <1>d
      <3> QED BY <3>1, <3>2, <2>7
    <2> QED BY <2>8, <1>3
  <1> QED BY <1>6, <1>7

-------------------------------------------------------------------------------
(* Applying a block.                                                       *)

LEMMA OverrideFacts ==
    ASSUME NEW f, NEW g
    PROVE  /\ DOMAIN Override(f, g) = DOMAIN f \cup DOMAIN g
           /\ \A x \in DOMAIN g : Override(f, g)[x] = g[x]
           /\ \A x \in DOMAIN f \ DOMAIN g : Override(f, g)[x] = f[x]
  BY DEF Override

LEMMA WithoutFacts ==
    ASSUME NEW f, NEW S
    PROVE  /\ DOMAIN Without(f, S) = DOMAIN f \ S
           /\ \A x \in DOMAIN f \ S : Without(f, S)[x] = f[x]
  BY DEF Without

\* Applying a block to the store of a chain gives the store of the longer
\* chain.
LEMMA ApplyLedger ==
    ASSUME NEW B, NEW X, Sound(B, X), NEW us, NEW s, NEW b \in B,
           Ledger(B, us, s), b.height = Len(s), apply_ok(us, b),
           \A n \in DOMAIN s : s[n].hash # b.hash
    PROVE  Ledger(B, apply_block(us, b), Append(s, b))
  <1> PICK w : w = apply_block(us, b)
    OBVIOUS
  <1> DEFINE t == Append(s, b)
             E == us.entries
             spent == block_inputs(b) \cap E
             staged == block_outputs(b) \ block_inputs(b)
             cb == coinbase_outputs(b) \cap staged
  <1>0. s \in Seq(B)
    BY DEF Ledger, ChainShape
  <1>1. /\ t \in Seq(B)
        /\ DOMAIN t = DOMAIN s \cup {Len(s) + 1}
        /\ t[Len(s) + 1] = b
        /\ \A n \in DOMAIN s : t[n] = s[n]
        /\ DOMAIN s = 1..Len(s) /\ Len(s) \in Nat
    BY <1>0, AppendFacts
  <1>2. /\ created(t) = created(s) \cup block_outputs(b)
        /\ consumed(t) = consumed(s) \cup block_inputs(b)
        /\ coinbases(t) = coinbases(s) \cup coinbase_outputs(b)
    BY <1>0, FoldAppend
  <1>3. b.height = Len(s) /\ apply_ok(us, b)
    OBVIOUS
  <1>4. \A i \in DOMAIN b.txs : \A n \in DOMAIN s :
            \A j \in DOMAIN s[n].txs : b.txs[i].id # s[n].txs[j].id
    BY <1>3, FreshTxs
  <1> HIDE DEF t
  <1>5. block_outputs(b) \cap created(s) = {}
    <2> SUFFICES ASSUME NEW n \in DOMAIN s, NEW o,
                        o \in block_outputs(b), o \in block_outputs(s[n])
                 PROVE  FALSE
      BY DEF created
    <2>1. PICK i \in DOMAIN b.txs : o \in outs(b.txs[i])
      BY BlockMembers
    <2>2. PICK j \in DOMAIN s[n].txs : o \in outs(s[n].txs[j])
      BY BlockMembers
    <2> QED BY <2>1, <2>2, <1>4, OutsOwner
  <1>6. block_inputs(b) \subseteq E \cup block_outputs(b) /\ block_outputs(b) \cap E = {}
    <2>1. ASSUME NEW o \in block_inputs(b) PROVE o \in E \cup block_outputs(b)
      <3>1. PICK i \in DOMAIN b.txs : o \in b.txs[i].inputs
        BY BlockMembers
      <3>2. CASE o \in E
        BY <3>2
      <3>3. CASE o \notin E
        <4>1. PICK k \in 1..(i - 1) : o \in outs(b.txs[k])
          BY <3>1, <3>3, <1>3 DEF apply_ok
        <4>2. b.txs \in Seq(X)
          BY DEF Sound
        <4>3. k \in DOMAIN b.txs
          BY <4>2
        <4> QED BY <4>1, <4>3, BlockMembers
      <3> QED BY <3>2, <3>3
    <2> QED BY <2>1, <1>3 DEF apply_ok
  <1>7. E = created(s) \ consumed(s) /\ consumed(s) \subseteq created(s)
    BY Causal DEF Ledger, FoldOf
  <1>8. block_inputs(b) \cap consumed(s) = {}
    BY <1>5, <1>6, <1>7
  <1>9. OnceEach(t)
    <2> SUFFICES ASSUME NEW n \in DOMAIN t, NEW m \in DOMAIN t,
                        NEW i \in DOMAIN t[n].txs, NEW j \in DOMAIN t[m].txs,
                        t[n].txs[i].id = t[m].txs[j].id
                 PROVE  n = m /\ i = j
      BY DEF OnceEach
    <2>1. CASE n \in DOMAIN s /\ m \in DOMAIN s
      BY <2>1, <1>1 DEF Ledger, OnceEach
    <2>2. CASE n \in DOMAIN s /\ m = Len(s) + 1
      BY <2>2, <1>1, <1>4
    <2>3. CASE n = Len(s) + 1 /\ m \in DOMAIN s
      BY <2>3, <1>1, <1>4
    <2>4. CASE n = Len(s) + 1 /\ m = Len(s) + 1
      BY <2>4, <1>1, <1>3 DEF apply_ok, validate_structure
    <2> QED BY <2>1, <2>2, <2>3, <2>4, <1>1
  <1>10. SpentOnce(t)
    <2> SUFFICES ASSUME NEW n \in DOMAIN t, NEW m \in DOMAIN t,
                        NEW i \in DOMAIN t[n].txs, NEW j \in DOMAIN t[m].txs,
                        NEW o, o \in t[n].txs[i].inputs, o \in t[m].txs[j].inputs
                 PROVE  n = m /\ i = j
      BY DEF SpentOnce
    <2>a. \A k \in DOMAIN s : o \in block_inputs(s[k]) => o \in consumed(s)
      BY DEF consumed
    <2>b. o \in block_inputs(t[n]) /\ o \in block_inputs(t[m])
      BY BlockMembers
    <2>1. CASE n \in DOMAIN s /\ m \in DOMAIN s
      BY <2>1, <1>1 DEF Ledger, SpentOnce
    <2>2. CASE n \in DOMAIN s /\ m = Len(s) + 1
      BY <2>2, <2>a, <2>b, <1>1, <1>8
    <2>3. CASE n = Len(s) + 1 /\ m \in DOMAIN s
      BY <2>3, <2>a, <2>b, <1>1, <1>8
    <2>4. CASE n = Len(s) + 1 /\ m = Len(s) + 1
      BY <2>4, <1>1, <1>3 DEF apply_ok
    <2> QED BY <2>1, <2>2, <2>3, <2>4, <1>1
  <1>11. ChainShape(B, t)
    <2>1. \A n \in DOMAIN t : t[n].height = n - 1 /\ validate_structure(t[n])
      BY <1>1, <1>3 DEF Ledger, ChainShape, apply_ok
    <2>2. ASSUME NEW n \in DOMAIN t, NEW o \in block_inputs(t[n])
          PROVE  \E m \in 1..n : o \in block_outputs(t[m])
      <3>1. CASE n \in DOMAIN s
        <4>1. PICK m \in 1..n : o \in block_outputs(s[m])
          BY <3>1, <1>1 DEF Ledger, ChainShape
        <4> QED BY <4>1, <3>1, <1>1
      <3>2. CASE n = Len(s) + 1
        <4>1. o \in created(s) \cup block_outputs(b)
          BY <3>2, <1>1, <1>6, <1>7
        <4>2. CASE o \in block_outputs(b)
          BY <4>2, <3>2, <1>1
        <4>3. CASE o \in created(s)
          <5>1. PICK m \in DOMAIN s : o \in block_outputs(s[m])
            BY <4>3 DEF created
          <5> QED BY <5>1, <3>2, <1>1
        <4> QED BY <4>1, <4>2, <4>3
      <3> QED BY <3>1, <3>2, <1>1
    <2> QED BY <2>1, <2>2, <1>1 DEF ChainShape
  <1>12. /\ w.entries = (E \ spent) \cup staged
         /\ w.cbh = Override(Without(us.cbh, spent \cap DOMAIN us.cbh),
                               [o \in cb |-> b.height])
         /\ w.undo = Override(us.undo, [h \in {b.hash} |->
                          [spent |-> spent,
                           heights |-> [o \in spent \cap DOMAIN us.cbh |-> us.cbh[o]]]])
         /\ StoreShape(w)
    BY DEF Ledger, StoreShape, apply_block
  <1>13. FoldOf(w, t)
    BY <1>2, <1>3, <1>5, <1>6, <1>7, <1>8, <1>12 DEF FoldOf
  <1>14. coinbase_outputs(b) \subseteq block_outputs(b) /\ coinbases(s) \subseteq created(s)
    BY CoinbaseInOutputs DEF coinbases, created
  <1>15. RecordsOf(w, t)
    <2> DEFINE f == Without(us.cbh, spent \cap DOMAIN us.cbh)
               g == [o \in cb |-> b.height]
    <2>0. DOMAIN us.cbh = E \cap coinbases(s)
      BY DEF Ledger, RecordsOf
    <2>1. /\ DOMAIN w.cbh = DOMAIN f \cup cb
          /\ DOMAIN f = DOMAIN us.cbh \ spent
          /\ \A o \in cb : w.cbh[o] = b.height
          /\ \A o \in DOMAIN f \ cb : w.cbh[o] = us.cbh[o]
      <3>1. /\ DOMAIN f = DOMAIN us.cbh \ (spent \cap DOMAIN us.cbh)
            /\ \A o \in DOMAIN us.cbh \ (spent \cap DOMAIN us.cbh) : f[o] = us.cbh[o]
        BY WithoutFacts
      <3>2. DOMAIN g = cb /\ \A o \in cb : g[o] = b.height
        OBVIOUS
      <3>3. w.cbh = Override(f, g)
        BY <1>12
      <3> HIDE DEF f, g
      <3>4. /\ DOMAIN Override(f, g) = DOMAIN f \cup DOMAIN g
            /\ \A x \in DOMAIN g : Override(f, g)[x] = g[x]
            /\ \A x \in DOMAIN f \ DOMAIN g : Override(f, g)[x] = f[x]
        BY OverrideFacts
      <3> QED BY <3>1, <3>2, <3>3, <3>4
    <2> HIDE DEF f, g
    <2>2. DOMAIN w.cbh = w.entries \cap coinbases(t)
      BY <2>0, <2>1, <1>2, <1>5, <1>6, <1>7, <1>12, <1>14
    <2>3. ASSUME NEW n \in DOMAIN t, NEW o \in coinbase_outputs(t[n]) \cap w.entries
          PROVE  w.cbh[o] = t[n].height
      <3>1. CASE n \in DOMAIN s
        <4>1. o \in coinbases(s) /\ o \in coinbase_outputs(s[n])
          BY <3>1, <1>1 DEF coinbases
        <4>2. o \in E /\ o \notin spent /\ o \notin cb
          BY <4>1, <1>5, <1>12, <1>14
        <4>3. o \in DOMAIN f
          BY <4>1, <4>2, <2>0, <2>1
        <4>4. us.cbh[o] = s[n].height
          BY <3>1, <4>1, <4>2 DEF Ledger, RecordsOf
        <4> QED BY <4>2, <4>3, <4>4, <2>1, <3>1, <1>1
      <3>2. CASE n = Len(s) + 1
        BY <3>2, <2>1, <1>1, <1>3, <1>6, <1>12, <1>14
      <3> QED BY <3>1, <3>2, <1>1
    <2> QED BY <2>2, <2>3, <1>3 DEF RecordsOf
  <1>16. UndoExact(w, t)
    <2> DEFINE h == [o \in spent \cap DOMAIN us.cbh |-> us.cbh[o]]
               u == [spent |-> spent, heights |-> h]
    <2>0. \A n \in DOMAIN s : s[n] \in B /\ s[n].hash # b.hash
      BY <1>0, <1>1
    <2>1. /\ DOMAIN w.undo = DOMAIN us.undo \cup {b.hash}
          /\ w.undo[b.hash] = u
          /\ \A x \in DOMAIN us.undo \ {b.hash} : w.undo[x] = us.undo[x]
      <3> DEFINE g == [x \in {b.hash} |-> u]
      <3>1. DOMAIN g = {b.hash} /\ g[b.hash] = u
        OBVIOUS
      <3>2. w.undo = Override(us.undo, g)
        BY <1>12
      <3> HIDE DEF g, u
      <3>3. /\ DOMAIN Override(us.undo, g) = DOMAIN us.undo \cup DOMAIN g
            /\ \A x \in DOMAIN g : Override(us.undo, g)[x] = g[x]
            /\ \A x \in DOMAIN us.undo \ DOMAIN g : Override(us.undo, g)[x] = us.undo[x]
        BY OverrideFacts
      <3> QED BY <3>1, <3>2, <3>3
    <2>2. DOMAIN w.undo = {t[n].hash : n \in DOMAIN t}
      BY <2>1, <1>1 DEF Ledger, UndoExact
    <2>3. ASSUME NEW n \in DOMAIN t
          PROVE  UndoOf(t, n, w.undo[t[n].hash])
      <3>1. CASE n \in DOMAIN s
        <4> DEFINE v == us.undo[s[n].hash]
        <4>1. w.undo[t[n].hash] = v /\ t[n] = s[n]
          BY <3>1, <2>0, <2>1, <1>1 DEF Ledger, UndoExact
        <4>2. UndoOf(s, n, v)
          BY <3>1 DEF Ledger, UndoExact
        <4> HIDE DEF v
        <4>3. v.spent \subseteq created(s)
          BY <4>2, <3>1, <1>7 DEF UndoOf, consumed
        <4>4. v.spent \cap coinbase_outputs(b) = {}
          BY <4>3, <1>5, <1>14
        <4>5. DOMAIN v.heights = v.spent \cap coinbases(t)
          BY <4>2, <4>4, <1>2 DEF UndoOf
        <4>6. ASSUME NEW m \in DOMAIN t, NEW o \in v.spent \cap coinbase_outputs(t[m])
              PROVE  v.heights[o] = t[m].height
          <5>1. m \in DOMAIN s
            BY <4>4, <1>1
          <5> QED BY <5>1, <4>2, <1>1 DEF UndoOf
        <4> QED BY <4>1, <4>2, <4>5, <4>6 DEF UndoOf
      <3>2. CASE n = Len(s) + 1
        <4>1. w.undo[t[n].hash] = u /\ t[n] = b
          BY <3>2, <2>1, <1>1
        <4>2. u.spent = spent /\ u.heights = h /\ DOMAIN h = spent \cap DOMAIN us.cbh
              /\ \A o \in spent \cap DOMAIN us.cbh : h[o] = us.cbh[o]
          OBVIOUS
        <4> HIDE DEF u, h
        <4>3. spent = block_inputs(b) \ block_outputs(b)
          BY <1>6
        <4>4. DOMAIN us.cbh = E \cap coinbases(s)
          BY DEF Ledger, RecordsOf
        <4>5. DOMAIN h = spent \cap coinbases(t)
          BY <4>2, <4>4, <1>2, <1>6, <1>14
        <4>6. ASSUME NEW m \in DOMAIN t, NEW o \in spent \cap coinbase_outputs(t[m])
              PROVE  h[o] = t[m].height
          <5>1. m \in DOMAIN s
            BY <1>1, <1>6, <1>14
          <5>2. o \in coinbases(s) /\ o \in coinbase_outputs(s[m])
            BY <5>1, <1>1 DEF coinbases
          <5>3. us.cbh[o] = s[m].height
            BY <5>1, <5>2 DEF Ledger, RecordsOf
          <5> QED BY <5>1, <5>2, <5>3, <4>2, <4>4, <1>1
        <4> QED BY <4>1, <4>2, <4>3, <4>5, <4>6 DEF UndoOf
      <3> QED BY <3>1, <3>2, <1>1
    <2> QED BY <2>2, <2>3, <1>3 DEF UndoExact
  <1> QED BY <1>3, <1>9, <1>10, <1>11, <1>12, <1>13, <1>15, <1>16 DEF Ledger, t

-------------------------------------------------------------------------------
(* Reverting the last block.                                               *)

\* Reverting the last block gives the store of the chain before it.
LEMMA RevertLedger ==
    ASSUME NEW B, NEW us, NEW r \in Seq(B), NEW b \in B,
           Ledger(B, us, Append(r, b)), \A n \in DOMAIN r : r[n].hash # b.hash
    PROVE  Ledger(B, revert_block(us, b), r)
  <1> PICK w : w = revert_block(us, b)
    OBVIOUS
  <1> DEFINE s == Append(r, b)
             u == us.undo[b.hash]
             N == Len(r) + 1
  <1>1. r \in Seq(B) /\ s = Append(r, b) /\ Ledger(B, us, s)
    OBVIOUS
  <1> HIDE DEF s
  <1>2. /\ DOMAIN s = DOMAIN r \cup {N} /\ s[N] = b
        /\ \A n \in DOMAIN r : s[n] = r[n]
        /\ DOMAIN r = 1..Len(r) /\ Len(r) \in Nat
    BY <1>1, AppendFacts
  <1>3. /\ created(s) = created(r) \cup block_outputs(b)
        /\ consumed(s) = consumed(r) \cup block_inputs(b)
        /\ coinbases(s) = coinbases(r) \cup coinbase_outputs(b)
    BY <1>1, FoldAppend
  <1>4. /\ ChainShape(B, r) /\ OnceEach(r) /\ SpentOnce(r)
        /\ block_outputs(b) \cap created(r) = {}
        /\ block_inputs(b) \cap consumed(r) = {}
        /\ block_inputs(b) \subseteq created(r) \cup block_outputs(b)
    BY <1>1, LastBlock DEF Ledger
  <1>5. consumed(r) \subseteq created(r)
    BY <1>4, Causal
  <1>6. UndoOf(s, N, u)
    BY <1>1, <1>2 DEF Ledger, UndoExact
  <1>7. u.spent = block_inputs(b) \ block_outputs(b)
    BY <1>6, <1>2 DEF UndoOf
  <1>8. /\ w.entries = (us.entries \ block_outputs(b)) \cup u.spent
        /\ w.cbh = Override(Without(us.cbh, coinbase_outputs(b)), u.heights)
        /\ w.undo = Without(us.undo, {b.hash})
        /\ StoreShape(w)
    BY <1>1 DEF Ledger, StoreShape, revert_block
  <1>9. coinbase_outputs(b) \subseteq block_outputs(b) /\ coinbases(r) \subseteq created(r)
    BY CoinbaseInOutputs DEF coinbases, created
  <1>10. us.entries = created(s) \ consumed(s)
    BY <1>1 DEF Ledger, FoldOf
  <1> HIDE DEF u
  <1>11. FoldOf(w, r)
    BY <1>1, <1>3, <1>4, <1>5, <1>7, <1>8, <1>10 DEF FoldOf
  <1>12. RecordsOf(w, r)
    <2> DEFINE f == Without(us.cbh, coinbase_outputs(b))
    <2>0. DOMAIN us.cbh = us.entries \cap coinbases(s)
      BY <1>1 DEF Ledger, RecordsOf
    <2>1. DOMAIN u.heights = u.spent \cap coinbases(s)
      BY <1>6 DEF UndoOf
    <2>2. /\ DOMAIN f = DOMAIN us.cbh \ coinbase_outputs(b)
          /\ \A o \in DOMAIN us.cbh \ coinbase_outputs(b) : f[o] = us.cbh[o]
      BY WithoutFacts
    <2> HIDE DEF f
    <2>3. /\ DOMAIN w.cbh = DOMAIN f \cup DOMAIN u.heights
          /\ \A o \in DOMAIN u.heights : w.cbh[o] = u.heights[o]
          /\ \A o \in DOMAIN f \ DOMAIN u.heights : w.cbh[o] = f[o]
      <3>1. w.cbh = Override(f, u.heights)
        BY <1>8 DEF f
      <3>2. /\ DOMAIN Override(f, u.heights) = DOMAIN f \cup DOMAIN u.heights
            /\ \A x \in DOMAIN u.heights : Override(f, u.heights)[x] = u.heights[x]
            /\ \A x \in DOMAIN f \ DOMAIN u.heights : Override(f, u.heights)[x] = f[x]
        BY OverrideFacts
      <3> QED BY <3>1, <3>2
    <2>4. DOMAIN w.cbh = w.entries \cap coinbases(r)
      <3>1. w.entries = created(r) \ consumed(r)
        BY <1>11, <1>1 DEF FoldOf
      <3> QED BY <3>1, <2>0, <2>1, <2>2, <2>3, <1>3, <1>4, <1>5, <1>7, <1>9, <1>10
    <2>5. ASSUME NEW n \in DOMAIN r, NEW o \in coinbase_outputs(r[n]) \cap w.entries
          PROVE  w.cbh[o] = r[n].height
      <3>1. o \in coinbases(r) /\ n \in DOMAIN s /\ r[n] = s[n]
        BY <1>2 DEF coinbases
      <3>2. o \in DOMAIN w.cbh
        BY <3>1, <2>4
      <3>3. CASE o \in DOMAIN u.heights
        <4>1. u.heights[o] = s[n].height
          BY <3>1, <3>3, <2>1, <1>6 DEF UndoOf
        <4> QED BY <4>1, <3>1, <3>3, <2>3
      <3>4. CASE o \notin DOMAIN u.heights
        <4>1. o \in DOMAIN f /\ o \in DOMAIN us.cbh \ coinbase_outputs(b)
          BY <3>2, <3>4, <2>2, <2>3
        <4>2. us.cbh[o] = s[n].height
          BY <1>1, <4>1, <3>1, <2>0 DEF Ledger, RecordsOf
        <4> QED BY <4>1, <4>2, <3>1, <3>4, <2>2, <2>3
      <3> QED BY <3>3, <3>4
    <2> QED BY <2>4, <2>5, <1>1 DEF RecordsOf
  <1>13. UndoExact(w, r)
    <2>0. \A n \in DOMAIN r : r[n] \in B /\ r[n].hash # b.hash
      BY <1>1
    <2>1. /\ DOMAIN w.undo = DOMAIN us.undo \ {b.hash}
          /\ \A x \in DOMAIN us.undo \ {b.hash} : w.undo[x] = us.undo[x]
      <3>1. /\ DOMAIN Without(us.undo, {b.hash}) = DOMAIN us.undo \ {b.hash}
            /\ \A x \in DOMAIN us.undo \ {b.hash} :
                  Without(us.undo, {b.hash})[x] = us.undo[x]
        BY WithoutFacts
      <3> QED BY <3>1, <1>8
    <2>2. DOMAIN w.undo = {r[n].hash : n \in DOMAIN r}
      BY <1>1, <2>0, <2>1, <1>2 DEF Ledger, UndoExact
    <2>3. ASSUME NEW n \in DOMAIN r
          PROVE  UndoOf(r, n, w.undo[r[n].hash])
      <3> DEFINE v == us.undo[s[n].hash]
      <3>1. w.undo[r[n].hash] = v /\ r[n] = s[n] /\ n \in DOMAIN s
        BY <1>1, <2>0, <2>1, <1>2 DEF Ledger, UndoExact
      <3>2. UndoOf(s, n, v)
        BY <1>1, <3>1 DEF Ledger, UndoExact
      <3> HIDE DEF v
      <3>3. v.spent \subseteq created(r)
        BY <3>1, <3>2, <1>5 DEF UndoOf, consumed
      <3>4. v.spent \cap coinbase_outputs(b) = {}
        BY <3>3, <1>4, <1>9
      <3>5. DOMAIN v.heights = v.spent \cap coinbases(r)
        BY <3>2, <3>4, <1>3 DEF UndoOf
      <3>6. \A m \in DOMAIN r : \A o \in v.spent \cap coinbase_outputs(r[m]) :
                v.heights[o] = r[m].height
        BY <3>2, <1>2 DEF UndoOf
      <3> QED BY <3>1, <3>2, <3>5, <3>6 DEF UndoOf
    <2> QED BY <2>2, <2>3, <1>1 DEF UndoExact
  <1> QED BY <1>1, <1>4, <1>8, <1>11, <1>12, <1>13 DEF Ledger

-------------------------------------------------------------------------------
\* The empty store is that of the empty chain.
LEMMA EmptyLedger == ASSUME NEW B PROVE Ledger(B, EmptyStore, <<>>)
  <1> DEFINE us == EmptyStore
             s == <<>>
  <1>1. s \in Seq(B) /\ DOMAIN s = {}
    OBVIOUS
  <1>2. us.entries = {} /\ DOMAIN us.cbh = {} /\ DOMAIN us.undo = {} /\ StoreShape(us)
    BY DEF EmptyStore, StoreShape
  <1> HIDE DEF us, s
  <1>3. ChainShape(B, s) /\ OnceEach(s) /\ SpentOnce(s)
    BY <1>1 DEF ChainShape, OnceEach, SpentOnce
  <1>4. FoldOf(us, s) /\ RecordsOf(us, s) /\ UndoExact(us, s)
    BY <1>1, <1>2 DEF FoldOf, RecordsOf, UndoExact, created, consumed, coinbases
  <1> QED BY <1>2, <1>3, <1>4 DEF Ledger, us, s

===============================================================================
