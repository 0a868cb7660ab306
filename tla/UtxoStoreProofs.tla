--------------------------- MODULE UtxoStoreProofs ---------------------------
(***************************************************************************)
(* Proofs about UtxoStore and UtxoApply.  For every set of blocks,         *)
(* applying and reverting keeps the entries equal to what the chain        *)
(* created and did not consume, the creation heights exact, and no         *)
(* transaction or output used twice.  And the loop of apply_block          *)
(* implements the one-step application: what it commits is what            *)
(* apply_block promises, and it gives up only on blocks that apply_ok      *)
(* excludes.                                                               *)
(***************************************************************************)
EXTENDS UtxoApply, UtxoSetProofs, TLAPS

-------------------------------------------------------------------------------
(* The store.                                                              *)

\* The inductive invariant: us is the store of the applied chain.
IInv == Ledger(Blocks, us, applied)

LEMMA BlocksSound == Sound(Blocks, AllTxs)
  BY HashAssumption, BlocksAssumption DEF Sound

\* Blocks of one chain have different heights, so different hashes.
LEMMA ChainHashes ==
    ASSUME NEW s, ChainShape(Blocks, s), NEW n \in DOMAIN s, NEW b \in Blocks, b.height # n - 1
    PROVE  s[n].hash # b.hash
  BY HashAssumption DEF ChainShape

LEMMA ApplyIInv ==
    ASSUME NEW b \in Blocks, IInv, Apply(b)
    PROVE  IInv'
  <1>1. \A n \in DOMAIN applied : b.height # n - 1
    BY DEF IInv, Ledger, ChainShape, Apply
  <1>2. \A n \in DOMAIN applied : applied[n].hash # b.hash
    BY <1>1, ChainHashes DEF IInv, Ledger
  <1> QED BY <1>2, BlocksSound, ApplyLedger DEF IInv, Apply

LEMMA RevertIInv ==
    ASSUME NEW b \in Blocks, IInv, Revert(b)
    PROVE  IInv'
  <1> DEFINE r == SubSeq(applied, 1, Len(applied) - 1)
  <1>1. applied \in Seq(Blocks) /\ Len(applied) > 0 /\ b = applied[Len(applied)]
    BY DEF IInv, Ledger, ChainShape, Revert
  <1>2. r \in Seq(Blocks) /\ Len(r) = Len(applied) - 1 /\ applied = Append(r, b)
    BY <1>1, FrontLast
  <1>3. applied' = r /\ us' = revert_block(us, b)
    BY DEF Revert
  <1> HIDE DEF r
  <1>4. \A n \in DOMAIN r : n \in DOMAIN applied /\ applied[n] = r[n] /\ n # Len(applied)
    BY <1>2, AppendFacts
  <1>5. applied[Len(applied)].height = Len(applied) - 1
    BY <1>1 DEF IInv, Ledger, ChainShape
  <1>6. \A n \in DOMAIN r : r[n].hash # b.hash
    <2> SUFFICES ASSUME NEW n \in DOMAIN r PROVE r[n].hash # b.hash
      OBVIOUS
    <2>1. n \in Nat /\ Len(applied) \in Nat
      BY <1>1, <1>2
    <2>2. b.height # n - 1
      BY <1>1, <1>4, <1>5, <2>1
    <2> QED BY <1>4, <2>2, ChainHashes DEF IInv, Ledger
  <1> QED BY <1>2, <1>3, <1>6, RevertLedger DEF IInv

\* The inductive invariant holds of every behaviour of the store.
THEOREM Invariance == Spec => []IInv
  <1>1. Init => IInv
    BY EmptyLedger DEF Init, IInv
  <1>2. IInv /\ [Next]_vars => IInv'
    <2> SUFFICES ASSUME IInv, [Next]_vars PROVE IInv'
      OBVIOUS
    <2>1. ASSUME NEW b \in Blocks, Apply(b) PROVE IInv'
      BY <2>1, ApplyIInv
    <2>2. ASSUME NEW b \in Blocks, Revert(b) PROVE IInv'
      BY <2>2, RevertIInv
    <2>3. CASE UNCHANGED vars
      BY <2>3 DEF vars, IInv
    <2> QED BY <2>1, <2>2, <2>3 DEF Next
  <1> QED BY <1>1, <1>2, PTL DEF Spec

\* Type correctness of the store and exactness of the undo index.
THEOREM TypeCorrect == Spec => []TypeOK
  <1>1. IInv => TypeOK
    BY DEF IInv, Ledger, TypeOK, ChainShape, UndoExact, RecordsOf
  <1> QED BY <1>1, Invariance, PTL

\* However blocks are applied and reverted, the store holds exactly what the
\* chain created and did not consume.
THEOREM UtxoFold == Spec => []UtxoIsFold
  <1>1. IInv => UtxoIsFold
    BY DEF IInv, Ledger, UtxoIsFold
  <1> QED BY <1>1, Invariance, PTL

\* The creation-height records are exactly those of the live coinbase outputs.
THEOREM CoinbaseRecords == Spec => []CoinbaseRecordsLive
  <1>1. IInv => CoinbaseRecordsLive
    BY DEF IInv, Ledger, CoinbaseRecordsLive
  <1> QED BY <1>1, Invariance, PTL

\* No transaction takes effect twice on a chain.
THEOREM TxOnce == Spec => []NoTxTwice
  <1>1. IInv => NoTxTwice
    BY DEF IInv, Ledger, OnceEach, NoTxTwice
  <1> QED BY <1>1, Invariance, PTL

\* No output is consumed twice on a chain.
THEOREM SpendOnce == Spec => []NoDoubleSpend
  <1>1. IInv => NoDoubleSpend
    BY DEF IInv, Ledger, SpentOnce, NoDoubleSpend
  <1> QED BY <1>1, Invariance, PTL

-------------------------------------------------------------------------------
(* The loop invariant.                                                     *)

\* What the transactions of b before position i consume and create.
ins_upto(b, i) == UNION {b.txs[k].inputs : k \in 1..(i - 1)}
outs_upto(b, i) == UNION {outs(b.txs[k]) : k \in 1..(i - 1)}

\* The transactions of b before position i meet the conditions of apply_ok.
OkUpto(store, b, i) ==
    /\ \A k \in 1..(i - 1) : b.txs[k].inputs \subseteq store.entries \cup outs_upto(b, k)
    /\ \A k, l \in 1..(i - 1) : k # l => b.txs[k].inputs \cap b.txs[l].inputs = {}
    /\ outs_upto(b, i) \cap store.entries = {}

LoopInv ==
    /\ work.phase \in {"idle", "loop", "error"}
    /\ work.phase # "idle" =>
          /\ work = [phase |-> work.phase, block |-> work.block,
                     tx_index |-> work.tx_index, spent |-> work.spent,
                     consumed |-> work.consumed, staged_new |-> work.staged_new]
          /\ work.block \in Blocks
          /\ work.block.height = Len(applied)
          /\ validate_structure(work.block)
    /\ work.phase = "loop" =>
          /\ work.tx_index \in 1..(Len(work.block.txs) + 1)
          /\ OkUpto(us, work.block, work.tx_index)
          /\ work.consumed = ins_upto(work.block, work.tx_index)
          /\ work.staged_new = outs_upto(work.block, work.tx_index) \ work.consumed
          /\ work.spent = work.consumed \cap us.entries
    /\ RejectsOnlyInvalid

-------------------------------------------------------------------------------
LEMMA TxsDomain ==
    ASSUME NEW b \in Blocks
    PROVE  DOMAIN b.txs = 1..Len(b.txs) /\ Len(b.txs) \in Nat
  <1>1. b.txs \in Seq(AllTxs)
    BY BlocksAssumption
  <1> QED BY <1>1

LEMMA UptoNext ==
    ASSUME NEW b, NEW i \in Nat, i > 0
    PROVE  /\ ins_upto(b, i + 1) = ins_upto(b, i) \cup b.txs[i].inputs
           /\ outs_upto(b, i + 1) = outs_upto(b, i) \cup outs(b.txs[i])
  <1>1. 1..((i + 1) - 1) = 1..(i - 1) \cup {i}
    OBVIOUS
  <1> QED BY <1>1 DEF ins_upto, outs_upto

\* At the end of the loop everything has been seen.
LEMMA UptoEnd ==
    ASSUME NEW b \in Blocks
    PROVE  /\ ins_upto(b, Len(b.txs) + 1) = block_inputs(b)
           /\ outs_upto(b, Len(b.txs) + 1) = block_outputs(b)
  <1>1. 1..((Len(b.txs) + 1) - 1) = DOMAIN b.txs
    BY TxsDomain
  <1> QED BY <1>1 DEF ins_upto, outs_upto, block_inputs, block_outputs

\* apply_ok is OkUpto the end, for a well-formed block.
LEMMA OkEnd ==
    ASSUME NEW b \in Blocks, validate_structure(b)
    PROVE  apply_ok(us, b) <=> OkUpto(us, b, Len(b.txs) + 1)
  <1>1. 1..((Len(b.txs) + 1) - 1) = DOMAIN b.txs
    BY TxsDomain
  <1>2. \A k : \A o : o \in outs_upto(b, k) <=> \E j \in 1..(k - 1) : o \in outs(b.txs[j])
    BY DEF outs_upto
  <1>3. ASSUME apply_ok(us, b) PROVE OkUpto(us, b, Len(b.txs) + 1)
    BY <1>1, <1>2, <1>3, UptoEnd DEF apply_ok, OkUpto
  <1>4. ASSUME OkUpto(us, b, Len(b.txs) + 1) PROVE apply_ok(us, b)
    BY <1>1, <1>2, <1>4, UptoEnd DEF apply_ok, OkUpto
  <1> QED BY <1>3, <1>4

\* Distinct positions of a well-formed block create distinct outputs.
LEMMA OutsApart ==
    ASSUME NEW b \in Blocks, validate_structure(b), NEW i \in DOMAIN b.txs
    PROVE  outs(b.txs[i]) \cap outs_upto(b, i) = {}
  <1> SUFFICES ASSUME NEW k \in 1..(i - 1), NEW o,
                      o \in outs(b.txs[i]), o \in outs(b.txs[k])
               PROVE  FALSE
    BY DEF outs_upto
  <1>1. k \in DOMAIN b.txs /\ k # i
    BY TxsDomain
  <1>2. b.txs[i].id = b.txs[k].id
    BY DEF outs
  <1> QED BY <1>1, <1>2 DEF validate_structure

\* What the checked transactions consumed is in the store or was created by
\* them.
LEMMA ConsumedKnown ==
    ASSUME NEW b, NEW i \in Nat, OkUpto(us, b, i)
    PROVE  ins_upto(b, i) \subseteq us.entries \cup outs_upto(b, i)
  <1> SUFFICES ASSUME NEW k \in 1..(i - 1), NEW o \in b.txs[k].inputs
               PROVE  o \in us.entries \cup outs_upto(b, i)
    BY DEF ins_upto
  <1>1. o \in us.entries \cup outs_upto(b, k)
    BY DEF OkUpto
  <1>2. outs_upto(b, k) \subseteq outs_upto(b, i)
    BY DEF outs_upto
  <1> QED BY <1>1, <1>2

-------------------------------------------------------------------------------
(* The steps.                                                              *)

LEMMA BeginInv ==
    ASSUME NEW b \in Blocks, LoopInv, Begin(b)
    PROVE  LoopInv'
  <1>1. /\ work' = NewWork(b) /\ us' = us /\ applied' = applied
        /\ b.height = Len(applied) /\ validate_structure(b)
    BY DEF Begin, vars
  <1>2. Len(b.txs) \in Nat
    BY TxsDomain
  <1>3. ins_upto(b, 1) = {} /\ outs_upto(b, 1) = {}
    BY DEF ins_upto, outs_upto
  <1>4. OkUpto(us, b, 1)
    BY <1>3 DEF OkUpto
  <1>5. OkUpto(us', b, 1)
    BY <1>1, <1>4
  <1> QED BY <1>1, <1>2, <1>3, <1>5 DEF LoopInv, NewWork, RejectsOnlyInvalid

\* The record of locals.
Locals(p, b, i, sp, co, st) ==
    [phase |-> p, block |-> b, tx_index |-> i,
     spent |-> sp, consumed |-> co, staged_new |-> st]

LEMMA IterateInv ==
    ASSUME LoopInv, Iterate
    PROVE  LoopInv'
  <1>b. PICK b, i, sp, co, st : /\ b = work.block /\ i = work.tx_index /\ sp = work.spent
                                /\ co = work.consumed /\ st = work.staged_new
    OBVIOUS
  <1> DEFINE tx == b.txs[i]
             eaten == Locals("loop", b, i, sp \cup (tx.inputs \ st),
                             co \cup tx.inputs, st \ tx.inputs)
             ok == consume_ok(work, tx) /\ produce_ok(eaten, tx)
  <1>1. us' = us /\ applied' = applied /\ work.phase = "loop" /\ i \in DOMAIN b.txs
    BY <1>b DEF Iterate, vars
  <1>2. /\ work = [phase |-> "loop", block |-> b, tx_index |-> i, spent |-> sp,
                   consumed |-> co, staged_new |-> st]
        /\ b \in Blocks /\ b.height = Len(applied) /\ validate_structure(b)
        /\ i \in 1..(Len(b.txs) + 1) /\ OkUpto(us, b, i)
        /\ co = ins_upto(b, i)
        /\ st = outs_upto(b, i) \ co
        /\ sp = co \cap us.entries
    BY <1>1, <1>b DEF LoopInv
  <1>3. i \in Nat /\ i > 0 /\ i <= Len(b.txs) /\ Len(b.txs) \in Nat
    BY <1>1, <1>2, TxsDomain
  <1>4. consume_inputs(work, tx) = eaten
    <2>1. work = Locals("loop", b, i, sp, co, st)
      BY <1>2 DEF Locals
    <2>2. consume_inputs(work, tx) =
              [work EXCEPT !.spent = sp \cup (tx.inputs \ st),
                           !.consumed = co \cup tx.inputs, !.staged_new = st \ tx.inputs]
      BY <1>b DEF consume_inputs
    <2> DEFINE x == sp \cup (tx.inputs \ st)
               y == co \cup tx.inputs
               z == st \ tx.inputs
    <2>3. [Locals("loop", b, i, sp, co, st) EXCEPT
             !.spent = x, !.consumed = y, !.staged_new = z] = Locals("loop", b, i, x, y, z)
      <3> HIDE DEF x, y, z
      <3>1. [Locals("loop", b, i, sp, co, st) EXCEPT !.spent = x] =
                Locals("loop", b, i, x, co, st)
        BY DEF Locals
      <3>2. [Locals("loop", b, i, x, co, st) EXCEPT !.consumed = y] =
                Locals("loop", b, i, x, y, st)
        BY DEF Locals
      <3>3. [Locals("loop", b, i, x, y, st) EXCEPT !.staged_new = z] =
                Locals("loop", b, i, x, y, z)
        BY DEF Locals
      <3>4. [Locals("loop", b, i, sp, co, st) EXCEPT
               !.spent = x, !.consumed = y, !.staged_new = z] =
            [[[Locals("loop", b, i, sp, co, st) EXCEPT !.spent = x]
                EXCEPT !.consumed = y] EXCEPT !.staged_new = z]
        OBVIOUS
      <3> QED BY <3>1, <3>2, <3>3, <3>4
    <2> QED BY <2>1, <2>2, <2>3
  <1>5. work' = IF ok THEN [produce_outputs(eaten, tx) EXCEPT !.tx_index = @ + 1]
                ELSE [work EXCEPT !.phase = "error"]
    BY <1>b, <1>4 DEF Iterate
  <1>6. consume_ok(work, tx) <=> /\ tx.inputs \cap co = {}
                                 /\ tx.inputs \subseteq st \cup us.entries
    BY <1>b DEF consume_ok
  <1>7. produce_ok(eaten, tx) <=>
            outs(tx) \cap ((co \cup tx.inputs) \cup (st \ tx.inputs) \cup us.entries) = {}
    BY DEF produce_ok, Locals
  <1>8. /\ ins_upto(b, i + 1) = ins_upto(b, i) \cup tx.inputs
        /\ outs_upto(b, i + 1) = outs_upto(b, i) \cup outs(tx)
    BY <1>3, UptoNext
  <1>9. outs_upto(b, i) \cap us.entries = {}
    BY <1>2 DEF OkUpto
  <1>e. [produce_outputs(eaten, tx) EXCEPT !.tx_index = @ + 1] =
            [phase |-> "loop", block |-> b, tx_index |-> i + 1,
             spent |-> sp \cup (tx.inputs \ st), consumed |-> co \cup tx.inputs,
             staged_new |-> (st \ tx.inputs) \cup outs(tx)]
    <2> DEFINE x == sp \cup (tx.inputs \ st)
               y == co \cup tx.inputs
               z == st \ tx.inputs
               zz == z \cup outs(tx)
               j == i + 1
    <2>1. produce_outputs(Locals("loop", b, i, x, y, z), tx) =
              [Locals("loop", b, i, x, y, z) EXCEPT !.staged_new = zz]
      BY DEF produce_outputs, Locals
    <2>2. [Locals("loop", b, i, x, y, z) EXCEPT !.staged_new = zz] = Locals("loop", b, i, x, y, zz)
      <3> HIDE DEF x, y, z, zz
      <3> QED BY DEF Locals
    <2>3. [Locals("loop", b, i, x, y, zz) EXCEPT !.tx_index = j] = Locals("loop", b, j, x, y, zz)
      <3> HIDE DEF x, y, z, zz, j
      <3> QED BY DEF Locals
    <2>4. [Locals("loop", b, i, x, y, zz) EXCEPT !.tx_index = @ + 1] =
              [Locals("loop", b, i, x, y, zz) EXCEPT !.tx_index = j]
      BY DEF Locals
    <2> QED BY <2>1, <2>2, <2>3, <2>4 DEF Locals
  <1> HIDE DEF tx, eaten
  <1>10. CASE ok
    <2>1. work' = [phase |-> "loop", block |-> b, tx_index |-> i + 1,
                   spent |-> sp \cup (tx.inputs \ st), consumed |-> co \cup tx.inputs,
                   staged_new |-> (st \ tx.inputs) \cup outs(tx)]
      BY <1>10, <1>e, <1>5
    <2>2. OkUpto(us, b, i + 1)
      <3>0. 1..((i + 1) - 1) = 1..(i - 1) \cup {i}
        BY <1>3
      <3>1. \A k \in 1..((i + 1) - 1) : b.txs[k].inputs \subseteq us.entries \cup outs_upto(b, k)
        <4>1. tx.inputs \subseteq us.entries \cup outs_upto(b, i)
          BY <1>10, <1>6, <1>2
        <4> QED BY <3>0, <4>1, <1>2 DEF OkUpto, tx
      <3>2. \A k, l \in 1..((i + 1) - 1) : k # l => b.txs[k].inputs \cap b.txs[l].inputs = {}
        <4>1. \A k \in 1..(i - 1) : b.txs[k].inputs \cap tx.inputs = {}
          BY <1>10, <1>6, <1>2 DEF ins_upto
        <4> QED BY <3>0, <4>1, <1>2 DEF OkUpto, tx
      <3>3. outs_upto(b, i + 1) \cap us.entries = {}
        BY <1>10, <1>7, <1>8, <1>9
      <3> QED BY <3>1, <3>2, <3>3 DEF OkUpto
    <2>3. (co \cup tx.inputs) = ins_upto(b, i + 1)
      BY <1>2, <1>4, <1>8
    <2>4. (st \ tx.inputs) \cup outs(tx) = outs_upto(b, i + 1) \ (co \cup tx.inputs)
      BY <1>10, <1>2, <1>4, <1>7, <1>8
    <2>5. (sp \cup (tx.inputs \ st)) = (co \cup tx.inputs) \cap us.entries
      BY <1>10, <1>2, <1>4, <1>6, <1>9
    <2>6. OkUpto(us', b, i + 1)
      BY <2>2, <1>1
    <2>7. i + 1 \in 1..(Len(b.txs) + 1)
      BY <1>3
    <2> QED BY <2>1, <2>3, <2>4, <2>5, <2>6, <2>7, <1>1, <1>2 DEF LoopInv, RejectsOnlyInvalid
  <1>11. CASE ~ok
    <2>1. work' = [phase |-> "error", block |-> b, tx_index |-> i, spent |-> sp,
                   consumed |-> co, staged_new |-> st]
      BY <1>11, <1>2, <1>5
    <2>2. ~apply_ok(us, b)
      <3> SUFFICES ASSUME apply_ok(us, b) PROVE ok
        BY <1>11
      <3>1. OkUpto(us, b, Len(b.txs) + 1)
        BY <1>2, OkEnd
      <3>2. i \in 1..((Len(b.txs) + 1) - 1) /\ 1..(i - 1) \subseteq 1..((Len(b.txs) + 1) - 1)
        BY <1>3
      <3>3. tx.inputs \subseteq us.entries \cup outs_upto(b, i)
        BY <3>1, <3>2 DEF OkUpto, tx
      <3>4. tx.inputs \cap co = {}
        <4>1. \A k \in 1..(i - 1) : b.txs[k].inputs \cap tx.inputs = {}
          BY <3>1, <3>2, <1>3 DEF OkUpto, tx
        <4> QED BY <4>1, <1>2 DEF ins_upto
      <3>5. consume_ok(work, tx)
        BY <3>3, <3>4, <1>2, <1>6
      <3>6. outs(tx) \cap us.entries = {}
        <4>1. block_outputs(b) \cap us.entries = {}
          BY DEF apply_ok
        <4>2. outs(tx) \subseteq block_outputs(b)
          BY <1>1 DEF block_outputs, tx
        <4> QED BY <4>1, <4>2
      <3>7. outs(tx) \cap outs_upto(b, i) = {}
        BY <1>1, <1>2, OutsApart DEF tx
      <3>8. co \subseteq us.entries \cup outs_upto(b, i)
        BY <1>2, <1>3, ConsumedKnown
      <3>9. produce_ok(eaten, tx)
        BY <3>3, <3>6, <3>7, <3>8, <1>2, <1>4, <1>7
      <3> QED BY <3>5, <3>9
    <2> QED BY <2>1, <2>2, <1>1, <1>2 DEF LoopInv, RejectsOnlyInvalid
  <1> QED BY <1>10, <1>11

\* Committing is one application step of the store.
LEMMA CommitApplies ==
    ASSUME LoopInv, Commit
    PROVE  work.block \in Blocks /\ Apply(work.block)
  <1> DEFINE b == work.block
  <1>1. /\ work.phase = "loop" /\ work.tx_index \notin DOMAIN b.txs
        /\ us' = write_batch(us, work) /\ applied' = Append(applied, b)
    BY DEF Commit
  <1>2. /\ b \in Blocks /\ b.height = Len(applied) /\ validate_structure(b)
        /\ work.tx_index \in 1..(Len(b.txs) + 1) /\ OkUpto(us, b, work.tx_index)
        /\ work.consumed = ins_upto(b, work.tx_index)
        /\ work.staged_new = outs_upto(b, work.tx_index) \ work.consumed
        /\ work.spent = work.consumed \cap us.entries
    BY <1>1 DEF LoopInv
  <1>3. work.tx_index = Len(b.txs) + 1
    BY <1>1, <1>2, TxsDomain
  <1>4. apply_ok(us, b)
    BY <1>2, <1>3, OkEnd
  <1>5. /\ work.spent = block_inputs(b) \cap us.entries
        /\ work.staged_new = block_outputs(b) \ block_inputs(b)
    BY <1>2, <1>3, UptoEnd
  <1>6. write_batch(us, work) = apply_block(us, b)
    BY <1>5 DEF write_batch, apply_block
  <1> QED BY <1>1, <1>2, <1>4, <1>6 DEF Apply

LEMMA LoopStep ==
    ASSUME LoopInv, [LoopNext]_loop_vars
    PROVE  LoopInv' /\ [Next]_vars
  <1>1. ASSUME NEW b \in Blocks, Begin(b) PROVE LoopInv' /\ [Next]_vars
    BY <1>1, BeginInv DEF Begin
  <1>2. ASSUME NEW b \in Blocks, LoopRevert(b) PROVE LoopInv' /\ [Next]_vars
    <2>1. work' = work /\ work.phase = "idle" /\ Revert(b)
      BY <1>2 DEF LoopRevert
    <2> QED BY <2>1 DEF LoopInv, RejectsOnlyInvalid, Next
  <1>3. CASE Iterate
    BY <1>3, IterateInv DEF Iterate
  <1>4. CASE Commit
    <2>1. work' = Idle
      BY <1>4 DEF Commit
    <2>2. LoopInv'
      BY <2>1 DEF LoopInv, RejectsOnlyInvalid, Idle
    <2> QED BY <2>2, <1>4, CommitApplies DEF Next
  <1>5. CASE ReturnError
    BY <1>5 DEF ReturnError, LoopInv, RejectsOnlyInvalid, Idle
  <1>6. CASE UNCHANGED loop_vars
    <2>1. us' = us /\ applied' = applied /\ work' = work
      BY <1>6 DEF loop_vars
    <2> QED BY <2>1 DEF LoopInv, RejectsOnlyInvalid, OkUpto, vars
  <1> QED BY <1>1, <1>2, <1>3, <1>4, <1>5, <1>6 DEF LoopNext

-------------------------------------------------------------------------------
THEOREM LoopInvariance == LoopSpec => []LoopInv
  <1>1. LoopInit => LoopInv
    BY DEF LoopInit, LoopInv, RejectsOnlyInvalid, Idle
  <1>2. LoopInv /\ [LoopNext]_loop_vars => LoopInv'
    BY LoopStep
  <1> QED BY <1>1, <1>2, PTL DEF LoopSpec

\* The loop implements the one-step application of UtxoStore.
THEOREM LoopImplementsStore == LoopSpec => ImplementsStore
  <1>1. LoopInit => Init
    BY DEF LoopInit
  <1>2. LoopInv /\ [LoopNext]_loop_vars => [Next]_vars
    BY LoopStep
  <1> QED BY <1>1, <1>2, LoopInvariance, PTL DEF LoopSpec, ImplementsStore, Spec

\* The loop returns an error only on a block that cannot be applied.
THEOREM LoopRejection == LoopSpec => []RejectsOnlyInvalid
  <1>1. LoopInv => RejectsOnlyInvalid
    BY DEF LoopInv
  <1> QED BY <1>1, LoopInvariance, PTL

===============================================================================
