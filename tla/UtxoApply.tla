------------------------------ MODULE UtxoApply ------------------------------
(***************************************************************************)
(* UtxoStore::apply_block as its loop runs: transaction by transaction,    *)
(* consume_inputs and produce_outputs work on local collections; the store *)
(* itself changes in one batch at the end, or not at all.  This implements *)
(* the one-step application of UtxoStore.                                  *)
(***************************************************************************)
EXTENDS UtxoStore

VARIABLE work    \* the locals of the apply_block call in progress

loop_vars == <<us, applied, work>>

Idle == [phase |-> "idle"]

\* The locals when the call starts on block b.
NewWork(b) ==
    [phase |-> "loop", block |-> b, tx_index |-> 1,
     spent |-> {}, consumed |-> {}, staged_new |-> {}]

LoopInit == Init /\ work = Idle

Begin(b) ==
    /\ work.phase = "idle"
    /\ b.height = Len(applied)
    /\ validate_structure(b)
    /\ work' = NewWork(b)
    /\ UNCHANGED vars

\* Faulty: an output of the same block cannot be spent.
consume_ok_no_chaining(w, tx) ==
    /\ tx.inputs \cap w.consumed = {}
    /\ tx.inputs \subseteq us.entries

\* consume_inputs returns Ok: nothing consumed twice, nothing missing.
consume_ok(w, tx) ==
    /\ tx.inputs \cap w.consumed = {}
    /\ tx.inputs \subseteq w.staged_new \cup us.entries

\* Faulty: an output staged by the block is also recorded as spent.
consume_inputs_spends_staged(w, tx) ==
    [w EXCEPT !.spent = @ \cup tx.inputs,
              !.consumed = @ \cup tx.inputs,
              !.staged_new = @ \ tx.inputs]

\* A staged output is unstaged; one of the store is recorded as spent.
consume_inputs(w, tx) ==
    [w EXCEPT !.spent = @ \cup (tx.inputs \ w.staged_new),
              !.consumed = @ \cup tx.inputs,
              !.staged_new = @ \ tx.inputs]

\* produce_outputs returns Ok: no new outpoint was consumed, is staged, or
\* is in the store.
produce_ok(w, tx) == outs(tx) \cap (w.consumed \cup w.staged_new \cup us.entries) = {}

produce_outputs(w, tx) == [w EXCEPT !.staged_new = @ \cup outs(tx)]

\* One iteration of the loop, or the early return of either half.
Iterate ==
    /\ work.phase = "loop"
    /\ work.tx_index \in DOMAIN work.block.txs
    /\ LET tx == work.block.txs[work.tx_index]
           eaten == consume_inputs(work, tx)
       IN  work' = IF consume_ok(work, tx) /\ produce_ok(eaten, tx)
                   THEN [produce_outputs(eaten, tx) EXCEPT !.tx_index = @ + 1]
                   ELSE [work EXCEPT !.phase = "error"]
    /\ UNCHANGED vars

\* The batch built from the locals.
write_batch(store, w) ==
    LET spent_heights == w.spent \cap DOMAIN store.cbh
        coinbase == coinbase_outputs(w.block) \cap w.staged_new
    IN  [store EXCEPT
            !.entries = (@ \ w.spent) \cup w.staged_new,
            !.cbh = Override(Without(@, spent_heights),
                             [o \in coinbase |-> w.block.height]),
            !.undo = Override(@, [h \in {w.block.hash} |->
                        [spent |-> w.spent,
                         heights |-> [o \in spent_heights |-> store.cbh[o]]]])]

Commit ==
    /\ work.phase = "loop"
    /\ work.tx_index \notin DOMAIN work.block.txs
    /\ us' = write_batch(us, work)
    /\ applied' = Append(applied, work.block)
    /\ work' = Idle

\* The caller sees the error; nothing was written.
ReturnError ==
    /\ work.phase = "error"
    /\ work' = Idle
    /\ UNCHANGED vars

LoopRevert(b) == work.phase = "idle" /\ Revert(b) /\ UNCHANGED work

LoopNext ==
    \/ \E b \in Blocks : Begin(b) \/ LoopRevert(b)
    \/ Iterate
    \/ Commit
    \/ ReturnError

LoopSpec == LoopInit /\ [][LoopNext]_loop_vars

\* With the snapshot operations, which nothing in the node calls, between the calls of
\* apply_block.
Snapshot == /\ work.phase = "idle" /\ UNCHANGED work
            /\ \E id \in SnapshotIds : CreateSnapshot(id) \/ RestoreSnapshot(id)
SnapshotSpec == LoopInit /\ [][LoopNext \/ Snapshot]_loop_vars

-------------------------------------------------------------------------------
\* Every behaviour of the loop is one of the store: what Commit writes is
\* what apply_block promises, and nothing else writes.
ImplementsStore == Spec

\* The loop gives up only on blocks that apply_ok excludes.
RejectsOnlyInvalid == work.phase = "error" => ~apply_ok(us, work.block)

-------------------------------------------------------------------------------
(* Blocks for TLC: a genesis allocation, coinbases of heights 1 and 2 (each *)
(* is tried at every height), and spends that chain, conflict and consume  *)
(* coinbases.                                                              *)
CONSTANTS
    MaxHeight,    \* bound on the heights of the blocks
    MaxBody       \* bound on the transactions in a block

Tx(id, inputs, outputs, lock_time) ==
    [id |-> id, inputs |-> inputs, outputs |-> outputs, lock_time |-> lock_time]

Genesis == Tx("g", {}, <<1, 1>>, 0)

Catalogue ==
    {Tx("c1", {}, <<1>>, 1), Tx("c2", {}, <<1>>, 2),
     Tx("split", {<<"g", 1>>}, <<1, 1>>, 0),
     Tx("join", {<<"split", 1>>, <<"g", 2>>}, <<1>>, 0),
     Tx("rival", {<<"g", 1>>}, <<1>>, 0),
     Tx("take", {<<"c1", 1>>}, <<1>>, 0)}

Bodies == UNION {[1..n -> Catalogue] : n \in 0..MaxBody}

MCBlocks ==
    {[hash |-> <<0>>, height |-> 0, txs |-> <<Genesis>>]} \cup
    {[hash |-> <<h>> \o [i \in DOMAIN s |-> s[i].id], height |-> h, txs |-> s] :
        h \in 1..MaxHeight, s \in Bodies}

===============================================================================
