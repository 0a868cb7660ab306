------------------------------ MODULE UtxoStore ------------------------------
(***************************************************************************)
(* The persistent UTXO set of crates/qv-storage/src/utxo_store.rs at work: *)
(* block connect and disconnect with undo logs, coinbase creation heights, *)
(* and snapshots, by the operators of UtxoSet.  The specification is the   *)
(* store as the node drives it: a block is applied at the height after the *)
(* last one (Node::new for genesis, then Node::handle_block), and the only *)
(* block ever reverted is the one applied last.                            *)
(***************************************************************************)
EXTENDS UtxoSet

CONSTANTS
    Blocks,        \* the blocks that may reach the store
    SnapshotIds    \* ids under which snapshots are taken

\* What the hash functions provide, and Transaction::genesis's lock_time of 0.
AllTxs == UNION {{b.txs[i] : i \in DOMAIN b.txs} : b \in Blocks}

ASSUME HashAssumption ==
    /\ \A b, c \in Blocks : b.hash = c.hash => b = c
    /\ \A t, u \in AllTxs : t.id = u.id => t = u
ASSUME BlocksAssumption ==
    \A b \in Blocks :
        /\ b.height \in Nat
        /\ b.txs \in Seq(AllTxs)
        /\ b.height = 0 => \A i \in DOMAIN b.txs : b.txs[i].lock_time = 0

-------------------------------------------------------------------------------
VARIABLES
    us,        \* the UTXO store
    applied    \* the blocks applied and not reverted, in order

vars == <<us, applied>>

Init == us = EmptyStore /\ applied = <<>>

Apply(b) ==
    /\ b.height = Len(applied)
    /\ apply_ok(us, b)
    /\ us' = apply_block(us, b)
    /\ applied' = Append(applied, b)

Revert(b) ==
    /\ Len(applied) > 1
    /\ b = applied[Len(applied)]
    /\ b.hash \in DOMAIN us.undo
    /\ us' = revert_block(us, b)
    /\ applied' = SubSeq(applied, 1, Len(applied) - 1)

CreateSnapshot(id) ==
    /\ id \notin DOMAIN us.snapshots
    /\ us' = create_snapshot(us, id)
    /\ UNCHANGED applied

\* restore_snapshot and its alias rollback_to_snapshot.
RestoreSnapshot(id) ==
    /\ id \in DOMAIN us.snapshots
    /\ us' = restore_snapshot(us, id)
    /\ UNCHANGED applied

\* A call that fails returns before its batch is written: no step.
Next == \E b \in Blocks : Apply(b) \/ Revert(b)

Spec == Init /\ [][Next]_vars

-------------------------------------------------------------------------------
\* The store is well typed, and there is an undo log for exactly the applied
\* blocks.
TypeOK ==
    /\ applied \in Seq(Blocks)
    /\ DOMAIN us.undo = {applied[n].hash : n \in DOMAIN applied}
    /\ DOMAIN us.cbh \subseteq us.entries

\* The entries are exactly the outputs of the applied chain that it has not
\* consumed, whatever was applied and reverted on the way.
UtxoIsFold == FoldOf(us, applied)

\* One creation-height record per live coinbase output, with the height of
\* the block that created it, across spends and reverts.
CoinbaseRecordsLive == RecordsOf(us, applied)

\* What the doc of the creation-height records says of a live coinbase
\* output: it has one.
LiveCoinbaseRecorded == coinbases(applied) \cap us.entries \subseteq DOMAIN us.cbh

\* No transaction takes effect twice on one chain.  The store checks a new
\* output against live entries only: that a spent one is never created again
\* follows from the height in the coinbase, through every descendant.
NoTxTwice ==
    \A n, m \in DOMAIN applied :
        \A i \in DOMAIN applied[n].txs, j \in DOMAIN applied[m].txs :
            applied[n].txs[i].id = applied[m].txs[j].id => n = m /\ i = j

\* No output is consumed twice on one chain.
NoDoubleSpend ==
    \A n, m \in DOMAIN applied :
        \A i \in DOMAIN applied[n].txs, j \in DOMAIN applied[m].txs :
            applied[n].txs[i].inputs \cap applied[m].txs[j].inputs # {} => n = m /\ i = j

===============================================================================
