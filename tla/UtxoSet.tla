------------------------------- MODULE UtxoSet -------------------------------
(***************************************************************************)
(* Transactions and blocks of crates/qv-core as far as the ledger looks at *)
(* them, and the persistent UTXO set of crates/qv-storage, utxo_store.rs:  *)
(* a store is a record us and its methods are operators on it, each of     *)
(* which writes one atomic KV batch.                                       *)
(*                                                                         *)
(* A transaction is [id, inputs, outputs, lock_time]: inputs is the set of *)
(* outpoints it spends (a repeated input is a structural error, so a       *)
(* well-formed transaction has a set of them), outputs the sequence of its *)
(* output values.  The id is a hash of the content: equal ids mean equal   *)
(* transactions.  An outpoint is <<id, index>>, and determines its output, *)
(* so the entries of a store are a set of outpoints.  A block is           *)
(* [hash, height, txs] plus the header fields that other modules add.      *)
(***************************************************************************)
EXTENDS Naturals, Sequences

\* The outpoints that a transaction creates.
outs(tx) == {<<tx.id, i>> : i \in DOMAIN tx.outputs}

\* Everything that a block consumes, and everything it creates.
block_inputs(b) == UNION {b.txs[i].inputs : i \in DOMAIN b.txs}
block_outputs(b) == UNION {outs(b.txs[i]) : i \in DOMAIN b.txs}

\* A no-input transaction is a genesis allocation in block 0; elsewhere it is
\* the coinbase, must come first, and commits to the height in its lock_time.
no_input_rule(b, i) ==
    \/ b.txs[i].inputs # {}
    \/ b.height = 0
    \/ i = 1 /\ b.txs[i].lock_time = b.height

\* Block::validate_structure.  The merkle root is not modelled: a block
\* value's header always commits to its own transactions.
validate_structure(b) ==
    /\ \A i \in DOMAIN b.txs : b.txs[i].outputs # <<>> /\ no_input_rule(b, i)
    /\ \A i, j \in DOMAIN b.txs : b.txs[i].id = b.txs[j].id => i = j

\* The outputs that get a creation-height record: those of a no-input
\* transaction at position 0 (here 1) of a block above genesis.
coinbase_outputs(b) ==
    UNION {outs(b.txs[i]) : i \in {j \in DOMAIN b.txs :
                                     j = 1 /\ b.height > 0 /\ b.txs[j].inputs = {}}}

-------------------------------------------------------------------------------
(* The store and its methods.                                              *)

EmptyStore ==
    [entries |-> {}, undo |-> [h \in {} |-> {}], cbh |-> [o \in {} |-> 0],
     snapshots |-> [s \in {} |-> {}]]

\* g on its domain, f elsewhere.
Override(f, g) ==
    [x \in DOMAIN f \cup DOMAIN g |-> IF x \in DOMAIN g THEN g[x] ELSE f[x]]

\* f without the keys in S.
Without(f, S) == [x \in DOMAIN f \ S |-> f[x]]

\* apply_block succeeds: consume_inputs finds each input unspent in the store
\* or among the outputs of an earlier transaction of the block, no two
\* transactions consume the same output, and produce_outputs creates nothing
\* that is already there.  (UtxoApply has the loop this summarises.)
apply_ok(us, b) ==
    /\ validate_structure(b)
    /\ \A i \in DOMAIN b.txs : \A o \in b.txs[i].inputs :
          \/ o \in us.entries
          \/ \E j \in 1..(i - 1) : o \in outs(b.txs[j])
    /\ \A i, j \in DOMAIN b.txs : i # j => b.txs[i].inputs \cap b.txs[j].inputs = {}
    /\ block_outputs(b) \cap us.entries = {}

\* The batch of apply_block: delete what was spent and its creation heights,
\* put what survives the block, remember the deletions in the undo log.
apply_block(us, b) ==
    LET spent == block_inputs(b) \cap us.entries
        staged_new == block_outputs(b) \ block_inputs(b)
        spent_heights == spent \cap DOMAIN us.cbh
        coinbase == coinbase_outputs(b) \cap staged_new
    IN  [us EXCEPT
            !.entries = (@ \ spent) \cup staged_new,
            !.cbh = Override(Without(@, spent_heights), [o \in coinbase |-> b.height]),
            !.undo = Override(@, [h \in {b.hash} |->
                        [spent |-> spent, heights |-> [o \in spent_heights |-> us.cbh[o]]]])]

\* Faulty: the outputs of the block stay, only what it spent comes back.
revert_block_keeps_outputs(us, b) ==
    LET undo == us.undo[b.hash]
    IN  [us EXCEPT
            !.entries = @ \cup undo.spent,
            !.cbh = Override(Without(@, coinbase_outputs(b)), undo.heights),
            !.undo = Without(@, {b.hash})]

\* The batch of revert_block: delete every output of the block, put back what
\* it spent with its creation heights, drop the undo log.
revert_block(us, b) ==
    LET undo == us.undo[b.hash]
    IN  [us EXCEPT
            !.entries = (@ \ block_outputs(b)) \cup undo.spent,
            !.cbh = Override(Without(@, coinbase_outputs(b)), undo.heights),
            !.undo = Without(@, {b.hash})]

create_snapshot(us, id) ==
    [us EXCEPT !.snapshots = Override(@, [s \in {id} |-> us.entries])]

\* Only the entries are replaced.
restore_snapshot(us, id) == [us EXCEPT !.entries = us.snapshots[id]]

-------------------------------------------------------------------------------
\* What the blocks of a chain created and consumed, and its coinbase outputs.
created(s) == UNION {block_outputs(s[n]) : n \in DOMAIN s}
consumed(s) == UNION {block_inputs(s[n]) : n \in DOMAIN s}
coinbases(s) == UNION {coinbase_outputs(s[n]) : n \in DOMAIN s}

\* The entries are exactly the outputs of chain s that it has not consumed.
FoldOf(us, s) == us.entries = created(s) \ consumed(s)

\* One creation-height record per live coinbase output of s, with the height
\* of the block that created it.
RecordsOf(us, s) ==
    /\ DOMAIN us.cbh = us.entries \cap coinbases(s)
    /\ \A n \in DOMAIN s : \A o \in coinbase_outputs(s[n]) \cap us.entries :
          us.cbh[o] = s[n].height

===============================================================================
