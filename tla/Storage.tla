-------------------------------- MODULE Storage --------------------------------
(* The stores of qv-storage over one key-value map: kv.rs with its three       *)
(* backends, block_store.rs, utxo_store.rs, state_store.rs, and the Merkle     *)
(* roots of qv-core (block.rs, utxo.rs) and of the slot ticker.  The three     *)
(* stores share the map and are kept apart by the prefixes of their keys; an   *)
(* operation reads, prepares a batch and writes it; the process may end, or    *)
(* the backend refuse the write, before that.                                  *)
(*                                                                             *)
(* A key is a sequence of numbers in the order of its bytes; a number in a key *)
(* has two digits of base 2 in place of 4 or 8 of base 256.  A hash is a       *)
(* number given with what is hashed, and a node of a Merkle tree the pair of   *)
(* its children.  The transaction order within apply_block is UtxoApply's.     *)
EXTENDS Integers, Sequences, SequencesExt, FiniteSets, FiniteSetsExt, Functions, TLC

CONSTANTS Blocks,                       \* blocks offered: [header, txs]
          Coins, Hashes,                \* coins inserted or removed alone; tips
          Backends, Epochs, SnapshotIds, None,
          MaxWrites                     \* bound on writes

VARIABLES backend, kv,
          pending,      \* the prepared batch, with what it stands for
          model,        \* what the stores hold: the contract kv is to meet
          writes
vars == <<backend, kv, pending, model, writes>>

-------------------------------------------------------------------------------
(* Merkle roots: of the header's check, and of the block producer.             *)
sha3(l, r) == <<l, r>>
ZERO == <<>>
Halves(n) == 1..(n \div 2)
next_level(level) ==
    LET even == IF Len(level) % 2 = 1 THEN Append(level, Last(level)) ELSE level
    IN  [i \in Halves(Len(even)) |-> sha3(even[2 * i - 1], even[2 * i])]
\* The loop goes on until one node is left, at most once per leaf.
root_of(leaves) ==
    LET level[n \in 0..Len(leaves)] ==
            IF n = 0 THEN leaves
            ELSE IF Len(level[n - 1]) = 1 THEN level[n - 1] ELSE next_level(level[n - 1])
    IN  level[Len(leaves)][1]
merkle_root_of(ids) == IF ids = <<>> THEN ZERO ELSE root_of([i \in DOMAIN ids |-> <<ids[i]>>])

producer_next_level(level) ==
    LET left(i) == level[2 * i - 1]
        right(i) == IF 2 * i <= Len(level) THEN level[2 * i] ELSE level[2 * i - 1]
    IN  [i \in Halves(Len(level) + 1) |-> sha3(left(i), right(i))]
producer_root_of(leaves) ==
    LET level[n \in 0..Len(leaves)] ==
            IF n = 0 THEN leaves
            ELSE IF Len(level[n - 1]) = 1 THEN level[n - 1] ELSE producer_next_level(level[n - 1])
    IN  level[Len(leaves)][1]
producer_merkle_root_of(ids) ==
    IF ids = <<>> THEN ZERO ELSE producer_root_of([i \in DOMAIN ids |-> <<ids[i]>>])

Ids(b) == [i \in DOMAIN b.txs |-> b.txs[i].id]
hash(b) == b.header.hash
validate_structure_twice(b) == merkle_root_of(Ids(b)) = b.header.merkle_root
validate_structure(b) == /\ IsInjective(Ids(b))
                         /\ merkle_root_of(Ids(b)) = b.header.merkle_root

-------------------------------------------------------------------------------
(* The map.                                                                    *)
Put(k, v) == [put |-> TRUE, key |-> k, value |-> v]
Delete(k) == [put |-> FALSE, key |-> k, value |-> None]
BatchApply(m, o) == IF o.put THEN (o.key :> o.value) @@ m ELSE Restrict(m, DOMAIN m \ {o.key})
write_batch(m, ops) == FoldLeft(BatchApply, m, ops)
\* A single put or delete is a transaction of its own.
put(k, v) == <<Put(k, v)>>
delete(k) == <<Delete(k)>>

get(k) == IF k \in DOMAIN kv THEN kv[k] ELSE None

\* The elements of a set in ascending order, each at the place of those below it.
Sorted(S, Below(_, _)) ==
    [i \in 1..Cardinality(S) |-> CHOOSE x \in S : Cardinality({y \in S : Below(y, x)}) = i - 1]
Less(a, b) == \E i \in DOMAIN b : /\ i <= Len(a) => a[i] < b[i]
                                  /\ \A j \in 1..(i - 1) : j <= Len(a) /\ a[j] = b[j]
\* The keys from the prefix on, in byte order, up to the first without it.
scan_prefix(prefix) ==
    LET keys == Sorted({k \in DOMAIN kv : ~Less(k, prefix)}, Less)
        last == {i \in DOMAIN keys : \A j \in 1..i : IsPrefix(prefix, keys[j])}
    IN  SubSeq(keys, 1, Cardinality(last))

-------------------------------------------------------------------------------
(* Keys, the prefixes in alphabetical order.                                   *)
BLOCK_BY_HASH_PREFIX == <<1, 1>>
BLOCK_HASH_BY_HEIGHT_PREFIX == <<1, 2>>
CHAIN_ENTRY_PREFIX == <<2, 1>>
CHAIN_TIP_KEY == <<2, 2>>
EPOCH_SNAPSHOT_PREFIX == <<2, 3>>
LEDGER_STATE_KEY == <<2, 4>>
UTXO_COINBASE_HEIGHT_PREFIX == <<3, 1>>
UTXO_ENTRY_PREFIX == <<3, 2>>
UTXO_SNAPSHOT_PREFIX == <<3, 3>>
UTXO_UNDO_PREFIX == <<3, 4>>

to_be_bytes(n) == <<n \div 2, n % 2>>
to_le_bytes(n) == <<n % 2, n \div 2>>
canonical_bytes(op) == <<op[1]>> \o to_le_bytes(op[2])

key_block(h) == BLOCK_BY_HASH_PREFIX \o <<h>>
key_height(n) == BLOCK_HASH_BY_HEIGHT_PREFIX \o to_be_bytes(n)
key_chain_entry(h) == CHAIN_ENTRY_PREFIX \o <<h>>
key_epoch_snapshot(e) == EPOCH_SNAPSHOT_PREFIX \o to_be_bytes(e)
epoch_from_snapshot_key(k) == IF Len(k) = 4 THEN 2 * k[3] + k[4] ELSE None
key_outpoint(op) == UTXO_ENTRY_PREFIX \o canonical_bytes(op)
outpoint_from_key(k) == IF Len(k) = 5 THEN <<k[3], k[4] + 2 * k[5]>> ELSE None
key_undo(h) == UTXO_UNDO_PREFIX \o <<h>>
key_coinbase_height(op) == UTXO_COINBASE_HEIGHT_PREFIX \o canonical_bytes(op)
key_snapshot(id) == UTXO_SNAPSHOT_PREFIX \o id

-------------------------------------------------------------------------------
(* Reading.                                                                    *)
get_block(h) == get(key_block(h))
get_hash_by_height(n) == get(key_height(n))
get_block_by_height(n) == LET h == get_hash_by_height(n) IN IF h = None THEN None ELSE get_block(h)

entries == LET keys == scan_prefix(UTXO_ENTRY_PREFIX)
           IN  [i \in DOMAIN keys |-> <<outpoint_from_key(keys[i]), kv[keys[i]]>>]

OutPointLess(a, b) == a[1] < b[1] \/ (a[1] = b[1] /\ a[2] < b[2])
EntryLess(a, b) == OutPointLess(a[1], b[1])
commitment_root_of_sorted_entries(s) == merkle_root_of(s)
commitment_root == commitment_root_of_sorted_entries(Sorted(Range(entries), EntryLess))

latest_epoch_snapshot ==
    LET keys == Range(scan_prefix(EPOCH_SNAPSHOT_PREFIX))
    IN  IF keys = {} THEN None
        ELSE kv[CHOOSE k \in keys : \A l \in keys :
                    epoch_from_snapshot_key(l) <= epoch_from_snapshot_key(k)]

-------------------------------------------------------------------------------
(* Writing.  An operation that returns an error changes nothing.               *)
Empty == [blocks |-> {}, heights |-> <<>>, utxo |-> <<>>, coinbase |-> <<>>, undo |-> <<>>,
          snapshots |-> <<>>, chain |-> {}, tip |-> None, ledger |-> None, epochs |-> <<>>]
idle == [batch |-> <<>>, after |-> Empty]

Init == /\ backend \in Backends /\ kv = <<>> /\ pending = idle /\ model = Empty /\ writes = 0

Prepare(batch, after) == /\ pending = idle /\ writes < MaxWrites
                         /\ pending' = [batch |-> batch, after |-> after]
                         /\ UNCHANGED <<backend, kv, model, writes>>
With(f, k, v) == (k :> v) @@ f
Without(f, keys) == Restrict(f, DOMAIN f \ keys)

put_block(b) ==
    /\ validate_structure(b)
    /\ get_block(hash(b)) = None /\ get_hash_by_height(b.header.height) = None
    /\ Prepare(<<Put(key_block(hash(b)), b), Put(key_height(b.header.height), hash(b))>>,
               [model EXCEPT !.blocks = @ \cup {b},
                             !.heights = With(@, b.header.height, hash(b))])

insert(op, out) ==
    /\ get(key_outpoint(op)) = None
    /\ Prepare(put(key_outpoint(op), out), [model EXCEPT !.utxo = With(@, op, out)])
remove(op) ==
    /\ get(key_outpoint(op)) # None
    /\ Prepare(delete(key_outpoint(op)), [model EXCEPT !.utxo = Without(@, {op})])

Consumed(b) == UNION {b.txs[i].inputs : i \in DOMAIN b.txs}
OutsOf(tx) == {<<tx.id, i - 1>> : i \in DOMAIN tx.outputs}
Created(b) == UNION {OutsOf(b.txs[i]) : i \in DOMAIN b.txs}
OutputAt(b, op) == LET i == CHOOSE j \in DOMAIN b.txs : b.txs[j].id = op[1]
                   IN  b.txs[i].outputs[op[2] + 1]
CoinbaseOuts(b) == IF b.txs[1].inputs = {} /\ b.header.height > 0 THEN OutsOf(b.txs[1]) ELSE {}
Each(Op(_), S) == LET s == SetToSeq(S) IN [i \in DOMAIN s |-> Op(s[i])]

apply_block(b) ==
    LET spent == Consumed(b) \ Created(b)
        new == Created(b) \ Consumed(b)
        recorded == {op \in spent : get(key_coinbase_height(op)) # None}
        minted == CoinbaseOuts(b) \cap new
        undo == [spent |-> [op \in spent |-> get(key_outpoint(op))],
                 heights |-> [op \in recorded |-> get(key_coinbase_height(op))]]
    IN  /\ validate_structure(b)
        /\ \A op \in spent : get(key_outpoint(op)) # None
        /\ \A op \in Created(b) : get(key_outpoint(op)) = None
        /\ Prepare(Each(LAMBDA op : Delete(key_outpoint(op)), spent)
                   \o Each(LAMBDA op : Delete(key_coinbase_height(op)), recorded)
                   \o Each(LAMBDA op : Put(key_outpoint(op), OutputAt(b, op)), new)
                   \o Each(LAMBDA op : Put(key_coinbase_height(op), b.header.height), minted)
                   \o <<Put(key_undo(hash(b)), undo)>>,
                   [model EXCEPT
                      !.utxo = [op \in new |-> OutputAt(b, op)] @@ Without(@, spent),
                      !.coinbase = [op \in minted |-> b.header.height] @@ Without(@, spent),
                      !.undo = With(@, hash(b), undo)])

revert_block(b) ==
    LET undo == get(key_undo(hash(b)))
    IN  /\ undo # None
        /\ Prepare(Each(LAMBDA op : Delete(key_outpoint(op)), Created(b))
                   \o Each(LAMBDA op : Delete(key_coinbase_height(op)), CoinbaseOuts(b))
                   \o Each(LAMBDA op : Put(key_outpoint(op), undo.spent[op]), DOMAIN undo.spent)
                   \o Each(LAMBDA op : Put(key_coinbase_height(op), undo.heights[op]), DOMAIN undo.heights)
                   \o <<Delete(key_undo(hash(b)))>>,
                   [model EXCEPT !.utxo = undo.spent @@ Without(@, Created(b)),
                                 !.coinbase = undo.heights @@ Without(@, CoinbaseOuts(b)),
                                 !.undo = Without(@, {hash(b)})])

create_snapshot(id) ==
    /\ id # <<>> /\ get(key_snapshot(id)) = None
    /\ Prepare(put(key_snapshot(id), entries), [model EXCEPT !.snapshots = With(@, id, model.utxo)])
restore_snapshot(id) ==
    LET saved == get(key_snapshot(id))
    IN  /\ id # <<>> /\ saved # None
        /\ Prepare(Each(Delete, Range(scan_prefix(UTXO_ENTRY_PREFIX)))
                   \o [i \in DOMAIN saved |-> Put(key_outpoint(saved[i][1]), saved[i][2])],
                   [model EXCEPT !.utxo = model.snapshots[id]])

put_chain_entry(h) ==
    Prepare(put(key_chain_entry(h), h), [model EXCEPT !.chain = @ \cup {h}])
set_tip_hash(h) == Prepare(put(CHAIN_TIP_KEY, h), [model EXCEPT !.tip = h])
put_ledger_state(n) == Prepare(put(LEDGER_STATE_KEY, n), [model EXCEPT !.ledger = n])
put_epoch_snapshot(e, h) ==
    Prepare(put(key_epoch_snapshot(e), [epoch |-> e, tip_hash |-> h]),
            [model EXCEPT !.epochs = With(@, e, h)])

\* One transaction of the backend: all of the batch or, on an error, none.
Commit == /\ pending # idle
          /\ kv' = write_batch(kv, pending.batch) /\ model' = pending.after
          /\ pending' = idle /\ writes' = writes + 1
          /\ UNCHANGED backend
BackendError == /\ pending # idle /\ pending' = idle
                /\ UNCHANGED <<backend, kv, model, writes>>

\* The process ends and opens the store again: memory is empty, a file is as it was.
Restart == /\ pending' = idle
           /\ IF backend = "memory" THEN kv' = <<>> /\ model' = Empty ELSE UNCHANGED <<kv, model>>
           /\ UNCHANGED <<backend, writes>>

BlockOps == \E b \in Blocks : put_block(b) \/ apply_block(b) \/ revert_block(b)
UtxoOps == \/ \E op \in Coins : insert(op, 1) \/ remove(op)
           \/ \E id \in SnapshotIds : create_snapshot(id) \/ restore_snapshot(id)
StateOps == \/ \E h \in Hashes : put_chain_entry(h) \/ set_tip_hash(h)
            \/ put_ledger_state(writes)
            \/ \E e \in Epochs, h \in Hashes : put_epoch_snapshot(e, h)
Next == BlockOps \/ UtxoOps \/ StateOps \/ Commit \/ BackendError \/ Restart
Spec == Init /\ [][Next]_vars

-------------------------------------------------------------------------------
Of(f, k) == IF k \in DOMAIN f THEN f[k] ELSE None
Held(h) == {b \in model.blocks : hash(b) = h}

\* Blocks are read back by hash and by height as they were put, and a header commits to
\* one body: a block with its last transaction repeated, which has the same root, is not
\* stored in its place (put_block, validate_structure, merkle_root_of).
BlocksExact ==
    /\ \A b \in Blocks :
        /\ get_block(hash(b)) = (IF Held(hash(b)) = {} THEN None ELSE CHOOSE c \in Held(hash(b)) : TRUE)
        /\ get_hash_by_height(b.header.height) = Of(model.heights, b.header.height)
        /\ get_block_by_height(b.header.height) # None => hash(get_block_by_height(b.header.height))
                                                            = model.heights[b.header.height]
    /\ \A b \in model.blocks, c \in Blocks :
        producer_merkle_root_of(Ids(c)) = b.header.merkle_root /\ IsInjective(Ids(c)) => Ids(b) = Ids(c)

\* The coins that a scan lists are those the operations leave, whatever else is in the
\* map; their commitment is that of the coins in outpoint order, which is not the order
\* of the keys; heights and undo logs are with their coins (entries, commitment_root,
\* apply_block, revert_block, restore_snapshot).
CoinsExact ==
    LET coins == {<<op, model.utxo[op]>> : op \in DOMAIN model.utxo}
    IN  /\ \A i \in DOMAIN entries : entries[i][1] # None
        /\ Range(entries) = coins /\ Len(entries) = Cardinality(coins)
        /\ commitment_root = commitment_root_of_sorted_entries(Sorted(coins, EntryLess))
        /\ \A op \in UNION {Created(b) : b \in Blocks} : get(key_coinbase_height(op)) = Of(model.coinbase, op)
        /\ \A b \in Blocks : get(key_undo(hash(b))) = Of(model.undo, hash(b))

\* The chain entries, tip, ledger and latest epoch snapshot are those last written
\* (put_chain_entry, set_tip_hash, put_ledger_state, latest_epoch_snapshot).
StateExact ==
    /\ \A h \in Hashes : (get(key_chain_entry(h)) # None) <=> h \in model.chain
    /\ get(CHAIN_TIP_KEY) = model.tip /\ get(LEDGER_STATE_KEY) = model.ledger
    /\ IF model.epochs = <<>> THEN latest_epoch_snapshot = None
       ELSE LET e == Max(DOMAIN model.epochs)
            IN  latest_epoch_snapshot = [epoch |-> e, tip_hash |-> model.epochs[e]]

StoreExact == BlocksExact /\ CoinsExact /\ StateExact
================================================================================
