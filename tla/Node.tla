-------------------------------- MODULE Node --------------------------------
(***************************************************************************)
(* One node of crates/qv-node: the main event loop (node.rs), the slot     *)
(* ticker that produces blocks (slot_ticker.rs), and the two entrances for *)
(* blocks and transactions, gossip (network_handler.rs) and RPC (rpc.rs).  *)
(* The loop, the ticker and the RPC handlers are concurrent tasks over     *)
(* four shared structures: the UTXO store, the chain state, the block      *)
(* store and the clear mempool.  A task may be interrupted wherever it     *)
(* gives up a lock, so each stretch between two such points is an action.  *)
(*                                                                         *)
(* A block is [prev_hash, height, slot_ok, txs, utxo_commitment]; slot_ok  *)
(* says that its slot is after its parent's, and the commitment to a UTXO  *)
(* set is the set itself.  Hashes are numbers; nothing remembers a block   *)
(* that was rejected, so a block gets a new one when it is applied.        *)
(***************************************************************************)
EXTENDS UtxoSet, Integers, FiniteSets, Functions

CONSTANTS
    total_supply, initial_block_reward, halving_interval_blocks,   \* MonetaryParams
    GenesisTx,                \* the allocation in the genesis block
    PoolTxs,                  \* transactions that users send
    GossipTxs, RpcTxs,        \* those of them that arrive by gossip, by RPC
    PeerBlocks(_),            \* what peers propose, by height: pairs of a body and what
                              \* is wrong with the header
    Coinbases,                \* every coinbase that can occur
    MaxHeight,                \* bound on the heights of blocks
    MaxReward,                \* bound on the rewards that the ticker claims
    event_capacity,           \* of the event channel
    batch_size,               \* get_batch(100)
    k_finality,               \* also the coinbase maturity
    min_fee_rate,             \* config.mempool.min_fee_rate
    U64Max,                   \* u64::MAX
    enforce_utxo_commitment,
    coinbase_enabled,         \* a reward address is configured
    ticker_slot_ok            \* the values slot_ok may have in the ticker's own blocks

\* MonetaryParams::validate.
ASSUME MonetaryAssumption ==
    /\ total_supply \in Nat \ {0}
    /\ initial_block_reward \in 0..total_supply
    /\ halving_interval_blocks \in Nat \ {0}

-------------------------------------------------------------------------------
(* The emission schedule (crates/qv-consensus/src/rewards.rs).             *)
Least(a, b) == IF a < b THEN a ELSE b

\* initial_reward >> k.
rate[k \in Nat] == IF k = 0 THEN initial_block_reward ELSE rate[k - 1] \div 2

\* The reward is halved every interval.
block_subsidy(height) == rate[height \div halving_interval_blocks]

\* The loop over the halving periods of the blocks 0..height.
cumulative_emission(height) ==
    LET periods == 0..(height \div halving_interval_blocks)
        remaining(p) == (height + 1) - p * halving_interval_blocks
        blocks_at_this_rate(p) == Least(remaining(p), halving_interval_blocks)
    IN  Least(SumFunction([p \in periods |-> blocks_at_this_rate(p) * rate[p]]), total_supply)

\* Subsidy, cut to what the supply has left after the earlier heights, plus
\* the fees.
total_block_reward(height, fees) ==
    LET prev_emission == IF height = 0 THEN 0 ELSE cumulative_emission(height - 1)
    IN  Least(block_subsidy(height), total_supply - prev_emission) + fees

-------------------------------------------------------------------------------
VARIABLES
    us,            \* utxo_store: a UtxoStore record
    chain,         \* chain_state: a ChainState record
    block_store,   \* the stored blocks, a set
    pool,          \* clear_pool: a ClearPool record
    events,        \* the event channel, a sequence
    loop,          \* where the main loop is
    ticker,        \* where the slot ticker is
    vetted         \* auxiliary: ids that entered the pool through gossip

stores == <<us, chain, block_store>>
vars == <<us, chain, block_store, pool, events, loop, ticker, vetted>>

\* The blocks of the main chain, as a sequence from genesis on.
stored ==
    [n \in 1..Cardinality(block_store) |-> CHOOSE b \in block_store : b.height = n - 1]

CS == INSTANCE ChainState WITH
        Nodes <- {}, Hashes <- {}, Producers <- {}, MaxSlot <- MaxHeight, produced <- {}
CP == INSTANCE ClearPool WITH
        max_tx_count <- Cardinality(PoolTxs) + 1, max_pool_bytes <- Cardinality(PoolTxs) + 1,
        min_fee <- 0, max_age_secs <- 1,
        Txs <- {}, Fees <- {}, Outpoints <- {}, MaxTime <- 0, now <- 0

AllTxs == {GenesisTx} \cup PoolTxs \cup Coinbases

\* Ids are hashes of the contents.  Node::new accepted the allocation, which
\* has no inputs and lock_time 0 (Transaction::genesis); Transaction::new_coinbase
\* has no inputs either.  Output values are unsigned.
ASSUME TransactionsAssumption ==
    /\ \A t, u \in AllTxs : t.id = u.id => t = u
    /\ \A t \in AllTxs : t.id \in Nat /\ IsFiniteSet(t.inputs) /\ t.outputs \in Seq(Nat)
    /\ GenesisTx.inputs = {} /\ GenesisTx.lock_time = 0 /\ GenesisTx.outputs # <<>>
    /\ IsFiniteSet(PoolTxs) /\ GossipTxs \cup RpcTxs \subseteq PoolTxs
    /\ \A t \in Coinbases : t.inputs = {}
    /\ \A h \in 1..MaxHeight, r \in 1..MaxReward :
          \E t \in Coinbases : t.lock_time = h /\ t.outputs = <<r>>
    /\ \A h \in 1..MaxHeight : \A pb \in PeerBlocks(h) : pb[1] \in Seq(AllTxs)
ASSUME BoundsAssumption ==
    /\ {MaxHeight, MaxReward, U64Max, k_finality, event_capacity, batch_size} \subseteq Nat
    /\ ticker_slot_ok \subseteq BOOLEAN

\* An outpoint determines its output.
tx_of(id) == CHOOSE t \in AllTxs : t.id = id
value(o) == tx_of(o[1]).outputs[o[2]]
values(S) == SumFunction([o \in S |-> value(o)])
fee(tx) == values(tx.inputs) - values(outs(tx))

\* Transaction::new_coinbase with one output.
new_coinbase(height, reward) ==
    CHOOSE t \in Coinbases : t.lock_time = height /\ t.outputs = <<reward>>

\* The genesis block has a hash of its own; the chain state calls it ZERO.
GenesisBlock ==
    [hash |-> 1, prev_hash |-> CS!ZERO, height |-> 0, slot_ok |-> TRUE,
     txs |-> <<GenesisTx>>, utxo_commitment |-> {}]

tip_height == CS!tip_height(chain)

-------------------------------------------------------------------------------
(* Block production: speculation against a snapshot of the UTXO set.       *)

\* speculative_apply succeeds on the transactions, in their order.
speculative_ok(entries, txs) ==
    \A i \in DOMAIN txs :
        LET before == UNION {txs[j].inputs : j \in 1..(i - 1)}
            made   == UNION {outs(txs[j]) : j \in 1..(i - 1)}
        IN  /\ txs[i].inputs \subseteq (entries \cup made) \ before
            /\ outs(txs[i]) \cap ((entries \ before) \cup made) = {}
            /\ txs[i].inputs # {} => fee(txs[i]) >= 0

\* Its total_fees and the set it leaves.
total_fees(txs) ==
    SumFunction([i \in {j \in DOMAIN txs : txs[j].inputs # {}} |-> fee(txs[i])])
speculative_set(entries, txs) ==
    (entries \cup UNION {outs(txs[i]) : i \in DOMAIN txs})
        \ UNION {txs[i].inputs : i \in DOMAIN txs}

-------------------------------------------------------------------------------
(* Validation.                                                             *)

\* Faulty: a coinbase output can be spent one block early.
matured_early(store, o, height) ==
    o \in DOMAIN store.cbh => height + 1 >= store.cbh[o] + k_finality

\* The output is no coinbase output, or is k blocks deep at the height.
matured(store, o, height) ==
    o \in DOMAIN store.cbh => height >= store.cbh[o] + k_finality

\* check_coinbase_maturity, for the next block.
check_coinbase_maturity(tx) == \A o \in tx.inputs : matured(us, o, tip_height + 1)

\* Transaction::validate_structure (its inputs are a set already).
tx_structure_ok(tx) == tx.inputs # {} /\ tx.outputs # <<>>

\* validate_transaction: inputs live, enough fee, scripts pass.
validate_transaction(tx) ==
    /\ tx_structure_ok(tx)
    /\ tx.inputs \subseteq us.entries
    /\ fee(tx) >= min_fee_rate
    /\ tx.script_ok

\* Faulty: the coinbase may claim anything.
validate_block_rewards_uncapped(b) ==
    \A i \in DOMAIN b.txs : b.txs[i].inputs # {} =>
        /\ \A o \in b.txs[i].inputs :
              \/ o \in (UNION {outs(b.txs[j]) : j \in 1..(i - 1)}) \ coinbase_outputs(b)
              \/ o \in us.entries /\ matured(us, o, b.height)
        /\ fee(b.txs[i]) >= 0

\* validate_block_rewards: inputs found, mature and worth the outputs; the
\* coinbase claims at most subsidy and fees.
validate_block_rewards(b) ==
    /\ \A i \in DOMAIN b.txs : b.txs[i].inputs # {} =>
         /\ \A o \in b.txs[i].inputs :
               \/ o \in (UNION {outs(b.txs[j]) : j \in 1..(i - 1)}) \ coinbase_outputs(b)
               \/ o \in us.entries /\ matured(us, o, b.height)
         /\ fee(b.txs[i]) >= 0
    /\ values(coinbase_outputs(b)) <= total_block_reward(b.height, total_fees(b.txs))

\* validate_chain_linkage: only the child of the current tip passes.
validate_chain_linkage(b) ==
    /\ b.prev_hash = chain.tip
    /\ b.slot_ok
    /\ b.height = tip_height + 1

\* What handle_block checks before it touches anything.
acceptable(b) ==
    /\ validate_structure(b)
    /\ validate_chain_linkage(b)
    /\ validate_block_rewards(b)
    /\ apply_ok(us, b)

-------------------------------------------------------------------------------
Waiting == [pc |-> "wait"]
Receiving == [pc |-> "recv"]

\* Node::new: genesis goes into both stores, the chain state starts at it.
Init ==
    /\ us = apply_block(EmptyStore, GenesisBlock)
    /\ block_store = {GenesisBlock}
    /\ chain = CS!genesis
    /\ pool = CP!EmptyPool
    /\ events = <<>>
    /\ loop = Receiving
    /\ ticker = Waiting
    /\ vetted = {}

\* event_tx.send: waits for room.
Send(e) ==
    /\ Len(events) < event_capacity
    /\ events' = Append(events, e)

BlockEvent(b) == [kind |-> "BlockReceived", block |-> b]
TxEvent(t) == [kind |-> "TxReceived", tx |-> t]

\* A block that some peer or external miner built on what this node has now,
\* correct or with one header field off.
PeerBlock(body, defect) ==
    [prev_hash |-> IF defect = "prev" THEN CS!GenesisEntry.hash ELSE chain.tip,
     height |-> IF defect = "height" THEN tip_height ELSE tip_height + 1,
     slot_ok |-> defect # "slot",
     txs |-> body,
     utxo_commitment |-> IF defect = "commitment" THEN {}
                         ELSE speculative_set(us.entries, body)]

\* NetworkHandler::handle_message forwards what gossip delivers.
ReceiveBlock(body, defect) ==
    /\ tip_height < MaxHeight
    /\ Send(BlockEvent(PeerBlock(body, defect)))
    /\ UNCHANGED <<stores, pool, loop, ticker, vetted>>

ReceiveTx(t) ==
    /\ Send(TxEvent(t))
    /\ UNCHANGED <<stores, pool, loop, ticker, vetted>>

\* qv_submitBlock checks the structure first.
SubmitBlock(body, defect) ==
    /\ tip_height < MaxHeight
    /\ LET b == PeerBlock(body, defect)
       IN  validate_structure(b) /\ Send(BlockEvent(b))
    /\ UNCHANGED <<stores, pool, loop, ticker, vetted>>

Entry(t, stated_fee) ==
    [tx_id |-> t.id, inputs |-> t.inputs, size |-> 1, fee |-> stated_fee, added_at |-> 0]

\* qv_sendTransaction: structure only, and the fee is recorded as 0.
SendTransaction(t) ==
    /\ tx_structure_ok(t)
    /\ pool' = CP!add(pool, Entry(t, 0), 0)
    /\ vetted' = vetted \cap DOMAIN pool'.by_id
    /\ UNCHANGED <<stores, events, loop, ticker>>

-------------------------------------------------------------------------------
(* The main loop.                                                          *)

\* TxReceived: maturity, validation, insertion.
HandleTx ==
    /\ loop.pc = "recv"
    /\ events # <<>>
    /\ Head(events).kind = "TxReceived"
    /\ LET tx == Head(events).tx
           after == CP!add(pool, Entry(tx, fee(tx)), 0)
       IN  IF check_coinbase_maturity(tx) /\ validate_transaction(tx)
           THEN /\ pool' = after
                /\ vetted' = (vetted \cap DOMAIN after.by_id)
                               \cup (DOMAIN after.by_id \ DOMAIN pool.by_id)
           ELSE UNCHANGED <<pool, vetted>>
    /\ events' = Tail(events)
    /\ UNCHANGED <<stores, loop, ticker>>

\* Block::hash: a value of its own for every block that is or was stored.
hashed(b) ==
    [hash |-> Cardinality(block_store) + 1, prev_hash |-> b.prev_hash, height |-> b.height,
     slot_ok |-> b.slot_ok, txs |-> b.txs, utxo_commitment |-> b.utxo_commitment]

\* BlockReceived, handle_block up to the end of apply_block.
RejectBlock ==
    /\ loop.pc = "recv"
    /\ events # <<>>
    /\ Head(events).kind = "BlockReceived"
    /\ ~acceptable(Head(events).block)
    /\ events' = Tail(events)
    /\ UNCHANGED <<stores, pool, loop, ticker, vetted>>

ApplyBlock ==
    /\ loop.pc = "recv"
    /\ events # <<>>
    /\ Head(events).kind = "BlockReceived"
    /\ acceptable(Head(events).block)
    /\ LET b == hashed(Head(events).block)
       IN  us' = apply_block(us, b) /\ loop' = [pc |-> "applied", block |-> b]
    /\ events' = Tail(events)
    /\ UNCHANGED <<chain, block_store, pool, ticker, vetted>>

\* Faulty: the block is given up without undoing its UTXO effects.
give_up_unreverted(b) == us' = us

\* The way back when a block that was applied is not accepted after all.
give_up(b) == us' = revert_block(us, b)

\* The commitment check; a mismatch takes the UTXO effects back.
CommitmentMismatch ==
    /\ loop.pc = "applied"
    /\ enforce_utxo_commitment
    /\ us.entries # loop.block.utxo_commitment
    /\ give_up(loop.block)
    /\ loop' = Receiving
    /\ UNCHANGED <<chain, block_store, pool, events, ticker, vetted>>

chain_entry(b) ==
    CS!ChainEntry(b.hash, chain.entries[b.prev_hash], chain.entries[b.prev_hash].slot + 1, 0)

\* ChainState::add_block; if it refuses, the UTXO effects are taken back.
CommitBlock ==
    /\ loop.pc = "applied"
    /\ enforce_utxo_commitment => us.entries = loop.block.utxo_commitment
    /\ IF CS!add_block_result(chain, chain_entry(loop.block)) = "Ok"
       THEN /\ chain' = CS!add_block(chain, chain_entry(loop.block))
            /\ loop' = [loop EXCEPT !.pc = "committed"]
            /\ UNCHANGED us
       ELSE /\ give_up(loop.block)
            /\ loop' = Receiving
            /\ UNCHANGED chain
    /\ UNCHANGED <<block_store, pool, events, ticker, vetted>>

\* BlockStore::put_block: one block per hash and per height.
PersistBlock ==
    /\ loop.pc = "committed"
    /\ IF \E b \in block_store : b.hash = loop.block.hash \/ b.height = loop.block.height
       THEN loop' = Receiving /\ UNCHANGED block_store
       ELSE /\ block_store' = block_store \cup {loop.block}
            /\ loop' = [loop EXCEPT !.pc = "stored"]
    /\ UNCHANGED <<us, chain, pool, events, ticker, vetted>>

\* Faulty: only the confirmed transactions themselves leave the pool.
spent_outpoints_by_id(b) ==
    {o \in block_inputs(b) : \E i \in DOMAIN b.txs :
        b.txs[i].id \in DOMAIN pool.by_id /\ o \in b.txs[i].inputs}

spent_outpoints(b) == block_inputs(b)

\* Everything in the pool that the block's inputs invalidate goes.
CleanPool ==
    /\ loop.pc = "stored"
    /\ pool' = CP!remove_confirmed(pool, spent_outpoints(loop.block))
    /\ vetted' = vetted \cap DOMAIN pool'.by_id
    /\ loop' = Receiving
    /\ UNCHANGED <<stores, events, ticker>>

-------------------------------------------------------------------------------
(* The slot ticker, in a slot for which this node is the leader.           *)

ReadTip ==
    /\ ticker.pc = "wait"
    /\ tip_height < MaxHeight
    /\ ticker' = [pc |-> "tip", prev_hash |-> chain.tip, height |-> tip_height + 1]
    /\ UNCHANGED <<stores, pool, events, loop, vetted>>

TakeBatch ==
    /\ ticker.pc = "tip"
    /\ LET ids == CP!get_batch(pool, batch_size)
       IN  ticker' = [pc |-> "batch", prev_hash |-> ticker.prev_hash, height |-> ticker.height,
                      txs |-> [i \in DOMAIN ids |-> tx_of(ids[i])]]
    /\ UNCHANGED <<stores, pool, events, loop, vetted>>

\* The coinbase claims the whole reward; none is added for a reward of 0, or
\* without a reward address.
with_coinbase(height, txs) ==
    LET reward == total_block_reward(height, total_fees(txs))
    IN  IF coinbase_enabled /\ reward > 0
        THEN <<new_coinbase(height, reward)>> \o txs
        ELSE txs

ClaimReward ==
    /\ ticker.pc = "batch"
    /\ coinbase_enabled /\ speculative_ok(us.entries, ticker.txs)
          => total_block_reward(ticker.height, total_fees(ticker.txs)) \in 0..MaxReward
    /\ ticker' = IF coinbase_enabled /\ ~speculative_ok(us.entries, ticker.txs)
                 THEN Waiting
                 ELSE [ticker EXCEPT !.pc = "body",
                                     !.txs = with_coinbase(ticker.height, ticker.txs)]
    /\ UNCHANGED <<stores, pool, events, loop, vetted>>

\* The header, its commitment from a second look at the UTXO set.  Its slot is
\* the clock's, which the tip may have reached or passed already: handle_block
\* compares slots with the tip's and never with the clock.
StampBlock ==
    /\ ticker.pc = "body"
    /\ \E ok \in ticker_slot_ok :
       LET b == [prev_hash |-> ticker.prev_hash, height |-> ticker.height, slot_ok |-> ok,
                 txs |-> ticker.txs,
                 utxo_commitment |-> speculative_set(us.entries, ticker.txs)]
       IN  ticker' = IF speculative_ok(us.entries, ticker.txs) /\ validate_structure(b)
                     THEN [pc |-> "send", block |-> b]
                     ELSE Waiting
    /\ UNCHANGED <<stores, pool, events, loop, vetted>>

Dispatch ==
    /\ ticker.pc = "send"
    /\ Send(BlockEvent(ticker.block))
    /\ ticker' = Waiting
    /\ UNCHANGED <<stores, pool, loop, vetted>>

-------------------------------------------------------------------------------
MainLoop ==
    HandleTx \/ RejectBlock \/ ApplyBlock \/ CommitmentMismatch \/ CommitBlock
      \/ PersistBlock \/ CleanPool

SlotTicker == ReadTip \/ TakeBatch \/ ClaimReward \/ StampBlock

Next ==
    \/ \E pb \in PeerBlocks(tip_height + 1) :
          ReceiveBlock(pb[1], pb[2]) \/ SubmitBlock(pb[1], pb[2])
    \/ \E t \in GossipTxs : ReceiveTx(t)
    \/ \E t \in RpcTxs : SendTransaction(t)
    \/ MainLoop
    \/ SlotTicker
    \/ Dispatch

Spec == Init /\ [][Next]_vars

(***************************************************************************)
(* The tasks get their turn: tokio polls every ready task, and the event   *)
(* channel hands out room in the order in which senders asked for it.      *)
(* Nothing is assumed of the peers and the users.                          *)
(***************************************************************************)
Fairness == WF_vars(MainLoop) /\ WF_vars(SlotTicker) /\ SF_vars(Dispatch)

FairSpec == Spec /\ Fairness

-------------------------------------------------------------------------------
pooled == DOMAIN pool.by_id

\* The shared structures hold what their kind can hold, and a task only has a
\* block in hand where it should.
TypeOK ==
    /\ us.entries \subseteq UNION {outs(t) : t \in AllTxs}
    /\ pooled \subseteq {t.id : t \in PoolTxs}
    /\ Len(events) <= event_capacity
    /\ loop.pc \in {"recv", "applied", "committed", "stored"}
    /\ ticker.pc \in {"wait", "tip", "batch", "body", "send"}
    /\ {b.height : b \in block_store} = 0..(Cardinality(block_store) - 1)

\* Between two events the UTXO set, the chain state and the block store
\* describe one chain: the stored blocks link up to the tip, the UTXO set is
\* what they leave, and a block that was rejected on the way, before or after
\* it was applied, left nothing behind.
StoresAgree ==
    loop.pc = "recv" =>
        /\ tip_height = Cardinality(block_store) - 1
        /\ \A n \in 2..Len(stored) :
              /\ stored[n].hash \in CS!known(chain)
              /\ stored[n].prev_hash = IF n = 2 THEN CS!ZERO ELSE stored[n - 1].hash
        /\ tip_height > 0 => chain.tip = stored[Len(stored)].hash
        /\ FoldOf(us, stored)
        /\ RecordsOf(us, stored)
        /\ DOMAIN us.undo = {b.hash : b \in block_store}

\* Whatever peers claim and the ticker computes, the live outputs are never
\* worth more than the allocation and the subsidies of the heights so far.
SupplyBound ==
    loop.pc = "recv" =>
        values(us.entries) <= values(outs(GenesisTx))
                                + Least(SumFunction([h \in 1..tip_height |-> block_subsidy(h)]),
                                        total_supply)

\* No block of the chain spends a coinbase output less than k blocks deep,
\* whoever built it and however the spend got into it.
OnlyMatureSpent ==
    \A n, m \in DOMAIN stored :
        block_inputs(stored[n]) \cap coinbase_outputs(stored[m]) # {}
            => stored[n].height >= stored[m].height + k_finality

\* A transaction that passed the gossip checks stays fit for the next block as
\* long as it is pooled, although blocks keep changing the UTXO set and RPC
\* callers keep changing the pool: its inputs are live and mature.
VettedPool ==
    loop.pc = "recv" =>
        \A i \in vetted : check_coinbase_maturity(tx_of(i)) /\ tx_of(i).inputs \subseteq us.entries

\* check_coinbase_maturity is there so that immature spends never sit in the
\* mempool; the entrance through qv_sendTransaction does not call it.
NoImmaturePooled ==
    loop.pc = "recv" => \A i \in pooled : check_coinbase_maturity(tx_of(i))

\* Never does more exist than the total supply of the monetary parameters.
SupplyCap == loop.pc = "recv" => values(us.entries) <= total_supply

\* A pooled transaction gets its block: it leaves the pool, confirmed or
\* displaced, unless the chain reached the bound of the model.
PoolDrains == \A t \in GossipTxs : (t.id \in pooled) ~> (t.id \notin pooled \/ tip_height = MaxHeight)

-------------------------------------------------------------------------------
(* Transactions and blocks for TLC.                                          *)
Tx(id, inputs, outputs, lock_time) ==
    [id |-> id, inputs |-> inputs, outputs |-> outputs, lock_time |-> lock_time,
     script_ok |-> TRUE]

MCGenesisTx == Tx(1, {}, <<2, 1>>, 0)

\* The allocation for mainnet and testnet: the whole supply.
MCFoundationTx == Tx(1, {}, <<total_supply>>, 0)

MCCoinbases == {Tx(100 + 10 * h + v, {}, <<v>>, h) : h \in 1..MaxHeight, v \in 0..MaxReward}

Pay      == Tx(2, {<<1, 1>>}, <<1>>, 0)         \* fee 1
Rival    == Tx(3, {<<1, 1>>, <<1, 2>>}, <<1>>, 0)
Child    == Tx(4, {<<2, 1>>}, <<0>>, 0)         \* spends Pay
Reap     == Tx(5, {<<112, 1>>}, <<1>>, 0)       \* spends the first coinbase
Inflate  == Tx(6, {<<1, 2>>}, <<2>>, 0)         \* worth more than it spends
Unsigned == [Tx(7, {<<1, 2>>}, <<0>>, 0) EXCEPT !.script_ok = FALSE]

MCPoolTxs == {Pay, Rival, Child, Reap, Inflate, Unsigned}

MCGossipTxs == {Pay, Rival, Reap}
MCRpcTxs == {Child, Reap}

Reward(h) == Tx(100 + 10 * h + 2, {}, <<2>>, h)
Overclaim(h) == Tx(100 + 10 * h + 5, {}, <<5>>, h)

MCPeerBlocks(h) ==
    {<<<<Rival>>, "height">>, <<<<Pay, Child>>, "commitment">>}
      \cup {<<body, "none">> : body \in {<<Reward(h)>>, <<Overclaim(h)>>, <<Rival>>, <<Pay, Child>>,
                                         <<Reward(h), Reap>>, <<Inflate>>, <<Pay, Reward(h)>>}}

\* For liveness: transactions that compete or fail, and peers whose blocks are valid
\* or late.
MCLiveTxs == {Pay, Rival, Unsigned}
MCLiveBlocks(h) == {<<<<>>, "prev">>, <<<<>>, "slot">>, <<<<>>, "none">>, <<<<Rival>>, "none">>}

===============================================================================
