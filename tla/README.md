# A TLA+ model of the QuantumVault node

QuantumVault (`crates/`) is a UTXO blockchain in Rust: a node, a network
layer, an external miner, a wallet with a local server, a script machine and
DeFi contracts on top of it. This project models the control of all of these:
which blocks and transactions take effect, what several nodes and concurrent
tasks make of them, how keys, sessions and pools evolve, and what the contracts
and the wallet promise their users.

## Inventory

| Component | Sources | State | Operations | What makes it correct |
|---|---|---|---|---|
| Chain state | `qv-consensus/src/chain_state.rs` | tree of entries, tip, final point, (slot, producer) index, evidence | `add_block`, ancestry queries, `maxvalid_bg`, locator | the tip is the best stored block; finality never retracts; evidence is complete and names real pairs; nodes with the same blocks agree |
| UTXO store | `qv-storage/src/utxo_store.rs` | entries, undo logs, coinbase heights, snapshots | `apply_block`, `revert_block`, `create_snapshot`, `restore_snapshot`, `insert`, `remove` | entries are exactly what the applied chain leaves; no double spend; no transaction twice |
| Block store, state store, key-value backends | `qv-storage` | one ordered map, three key prefixes | `put_block`, `put_epoch_snapshot`, ..., batch writes | what is put is read back, whatever shares the map and wherever a write fails |
| Blocks and transactions | `qv-core` | none | structure checks, `new_coinbase`, Merkle roots | a coinbase comes first and commits to its height; a header commits to one body |
| Rewards and stake | `qv-consensus/src/rewards.rs`, `stake.rs` | pools, delegations, snapshot of an epoch | emission, `total_block_reward`, `distribute_reward` | emission never passes the cap; a reward is paid out to the last unit |
| Clear mempool | `qv-mempool/src/clear.rs` | entries, two indices, byte counter | `add`, `remove`, `remove_confirmed`, `evict_expired`, `get_batch` | indices agree; limits hold; only the lowest entries are evicted |
| Encrypted mempool | `qv-mempool/src/encrypted.rs`, `qv-miner/src/committee.rs` | envelopes of an epoch | add, remove, expire, drain and decrypt | counters exact, one epoch at a time |
| Node event loop | `qv-node/src/node.rs`, `validation.rs`, `network_handler.rs` | event channel, shared stores | `handle_block`, transaction intake | the stores describe one chain after every event |
| Slot ticker | `qv-node/src/slot_ticker.rs` | what it read so far in this slot | `produce_block` | its block is valid, or rejected without trace, however stale its inputs are |
| RPC and shell | `qv-node/src/rpc.rs`, `main.rs`, `config.rs`, `signals.rs` | request in progress, process phase | queries, `qv_sendTransaction`, `qv_submitBlock`, start, stop | answers are true of the chain although three locks are taken |
| Leader election, header validator | `qv-consensus` | none | slot arithmetic, VRF threshold, header checks | what a producer stamps is what the validator checks |
| Sync planner | `qv-node/src/sync.rs` | sync state | `on_tick`, `on_headers`, ... | a locator finds the fork; it is known exactly when two nodes swap chains |
| Genesis ceremony | `qv-node/src/ceremony.rs` | phase, registrations, contributions | register, contribute, finalize, replay | the transcript passes its replay in any order, and one whose contributions were altered does not |
| Network | `qv-net` | sessions, peer records, seen cache, rate limiter | handshake, gossip, disconnect | both ends hold the same session secret |
| Cryptography | `qv-crypto` | evolving key, shares | KES, VRF, DKG, threshold decryption | a signature verifies for its period and message only; a threshold of shares suffices |
| Miner | `qv-miner` | slot loop, keystore, configuration | commands, daemon, block producer | one header per slot; keys on disk and in memory agree |
| Script and contracts | `qv-script`, `qv-defi` | machine stack; pools, positions, price window | opcodes, templates, swaps, loans, intents, builders | covenants accept what they describe; liquidity and collateral are conserved |
| Wallet and privacy | `qv-wallet`, `qv-privacy` | keystore, sessions, address book, history | create, unlock, send, swap, scan, disclose, share an address | no coin lost or revived session; outputs found by their owner only |

The event loop, the slot ticker, the network task and the RPC handlers are
tokio tasks. They share the UTXO store, the chain state and the mempool behind
locks of their own and meet in one bounded channel of events. There is no
transaction over the three stores: `handle_block` takes and releases one lock
after the other, and `produce_block` reads the tip, the mempool and the UTXO
set at three different times. The wallet server handles requests in parallel
and keeps its keystore, contacts and history in files without locks; the
miner and the wallet talk to the node over RPC, call by call. That, and the
order in which blocks and messages arrive, is what is hard about this code.
`PROJECT.json` lists the hazards line by line. The node itself recovers from
nothing: `Node::new` runs on `MemoryKvStore`, so its chain does not survive a
restart. Keystores do, and are modelled with torn writes.

## Modules

The core of the node:

| Module | Models | Notes |
|---|---|---|
| `ChainState` | `chain_state.rs` | any number of nodes, fed in any order and with repeats |
| `UtxoSet` | structure of blocks and transactions; the UTXO store as a record with its methods | constant-level |
| `UtxoStore` | `utxo_store.rs`, a call is a step | the abstract specification of block application |
| `UtxoApply` | the loop inside `apply_block`, and the snapshots | implements `UtxoStore` |
| `ClearPool` | `clear.rs` | a call is a step: callers hold the mutex |
| `Node` | `node.rs`, `validation.rs`, `slot_ticker.rs`, `rpc.rs`, `network_handler.rs`, `rewards.rs` | composes all of the above by `INSTANCE` |
| `SumTheorems`, `UtxoSetProofs` | lemmas on sums over finite sets and on recursion over numbers, and on the UTXO store's operators | shared by the proofs |
| `ChainStateProofs`, `UtxoStoreProofs`, `ClearPoolProofs`, `NodeProofs` | theorems | about the components they are named for |
| `NetworkProofs`, `ServiceProofs` | theorems | the former about `Sessions`, `GossipIntake`, `Devnet`, `Miner`, `Sync` and `Kes`, the latter about `EncryptedPool`, `Lending`, `Wallet` and `NodeService`, as `MCServices` puts them side by side |

`UtxoApply`, `ClearPool` and `Node` end with the catalogues of transactions and
blocks that their `.cfg` files name.

Around it, checked through `MCServices` (what runs for long and meets messages,
requests, clocks and failures) and `MCLibraries` (computations, contracts,
formats and tools):

| Module | Models |
|---|---|
| `Sessions` | handshakes and sessions of peers that hold several connections; requests lost, late or timed out |
| `GossipIntake` | rate limiter, seen cache, decoding and hand-over |
| `Sync` | `SyncManager`, locator and headers, `maxvalid_bg` |
| `Devnet` | several nodes with round-robin leaders, late ticks, lost and reordered blocks |
| `Miner` | slot loop, VRF leadership, the calls that build a block, the header and its validator |
| `Kes` | Sum-KES tree, evolution, the keystore file with torn writes and new passwords |
| `Operator` | `qv-miner` configuration, commands and the start of the daemon against a changing node; the id it registers is not the one it runs with |
| `Ceremony` | the genesis ceremony and the replay of its transcript |
| `Stake` | pools, delegation, epoch snapshot, division of a reward; a margin above 1 is registered like any other, since only tests call `validate` |
| `Threshold` | Shamir, Feldman, Pedersen DKG, decryption by shares over a small prime field |
| `EncryptedPool` | the encrypted mempool, the committee, both block assemblers |
| `Amm` | swap and liquidity arithmetic, canonical order and batches; a pool over its life |
| `Lending`, `Oracle`, `Intents` | lending pools with failing operations and every overflow error; the price window, which takes any observation; order intents |
| `Script`, `DefiTx` | the stack machine and the locking scripts; the transactions submitted to them |
| `Wallet`, `WalletSpend` | keystore, sessions and requests of the wallet server; every way it spends |
| `WalletPage` | the browser page in front of that server: its requests, timers, session token and panels |
| `Stealth`, `AddressShare`, `Confidential` | one-time outputs, view keys, disclosures; how an address travels, with the page's QR scanner; hidden amounts |
| `NodeService` | process start and where it fails, the metrics exporter included, parameters, queries against a busy main loop, signals and shutdown |
| `Storage` | the three stores over one key-value map, with failing writes and restarts |
| `Wire` | hand-written byte formats, cut, extended or altered on the way |

`MCServices` and `MCLibraries` instantiate components that share no state. A
behaviour exercises one of them, named by `focus`, and `x1`, `x2`, ... are that
component's variables in the order of their declaration; the others stay
`None`. The state space is the sum of the components' and not their product.
The properties of these modules say `focus = "..." =>` and the component's own
property, where each is stated and commented in full.

Structs are records and methods are operators on them (`add_block(cs, e)`), so
`Node` holds a chain state, a UTXO store and a pool in its own variables and
applies the very operators that the component modules check and prove.

**Data.** Hashes are numbers, compared for equality and order as in the code.
An outpoint is `<<transaction id, index>>` and determines its output, because
the id is a hash of the transaction. A UTXO commitment is the set it commits
to. In `Node` script execution is one bit of a transaction, and a block value
always carries its own transactions; `Script` and `Storage` have the machine
and the Merkle roots. A hash elsewhere is the term that is hashed, a signature
the key that made it with what it covers, a ciphertext what it hides and for
whom; byte strings keep their lengths where a check reads them. Integers that
may overflow are bounded by a small `MaxU64`, `W` or `U16`, so that saturation,
wrap-around and checked failure occur within a run.

**ChainState.** `lineage` in an entry is auxiliary: the set of hashes that a
walk along parent links visits. `ancestor_walk` is the code's own loop, which
stops at a height, and `WalkDecidesAncestry` shows that both give the same
answer between any two stored blocks. `Produce` lets anybody extend any block,
several times in one slot; `Deliver` hands a block to a node.

**UtxoStore** is driven as the node drives it: blocks go on at consecutive
heights, and only the last one is ever reverted. `SnapshotSpec`, in
`UtxoApply`, adds the two snapshot operations; no code outside the tests calls
`restore_snapshot`, so the other properties are stated without them.

**UtxoApply** keeps the locals of `apply_block` (`consumed`, `spent`,
`staged_new`, the position in the block) in the variable `work`.

**ClearPool.** The eviction loop of `add` is given by its result, the shortest
final segment of the priority index that makes room, or everything if nothing
does. An oversize transaction therefore empties the pool before it is refused,
as in the code. `fee_density` saturates at `U64Max`; the run uses a small
value, so that saturation occurs.

**Node** splits each task where it gives up a lock:

| Task | Actions |
|---|---|
| main loop, transaction | `HandleTx` |
| main loop, block | `RejectBlock` or `ApplyBlock`, then `CommitmentMismatch` or `CommitBlock`, `PersistBlock`, `CleanPool` |
| slot ticker | `ReadTip`, `TakeBatch`, `ClaimReward`, `StampBlock`, `Dispatch` |
| gossip | `ReceiveBlock`, `ReceiveTx` |
| RPC | `SubmitBlock`, `SendTransaction` |

The checks of `handle_block` before `apply_block` are one step with it: only
the main loop writes the UTXO store and the chain state, so nothing can change
between the checks and the application. The pool in `Node` has no expiry and
no size limits; `ClearPool` covers these. `slot_ok` stands for the comparison
of a block's slot with its parent's; `ticker_slot_ok` says whether the
ticker's own block may fail it, which happens after a block from the future.
Which slots this node leads is left to the environment.

**Wallet and WalletSpend** give every file access and every RPC call of a
request a step of its own. `overlapped` records that two requests were under
way together: `SerialSameAddress` is about histories without that.

**WalletPage** is the script of `server_ui.rs`. A click sends a request, the
server handles it at some later time, and the answer reaches the handler later
still; in between other handlers run, sessions expire and connections break.
The state of the page is the token in local storage, the wallet it says it
shows, and for each panel whose data it has and of which version. `disturbed`
records that a request which changes the wallet was under way together with
another one, or was lost: the code has no guard against that, and `PageSound`
(part of `SpendExact`) is about histories without it. The run follows
the page up to the first disturbance, with one panel at a time beside the list
of accounts, because panels do not interact.

**Devnet** counts ticks that are due and not yet handled, as
`MissedTickBehavior` leaves them; `late` records that a slot began before the
blocks of the previous one had arrived everywhere. Until then `OneChain` is
`NeverForks`; afterwards it says what is left, the leaders and the order of the
slots, and the run `devnet_forks` shows that chains do part (finding 5).

**Lending.** `accrue_interest` and `health_factor` return `Failed` where a
product passes 128 bits. The multiplier and the factor are at least 2^64 each,
so a pool as its constructor makes it never accrues (finding 6, theorem
`InterestOverflows`). The terms of
the run therefore include a pool with a smaller multiplier, as `from_bytes` may
read it: interest grows, and `CoveredStays` is checked with it too.

**Oracle.** `add_observation` checks nothing, so slots come in any order and
prices may be zero. The two guards keep their own fallbacks for a product that
overflows, and both cut the deviation to 16 bits. `Measurable` names the
distances the code can measure at all, and `AggregatesExact` is exact for
these. `NoneDeviates` is the doc's sentence without that condition; the
assumption `OutliersPass` of `MCLibraries`, which TLC evaluates, has a
counterexample for each of the three ways to pass the guard (finding 7).

**DefiTx** marks the witness that `multisig_pqc` documents with the kind
"documented". `VerdictExact` says of these spends that they are refused, which
is what the code does and the opposite of what the doc says (finding 8), and of
all others that the verdict is the one the template describes.

**Threshold.** Exponents live modulo `P - 1` and shares modulo `P`, so
`combine_shares` opens a ciphertext only if the weighted shares do not pass
`P`, hardly ever for the prime of the code; the property says exactly this. The tests of that path are ignored in the
repository with a FIXME (T-01, `threshold.rs:1311`) that suspects an overflow
in `field::mul`; the mismatch of the two moduli alone explains the failure.

Operators that a mutant names (most say "Faulty") are plausible mistakes. They
are not used by any specification; replacing the correct operator by one shows
that the property named in `PROJECT.json` notices.

## Runs

| Run | Bounds | Shows |
|---|---|---|
| `chain_state` | 1 node and 5 blocks, or 2 nodes and 4 blocks; 1 producer, 3 slots, k = 1 | fork choice, exact and sticky finality; nodes with the same blocks agree; nodes that were offered all blocks converge |
| `utxo_apply` | heights 0..3, bodies of up to 3 of 6 transactions | the loop implements the one-step store and rejects only what it must; the store is the fold of the applied chain |
| `clear_pool` | 6 transactions, 3 fees, limits 3 entries and 6 bytes, clock 0..3 | indices, limits, eviction order |
| `node` | heights up to 3, channel of 1, batches of 2, 6 user transactions, 9 kinds of peer block, supply 5 | the stores agree after every event; supply; maturity; the pool stays fit |
| `node_live` | heights up to 2, no RPC, valid or late peer blocks | a pooled transaction leaves the pool |
| `services` | 3 peers with 2 connections; 3 messages, clock 0..4; 2 nodes with chains of up to 4 blocks; 2 producers, 3 slots; 4 s of mining; KES of depth 2; a node of 2 blocks with a channel of 1, started once; 3 envelopes, 2 epochs; 2 borrowers, terms in either order and some that `validate` refuses, with 4 basis points to the whole, 2^64 scaled to 16 and 2^128 to its square; 2 requests and 2 sessions | sessions, intake, sync, agreement of producers, one header per slot, key evolution, the node as a service, encrypted pool, lending pools, the wallet server |
| `libraries` | see the instances in `MCLibraries`: 3 shares of threshold 2 modulo 11; reserves up to 11; a window of prices, zero and far apart among them, with 128 bits scaled to 127; about 900 spends; a page with 2 users and 1 panel; 2 coins spent twice over; 2 stealth outputs; 4 writes to the stores; bundles of 2 orders; 2 participants; 2 pools and 2 delegations; 2 operator keys | the contracts, the script machine, the wallet's spends and its page, stealth payments, stores and byte formats, ceremony, rewards, operator's commands |
| `utxo_snapshot`, `node_immature`, `node_supply`, `miner_header` | as above | findings 1 to 4: the code departs from its documentation |
| `devnet_forks` | the devnet of `services` | finding 5: the devnet forks |

What the properties of the two large runs say:

| Property | About |
|---|---|
| `SessionsAgree`, `SessionsAreLive` | handshakes that do not cross leave one secret; no session outlives its last connection |
| `Filtered` | the main loop sees a message again only after its time in the cache or under pressure |
| `LocatorFindsFork`, `SwapsExact` | headers served for a locator join the client's chain; two nodes adopt each other's chain exactly when the fork is shallow for one, deep for the other, and the shorter branch is denser; otherwise at most one adopts |
| `OneChain` | producers hold one chain as long as blocks arrive within their slot, and leader and slot order stay right afterwards |
| `SignsOnce` | one header per slot however late the loop is, at most one slot ahead of the clock |
| `SignaturesExact` | signatures of an evolving key over rotations, restarts, torn files and new passwords |
| `TranscriptVerifies` | what the coordinator finalizes passes everybody's replay, and one with a contribution missing, repeated or altered does not; `total_stake`, `participant_count` and `finalized_at` are not compared by `verify_transcript` |
| `StakeAccounted` | a reward is paid out exactly, monotone in the stake, for margins up to 1 and stakes that do not overflow; the daemon runs only with a valid configuration and a stake a node answered |
| `SharesReconstruct` | any threshold of shares, and nothing less, gives the secret; it opens a ciphertext exactly if the weighted sum of the shares stays below `P`, which the ignored test at `threshold.rs:1550` (T-01) expects of any threshold |
| `Accounted` | counters and epoch of the encrypted pool |
| `ShareValue`, `BatchCanonical` | no step takes value from liquidity that stays; every validator computes the leader's batch; intents ask what their makers asked |
| `BooksBalance`, `CoveredStays` | totals of a lending pool after failed operations too; no operation, failed accrual included, makes a covered position liquidatable, and its health factor is above 1.0 (or overflows) where the liquidation threshold is above the loan-to-value limit |
| `AggregatesExact` | averages and medians against their definitions for any order of observations; the guards against manipulation for all distances the code can measure |
| `VerdictExact` | the machine accepts exactly the spends the template describes, and never an insolvent one; the exception is `multisig_pqc`, which refuses the witness it documents |
| `SerialSameAddress`, `LogoutFinal` | one address per account; a logged-out session never returns |
| `SpendExact` | every way of spending pays what was asked and returns the rest; the page shows one wallet, leaves no session behind and names files rightly |
| `StealthExact` | outputs found by whom they are for; disclosures bind the fields under their proof; addresses arrive, if as many codes are printed as announced; hidden amounts balance |
| `ServesTrueState` | RPC answers under three locks; start and shutdown |
| `StoreExact` | stores and readers give back what was written |

**Why these bounds.** Five blocks with k = 1 give a branch of length two, which
makes its first block final, and one of length three beside it: the second must
stay locked out although it is longer. Four blocks let two nodes finalize and
reject different blocks; `OneNodeOrFewBlocks` keeps the fifth for runs in which
one node takes part. One producer is enough for equivocation and three
slots leave room for honest blocks beside it. The UTXO catalogue has a chained spend inside a block, a
conflict, a two-parent spend, a coinbase and its spend; height 3 lets a
transaction be created, spent, and offered again. In the pool either limit can
bind first, three pairs of transactions conflict, one transaction is larger
than the whole pool, and the highest fee saturates the density.
The node's supply of 5 with subsidies of 2, 2, 1, ... from height 0 on reaches
the cut-off of `total_block_reward` within three blocks, a halving occurs at
height 2, and k = 2 lets a coinbase of height 1 mature at height 3. With a
channel of one place the ticker, gossip and RPC contend for it.

Three peers with two connections give crossing handshakes and a third peer of
an older protocol version. Chains of four blocks with k = 1 and a window of two
slots reach both branches of `maxvalid_bg` and a locator with a gap. Two slots
beyond genesis are enough for adjacent leaders on one tip. A tree of depth two
has four periods, so a path has a sibling on each level and the key can run
out. The arithmetic widths (11, 15, 32, 64) make every saturating, checked and
truncating operation meet its limit, and the basis points are scaled to 10 so
that rounding is visible. Two wallet requests are what a race needs; the
second account makes the switch possible. The Merkle catalogue has a body of
three transactions, the smallest with a repeated leaf.

Requests, session tokens, nodes of `chain_state` and of `Sync`, and the variants of a block are symmetric:
no operator chooses among them or orders them. No liveness property is checked
in the runs that use symmetry.

`CHECK_DEADLOCK FALSE` is used where hashes or heights run out; the clear pool
never stops and is checked for deadlock.

**Fairness** (`FairSpec` of `Node`): weak fairness of the main loop and of the
ticker's own steps, because tokio polls every task that is ready; strong
fairness of `Dispatch`, because a tokio channel hands out free places to
waiting senders in order, so peers cannot pass the ticker for ever. Nothing is
assumed of peers and users. Weak fairness of the ticker also says that this
node leads a slot again and again. The run leaves out three things that would
stop production in the code as well, and which are discussed below: RPC
callers that pool transactions that do not apply, blocks with slots in the
future, and a competing block for every slot for ever (excluded by the bound
on heights, which the property names).

## What is proved

For every value of the constants, with TLAPS:

* `ChainStateProofs`: `TypeCorrect`, `ForkChoice`, `FinalPoint`,
  `StickyFinality`, `Accountability`, `SameBlocks`, `Agreement`. The inductive
  invariant `IInv` says that the produced blocks form a tree (a lineage is a
  chain with one block per height), that every chain state is a part of that
  tree closed under ancestors, that its tip is best, that its final block is on
  the tip's lineage and exactly k below it, and that the (slot, producer) index
  has an entry for every stored block. `FinalPointExact` alone is not
  inductive: that a new tip still descends from the final block needs the tree,
  and that the tip never loses height. `Agreement` needs one more argument: a
  settled node has every block that descends from its final point, and forks
  no deeper than k cannot have locked the best block out.
  Assumptions: `HashesAssumption`, `SlotAssumption`, `FinalityAssumption`
  (hashes other than ZERO are positive, bounds are natural numbers).
* `UtxoStoreProofs`: `TypeCorrect`, `UtxoFold`, `CoinbaseRecords`, `TxOnce`,
  `SpendOnce`. The interesting part is that the store compares new outputs
  with live entries only. That a spent transaction cannot come again follows
  from the chain: a coinbase commits to its height, any other transaction has
  a parent that would have to come again first. The lemma `FreshTxs` takes
  the least position at which something is repeated and derives a
  contradiction; the invariant carries causality (every input was created
  before) and the exact undo log of every applied block.
  Assumptions: `HashAssumption` (equal hashes, equal content),
  `BlocksAssumption` (heights are numbers, genesis transactions have lock time 0).
  `LoopImplementsStore` and `LoopRejection` are about the loop inside
  `apply_block`, from an invariant that says what the locals hold after a
  prefix of the block.
* `ClearPoolProofs`: `TypeCorrect`, `Indices`, `Capacity`, `Eviction`. The
  invariant says that the three indices are functions of one set of entries,
  that the byte counter is the sum of their sizes and that keys are ordered as
  the B-tree orders them. `Eviction` shows that the segment the loop removes is
  the shortest that makes room. Assumptions: `ConfigAssumption` (the limits,
  the minimum fee and `U64Max` are natural numbers), `TxsAssumption` (ids, sizes
  and fees are natural numbers, equal ids mean equal transactions).
* `NodeProofs`: `TypeCorrect`, `OneChainBehindTheStores` (`StoresAgree`),
  `Maturity` (`OnlyMatureSpent`), `GossipPoolFit` (`VettedPool`), `Supply`
  (`SupplyBound`) and `EmissionExact`. None of these is inductive, because they
  speak of the moments between two events. `IInv` describes every place where a
  task can be: with a block in hand the UTXO set is the fold of the stored
  chain and that block, from `ApplyBlock` until it is stored or taken back, and
  the chain state has it from `CommitBlock` on; whatever the ticker holds was
  built from blocks and transactions of this run, and may be stale in any way.
  The rest rests on `UtxoSetProofs`: applying and then reverting a block gives
  the store back, and both keep the fold. `GossipPoolFit` needs that maturity
  is monotone along a chain and that `remove_confirmed` takes out every
  transaction that shares an input with the block. `Supply` needs sums: the
  value of a fold goes up by at most what a coinbase may claim, and the claims
  telescope under the cap. Assumptions: `TransactionsAssumption`
  (ids name transactions, inputs are finite, values are natural numbers, there
  is a coinbase for every height and reward in the bounds, and a peer's block
  holds known transactions), `BoundsAssumption` (bounds are natural numbers),
  `MonetaryAssumption` (a positive supply, a first reward within it, a positive
  halving interval). Amounts do not overflow in `Node`; `Storage` and the
  contracts have the widths.
* `NetworkProofs`: `Agreement` (`SessionsAgree`), `NoStaleSession`
  (`SessionsAreLive`), `GossipFilter` (`Filtered`), `ProducersAgree` (`OneChain`)
  and `OneHeaderPerSlot` (`SignsOnce`), for any peers, connections, messages,
  limits, schedules and slot durations; `ForkIsFound` (`LocatorFindsFork`) and
  `WhenTwoSwap` (`SwapsExact`), for chains of any length; `EveryPeriodSigns`
  (`SignaturesExact`), for a key tree of any depth. The module extends
  `MCServices`, which only puts the instances side by side and leaves these
  constants open, so that the theorems are about the very definitions that the
  run `services` checks. The handshake invariant says, for each handshake under
  way, what its two ends may hold until it ends: nothing, its own secret, or
  one whose handshake crossed it. The proof showed that an exception for
  handshakes still under way, which the property once made, was not needed; it
  is gone. The filter's invariant says that an event is still in the cache, or
  its time is over, or as many messages as the cache holds came after it.
  The devnet's invariant has a part that always holds (chains are sound, blocks
  under way are of the leader of their slot) and one that holds while no slot
  is late: a node ticks once per slot, so there is at most one new block; every
  node has it or has its parent, and who lacks it finds it in its channel or in
  the air, because a node that has heard of a block has accepted it, still has
  to handle it, or, in slot 0, refuses it like everybody else. The miner's says
  that the slot of its loop and the ticks that wait add up to the slot of the
  clock and one, and that what it works on is of the slot it is in.

  Of `Sync` the invariant (`SyncInv`) says that all chains, those under way in
  messages included, belong to one tree: a hash has one place and one past.
  From it follows that two chains agree exactly up to their fork. `LocatorIs`
  then follows the loop of `build_locator` for every length: the gap between
  two entries is at most the distance walked so far, so the first entry that
  the server knows lies no deeper below the fork than the client's own branch
  is long. For `maxvalid_bg` both nodes see one fork but measure its depth on
  their own chain, so that one may use the rule for shallow forks and the other
  the rule for deep ones; `WhenTwoSwap` compares the four cases and says in
  which of them both adopt. Density windows are finite sets, counted with the
  library's cardinality theorems.
  Of `Kes` the invariant (`KesInv`) says that the key in memory has zeroed
  exactly the seeds below its period, that the file has no later period than
  that key, and that what was signed was signed by the leaf of its period. `PathVerifies` shows that climbing a path from a leaf
  visits, layer by layer, the node above it, and a change of the period changes
  a signed field, so that no signature verifies for another one.
  Hypotheses: `Absent` (None is no connection), `GossipConfig` (limits are
  natural numbers), `IdleApart` (Idle is no block), `ClockConfig` (the steps of
  the modelled clock divide a slot), `SyncConfig` and `KesConfig` (bounds,
  finality depth, window and tree depth are natural numbers).
* `ServiceProofs`: `EncryptedPoolExact` (`Accounted`), `LendingBooksBalance`
  (`BooksBalance`), `LendingCoveredStays` (`CoveredStays`), `InterestOverflows`, `LogoutIsFinal`
  (`LogoutFinal`), `OneStealthAddress` (`SerialSameAddress`) and `ServiceTruth`
  (`ServesTrueState`), about `MCServices` as well.
  The counters of the pools are sums over their entries (`PoolInv`,
  `LoanInv`), so that a saturating subtraction never cuts anything off: that
  is what makes `total_bytes` exact after any mix of removals, and a failed
  operation on a loan leave the books alone. `LendingCoveredStays` compares
  the position before and after each operation through the products the code
  compares. It holds for every pool that passes `validate`, whether or not its
  interest accrues. That the health factor is above 1.0, as `lending.rs:305`
  asks of a healthy position, is stated where the liquidation threshold is
  above the loan-to-value limit, as in the default terms (80 % and 75 %);
  `validate` does not compare the two, and with equal terms a position may lie
  at 1.0 exactly. A factor that overflows is an error of `health_factor`, which
  the theorem allows and does not count as healthy or not.
  The wallet's invariant (`WalletInv`) says of each request between two of its
  steps what it has read and may still write; while requests have not
  overlapped, its secret is the one on file up to the view key it is about to
  save. `LogoutIsFinal` needs no such condition: `SessionStore::replace` renews
  what is there and never inserts, so it holds under every interleaving.
  `ServiceInv` says that the stores describe a chain of applied blocks, and
  besides it the block in handling at each of its stages; `QueryInv` says of a
  search between two of its locks what it has already ruled out and since
  when. `lapse` records that there was a moment at which the transaction was in
  none of the places it looks at; "not found" is said in no other case.
  Hypotheses: `PoolConfig` and `LoanConfig` (sizes, limits, amounts and terms
  are natural numbers, divisors positive, finitely many owners),
  `WalletConfig` (a stored file is neither missing nor torn), `ServiceConfig`
  (blocks carry known transactions, a genesis coin is no transaction's output,
  the search depth is a number).
* `ChainStateProofs` also has `Walk` (`WalkDecidesAncestry`): the code's loop,
  written as a recursive function on heights, decides membership in the
  lineage. Induction over numbers is done by the least element of a set of
  counterexamples (`NatSetInduction` in `SumTheorems`), since the library's
  induction theorems take a predicate that the provers cannot instantiate. The
  sums of `SumTheorems` are handled in the same way. A loop with a recursive
  function (the locator, the layers and paths of the key tree, the coins after
  a chain) is `CHOOSE`d by its equation; `Iterates` in `SumTheorems` shows that
  such a function exists and takes the values of the loop.

`TypeOK` of every module, `EquivocationEvidence`, `CoinbaseRecordsLive`,
`NoTxTwice` and `NoDoubleSpend` are proved and no longer run.

**Only model-checked:**

* `PoolDrains`: liveness under fairness.
* Everything in the run `libraries`. `SharesReconstruct`, `AggregatesExact`,
  `VerdictExact`, `BatchCanonical` and `StoreExact` say what a fold, a sort, an
  interpreter or a reader computes for every input: induction over data, and
  for the first a field in which division is a search. `ShareValue` and
  `StakeAccounted` compare products of products with truncated quotients,
  which the SMT solver does not decide and which would need a theory of their
  own. `SpendExact`, `StealthExact` and `TranscriptVerifies` are about terms
  that stand for hashes and keys, over catalogues of wallets, pages and
  messages that are part of the instance and not parameters of it.
* Runs that expect a violation: a counterexample is all they need.

## Findings

1. `restore_snapshot` (`utxo_store.rs:283`) replaces the entries and leaves
   the creation-height records as they are. A coinbase that was spent after
   the snapshot comes back without a record and counts as mature, although the
   doc promises one record per live coinbase output. Run `utxo_snapshot`.
2. `qv_sendTransaction` (`rpc.rs:666`) pools a transaction after a structure
   check, so a spend of an immature coinbase enters the pool, which the docs of
   `check_coinbase_maturity` exclude. No block can contain it
   (`OnlyMatureSpent` holds). Run `node_immature`.
3. The genesis of mainnet and testnet allocates the entire `total_supply`, and
   the cap in `total_block_reward` counts subsidies alone. The first coinbase
   exceeds the documented cap. `SupplyBound` states what does hold: allocation
   plus capped subsidies. Run `node_supply`.

4. The miner and the slot ticker sign the header bytes without `kes_sig` and
   stamp the hash of the pool id, which is itself the hash of the VRF key.
   `validate_block_header` (`block_validator.rs`) verifies the signature over
   the whole header and looks the producer up by the hash of the VRF key. No
   header of the miner passes, although `main.rs:288` and `slot_ticker.rs:370`
   call the two paths symmetric. The node does not call the validator. Run
   `miner_header`.
5. The devnet is said never to fork, because each slot has one leader
   (`slot_ticker.rs:79`, `slot_ticker.rs:231`, `config.rs:58`). A leader builds
   on the tip it has. If the block of the slot before was lost, or crosses the
   boundary of the slot, there are two blocks with one parent, and since
   `handle_block` only accepts a child of the tip the chains stay apart. Run
   `devnet_forks`.
6. `accrue_interest` "updates the interest multiplier" (`lending.rs:356`), but
   a multiplier and a factor of 2^64 or more have no product of 128 bits
   (`lending.rs:391`): every accrual of a pool made by `new` returns
   `InterestAccrualOverflow`. FIXME D-07 at the ignored test names a special
   case of this. Theorem `InterestOverflows`: it holds for all rates, slots and
   widths.
7. `aggregate_median` promises that no observation deviates by more than the
   limit from the median it reports (`oracle.rs:189`). It skips prices of zero,
   cuts the deviation to 16 bits before comparing it and takes 100 % for a
   product that overflows (`oracle.rs:226`), so a price far away may pass.
   `OutliersPass` in `MCLibraries` has an example of each. (For an even number
   of prices it takes the upper of the two middle ones, where its comment says
   the lower.)
8. `multisig_pqc` documents its witness (`templates.rs:213`) and then pushes M
   and N once more above it (`templates.rs:225`), so that the machine takes
   them for keys and counts and refuses that witness. Checked as part of
   `VerdictExact`.

Two more disagreements are seen in the model's definitions only:

* `address_to_qr_parts` (`qvaddr.rs:137`, `qvaddr.rs:165`) promises as many
  parts as were asked for, and each part names that total. Rounding the part
  length up may leave fewer: `--qr-parts` then prints codes that nobody can
  join. `CodesComplete` is about the page, whose number of parts is safe.
* A disclosure file is called tamper-evident (`disclose.rs:288`). What is
  verified binds neither the outpoint nor the KEM level nor the ciphertext;
  `Unbound` in `Stealth` lists these three and the property says that altering
  any other field is noticed.

Observations without a documented promise to compare them with:

* A pooled transaction that does not apply makes `speculative_apply` fail, and
  with it every slot this node leads, until the transaction expires.
* Slots are compared with the tip's and never with the clock.
* A gossiped block goes on to subscribers whether or not `handle_block`
  accepted it.
* The path for blocks runs no scripts; only the gossip path for transactions does.
* `ChainState` knows genesis as the zero hash while the block store keeps it
  under its own hash, so block 1 links to zero. `StoresAgree` says so.
* `handle_block` only accepts a child of the tip, so a node that misses a block
  stays behind; fork choice among siblings is never exercised in a single node.
* The comment at the end of `Node::run` says that dropping the gossip sender
  ends the network task, but `NetworkNode` holds a sender of its own channel.
* `storage_backend` is read and ignored, so a restart loses the chain; mainnet
  and testnet draw a fresh genesis key at every start; the parameter file's
  network is not compared with the configured one; `--bootstrap` fills a field
  that start-up does not read.
* `qv_getTip` may name a block that is not stored yet, coins may be those of a
  block that is later reverted, and the tip of a fresh node has no block.
* The Merkle root of a block with decrypted transactions is over the envelope
  ids in one assembler, over the transactions in the other.
* Two first unlocks of an account at once create two view keys, and the address
  of the first is lost (`keystore.rs:312`); concurrent sends may lose a history
  entry; two scans may show a spent coin and its change together.
* QR codes of two addresses with equal totals join without a checksum.
* `push_bytes` of no data writes an instruction that `decode_script` refuses;
  envelope and handshake readers accept trailing bytes.
* `SwapIntentBuilder::build` aborts for a slippage above 100 %.
* Two nodes may swap chains under `maxvalid_bg`: with a finality of 1 and a
  window of 2 slots, one that holds slot 1 adopts the longer chain of slots 3
  and 4, while the other adopts the denser one. The doc's "no thrashing"
  (`chain_state.rs`) is about ties, which `SwapsExact` confirms.
* A margin above 1 is a documented precondition (`stake.rs:71`) that nothing
  outside the tests checks; `distribute_reward` then pays out more than the
  reward.
* `qv-miner init` announces keys that it does not write; `register-pool`
  assumes a fixed password and submits nothing; `pool_id` in its configuration
  is unrelated to the id derived from the VRF key.

## What the properties would not catch

The model has these behaviours, and no property excludes them, because the code
has them and no document denies them:

* messages lost in the rate limiter; two secrets after handshakes that crossed;
  a session dropped when one of several connections closes;
* envelopes drained from the encrypted pool that then fail to decrypt; value
  given away when a reserve saturates (`MaySaturate`);
* a slot loop that falls behind its clock or keeps an old nonce; a keystore
  that is torn, or older than the key in memory, after a crash;
* panels of the page that mix two wallets after a lost or refused answer.

## Not modelled

* The primitives below the terms: lattice signatures and KEMs, hash functions,
  the 256-bit limb arithmetic of `field`, zeroization.
* libp2p: dialling, gossipsub meshes, multiplexing. What it delivers is chosen
  by the environment.
* Encodings by serde, bincode and TOML; the hand-written formats are in `Wire`.
* Markup and layout of the wallet's page, terminal output, metrics, the
  dashboard store and logging: output only.
* `CoinSelector`, `sign_inputs` and the mock implementations that only tests
  use, except where they are the only implementation (hidden amounts).
* `archive/`, which nothing builds.

## Plan

The components of `MCLibraries` are instantiated with definite catalogues. The
next theorems would be `BatchCanonical` of `Amm` (that `deterministic_sort`
does not depend on the order of arrival) and `RewardConserved` of `Stake`,
with the catalogues as constants and the arithmetic as lemmas first. Liveness,
and what `SharesReconstruct` and `VerdictExact` compute, stay with TLC.
