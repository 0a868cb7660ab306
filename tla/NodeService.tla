------------------------------ MODULE NodeService ------------------------------
(* The node as a service (qv-node: main.rs, cli.rs, config.rs, signals.rs,     *)
(* genesis.rs, the start and the end of Node in node.rs, the queries of        *)
(* rpc.rs).  The process loads a configuration, builds its stores and starts   *)
(* its tasks one after the other; the RPC server then answers on other threads *)
(* while the main loop takes a block through its steps; a signal ends the loop *)
(* between two events, then the server, then the process.  What a block does   *)
(* to rewards, maturity and supply is module Node's.                           *)
(*                                                                             *)
(* A block hash is the sequence of the bodies from the first block on, and     *)
(* <<>> is BlockHash::ZERO, the hash the chain state gives genesis.  The       *)
(* genesis block itself is stored under its own hash, which no header names.   *)
EXTENDS Integers, Sequences, SequencesExt, FiniteSetsExt

CONSTANTS Txs, Coin(_),                 \* transactions; the coin each one spends
          GenesisCoins, None,
          Bodies,                       \* the sets of transactions blocks carry
          Lookback,                     \* 50: blocks get_tx looks through
          Malformed,                    \* an address or a key seed that does not parse
          Invocations,                  \* command lines: CliArgs
          ConfigFiles, ParamFiles,      \* files that may be there before the first start
          MaxHeight, MaxQueue, MaxStarts    \* bounds

VARIABLES
    process,    \* the phase of the process, its configuration and its tasks
    files,      \* what --init left on the disk
    stores,     \* utxo, chain, stored and by_height of the running node
    pool,       \* its clear pool
    queue,      \* its event channel
    handling,   \* the block in handle_block, with the step reached
    query,      \* the RPC request in progress
    lapse       \* was the transaction asked for unknown at some moment of it?

vars == <<process, files, stores, pool, queue, handling, query, lapse>>

ZERO == <<>>
idle == [method |-> "none"]
no_block == [step |-> "none"]

-------------------------------------------------------------------------------
(* Configuration.                                                              *)
DEFAULT_RPC == "127.0.0.1:8545"
CliArgs(init, network, listen, rpc_addr) ==
    [init |-> init, network |-> network, listen |-> listen, rpc_addr |-> rpc_addr]
NodeConfig(network, rpc_addr, stake_pool) ==
    [network |-> network, listen_addr |-> "any", rpc_addr |-> rpc_addr, stake_pool |-> stake_pool,
     max_peers |-> 1, max_clear_pool_size |-> 1, seed_nodes |-> {}, node_key_seed_hex |-> None]
devnet == NodeConfig("devnet", DEFAULT_RPC, TRUE)
testnet == NodeConfig("testnet", "0.0.0.0:8546", FALSE)
mainnet == NodeConfig("mainnet", "0.0.0.0:8545", FALSE)

validate(cfg) == cfg.network # "" /\ cfg.max_peers > 0 /\ cfg.max_clear_pool_size > 0
from_toml(file) == IF file = None THEN None ELSE IF validate(file) THEN file ELSE None
for_network(network, file) ==
    CASE network = "mainnet" -> mainnet
      [] network = "testnet" -> testnet
      [] network = "devnet" -> devnet
      [] OTHER -> from_toml(file)

\* --init writes the command line's RPC address whatever it is; a start takes it only if it
\* differs from the default.
Listening(cfg, args) == IF args.listen = None THEN cfg ELSE [cfg EXCEPT !.listen_addr = args.listen]
init_config(args, file) ==
    LET cfg == for_network(args.network, file)
    IN  IF cfg = None THEN None ELSE [Listening(cfg, args) EXCEPT !.rpc_addr = args.rpc_addr]
run_config(args, file) ==
    LET cfg == IF file # None THEN from_toml(file) ELSE for_network(args.network, None)
    IN  IF cfg = None THEN None
        ELSE IF args.rpc_addr = DEFAULT_RPC THEN Listening(cfg, args)
        ELSE [Listening(cfg, args) EXCEPT !.rpc_addr = args.rpc_addr]

(* Protocol parameters: a file of the network's name, or a preset.  Amounts    *)
(* are in coins on mainnet and testnet, in smallest units otherwise.           *)
ConsensusParams(duration, epoch, k, num, den) ==
    [slot_duration_ms |-> duration, epoch_slots |-> epoch, k_finality |-> k,
     honest_stake_num |-> num, honest_stake_den |-> den]
LedgerParams(block, tx, inputs, outputs, txs) ==
    [max_block_bytes |-> block, max_tx_bytes |-> tx, max_tx_inputs |-> inputs,
     max_tx_outputs |-> outputs, max_block_txs |-> txs]
MonetaryParams(supply, reward, interval) ==
    [total_supply |-> supply, initial_block_reward |-> reward, halving_interval_blocks |-> interval]
ProtocolParams(network, consensus, ledger, monetary) ==
    [network |-> network, consensus |-> consensus, ledger |-> ledger, monetary |-> monetary]

mainnet_params == ProtocolParams("Mainnet", ConsensusParams(2000, 21600, 50, 51, 100),
                                 LedgerParams(7500000, 200000, 1024, 1024, 10000),
                                 MonetaryParams(21000000, 50, 210000))
testnet_params == [mainnet_params EXCEPT !.network = "Testnet", !.consensus.epoch_slots = 1000]
ephemeral_params == ProtocolParams("Ephemeral", ConsensusParams(100, 50, 3, 2, 3),
                                   LedgerParams(1048576, 65536, 8, 8, 32),
                                   MonetaryParams(1000000, 100, 10))

validate_consensus(c) ==
    /\ c.slot_duration_ms # 0 /\ c.epoch_slots # 0 /\ c.k_finality # 0
    /\ c.honest_stake_num # 0 /\ c.honest_stake_num <= c.honest_stake_den
validate_ledger(l) ==
    /\ l.max_tx_bytes # 0 /\ l.max_tx_bytes <= l.max_block_bytes
    /\ l.max_tx_inputs # 0 /\ l.max_tx_outputs # 0 /\ l.max_block_txs # 0
validate_monetary(m) ==
    m.total_supply # 0 /\ m.initial_block_reward <= m.total_supply /\ m.halving_interval_blocks # 0
validate_params(p) ==
    validate_consensus(p.consensus) /\ validate_ledger(p.ledger) /\ validate_monetary(p.monetary)
load_protocol_params(cfg, file) ==
    IF file # None THEN IF validate_params(file) THEN file ELSE None
    ELSE CASE cfg.network = "mainnet" -> mainnet_params
           [] cfg.network = "testnet" -> testnet_params
           [] OTHER -> ephemeral_params

-------------------------------------------------------------------------------
(* Stores.                                                                     *)
empty_stores == [utxo |-> {}, chain |-> ZERO, stored |-> {}, by_height |-> <<>>]
Down(starts) == [phase |-> "down", starts |-> starts, config |-> None, params |-> None,
                 genesis_keys |-> None, network |-> FALSE, dialed |-> {}, ticker |-> FALSE,
                 signalled |-> FALSE]

\* A block of these transactions applies if each spends a coin that is there.
Spends(txs) == {Coin(t) : t \in txs}
Applies(utxo, txs) == Spends(txs) \subseteq utxo /\ Cardinality(Spends(txs)) = Cardinality(txs)
apply_block(utxo, txs) == (utxo \ Spends(txs)) \cup txs
revert_block(utxo, txs) == (utxo \ txs) \cup Spends(txs)
Ledger(path) ==
    LET after[n \in 0..Len(path)] ==
            IF n = 0 THEN GenesisCoins ELSE apply_block(after[n - 1], path[n].txs)
    IN  after[Len(path)]

Init == /\ process = Down(0) /\ files \in [config : ConfigFiles, params : ParamFiles, keys : {None}]
        /\ stores = empty_stores /\ pool = {} /\ queue = <<>> /\ handling = no_block
        /\ query = idle /\ lapse = FALSE

-------------------------------------------------------------------------------
(* main: --init writes the configuration, and on devnet the genesis keys.      *)
(* Those are derived from a fixed mnemonic, other networks' made at each start. *)
devnet_genesis == "keys of DEVNET_TEST_MNEMONIC"
genesis_keys_of(cfg) ==
    IF cfg.network \in {"devnet", "ephemeral"} THEN devnet_genesis ELSE "fresh"
Initialise(args) ==
    LET cfg == init_config(args, files.config)
    IN  /\ process.phase = "down" /\ args.init /\ cfg # None
        /\ files' = [files EXCEPT !.config = cfg,
                                   !.keys = IF cfg.network = "devnet" THEN devnet_genesis ELSE @]
        /\ UNCHANGED <<process, stores, pool, queue, handling, query>>

Load(args) ==
    LET cfg == run_config(args, files.config)
    IN  /\ process.phase = "down" /\ ~args.init /\ cfg # None /\ process.starts < MaxStarts
        /\ process' = [process EXCEPT !.phase = "loaded", !.starts = @ + 1, !.config = cfg]
        /\ UNCHANGED <<files, stores, pool, queue, handling, query>>

\* The metrics exporter cannot be installed: main returns its error.
ExporterFails ==
    /\ process.phase = "loaded"
    /\ process' = Down(process.starts)
    /\ UNCHANGED <<files, stores, pool, queue, handling, query>>

\* Node::new: the stores are in memory and therefore empty, so genesis is applied at every
\* start; a node without a network goes on.  Protocol parameters that are invalid end it.
maybe_apply_genesis(s) ==
    IF s.utxo # {} THEN s ELSE [s EXCEPT !.utxo = GenesisCoins, !.by_height = <<ZERO>>]
init_network_node(cfg, listens) ==
    cfg.node_key_seed_hex # Malformed /\ cfg.listen_addr # Malformed /\ listens
New(listens) ==
    LET params == load_protocol_params(process.config, files.params)
    IN  /\ process.phase = "loaded"
        /\ IF params # None
             THEN /\ process' = [process EXCEPT !.phase = "built", !.params = params,
                                    !.genesis_keys = genesis_keys_of(process.config),
                                    !.network = init_network_node(process.config, listens)]
                  /\ stores' = maybe_apply_genesis(empty_stores)
             ELSE process' = Down(process.starts) /\ UNCHANGED stores
        /\ UNCHANGED <<files, pool, queue, handling, query>>

\* Node::run: the network task, which first dials the seed nodes that have an address, the
\* ticker (its failure is only logged), the RPC server.
bootstrap_seed_nodes(cfg) == {seed \in cfg.seed_nodes : seed # Malformed}
StartTasks(ticker_ok) ==
    /\ process.phase = "built"
    /\ process' = [process EXCEPT !.phase = "tasks",
                      !.dialed = IF process.network THEN bootstrap_seed_nodes(process.config) ELSE {},
                      !.ticker = process.config.stake_pool /\ ticker_ok]
    /\ UNCHANGED <<files, stores, pool, queue, handling, query>>
Exit == /\ process' = Down(process.starts) /\ stores' = empty_stores /\ pool' = {} /\ queue' = <<>>
        /\ UNCHANGED <<files, handling, query>>
BindRpc(bound) ==
    /\ process.phase = "tasks"
    /\ IF bound THEN /\ process' = [process EXCEPT !.phase = "running"]
                     /\ UNCHANGED <<files, stores, pool, queue, handling, query>>
                ELSE Exit

\* Events reach the channel as soon as there are tasks, and until the process ends.
HasTasks == process.phase \in {"tasks", "running", "stopping"}
Offer(parent, body) ==
    /\ HasTasks /\ (process.network \/ process.ticker) /\ Len(queue) < MaxQueue
    /\ Len(parent) < MaxHeight
    /\ queue' = Append(queue, [parent |-> parent, body |-> body])
    /\ UNCHANGED <<process, files, stores, pool, handling, query>>

-------------------------------------------------------------------------------
(* handle_block, one step per lock it takes.                                   *)
Step(step, h) == handling' = [step |-> step, path |-> h]
BlockReceived ==
    LET b == Head(queue)
        h == Append(b.parent, b.body)
    IN  /\ process.phase = "running" /\ handling = no_block /\ queue # <<>>
        /\ queue' = Tail(queue)
        /\ IF b.parent = stores.chain /\ Applies(stores.utxo, b.body.txs)
             THEN Step("applied", h) /\ stores' = [stores EXCEPT !.utxo = apply_block(@, b.body.txs)]
             ELSE UNCHANGED <<handling, stores>>
        /\ UNCHANGED <<process, files, pool, query>>

CheckCommitment ==
    /\ handling.step = "applied" /\ ~Last(handling.path).good
    /\ stores' = [stores EXCEPT !.utxo = revert_block(@, Last(handling.path).txs)]
    /\ handling' = no_block
    /\ UNCHANGED <<process, files, pool, queue, query>>
AddBlock_cleans_pool ==
    /\ handling.step = "applied" /\ Last(handling.path).good
    /\ stores' = [stores EXCEPT !.chain = handling.path] /\ Step("added", handling.path)
    /\ pool' = {t \in pool : Coin(t) \notin Spends(Last(handling.path).txs)}
    /\ UNCHANGED <<process, files, queue, query>>
AddBlock ==
    /\ handling.step = "applied" /\ Last(handling.path).good
    /\ stores' = [stores EXCEPT !.chain = handling.path] /\ Step("added", handling.path)
    /\ UNCHANGED <<process, files, pool, queue, query>>
PutBlock ==
    /\ handling.step = "added"
    /\ stores' = [stores EXCEPT !.stored = @ \cup {handling.path}, !.by_height = Append(@, handling.path)]
    /\ Step("stored", handling.path)
    /\ UNCHANGED <<process, files, pool, queue, query>>
RemoveConfirmed ==
    /\ handling.step = "stored"
    /\ pool' = {t \in pool : Coin(t) \notin Spends(Last(handling.path).txs)}
    /\ handling' = no_block
    /\ UNCHANGED <<process, files, stores, queue, query>>

-------------------------------------------------------------------------------
(* The RPC server, while it is up.                                             *)
Serving == process.phase \in {"running", "stopping"}

send_transaction(t) ==
    /\ Serving /\ \A p \in pool : Coin(p) # Coin(t)
    /\ pool' = pool \cup {t}
    /\ UNCHANGED <<process, files, stores, queue, handling, query>>

Asks(q) == Serving /\ query = idle /\ query' = q
Becomes(q) == query' = q /\ UNCHANGED <<process, files, stores, pool, queue, handling>>

ancestors(path, count) ==
    LET most == IF count < Len(path) + 1 THEN count ELSE Len(path) + 1
    IN  [i \in 1..most |-> SubSeq(path, 1, Len(path) + 1 - i)]
get_block(hash) == IF hash \in stores.stored THEN hash ELSE None
Holds(hash, t) == LET b == get_block(hash) IN b # None /\ t \in Last(hash).txs

get_tx(t) == Asks([method |-> "getTx", tx |-> t, step |-> "pool"])
             /\ UNCHANGED <<process, files, stores, pool, queue, handling>>
SearchPool ==
    /\ query.method = "getTx" /\ query.step = "pool"
    /\ Becomes(IF query.tx \in pool THEN [query EXCEPT !.step = "found"]
               ELSE [query EXCEPT !.step = "chain"])
ReadAncestors ==
    /\ query.method = "getTx" /\ query.step = "chain"
    /\ Becomes([method |-> "getTx", tx |-> query.tx, step |-> "blocks",
                left |-> ancestors(stores.chain, Lookback)])
SearchBlock ==
    /\ query.method = "getTx" /\ query.step = "blocks"
    /\ Becomes(IF query.left = <<>> THEN [method |-> "getTx", tx |-> query.tx, step |-> "missing"]
               ELSE IF Holds(Head(query.left), query.tx)
               THEN [method |-> "getTx", tx |-> query.tx, step |-> "found"]
               ELSE [query EXCEPT !.left = Tail(@)])

\* A client reads the tip and then asks for its block; another reads the coins.
get_tip == Asks([method |-> "getTip", step |-> "tip", hash |-> stores.chain])
           /\ UNCHANGED <<process, files, stores, pool, queue, handling>>
get_block_by_hash ==
    /\ query.method = "getTip" /\ query.step = "tip"
    /\ Becomes([query EXCEPT !.step = IF get_block(query.hash) # None THEN "found" ELSE "missing"])
get_block_by_height(h) ==
    IF h < Len(stores.by_height) THEN stores.by_height[h + 1] ELSE None
get_utxo(coin) == coin \in stores.utxo

Answered == query # idle /\ (query.method \in {"getTx", "getTip"} => query.step \in {"found", "missing"})
Reply == Answered /\ Becomes(idle)

-------------------------------------------------------------------------------
(* The end.  select! takes a signal only between two events.                   *)
Signal == /\ HasTasks /\ ~process.signalled
          /\ process' = [process EXCEPT !.signalled = TRUE]
          /\ UNCHANGED <<files, stores, pool, queue, handling, query>>
LeaveLoop == /\ process.phase = "running" /\ process.signalled /\ handling = no_block
             /\ process' = [process EXCEPT !.phase = "stopping"]
             /\ UNCHANGED <<files, stores, pool, queue, handling, query>>
StopRpc == /\ process.phase = "stopping"
           /\ process' = [process EXCEPT !.phase = "closing"] /\ query' = idle
           /\ UNCHANGED <<files, stores, pool, queue, handling>>
Shutdown == process.phase = "closing" /\ Exit

-------------------------------------------------------------------------------
Startup == \/ \E args \in Invocations : Initialise(args) \/ Load(args)
           \/ ExporterFails
           \/ \E ok \in BOOLEAN : New(ok) \/ StartTasks(ok) \/ BindRpc(ok)
MainLoop == \/ \E parent \in Prefixes(stores.chain), txs \in Bodies, good \in BOOLEAN :
                   Offer(parent, [txs |-> txs, good |-> good])
            \/ BlockReceived \/ CheckCommitment \/ AddBlock \/ PutBlock \/ RemoveConfirmed
Rpc == \/ \E t \in Txs : send_transaction(t) \/ get_tx(t)
       \/ SearchPool \/ ReadAncestors \/ SearchBlock \/ get_tip \/ get_block_by_hash \/ Reply
End == Signal \/ LeaveLoop \/ StopRpc \/ Shutdown

\* Listed: in a block of the chain that get_tx looks through, stored or about to be.  A
\* transaction asked for lapses if it is neither pooled nor stored when the request comes,
\* if it is neither pooled nor listed later, or listed no longer.
Listed(t) == \E h \in Range(ancestors(stores.chain, Lookback)) : h # ZERO /\ t \in Last(h).txs
Stored(t) == \E h \in Range(ancestors(stores.chain, Lookback)) : Holds(h, t)
Watch == lapse' = IF query' = idle \/ query'.method # "getTx" THEN FALSE
                  ELSE IF query = idle THEN query.tx' \notin pool /\ ~Stored(query.tx')
                  ELSE \/ lapse
                       \/ query.tx \notin pool' /\ ~Listed(query.tx)'
                       \/ Listed(query.tx) /\ ~Listed(query.tx)'

Next == (Startup \/ MainLoop \/ Rpc \/ End) /\ Watch
Spec == Init /\ [][Next]_vars

-------------------------------------------------------------------------------
\* A transaction that is pooled or stored when it is asked for, and pooled or in the chain
\* from then on, is found, although the pool, the chain and the blocks are read under three
\* locks and handle_block moves it from one to the other meanwhile (get_tx, handle_block
\* steps 4 to 6).
NeverMissed == (query # idle /\ query.method = "getTx") =>
                   (query.step = "missing" => lapse)

\* What the server shows: the coins are those of the chain, or of the chain and the block
\* in handling; a hash given as the tip has its block, but for genesis and for a block
\* about to be stored; heights and the chain agree (handle_block, get_utxo, get_tip).
ShowsTheChain ==
    Serving =>
        /\ \/ stores.utxo = Ledger(stores.chain)
           \/ handling.step = "applied" /\ stores.utxo = Ledger(handling.path)
        /\ (query # idle /\ query.method = "getTip" /\ query.step = "missing") =>
               (query.hash = ZERO \/ handling # no_block \/ query.hash \in stores.stored)
        /\ \A h \in 0..Len(stores.chain) :
               get_block_by_height(h) = SubSeq(stores.chain, 1, h)
                 \/ (h = Len(stores.chain) /\ handling.step = "added")

\* The loop ends between two blocks: nothing is half applied when the server stops.
CleanStop == process.phase \in {"stopping", "closing"} =>
                 /\ handling = no_block
                 /\ stores.utxo = Ledger(stores.chain)
                 /\ stores.chain # ZERO => stores.chain \in stores.stored

\* A node that serves runs with parameters that make sense, whatever files it found; one that
\* was initialised for devnet has given out the keys to its genesis coins, at whichever start
\* (load_protocol_params, devnet_genesis, main).
StartsSound == process.phase \in {"built", "tasks", "running", "stopping", "closing"} =>
                   /\ validate_params(process.params)
                   /\ process.config.network = "devnet" /\ files.keys # None =>
                          files.keys = process.genesis_keys
                   /\ process.dialed # {} => process.network

ServesTrueState == NeverMissed /\ ShowsTheChain /\ CleanStop /\ StartsSound
================================================================================
