------------------------------- MODULE Operator -------------------------------
(* The operator's side of qv-miner before the slot loop: the configuration and *)
(* the keystore on disk, the subcommands, the start of the daemon against a    *)
(* node that may stop, start again with other pools, or be no node at all.     *)
EXTENDS Integers, Sequences, SequencesExt

CONSTANTS Seeds, Passwords,   \* "password" is the one that two subcommands assume
          Margins, Pledges,   \* arguments of init
          Distributions,      \* what nodes answer: sequences of rows [pool, stake]
          Nonces,             \* [bytes, well_formed]: what servers answer
          MaxBps, MaxU64,     \* 10000, 2^64 - 1
          MaxRows,            \* bound on the registrations
          None

VARIABLES config,      \* operator.toml
          keystore,    \* the keystore file: [seed, password]
          server,      \* what answers at the RPC address
          daemon,      \* the stage of cmd_run and what it has read
          registered   \* transactions that register-pool built, and from which seed

vars == <<config, keystore, server, daemon, registered>>

-------------------------------------------------------------------------------
OperatorConfig(pool_id, pledge, margin_bps, reward_account) ==
    [pool_id |-> pool_id, pledge |-> pledge, margin_bps |-> margin_bps,
     reward_account |-> reward_account, node_rpc_url |-> "http://localhost:8080"]

validate(c) ==
    /\ c.pool_id # ""
    /\ c.margin_bps <= MaxBps
    /\ c.node_rpc_url # ""
    /\ c.reward_account # ""

\* Each key comes from the master seed under its own tag.
OperatorKeys(seed) == [vrf |-> <<seed, "vrf">>, kes |-> <<seed, "kes">>, cold |-> <<seed, "cold">>]
load_encrypted(password) ==
    IF keystore # None /\ keystore.password = password THEN OperatorKeys(keystore.seed) ELSE None

PoolId(vrf_key) == <<"sha3", vrf_key>>

\* build_pool_registration_tx: a dummy input, and the pledge under an empty script.
PoolRegistrationDatum(c, keys) ==
    [pool_id |-> c.pool_id, vrf_key |-> keys.vrf, kes_key |-> keys.kes, pledge |-> c.pledge,
     margin_bps |-> c.margin_bps, reward_account |-> c.reward_account]
build_pool_registration_tx(c, keys) ==
    [input |-> <<"zero", 0>>, value |-> c.pledge, datum |-> PoolRegistrationDatum(c, keys)]

-------------------------------------------------------------------------------
\* NodeRpcClient::call: a transport error, an HTTP status, an error object or a missing
\* result are all one failure.
call(method) == IF server = None THEN None ELSE server[method]

decode_pool_id_hex(row) == IF row.well_formed THEN row.pool ELSE None

\* StakeDistribution::new skips empty rows, adds up the rows of a pool and refuses a
\* total that overflows.
TotalOf(rows) == FoldSeq(LAMBDA r, acc : r.stake + acc, 0, rows)
StakeOf(rows, pool) == TotalOf(SelectSeq(rows, LAMBDA r : r.pool = pool))
get_stake_distribution ==
    LET rows == call("stake") IN
    IF \/ rows = None
       \/ \E i \in DOMAIN rows : decode_pool_id_hex(rows[i]) = None
       \/ TotalOf(rows) > MaxU64
    THEN None
    ELSE SelectSeq(rows, LAMBDA r : r.stake > 0)

get_epoch_nonce ==
    LET n == call("nonce") IN IF n = None \/ ~n.well_formed THEN None ELSE n.bytes

-------------------------------------------------------------------------------
Off == [stage |-> "off"]

Init ==
    /\ config = None /\ keystore = None /\ server = None
    /\ daemon = Off
    /\ registered = <<>>

\* The keys that init generates are dropped; the configuration replaces an earlier one.
cmd_init ==
    \E pledge \in Pledges, margin \in Margins :
        LET c == OperatorConfig("pool_1", pledge, margin, "qvaddr_reward") IN
        /\ validate(c)
        /\ config' = c
        /\ UNCHANGED <<keystore, server, daemon, registered>>

\* The operator edits the file: the reward account goes missing.
EditConfig ==
    /\ config # None
    /\ config' = [config EXCEPT !.reward_account = ""]
    /\ UNCHANGED <<keystore, server, daemon, registered>>

\* No subcommand writes the keystore; a tool built on OperatorKeys::save_encrypted does.
SaveKeystore ==
    /\ \E s \in Seeds, p \in Passwords : keystore' = [seed |-> s, password |-> p]
    /\ UNCHANGED <<config, server, daemon, registered>>

\* load_toml does not validate.  submit_via_rpc answers without sending anything.
cmd_register_pool ==
    /\ Len(registered) < MaxRows
    /\ config # None
    /\ load_encrypted("password") # None
    /\ registered' = Append(registered,
            [tx |-> build_pool_registration_tx(config, load_encrypted("password")),
             seed |-> keystore.seed])
    /\ UNCHANGED <<config, keystore, server, daemon>>

\* What keys-show prints.
cmd_keys_show == IF config = None THEN None ELSE load_encrypted("password")

\* cmd_run: configuration and keys, then one call after the other.
cmd_run ==
    \E p \in Passwords :
        /\ daemon = Off
        /\ config # None /\ validate(config)
        /\ load_encrypted(p) # None
        /\ daemon' = [stage |-> "stake", keys |-> load_encrypted(p), config |-> config]
        /\ UNCHANGED <<config, keystore, server, registered>>

RefusesStake(rows) ==
    rows = None \/ rows = <<>> \/ StakeOf(rows, PoolId(daemon.keys.vrf)) = 0

FetchStake ==
    /\ daemon.stage = "stake"
    /\ LET rows == get_stake_distribution IN
       daemon' = IF RefusesStake(rows) THEN Off
                 ELSE [stage |-> "nonce", keys |-> daemon.keys, config |-> daemon.config,
                       pool_id |-> PoolId(daemon.keys.vrf),
                       pool_stake |-> StakeOf(rows, PoolId(daemon.keys.vrf)),
                       total_stake |-> TotalOf(rows)]
    /\ UNCHANGED <<config, keystore, server, registered>>

FetchNonce ==
    /\ daemon.stage = "nonce"
    /\ daemon' = IF get_epoch_nonce = None THEN Off
                 ELSE [stage |-> "running", keys |-> daemon.keys, config |-> daemon.config,
                       pool_id |-> daemon.pool_id, pool_stake |-> daemon.pool_stake,
                       total_stake |-> daemon.total_stake, nonce |-> get_epoch_nonce]
    /\ UNCHANGED <<config, keystore, server, registered>>

StopDaemon ==
    /\ daemon # Off
    /\ daemon' = Off
    /\ UNCHANGED <<config, keystore, server, registered>>

ServerChanges ==
    /\ \/ \E d \in Distributions, n \in Nonces : server' = [stake |-> d, nonce |-> n]
       \/ server' = None
    /\ UNCHANGED <<config, keystore, daemon, registered>>

Next ==
    \/ cmd_init \/ EditConfig \/ SaveKeystore \/ cmd_register_pool
    \/ cmd_run \/ FetchStake \/ FetchNonce \/ StopDaemon
    \/ ServerChanges

Spec == Init /\ [][Next]_vars

-------------------------------------------------------------------------------
\* A daemon that runs has a valid configuration, whatever the file says by now, and a
\* share of the stake of its own pool that a node really answered: positive and at most
\* the total (cmd_run, get_stake_distribution).
RunsAsRegistered ==
    daemon.stage = "running" =>
        /\ validate(daemon.config)
        /\ daemon.nonce \in {n.bytes : n \in {m \in Nonces : m.well_formed}}
        /\ \E d \in Distributions :
             /\ daemon.total_stake = TotalOf(d)
             /\ daemon.pool_stake = StakeOf(d, daemon.pool_id)
             /\ daemon.pool_stake \in 1..daemon.total_stake

\* keys-show lists the keys of the registrations made from the same keystore
\* (cmd_keys_show, OperatorKeys::from_seed).
ShowsRegistered ==
    cmd_keys_show # None =>
        \A i \in DOMAIN registered :
            registered[i].seed = keystore.seed <=>
                cmd_keys_show.vrf = registered[i].tx.datum.vrf_key

OperatorSound == RunsAsRegistered /\ ShowsRegistered

===============================================================================
