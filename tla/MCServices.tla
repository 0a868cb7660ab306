------------------------------ MODULE MCServices ------------------------------
(* The parts that run for long and meet messages, other requests, clocks and   *)
(* failures: the network layer, the node as a service, the block producers of  *)
(* a devnet, the miner and its keys, the encrypted mempool, the lending pools  *)
(* and the wallet, each on a small instance.  They are instantiated with no    *)
(* state in common, so a behaviour exercises one of them: focus says which,    *)
(* and x1 to x10 are its variables in the order of their declaration.          *)
EXTENDS Integers, Sequences, TLC

CONSTANTS None, Torn,
          Peers, Connections, OldVersion,
          Sources, Messages, max_per_window, window_secs, seen_cache_ttl_secs,
          seen_cache_capacity, forget_secs, MaxClock,
          Nodes, MaxHash, MaxSlot, k_finality, window_slots, dense_entries, max_headers,
          Members, genesis_pools, Idle, Variants, LastSlot, MaxDue,
          slot_duration_ms, epoch_slots, tick_ms, MaxTime, FIXED_BITS, LN_ONE_MINUS_F_MAG,
          LEADER_EXP_TERMS, VrfValues, miner_stake, network_stake, MaxBlocks,
          VrfKey, KesKey, Nonce, Txs,
          KES_TREE_DEPTH, Headers, KeyPasswords, MaxSignatures,
          Payments, Coin(_), GenesisCoins, Bodies, Lookback, Malformed, Invocations,
          ConfigFiles, ParamFiles, MaxHeight, MaxQueue, MaxStarts,
          Envelopes, Body(_), Garbage, WellFormed(_), SizeOf(_), ClearSnapshots, RankValues,
          committee_size, committee_threshold, max_tx_count, max_pool_bytes, max_age_secs,
          MaxAmount, Subsidy, Coinbase, MaxEpoch, PoolClock, MaxShares,
          Owners, LoanAmounts, OpenPositions, LoanTerms, U16, BPS, Q64,
          slots_per_year, LoanSlots,
          Users, Local, Accounts, Passwords, ShortPasswords, DEVNET_TEST_MNEMONIC, Phrases,
          Labels, Tokens, Requests, session_ttl, SessionClock, MaxViews

VARIABLES focus, x1, x2, x3, x4, x5, x6, x7, x8, x9, x10

-------------------------------------------------------------------------------
Message(id, kind, decodes) == [id |-> id, kind |-> kind, decodes |-> decodes]
MCMessages == {Message(1, "Block", TRUE), Message(2, "Transaction", TRUE), Message(3, "Vote", FALSE)}

S == INSTANCE Sessions WITH ends <- x1, phase <- x2, request <- x3, session <- x4, peers <- x5,
        crossed <- x6
G == INSTANCE GossipIntake WITH clock <- x1, buckets <- x2, seen <- x3, last <- x4,
        failures <- x5, events <- x6, accepted <- x7
Y == INSTANCE Sync WITH chain <- x1, fresh <- x2, state <- x3, mail <- x4
MCPools == <<1, 2>>
D == INSTANCE Devnet WITH slot <- x1, chains <- x2, inbox <- x3, ticker <- x4, air <- x5,
        heard <- x6, late <- x7
M == INSTANCE Miner WITH now <- x1, due <- x2, loop <- x3, node <- x4, work <- x5,
        submitted <- x6, pool_stake <- miner_stake, total_stake <- network_stake
K == INSTANCE Kes WITH sk <- x1, file <- x2, signed <- x3, Passwords <- KeyPasswords

MCCoin(t) == "a"
Args(init, network, listen, rpc_addr) ==
    [init |-> init, network |-> network, listen |-> listen, rpc_addr |-> rpc_addr]
WrittenConfig(peers, pool_size) ==
    [network |-> "custom", listen_addr |-> "any", rpc_addr |-> "127.0.0.1:8545", stake_pool |-> FALSE,
     max_peers |-> peers, max_clear_pool_size |-> pool_size, seed_nodes |-> {"seed", Malformed}, node_key_seed_hex |-> None]
NoEpochs == [network |-> "Testnet", consensus |-> [slot_duration_ms |-> 2000, epoch_slots |-> 0,
               k_finality |-> 50, honest_stake_num |-> 51, honest_stake_den |-> 100],
             ledger |-> [max_block_bytes |-> 2, max_tx_bytes |-> 1, max_tx_inputs |-> 1,
               max_tx_outputs |-> 1, max_block_txs |-> 1],
             monetary |-> [total_supply |-> 2, initial_block_reward |-> 1, halving_interval_blocks |-> 1]]
MCConfigs == {None, WrittenConfig(1, 1), WrittenConfig(0, 1), WrittenConfig(1, 0)}
MCParams == {None, NoEpochs}
MCInvocations == {Args(TRUE, "devnet", None, "127.0.0.1:8545"),
                  Args(FALSE, "testnet", None, "127.0.0.1:8545"),
                  Args(TRUE, "custom", Malformed, "127.0.0.1:1")}
V == INSTANCE NodeService WITH process <- x1, files <- x2, stores <- x3, pool <- x4, queue <- x5,
        handling <- x6, query <- x7, lapse <- x8, Txs <- Payments

-------------------------------------------------------------------------------
MCBody(e) == CASE e = "e1" -> "t1" [] e = "e2" -> "t2" [] OTHER -> Garbage
MCWellFormed(e) == TRUE
MCSizeOf(e) == IF e = "e3" THEN 2 ELSE 1
Pooled(tx, fee) == [tx |-> tx, fee |-> fee]
MCClear == {<<>>, <<Pooled("t1", 1)>>, <<Pooled("t1", 2), Pooled("t2", 2)>>}
EP == INSTANCE EncryptedPool WITH by_id <- x1, current_epoch <- x2, total_bytes <- x3,
        now <- x4, shares <- x5, block <- x6, MaxTime <- PoolClock

Position(collateral, debt) == [collateral_shares |-> collateral, debt |-> debt]
Rates(ltv, threshold, bonus, multiplier) ==
    [base_rate_bps |-> 1, slope_bps |-> 3, ltv_max_bps |-> ltv, interest_multiplier_q64 |-> multiplier,
     liquidation_threshold_bps |-> threshold, liquidation_bonus_bps |-> bonus]
MCPositions == {Position(0, 0), Position(5, 2), Position(6, 4), Position(7, 3)}
MCTerms == {Rates(2, 3, 1, Q64), Rates(3, 2, 1, 7), Rates(5, 6, 1, Q64)}
LP == INSTANCE Lending WITH pool <- x1, positions <- x2, slot <- x3,
        Amounts <- LoanAmounts, Terms <- LoanTerms, MaxSlot <- LoanSlots

WS == INSTANCE Wallet WITH backend <- x1, keystore <- x2, contacts <- x3, sessions <- x4,
        unlocked <- x5, issued <- x6, request <- x7, now <- x8, fresh <- x9, overlapped <- x10,
        MaxTime <- SessionClock

-------------------------------------------------------------------------------
\* The members of each of these sets are interchangeable.
Symmetry == Permutations(Nodes) \cup Permutations(Variants)
            \cup Permutations(Tokens) \cup Permutations(Requests)

\* The variables that a component leaves unused.
Free4 == x4 = None /\ x5 = None /\ x6 = None /\ x7 = None /\ x8 = None /\ x9 = None /\ x10 = None
Free5 == x5 = None /\ x6 = None /\ x7 = None /\ x8 = None /\ x9 = None /\ x10 = None
Free7 == x7 = None /\ x8 = None /\ x9 = None /\ x10 = None
Free8 == x8 = None /\ x9 = None /\ x10 = None
Free9 == x9 = None /\ x10 = None

Init == \/ focus = "sessions" /\ S!Init /\ Free7
        \/ focus = "gossip" /\ G!Init /\ Free8
        \/ focus = "sync" /\ Y!Init /\ Free5
        \/ focus = "devnet" /\ D!Init /\ Free8
        \/ focus = "miner" /\ M!Init /\ Free7
        \/ focus = "kes" /\ K!Init /\ Free4
        \/ focus = "service" /\ V!Init /\ Free9
        \/ focus = "encrypted" /\ EP!Init /\ Free7
        \/ focus = "lending" /\ LP!Init /\ Free4
        \/ focus = "wallet" /\ WS!Init

Next == /\ UNCHANGED focus
        /\ \/ focus = "sessions" /\ S!Next /\ UNCHANGED <<x7, x8, x9, x10>>
           \/ focus = "gossip" /\ G!Next /\ UNCHANGED <<x8, x9, x10>>
           \/ focus = "sync" /\ Y!Next /\ UNCHANGED <<x5, x6, x7, x8, x9, x10>>
           \/ focus = "devnet" /\ D!Next /\ UNCHANGED <<x8, x9, x10>>
           \/ focus = "miner" /\ M!Next /\ UNCHANGED <<x7, x8, x9, x10>>
           \/ focus = "kes" /\ K!Next /\ UNCHANGED <<x4, x5, x6, x7, x8, x9, x10>>
           \/ focus = "service" /\ V!Next /\ UNCHANGED <<x9, x10>>
           \/ focus = "encrypted" /\ EP!Next /\ UNCHANGED <<x7, x8, x9, x10>>
           \/ focus = "lending" /\ LP!Next /\ UNCHANGED <<x4, x5, x6, x7, x8, x9, x10>>
           \/ focus = "wallet" /\ WS!Next

vars == <<focus, x1, x2, x3, x4, x5, x6, x7, x8, x9, x10>>
Spec == Init /\ [][Next]_vars

-------------------------------------------------------------------------------
\* Handshakes that follow each other leave the same secret at both ends
\* (respond_to_hello, process_ack).
SessionsAgree == focus = "sessions" => S!SessionsAgree

\* Sessions and the mark Connected do not outlive the connections (ConnectionClosed).
SessionsAreLive == focus = "sessions" => S!SessionsAreLive

\* The main loop sees a message again only after its time or under pressure
\* (SeenCache::insert).
Filtered == focus = "gossip" => G!Filtered

\* A locator finds the fork of any two chains (build_locator).
LocatorFindsFork == focus = "sync" => Y!LocatorFindsFork

\* Two nodes swap their chains only when the fork is shallow for the one and deep for the
\* other, and the shorter branch is the denser one (maxvalid_bg).
SwapsExact == focus = "sync" => Y!SwapsExact

\* Round-robin producers stay on one chain as long as every block arrives, and within
\* its slot (slot_ticker.rs, validate_chain_linkage).
OneChain == focus = "devnet" => D!OneChain

\* The devnet alone, and what slot_ticker.rs says of it: "the multi-node devnet never forks".
DevnetSpec == Init /\ focus = "devnet" /\ [][Next]_vars
NeverForks == focus = "devnet" => D!NeverForks

\* The miner never signs two headers for one slot, whatever its loop is late by
\* (advance_slot).
SignsOnce == focus = "miner" => M!SignsOnce

\* A key that evolves, is saved and loaded again signs what verifies, and only for
\* the period it is in (kes.rs, keys.rs).
SignaturesExact == focus = "kes" => K!SignaturesExact

\* What the RPC server answers, while blocks are handled and when the node stops, is
\* true of the chain (get_tx, get_tip, handle_block, Node::shutdown).
ServesTrueState == focus = "service" => V!ServesTrueState

\* The encrypted pool's counters are those of its entries, all of the current epoch
\* (add, remove, evict_expired, advance_epoch, drain_all).
Accounted == focus = "encrypted" => EP!Accounted

\* The totals of a lending pool are the sums over its positions (deposit, borrow,
\* repay, withdraw, liquidate).
BooksBalance == focus = "lending" => LP!BooksBalance

\* No operation makes a covered position liquidatable, and what is covered is sound by
\* is_collateralized and, where it can be computed, health_factor (borrow, withdraw, liquidate).
CoveredStays == [][focus = "lending" => LP!KeepsCovered]_vars

\* No request in progress revives a session that was logged out (SessionStore::replace).
LogoutFinal == [][focus = "wallet" => WS!LogoutFinal]_vars

\* One stealth address per account as long as requests do not overlap (unlock_account).
SerialSameAddress == focus = "wallet" => WS!SerialSameAddress

===============================================================================
