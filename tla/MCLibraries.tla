------------------------------ MODULE MCLibraries ------------------------------
(* Computations, contracts, formats and tools: threshold encryption, contracts *)
(* and their arithmetic, the wallet's spends and its page, stealth payments    *)
(* and addresses, the stores and the byte formats, the genesis ceremony, stake *)
(* and the operator's commands, each on a small instance.  The modules are     *)
(* instantiated with no state in common, so a behaviour exercises one of them: *)
(* focus says which, and x1 to x10 are its variables in the order of their     *)
(* declaration.                                                                *)
EXTENDS Integers, Sequences, TLC

CONSTANTS None, Torn, Keys, PoolIds, Tokens, Requests

VARIABLES focus, x1, x2, x3, x4, x5, x6, x7, x8, x9, x10

-------------------------------------------------------------------------------
T == INSTANCE Threshold WITH round <- x1, held <- x2, sealed <- x3,
        P <- 11, GENERATOR <- 2, Coefficients <- {0, 1, 4, 9}, threshold <- 2, total <- 3,
        MaxHeld <- 3

-------------------------------------------------------------------------------
Order(id, direction, amount, least, density, time, pool) ==
    [order_tx_id |-> id, pool_id |-> pool, direction |-> direction, offer_amount |-> amount,
     min_receive |-> least, fee_density |-> density, timestamp_ms |-> time]
MCOrders == {Order(1, "AtoB", 3, 0, 1, 1, 1), Order(2, "BtoA", 4, 2, 1, 1, 1),
             Order(3, "AtoB", 2, 1, 2, 1, 1), Order(4, "BtoA", 1, 0, 1, 2, 2)}
A == INSTANCE Amm WITH pool <- x1, queue <- x2,
        MaxU64 <- 11, BPS <- 10, BATCH_FEE <- 3, BATCH_BASE <- 10, Amounts <- {1, 3, 5},
        FeeChoices <- {0, 3}, Orders <- MCOrders, MaxBatch <- 2

O == INSTANCE Oracle WITH observations <- x1,
        Prices <- {0, 1, 2, 8, 60}, max_size <- 4, max_deviation_bps <- 12,
        U16 <- 64, MaxU128 <- 127, BPS <- 10, MaxSlot <- 3

Bytes(name) == <<<<1, <<"id", <<name>>>>>>>>
AmmDatum(a, b, fee) ==
    [token_a |-> Bytes("ta"), token_b |-> Bytes("tb"), reserve_a |-> a, reserve_b |-> b,
     lp_total |-> 4, fee_bps |-> fee]
LendingDatum(id, collateral, debt) ==
    [ids |-> Bytes(id) \o Bytes("tc") \o Bytes("td"), collateral |-> collateral, debt |-> debt,
     params |-> <<<<1>>, <<2>>, <<7>>, <<8>>, <<1>>>>, interest |-> <<<<0>>, <<1>>, <<0>>>>]
V == INSTANCE DefiTx WITH job <- x1, ip <- x2, stack <- x3, exec_stack <- x4, gas <- x5,
        status <- x6,
        W <- 32, MAX_STACK_DEPTH <- 64, MAX_SCRIPT_SIZE <- 400, GasLimit <- 100000, BPS <- 10,
        LENDING_PRICE_SCALE <- 2, Keys <- {"user", "oracle"}, Oracle <- "oracle",
        AmmDatums <- {AmmDatum(3, 7, 3), AmmDatum(20, 5, 0)},
        LendingDatums <- {LendingDatum("p1", 7, 3), LendingDatum("p2", 20, 0)},
        Numbers <- {1, 7, 20}, Moves <- {1, 5}, Prices <- {1, 2}, PriceSlots <- {0, 2},
        Slots <- {1, 3}, max_price_age_slots <- 1, pool_value <- 2, user_value <- 4, tx_fee <- 1

-------------------------------------------------------------------------------
\* One panel at a time (they share nothing but the token), and up to the first disturbance,
\* as nothing is claimed after it.
B1 == INSTANCE WalletPage WITH multi <- x1, keystore <- x2, open <- x3, issued <- x4, version <- x5,
        token <- x6, page <- x7, pending <- x8, disturbed <- x9, Users <- {"u"}, Local <- "u",
        Panels <- {"accounts"}, Outputs <- {"o1"}, Blank <- Torn, MaxAccount <- 1, MaxWrites <- 1, MaxPending <- 1
B2 == INSTANCE WalletPage WITH multi <- x1, keystore <- x2, open <- x3, issued <- x4, version <- x5,
        token <- x6, page <- x7, pending <- x8, disturbed <- x9, Users <- {"u"}, Local <- "u",
        Panels <- {"history"}, Outputs <- {"o1"}, Blank <- Torn, MaxAccount <- 1, MaxWrites <- 1, MaxPending <- 1
B3 == INSTANCE WalletPage WITH multi <- x1, keystore <- x2, open <- x3, issued <- x4, version <- x5,
        token <- x6, page <- x7, pending <- x8, disturbed <- x9, Users <- {"u"}, Local <- "u",
        Panels <- {"fp-qr"}, Outputs <- {"o1", "o2"}, Blank <- Torn, MaxAccount <- 1, MaxWrites <- 1, MaxPending <- 1
B4 == INSTANCE WalletPage WITH multi <- x1, keystore <- x2, open <- x3, issued <- x4, version <- x5,
        token <- x6, page <- x7, pending <- x8, disturbed <- x9, Users <- {"u", "v"}, Local <- "u",
        Panels <- {"balance"}, Outputs <- {"o1"}, Blank <- Torn, MaxAccount <- 1, MaxWrites <- 1, MaxPending <- 1

Coin(i, owner, kind, value) == [op |-> <<0, i>>, owner |-> owner, kind |-> kind, value |-> value]
N == INSTANCE WalletSpend WITH utxo <- x1, pool <- x2, request <- x3, history <- x4, built <- x5,
        Senders <- {"a"}, Recipients <- {"b"}, Faucet <- "f", PoolOwner <- "p",
        Amounts <- {1, 3}, Fees <- {1}, PoolValues <- {1}, Offsets <- {-1, 1},
        GenesisCoins <- {Coin(1, "a", "plain", 3), Coin(2, "a", "stealth", 2),
                         Coin(3, "f", "plain", 4), Coin(4, "p", "pool", 1), Coin(5, "p", "copy", 1)},
        MaxU64 <- 15, MaxTxs <- 2

-------------------------------------------------------------------------------
MCLevel(w) == IF w = 3 THEN 5 ELSE 3
H == INSTANCE Stealth WITH blocks <- x1, utxo <- x2, made <- x3, qvview <- x4, qvdisclose <- x5,
        changed <- x6,
        Wallets <- {1, 2, 3}, KyberLevelOf <- MCLevel, Values <- {2}, MaxOutputs <- 2

G == INSTANCE AddressShare WITH file <- x1, shown <- x2, scanned <- x3, book <- x4, recipient <- x5,
        qrScanState <- x6,
        Wallets <- {2, 3}, KyberLevelOf <- MCLevel, Labels <- {"l"}, MaxParts <- 3, CliParts <- {7},
        MaxScans <- 3

\* Two blocks at one height, and one with its last transaction repeated: the same root.
StoredTx(id, inputs, outputs) == [id |-> id, inputs |-> inputs, outputs |-> outputs]
StoredBlock(hash, height, root, txs) ==
    [header |-> [hash |-> hash, height |-> height, merkle_root |-> root], txs |-> txs]
RootOfThree(a, b, c) == <<<<<<a>>, <<b>>>>, <<<<c>>, <<c>>>>>>
BodyOfThree == <<StoredTx(2, {}, <<5>>), StoredTx(3, {<<1, 0>>}, <<5>>), StoredTx(4, {<<3, 0>>}, <<4>>)>>
MCStored == {StoredBlock(1, 1, <<1>>, <<StoredTx(1, {}, <<5, 6, 7>>)>>),
             StoredBlock(2, 2, RootOfThree(2, 3, 4), BodyOfThree),
             StoredBlock(2, 2, RootOfThree(2, 3, 4), Append(BodyOfThree, BodyOfThree[3])),
             StoredBlock(3, 2, <<5>>, <<StoredTx(5, {}, <<5>>)>>)}
R == INSTANCE Storage WITH backend <- x1, kv <- x2, pending <- x3, model <- x4, writes <- x5,
        Blocks <- MCStored, Coins <- {<<1, 1>>}, Hashes <- {1}, Backends <- {"memory", "redb"},
        Epochs <- {1, 2}, SnapshotIds <- {<<2>>}, MaxWrites <- 4

-------------------------------------------------------------------------------
Long == [i \in 1..256 |-> 5]
MCLendingDatum == [pool_id |-> 1, collateral_token_id |-> 515, debt_token_id |-> 4, total_collateral |-> 66051,
                   total_debt |-> 256, base_rate_bps |-> 200, slope_bps |-> 2000, ltv_max_bps |-> 7500,
                   liquidation_threshold_bps |-> 8000, liquidation_bonus_bps |-> 500,
                   interest_multiplier_q64 |-> 65537, last_accrual_slot |-> 7]
MCBodyBytes == [k \in {"Block", "Transaction", "VrfProof", "Vote", "GetHeaders", "Headers", "GetBlocks", "Ping", "Pong"} |->
                  CASE k = "Block" -> 6 [] k = "Transaction" -> 4 [] OTHER -> 3]
MCMessages == {[kind |-> k, body |-> [i \in 1..MCBodyBytes[k] |-> i]] : k \in DOMAIN MCBodyBytes}
I == INSTANCE Wire WITH written <- x1, bytes <- x2, fault <- x3,
        SimpleOps <- {1, 255}, Payloads <- {<<>>, <<7>>, <<1, 255>>}, LongPayloads <- {Long},
        Numbers <- {300, 66051}, Hashes <- {3, 258}, LendingDatums <- {MCLendingDatum},
        Messages <- MCMessages, PeerIds <- {<<>>, <<1, 2>>}, Opaque <- {<<3, 0>>},
        HASH <- 2, U16 <- 2, U32 <- 3, U64 <- 3, U128 <- 3,
        MAX_SCRIPT_SIZE <- 300, MAX_MESSAGE_SIZE <- 8, MAX_HANDSHAKE_BYTES <- 16, Slack <- 8,
        PROTOCOL_VERSION <- 1, HANDSHAKE_VERSION <- 2, BodyBytes <- MCBodyBytes,
        Noise <- {0, 2, 3, 64}, Edge <- 20

Q == INSTANCE Confidential WITH inputs <- x1, outputs <- x2, fee <- x3, altered <- x4,
        Values <- {0, 1}, Blindings <- {"r", "s"}, Fees <- {0, 1}, MaxAmounts <- 2

Z == INSTANCE Intents WITH slot <- x1, bundle <- x2, process <- x3,
        Pools <- {"p", "q"}, Amounts <- {0, 7}, Slippages <- {10, 11}, Deadlines <- {1},
        Owner <- "o", BPS <- 10, DefaultSlippage <- 1, MaxU64 <- 15, MaxOrders <- 2, MaxSlot <- 1

-------------------------------------------------------------------------------
Terms(num, den, cost, pledge, active) ==
    [margin_num |-> num, margin_den |-> den, fixed_cost |-> cost, pledge |-> pledge,
     active |-> active]
MCTerms == {Terms(1, 3, 2, 4, TRUE), Terms(0, 1, 0, 0, TRUE), Terms(1, 1, 1, 5, FALSE),
            Terms(2, 1, 0, 1, TRUE)}

C == INSTANCE Ceremony WITH coordinator <- x1, transcript <- x2,
        Stakes <- {1, 3, 4}, Randomness <- {0, 1, 2}, min_participants <- 2,
        max_participants <- 2, min_stake_per_participant <- 2, max_total_stake <- 7
P == INSTANCE Stake WITH pools <- x1, delegations <- x2, distribution <- x3, payout <- x4,
        PoolTerms <- MCTerms, Amounts <- {0, 3, 7}, MAX_U64 <- 12, MaxPools <- 2,
        MaxDelegations <- 2

Row(seed, stake, ok) == [pool |-> <<"sha3", <<seed, "vrf">>>>, stake |-> stake, well_formed |-> ok]
W == INSTANCE Operator WITH config <- x1, keystore <- x2, server <- x3, daemon <- x4, registered <- x5,
        Seeds <- {"s1", "s2"}, Passwords <- {"password", "other"}, Margins <- {3, 11}, Pledges <- {5},
        Distributions <- {<<>>, <<Row("s1", 2, TRUE), Row("s1", 3, TRUE), Row("s2", 0, TRUE)>>,
                          <<Row("s2", 4, TRUE), Row("s1", 1, FALSE)>>, <<Row("s1", 9, TRUE), Row("s2", 9, TRUE)>>},
        Nonces <- {[bytes |-> "n", well_formed |-> TRUE], [bytes |-> "", well_formed |-> FALSE]},
        MaxBps <- 10, MaxU64 <- 15, MaxRows <- 2

-------------------------------------------------------------------------------
\* Tokens and requests are interchangeable.
Symmetry == Permutations(Tokens) \cup Permutations(Requests)

\* x2 to x10 as far as a component leaves them unused.
Free3 == x3 = None /\ x4 = None /\ x5 = None /\ x6 = None /\ x7 = None /\ x8 = None /\ x9 = None /\ x10 = None
Free4 == x4 = None /\ x5 = None /\ x6 = None /\ x7 = None /\ x8 = None /\ x9 = None /\ x10 = None
Free5 == x5 = None /\ x6 = None /\ x7 = None /\ x8 = None /\ x9 = None /\ x10 = None
Free6 == x6 = None /\ x7 = None /\ x8 = None /\ x9 = None /\ x10 = None
Free7 == x7 = None /\ x8 = None /\ x9 = None /\ x10 = None

Init == \/ focus = "threshold" /\ T!Init /\ Free4
        \/ focus = "amm" /\ A!Init /\ Free3
        \/ focus = "oracle" /\ O!Init /\ x2 = None /\ Free3
        \/ focus = "script" /\ V!Init /\ Free7
        \/ /\ focus = "page"
           /\ \/ B1!Init /\ x10 = 1
              \/ B2!Init /\ x10 = 2
              \/ B3!Init /\ x10 = 3
              \/ B4!Init /\ x10 = 4
        \/ focus = "spend" /\ N!Init /\ Free6
        \/ focus = "stealth" /\ H!Init /\ Free7
        \/ focus = "share" /\ G!Init /\ Free7
        \/ focus = "storage" /\ R!Init /\ Free6
        \/ focus = "wire" /\ I!Init /\ Free4
        \/ focus = "intents" /\ Z!Init /\ Free4
        \/ focus = "hidden" /\ Q!Init /\ Free5
        \/ focus = "ceremony" /\ C!Init /\ Free3
        \/ focus = "stake" /\ P!Init /\ Free5
        \/ focus = "operator" /\ W!Init /\ Free6

Next == /\ UNCHANGED focus
        /\ \/ focus = "threshold" /\ T!Next /\ UNCHANGED <<x4, x5, x6, x7, x8, x9, x10>>
           \/ focus = "amm" /\ A!Next /\ UNCHANGED <<x3, x4, x5, x6, x7, x8, x9, x10>>
           \/ focus = "oracle" /\ O!Next /\ UNCHANGED <<x2, x3, x4, x5, x6, x7, x8, x9, x10>>
           \/ focus = "script" /\ V!Next /\ UNCHANGED <<x7, x8, x9, x10>>
           \/ /\ focus = "page" /\ ~x9 /\ UNCHANGED x10
              /\ \/ x10 = 1 /\ B1!Next
                 \/ x10 = 2 /\ B2!Next
                 \/ x10 = 3 /\ B3!Next
                 \/ x10 = 4 /\ B4!Next
           \/ focus = "spend" /\ N!Next /\ UNCHANGED <<x6, x7, x8, x9, x10>>
           \/ focus = "stealth" /\ H!Next /\ UNCHANGED <<x7, x8, x9, x10>>
           \/ focus = "share" /\ G!Next /\ UNCHANGED <<x7, x8, x9, x10>>
           \/ focus = "storage" /\ R!Next /\ UNCHANGED <<x6, x7, x8, x9, x10>>
           \/ focus = "wire" /\ I!Next /\ UNCHANGED <<x4, x5, x6, x7, x8, x9, x10>>
           \/ focus = "intents" /\ Z!Next /\ UNCHANGED <<x4, x5, x6, x7, x8, x9, x10>>
           \/ focus = "hidden" /\ Q!Next /\ UNCHANGED <<x5, x6, x7, x8, x9, x10>>
           \/ focus = "ceremony" /\ C!Next /\ UNCHANGED <<x3, x4, x5, x6, x7, x8, x9, x10>>
           \/ focus = "stake" /\ P!Next /\ UNCHANGED <<x5, x6, x7, x8, x9, x10>>
           \/ focus = "operator" /\ W!Next /\ UNCHANGED <<x6, x7, x8, x9, x10>>

vars == <<focus, x1, x2, x3, x4, x5, x6, x7, x8, x9, x10>>
Spec == Init /\ [][Next]_vars

-------------------------------------------------------------------------------
\* Any threshold of the shares gives the secret back, and fewer or repeated ones
\* nothing (split_secret, run_pedersen_dkg, reconstruct_secret).
SharesReconstruct == focus = "threshold" => T!SharesReconstruct

\* No swap, batch, join or exit takes value from the liquidity that stays (apply_swap,
\* build_amm_batch, compute_add_liquidity, compute_remove_liquidity).
ShareValue == [][focus = "amm" => A!KeepsShareValue]_vars

\* Every validator computes the leader's batch, and order intents ask for what their
\* makers asked until they expire (deterministic_sort, build_amm_batch, validate).
BatchCanonical == /\ focus = "amm" => A!BatchCanonical
                  /\ focus = "intents" => Z!IntentsSound

\* Reported prices are the averages and medians they claim to be, and the guards against
\* outliers are exact where the code can measure the distance (compute_twap,
\* aggregate_median, detect_manipulation).
AggregatesExact == focus = "oracle" => O!AggregatesExact

\* Outside these distances the guard of the median fails, against its doc: a price of zero,
\* one whose deviation wraps around and one whose product overflows all pass.
ASSUME OutliersPass ==
    \A prices \in {<<0, 1, 1>>, <<1, 1, 8>>, <<1, 1, 60>>} :
        O!aggregate_median(prices) # O!Failed /\ ~O!NoneDeviates(prices)

\* The script machine accepts exactly the spends the templates describe, those of the
\* transaction builders among them, except that the witness multisig_pqc documents is
\* refused (validate_script, amm_pool_lock, lending_pool_lock, multisig_pqc).
VerdictExact == focus = "script" => V!VerdictExact

\* What the wallet sends pays what was asked and returns the rest (handle_send,
\* cmd_send_stealth, drip, execute_swap, execute_create_pool), and the page in the browser
\* shows one wallet, the one its session opens (refreshStatus).
SpendExact == /\ focus = "spend" => N!SpendExact
              /\ focus = "page" => /\ x10 = 1 => B1!PageSound
                                   /\ x10 = 2 => B2!PageSound
                                   /\ x10 = 3 => B3!PageSound
                                   /\ x10 = 4 => B4!PageSound

\* Stealth outputs are found by those and only those they were made for, a disclosure
\* proves what it says, and an address that arrives as a file, as codes or as a contact
\* is its owner's; hidden amounts that pass balance (scan_stealth, scan_block,
\* verify_self_contained, address_from_qr_parts, verify_balance_mock).
StealthExact == /\ focus = "stealth" => H!StealthExact
                /\ focus = "share" => G!AddressArrives
                /\ focus = "hidden" => Q!BalanceExact

\* The stores give back what was put in them, whatever else shares their map and
\* wherever a write fails (put_block, apply_block, revert_block, latest_epoch_snapshot),
\* and readers of bytes what was written (decode_script, from_canonical_bytes, decode).
StoreExact == /\ focus = "storage" => R!StoreExact
              /\ focus = "wire" => I!ReadsBack

\* What the coordinator finalizes passes verify_transcript at everybody else.
TranscriptVerifies == focus = "ceremony" => C!TranscriptVerifies

\* A reward is paid out to the last unit, fees and rounding included; a daemon runs only
\* with a valid configuration and a stake of its own (distribute_reward, cmd_run).
StakeAccounted == /\ focus = "stake" => P!RewardConserved
                  /\ focus = "operator" => W!OperatorSound

===============================================================================
