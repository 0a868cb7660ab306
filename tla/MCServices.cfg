SPECIFICATION Spec
CONSTANTS
    None = None
    Torn = Torn
    Peers = {a, b, c}
    Connections = {c1, c2}
    OldVersion = {c}
    Sources = {p, q}
    Messages <- MCMessages
    max_per_window = 1
    window_secs = 2
    seen_cache_ttl_secs = 3
    seen_cache_capacity = 2
    forget_secs = 1
    MaxClock = 4
    Nodes = {m, n}
    MaxHash = 4
    MaxSlot = 4
    k_finality = 1
    window_slots = 2
    dense_entries = 1
    max_headers = 2
    Members = {1, 2}
    genesis_pools <- MCPools
    Idle = Idle
    Variants = {v1, v2}
    LastSlot = 2
    MaxDue = 2
    slot_duration_ms = 2000
    epoch_slots = 2
    tick_ms = 1000
    MaxTime = 4000
    FIXED_BITS = 10
    LN_ONE_MINUS_F_MAG = 53
    LEADER_EXP_TERMS = 4
    VrfValues = {0, 900}
    miner_stake = 2
    network_stake = 3
    MaxBlocks = 2
    VrfKey = vk
    KesKey = kk
    Nonce = nn
    Txs = {t}
    Headers = {h1, h2}
    KES_TREE_DEPTH = 2
    MaxSignatures = 3
    KeyPasswords = {pw1, pw2}
    Malformed = Malformed
    Payments = {"t1", "t2"}
    Coin <- MCCoin
    GenesisCoins = {"a"}
    Bodies = {{}, {"t1"}, {"t2"}}
    Lookback = 1
    Invocations <- MCInvocations
    ConfigFiles <- MCConfigs
    ParamFiles <- MCParams
    MaxHeight = 2
    MaxQueue = 1
    MaxStarts = 1
    Envelopes = {"e1", "e2", "e3"}
    Body <- MCBody
    Garbage = garbage
    WellFormed <- MCWellFormed
    SizeOf <- MCSizeOf
    ClearSnapshots <- MCClear
    RankValues = {0, 1, 2}
    committee_size = 3
    committee_threshold = 2
    max_tx_count = 2
    max_pool_bytes = 3
    max_age_secs = 1
    MaxAmount = 3
    Subsidy = 0
    Coinbase = coinbase
    MaxEpoch = 1
    PoolClock = 2
    MaxShares = 2
    Owners = {"o1", "o2"}
    LoanAmounts = {0, 1, 4}
    OpenPositions <- MCPositions
    LoanTerms <- MCTerms
    U16 = 16
    BPS = 4
    Q64 = 16
    slots_per_year = 2
    LoanSlots = 1
    Users = {"u"}
    Local = "u"
    Accounts = {0, 1}
    Passwords = {"pw"}
    ShortPasswords = {"short"}
    DEVNET_TEST_MNEMONIC = devnet
    Phrases = {phrase}
    Labels = {"label"}
    Tokens = {t1, t2}
    Requests = {r1, r2}
    session_ttl = 0
    SessionClock = 1
    MaxViews = 2
INVARIANTS SessionsAgree SessionsAreLive Filtered LocatorFindsFork SwapsExact OneChain
    SignsOnce SignaturesExact ServesTrueState Accounted BooksBalance SerialSameAddress
PROPERTIES CoveredStays LogoutFinal
SYMMETRY Symmetry
CHECK_DEADLOCK FALSE
