SPECIFICATION FairSpec
CONSTANTS
    GenesisTx <- MCGenesisTx
    PoolTxs <- MCPoolTxs
    GossipTxs <- MCLiveTxs
    RpcTxs = {}
    PeerBlocks <- MCLiveBlocks
    Coinbases <- MCCoinbases
    MaxHeight = 2
    MaxReward = 5
    U64Max = 1000000
    event_capacity = 1
    batch_size = 2
    k_finality = 2
    min_fee_rate = 1
    enforce_utxo_commitment = TRUE
    coinbase_enabled = TRUE
    ticker_slot_ok = {TRUE}
    total_supply = 5
    initial_block_reward = 2
    halving_interval_blocks = 2
PROPERTY PoolDrains
CHECK_DEADLOCK FALSE
