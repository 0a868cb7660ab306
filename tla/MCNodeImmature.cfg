SPECIFICATION Spec
CONSTANTS
    GenesisTx <- MCGenesisTx
    PoolTxs <- MCPoolTxs
    GossipTxs <- MCGossipTxs
    RpcTxs <- MCRpcTxs
    PeerBlocks <- MCPeerBlocks
    Coinbases <- MCCoinbases
    MaxHeight = 3
    MaxReward = 5
    U64Max = 1000000
    event_capacity = 1
    batch_size = 2
    k_finality = 2
    min_fee_rate = 1
    enforce_utxo_commitment = TRUE
    coinbase_enabled = TRUE
    ticker_slot_ok = {TRUE, FALSE}
    total_supply = 5
    initial_block_reward = 2
    halving_interval_blocks = 2
INVARIANT NoImmaturePooled
CHECK_DEADLOCK FALSE
