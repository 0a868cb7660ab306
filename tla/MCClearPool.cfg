SPECIFICATION Spec
CONSTANTS
    max_tx_count = 3
    max_pool_bytes = 6
    min_fee = 1
    max_age_secs = 1
    U64Max = 2500
    Txs <- MCTxs
    Fees = {0, 1, 3}
    Outpoints = {1, 2, 3, 4}
    MaxTime = 3
INVARIANT IndicesAgree
PROPERTY EvictsLowestOnly
