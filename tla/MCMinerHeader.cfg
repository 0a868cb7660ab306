SPECIFICATION Spec
CONSTANTS
    slot_duration_ms = 2000
    epoch_slots = 2
    tick_ms = 1000
    MaxTime = 4000
    FIXED_BITS = 10
    LN_ONE_MINUS_F_MAG = 53
    LEADER_EXP_TERMS = 4
    VrfValues = {0, 900}
    pool_stake = 2
    total_stake = 3
    VrfKey = vk
    KesKey = kk
    Nonce = nn
    Txs = {t}
    MaxBlocks = 2
INVARIANT HeadersPass
CHECK_DEADLOCK FALSE
