SPECIFICATION Spec
CONSTANTS
    None = None
    Torn = Torn
    Keys = {k1, k2, k3}
    PoolIds = {pool1, pool2}
    Tokens = {t1, t2}
    Requests = {r1, r2}
INVARIANTS SharesReconstruct BatchCanonical AggregatesExact VerdictExact SpendExact
    StealthExact StoreExact TranscriptVerifies StakeAccounted
PROPERTY ShareValue
SYMMETRY Symmetry
CHECK_DEADLOCK FALSE
