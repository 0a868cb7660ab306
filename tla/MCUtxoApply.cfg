SPECIFICATION LoopSpec
CONSTANTS
    MaxHeight = 3
    MaxBody = 3
    Blocks <- MCBlocks
    SnapshotIds = {s1}
INVARIANTS UtxoIsFold RejectsOnlyInvalid
PROPERTY ImplementsStore
CHECK_DEADLOCK FALSE
