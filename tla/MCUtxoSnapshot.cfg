SPECIFICATION SnapshotSpec
CONSTANTS
    MaxHeight = 2
    MaxBody = 3
    Blocks <- MCBlocks
    SnapshotIds = {s1}
INVARIANT LiveCoinbaseRecorded
CHECK_DEADLOCK FALSE
