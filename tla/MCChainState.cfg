SPECIFICATION Spec
CONSTANTS
    Nodes = {a, b}
    Hashes = {1, 2, 3, 4, 5}
    Producers = {1}
    MaxSlot = 3
    k_finality = 1
CONSTRAINT OneNodeOrFewBlocks
INVARIANTS WalkDecidesAncestry TipIsBest FinalPointExact SameBlocksSameChain Convergence
PROPERTY FinalityIsSticky
CHECK_DEADLOCK FALSE
SYMMETRY NodeSymmetry
