SPECIFICATION PoolSpec
CONSTANTS
    a1 = a1
    a2 = a2
    b1 = b1
    b2 = b2
    b3 = b3
    Buffers = {b1, b2, b3}
    Arrays = {a1, a2}
    Asked = {1, 2, 4, 6}
    TierSize <- MCTierSize
SYMMETRY Symmetry
INVARIANTS ExclusiveArrays ArraysFit
CHECK_DEADLOCK FALSE
