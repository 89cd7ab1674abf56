SPECIFICATION Spec
CONSTANTS
    Prefix = 2
    Chunk = 2
    MaxFrame = 7
    Tiers <- MCTiers
    TierLarge = 4
    InitialCap = 3
    Idle = 2
    Sizes = {0, 1, 3, 5, 7, 8}
    InFlight = 2
INVARIANTS WholeFrameOrNone WrittenFrameReadable MemoryTracksBytes HoldBounded
PROPERTIES ReaderFreed
CHECK_DEADLOCK FALSE
