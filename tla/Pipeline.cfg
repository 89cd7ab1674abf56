CONSTANTS
    Chains <- AllChains
    IdleTimeout = 0
    RequestTimeout = 1
    MaxFrames = 2
SPECIFICATION Spec
CHECK_DEADLOCK FALSE
INVARIANTS OnlyDeadlineResets LeftMeansClean PartialResponseRecorded OnlyPanicsUncounted
PROPERTIES ErrSticks StreamEnds
