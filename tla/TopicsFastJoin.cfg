SPECIFICATION Spec
CONSTANTS
    c1 = c1
    c2 = c2
    c3 = c3
    Callers = {c1, c2}
    Operations = {"join"}
    MaxCalls = 4
SYMMETRY Symmetry
INVARIANTS JoinedHasSubscription
CHECK_DEADLOCK FALSE
