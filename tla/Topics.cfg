SPECIFICATION Spec
CONSTANTS
    c1 = c1
    c2 = c2
    c3 = c3
    Callers = {c1, c2, c3}
    Operations = {"join", "leave", "close"}
    MaxCalls = 4
INVARIANTS MapsAgree OverlapCausesNoError
PROPERTIES CallsReturn CallsAreAtomic
CHECK_DEADLOCK FALSE
