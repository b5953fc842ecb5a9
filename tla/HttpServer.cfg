SPECIFICATION Spec
CONSTANTS
    Conns = {c1, c2}
    Outside = Outside
    Limits = {1, 2}
    MaxCasts = 2
INVARIANTS StopLeavesNoThread StreamsInOrder
PROPERTIES StopReturns
CHECK_DEADLOCK FALSE
