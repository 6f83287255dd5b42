SPECIFICATION Spec
CONSTANTS
    Process = {p1}
    MaxCalls = 1
    IntBound = 4
    None = None
    Index = {0, 3}
    OpLists <- MCLists
    Options <- MCOptions
INVARIANTS ValueIsGiven
CHECK_DEADLOCK FALSE
