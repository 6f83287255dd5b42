SPECIFICATION Spec
CONSTANTS
    Process = {p1, p2}
    MaxCalls = 2
    IntBound = 4
    None = None
    Index = {3}
    OpLists <- MCLists
    Options <- MCOptions
INVARIANTS TypeOK OperateIsAtomic OrderedIsPrefix ResultsInOrder
PROPERTIES ImplementsLog
SYMMETRY Symmetry
CHECK_DEADLOCK FALSE
