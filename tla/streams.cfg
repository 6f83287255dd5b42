SPECIFICATION FairSpec
CONSTANTS
  Worker = {1, 2, 3}
  Depth = 2
  MaxRecords <- NodeRecords
  None = None
INVARIANTS TypeOK AnswerIsOwn OnlyFalseHalts FewAfterHalt OneInPhp NestedNeverRuns
PROPERTIES StreamReturns
CHECK_DEADLOCK FALSE
