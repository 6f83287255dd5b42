SPECIFICATION Spec
CONSTANTS
  Object = {o1, o2}
  Persistent = {o2}
  Method <- MCMethod
  Code <- MethodTable
  Finish <- MCFinish
  Given <- MCGiven
  Callable <- Calls
  Passed <- Options
  MaxCalls = 3
  MaxDepth = 3
CHECK_DEADLOCK FALSE
INVARIANTS
  TypeOK
  FailureIsTold
  StatusMeansError
  RefusalWritesNothing
  JobIsKnown
  ErrorOfLastCall
  ClosedOnlyInside
PROPERTY
  OptionsEndWithCall
