SPECIFICATION Spec
CONSTANTS
  a1 = a1
  a2 = a2
  Alias = {a1, a2}
  Config <- ShmConfigs
  SavePath <- ShmSavePaths
  Object = {o1, o2}
  Session = session
  Ref = {r1, r2}
  NoRef = NoRef
  Key <- Keys
  NoKey = NoKey
  FirstKey = 1
  MaxCount = 2
INVARIANTS ShmKeysDistinct SegmentsApart
CHECK_DEADLOCK FALSE
