SPECIFICATION FairSpec
CONSTANTS
  a1 = a1
  a2 = a2
  Alias = {a1, a2}
  Config <- PlainConfigs
  SavePath <- PlainSavePaths
  Object = {o1, o2}
  Session = session
  Ref = {r1, r2, r3}
  NoRef = NoRef
  Key <- Keys
  NoKey = NoKey
  FirstKey = 1
  MaxCount = 2
INVARIANTS TypeOK NoDangling OwnedOrShared EntriesCounted FreedRefsClosed
PROPERTIES SharedConnectionStays ImplementsSharing ShutdownReleases
CHECK_DEADLOCK FALSE
