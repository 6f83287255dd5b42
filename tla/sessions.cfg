SPECIFICATION Spec
CONSTANTS
  Request = {r1, r2, r3}
SYMMETRY Alike
INVARIANTS TypeOK SavedIsKept RemovedStaysAway
CHECK_DEADLOCK FALSE
