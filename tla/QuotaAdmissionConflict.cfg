CONSTANTS
  Keys = {k1}
  Fingerprints = {f1}
  Requests = {r1, r2}
  NoRow = NoRow
  Limit = 1
  LastDay = 1
  MaxDbErrors = 0
  MaxRedisErrors = 0
SYMMETRY Symmetry
SPECIFICATION Spec
CHECK_DEADLOCK FALSE
INVARIANT IdenticalReplayNeverConflicts
