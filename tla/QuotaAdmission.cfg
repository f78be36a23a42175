CONSTANTS
  Keys = {k1, k2}
  Fingerprints = {f1, f2}
  Requests = {r1, r2, r3}
  NoRow = NoRow
  Limit = 1
  LastDay = 1
  MaxDbErrors = 1
  MaxRedisErrors = 1
SYMMETRY Symmetry
SPECIFICATION Spec
CHECK_DEADLOCK FALSE
INVARIANTS
  UnitsCountedOnce
  AdmittedWithinLimit
  ReviewIffAdmitted
  ReuseIsRefused
PROPERTIES
  ImplementsLedger
