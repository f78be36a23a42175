SPECIFICATION FairSpec
CONSTANTS
  Third = 6
  ConnectTimeout = 3
  CommandTimeout = 3
  Lag = 1
INVARIANTS
  HeldMeansOwned
PROPERTIES
  LossIsNoticed
