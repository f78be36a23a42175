SPECIFICATION FairSpec
CONSTANTS
  g1 = g1
  g2 = g2
  p1 = p1
  Callers <- MCCallers
  Guests <- MCGuests
  Visits <- MCVisits
  MaxResultRetries = 1
  MaxProviderRetries = 1
  Limit = 1
  LastDay = 1
INVARIANTS
  AbortIsReported
  RetriedBeforeGivingUp
  GuestsWithinLimit
PROPERTIES
  EveryGuestAnswered
CHECK_DEADLOCK FALSE
