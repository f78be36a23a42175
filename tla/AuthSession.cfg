SPECIFICATION ApiSpec
CONSTANTS
  Requests = {r1, r2, r3, r4}
  NoToken = NoToken
  MaxChanges = 1
  MaxLoads = 2
  Addresses = {a1}
  Emails = {e1, e2}
  Limits <- MCLimits
  Windows <- MCWindows
  TrimAge = 3
  MaxBuckets = 3
  LastTime = 5
SYMMETRY Symmetry
INVARIANTS
  TokenExchangedOnce
  RefusedRefreshEndsSession
  AnsweredTokenWorks
  LogoutEndsSession
  NoSessionOutlivesChange
  ChangesDoNotOverwrite
  RefreshIsNotReuse
  RateIsBounded
CHECK_DEADLOCK FALSE
