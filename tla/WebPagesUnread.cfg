SPECIFICATION WebSpec
CONSTANTS
  MaxStarts = 1
  MaxChecks = 1
  Drafts <- MCDrafts
  Rows <- MCRows
  PageLimit = 2
  MaxReads = 1
  Titled <- MCTitled
  Bodies <- MCBodies
  Reviews <- MCReviews
  UsageLimit = 1
  MaxLoads = 1
  FixtureSize = 2
  DailyLimit = 1
  PageKinds <- MCPageKinds
INVARIANT CompletedResultIsShown
CHECK_DEADLOCK FALSE
