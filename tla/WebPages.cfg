SPECIFICATION WebSpec
CONSTANTS
  MaxStarts = 2
  MaxChecks = 2
  Drafts <- MCDrafts
  Rows <- MCRows
  PageLimit = 2
  MaxReads = 3
  Titled <- MCTitled
  Bodies <- MCBodies
  Reviews <- MCReviews
  UsageLimit = 1
  MaxLoads = 3
  FixtureSize = 2
  DailyLimit = 1
  PageKinds <- MCPageKinds
INVARIANTS
  ResultOfLastDraft
  AbandonedRunsCancelled
  SelectionIsOnScreen
  DeletedStayGone
  FiguresOfTheSource
  CostIsOfAllRows
CHECK_DEADLOCK FALSE
PROPERTIES
  RunsSettle
