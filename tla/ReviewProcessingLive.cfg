SPECIFICATION FairSpec
CONSTANTS
  Instances = {a, b}
  MaxGeneration = 1
  MaxEventSequence = 6
  MaxRuns = 2
  Budgets <- LiveBudgets
  Answers <- MCAnswers
PROPERTIES
  EveryRunEnds
  ClaimSettles
CHECK_DEADLOCK FALSE
