SPECIFICATION Spec
CONSTANTS
  Instances = {a, b}
  MaxGeneration = 2
  MaxEventSequence = 8
  MaxRuns = 2
  Budgets <- SafetyBudgets
  Answers <- MCAnswers
SYMMETRY InstanceSymmetry
INVARIANTS
  ReportsStayTrue
  NoOrphanClaim
  LeaseNeverStolen
  EventLogReplaysLifecycle
  ResultIffCompleted
  AnswerIsOfItsClaimant
PROPERTIES
  OnlyClaimantSettles
  ImplementsAttempts
CHECK_DEADLOCK FALSE
