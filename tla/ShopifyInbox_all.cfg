SPECIFICATION Spec
CONSTANTS
  u1 = u1  Cron = Cron  Free = Free
  NumHooks = 2
  Versions <- TwoVersions
  Histories <- MCHistories
  Lines <- MCLines
  Reviewers <- OneReviewer
  MaxAttempts = 2
  MaxCrashes = 1
  MaxPayments = 2
  Typed <- MCTyped
  Scenes <- MCScenes
INVARIANTS TypeOK OneRun NewestWins EditsFlagged
PROPERTIES  CancellationAnswered SaleRefined
CHECK_DEADLOCK FALSE
