SPECIFICATION FairSpec
CONSTANTS
  u1 = u1  Cron = Cron  Free = Free
  NumHooks = 2
  Versions <- TwoVersions
  Histories <- Edited
  Lines <- MCLines
  Reviewers <- Nobody
  MaxAttempts = 3
  MaxCrashes = 2
  MaxPayments = 2
  Typed <- MCTyped
  Scenes <- Restarts
PROPERTY Settles
CHECK_DEADLOCK FALSE
