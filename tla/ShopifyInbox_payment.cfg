SPECIFICATION Spec
CONSTANTS
  u1 = u1  Cron = Cron  Free = Free
  NumHooks = 2
  Versions <- TwoVersions
  Histories <- Edited
  Lines <- MCLines
  Reviewers <- OneReviewer
  MaxAttempts = 2
  MaxCrashes = 0
  MaxPayments = 2
  Typed <- MCTyped
  Scenes <- Receipts
INVARIANT PaymentOnce
CHECK_DEADLOCK FALSE
