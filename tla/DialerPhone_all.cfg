SPECIFICATION FairSpec
CONSTANTS
  n1 = n1  n2 = n2
  Numbers <- TwoNumbers
  None = None
  MaxDials = 2
  MaxExtras = 1
INVARIANTS OutcomeOfThisCall NoCallLost
PROPERTY CallsAreReported
CHECK_DEADLOCK FALSE
CONSTRAINT NotCut
