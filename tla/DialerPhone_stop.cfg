SPECIFICATION FairSpec
CONSTANTS
  n1 = n1  n2 = n2
  Numbers <- OneNumber
  None = None
  MaxDials = 1
  MaxExtras = 0
PROPERTY CallsEnd
CHECK_DEADLOCK FALSE
CONSTRAINT NotCut
