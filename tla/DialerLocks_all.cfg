SPECIFICATION Spec
CONSTANTS
  a1 = a1  a2 = a2  p1 = p1
  Agents <- TwoAgents
  Phones <- OnePhone
  None = None
  LockTime = 2
  RecentTime = 3
  LiveCallMax = 4
  LiveStateMax = 3
  MaxTime = 6
SYMMETRY Symmetry
INVARIANTS TypeOK OneCaller MarksAreOwn
PROPERTY FreshOnly
CHECK_DEADLOCK FALSE
