SPECIFICATION Spec
CONSTANTS
  w1 = w1
  p1 = p1
  p2 = p2
  Direct = {}
  Waits = {w1}
  Reviews = {p1}
  AskedWaits <- SomeWaits
  MinWait = 1
  WaitCeiling = 2
  GdsTimeout = 2
  PaneWaitTimeout = 5
  ReviewTimeout = 3
  WaitSlack = 3
  MaxReviews = 1
  MaxConnections = 2
  MaxStall = 1
INVARIANTS NothingLeftBehind TimersAgree
PROPERTY ImplementsLifecycle
CHECK_DEADLOCK FALSE
