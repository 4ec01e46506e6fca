SPECIFICATION FairSpec
CONSTANTS
  w1 = w1
  p1 = p1
  p2 = p2
  Direct = {}
  Waits = {w1}
  Reviews = {p1, p2}
  AskedWaits = {9}
  MinWait = 1
  WaitCeiling = 1
  GdsTimeout = 1
  PaneWaitTimeout = 1
  ReviewTimeout = 1
  WaitSlack = 0
  MaxReviews = 1
  MaxConnections = 1
  MaxStall = 0
PROPERTY RequestsEnd
CHECK_DEADLOCK FALSE
