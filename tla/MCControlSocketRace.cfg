SPECIFICATION MCSpec
CONSTANTS
  g1 = g1
  g2 = g2
  c1 = c1
  c2 = c2
  NoFile = NoFile
  Leftover = Leftover
  Foreign = Foreign
  NoGui = NoGui
  Guis = {g1, g2}
  Clis = {c1, c2}
  Patience = 1
  FirstPaths = {Leftover}
  Servers = {s1, s2}
  Peers = {o1, o2, x}
  Own = {o1, o2}
  MaxConnections = 1
  StartupAttempts = 1
  MaxFaults = 2
  Processes = {p1, p2}
  MaxOutside = 1
  MaxFrames = 1
INVARIANT EveryServerIsReachable
CHECK_DEADLOCK FALSE
