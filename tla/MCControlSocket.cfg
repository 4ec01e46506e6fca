SPECIFICATION MCSpec
CONSTANTS
  g1 = g1
  g2 = g2
  c1 = c1
  NoFile = NoFile
  Leftover = Leftover
  Foreign = Foreign
  NoGui = NoGui
  Guis = {g1, g2}
  Clis = {c1}
  Patience = 2
  FirstPaths = {NoFile, Leftover, Foreign}
  Servers = {s1, s2}
  Peers = {o1, o2, x}
  Own = {o1, o2}
  MaxConnections = 1
  StartupAttempts = 1
  MaxFaults = 2
  Processes = {p1, p2}
  MaxOutside = 1
  MaxFrames = 3
PROPERTIES
  LiveSocketsAreLeftAlone
  
  StartsSettle
  CallersAreServed
CHECK_DEADLOCK FALSE
