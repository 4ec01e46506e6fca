SPECIFICATION MCSpec
INVARIANT PanesNeverOverlap
CONSTANTS
  QueueChunks = 2
  Heights = {1, 3}
  DefaultHeight = 1
  MaxHistory = 2
  MaxPrints = 2
  MaxResizes = 1
  LineCap = 2
  StringCap = 2
  MaxSegment = 3
  Patterns = {"a", "b"}
  MaxConcepts = 2
  Terminals = {t1, t2}
  Wikis = {n1, n2}
  Spaces = {w1, w2}
  MaxLive = 3
  Grid = 6
  MinTile = 2
  MaxTiles = 4
  Layouts <- ApartLayouts
CHECK_DEADLOCK FALSE
