SPECIFICATION MCSpec
INVARIANTS PendingIsExact EvictionLeavesNoHole EveryChunkInOnePlace 
PROPERTIES NumbersGrow CleanEndKeepsTheTail OutputSettles
CONSTANTS
  Texts <- MixedLines
  Caps = {1, 2, 3}
  RetainedBytesPerRow = 2
  UncappedRowBudget = 2
  FlushRows = 2
  Faults = {"append", "spawn"}
  MaxLine = 6
  ShortCap = 3
  Chunks = 3
  Captures = 2
  MaxBuffered = 1
CHECK_DEADLOCK FALSE
