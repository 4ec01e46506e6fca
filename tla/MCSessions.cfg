SPECIFICATION MCSpec
INVARIANTS RunsAreAwaited TurnsReadTheirOwn FramesOfThisTimeline LinesArriveWhole
 
CONSTANTS
  Backends = {"omp", "cli", "mock"}
  MaxTurns = 2
  MaxFrames = 1
  MaxWrites = 3
  QueueLimit = 2
  PollLimit = 1
  Length = 2
  KeyFrames = {0}
  Kinds = {{"video"}, {"video", "audio"}}
  CommandLimit = 1
  FrameLimit = 1
  Backlog = 1
  MaxSeeks = 2
  Starts = 2
  LinesWritten = 2
  PipeLines = 2
  QueueLines = 1
  ViewLines = 1
  ChunkIds = {"a", "b"}
  MaxChunks = 2
  MaxLength = 2
  MaxPrompts = 2
  MaxLine = 2
  MaxWritten = 5
CHECK_DEADLOCK FALSE
