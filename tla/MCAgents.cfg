SPECIFICATION MCSpec
INVARIANTS EventsArrive AuthoritativeStays ToolCallsAreSound
 
CONSTANTS
  Panes = {"a"}
  Spawns = 2
  Sends = 3
  Runs = 2
  MaxGlobalEvents = 3
  MaxSessionEvents = 2
  MaxQueuedBytes = 4
  SeqResetCeiling = 1
  Clients = {c1, c2}
  MaxSubscriptions = 1
  MaxQueuedEvents = 2
  SubscriptionIdle = 2
  Emissions = 4
  Followers = {"f"}
  Inputs = 3
  Shells = 2
  DeclarationInterval = 1
  Tier3TTL = 2
  LineCap = 3
  MaxLines = 2
  MaxSwitches = 1
  Budget = 2
  Waits = {1, 3}
CHECK_DEADLOCK FALSE
