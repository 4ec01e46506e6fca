SPECIFICATION MCSpec
    
PROPERTIES DisabledStaysDisabled  SaveReplacesItsBase VaultVerbsAreScoped
CONSTANTS
  Ids = {p, q}
  MaxRevision = 2
  Lanes = {1, 2}
  MaxPlugins = 1
  MaxCommands = 2
  MaxFaults = 1
  Notes <- MCNotes
  Texts <- MCTexts
  MaxNotes = 2
  Passers = {"gui", "api"}
  MaxEdits = 2
  MaxPasses = 2
  MaxCuts = 1
  GraphCaps = {1, 10}
  Names = {"m", "n"}
  AtFirst <- MCAtFirst
  BigTexts = {3}
  MaxTexts = 4
  MaxCrashes = 1
  MaxDepartures = 2
  Cap = 2
  ShownCap = 1
  MaxPlans = 1
  Grid = 2
  MaxStop = 2
  Dirs = {"A", "B"}
  Spellings = {"b", "via"}
  Target <- MCTarget
  Movable = {"via"}
  Requests = {r1, r2}
  MaxRoots = 2
  MaxMoves = 2
  Vaults = {"A", "B"}
  Paths = {"m", "n"}
  KeyOf <- MCKeyOf
  Windows = {w1, w2}
  MaxCopies = 2
  MaxMishaps = 2
CHECK_DEADLOCK FALSE
