SPECIFICATION RecoverySpec
CONSTANTS
  None = None
  ReplayWorlds <- MCReplayWorlds
  ReplayProfiles <- MCReplayProfiles
  R_MAX_NODES = 5
  R_MAX_DEPTH = 3
  R_MAX_REPAIR = 1
  R_BASELINE = 1
  RWorlds = {"train", "select"}
  ROwn <- MCROwn
  RAdmins = {"a1", "a2"}
  RWorkers = {"k1", "k2"}
  RStarts <- MCRStarts
  RevokeBound = 1
  Spaces = {"n1", "n2"}
  Revocable <- MCRevocable
  Consumable = {"f1"}
  RBlobs = {"x"}
  Backups = {"b1", "b2"}
  Starters = {"p1", "p2"}
  RWrites = 2
  StartBound = 2
  RRestores = 2
  RCrashes = 1
  RServed = 1
  WCallers = {"c1"}
  WNames = 2
  WDirs = {"sub"}
  WFiles = {"f1", "f2"}
  WParent <- MCWParent
  WOrder <- MCWOrder
  Root = "root"
  WInodes = 6
  WSpaces = 2
  WMeddling = 1
  WCrashes = 1
INVARIANTS
  
  RestoreSafe
  WorkspaceSafe
PROPERTIES
  
  RecoveryEnds
CHECK_DEADLOCK FALSE
