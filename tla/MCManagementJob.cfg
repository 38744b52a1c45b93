SPECIFICATION FairMCSpec
CONSTANTS
  J1 = J1
  J2 = J2
  Jobs = {J1, J2}
  Workloads <- Pairs
  Reachable <- FromRuns
  Slots = {1, 2}
  MaxConcurrent = 1
  MaxCrashes = 1
INVARIANTS
  ExecutedOnce
  RecordIsHonest
PROPERTIES
  RecordIsFinal
CHECK_DEADLOCK FALSE
