SPECIFICATION FairSpec
CONSTANTS
    J1 = J1
    J2 = J2
    Jobs = {J1, J2}
    Workloads <- ReaderPair
    Reachable <- FromRuns
    Slots = {1}
    MaxConcurrent = 1
    MaxCrashes = 1
PROPERTY WaiterIsClaimed
CHECK_DEADLOCK FALSE
