SPECIFICATION Spec
CONSTANTS
    J1 = J1
    J2 = J2
    Jobs = {J1, J2}
    Workloads <- TracePair
    Reachable <- FromRuns
    Slots = {1}
    MaxConcurrent = 1
    MaxCrashes = 1
INVARIANT MissingTreeIsUnpublished
CHECK_DEADLOCK FALSE
