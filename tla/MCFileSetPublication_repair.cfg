SPECIFICATION Spec

CONSTANTS
    FileCount = 2
    GroupCount = 2
    MaxTransactions = 2
    MaxPrepares = 2
    MaxFaults = 2
    MaxRepairFaults = 1
    MaxCrashes = 0
    MaxReloads = 1
    MaxForeign = 0
    MaxTaken = 1

CHECK_DEADLOCK FALSE
INVARIANTS SameAudioOnce
