SPECIFICATION FairSpec

CONSTANTS
    FileCount = 2
    GroupCount = 1
    MaxTransactions = 2
    MaxPrepares = 3
    MaxFaults = 1
    MaxRepairFaults = 0
    MaxCrashes = 0
    MaxReloads = 0
    MaxForeign = 0
    MaxTaken = 0

CHECK_DEADLOCK FALSE
PROPERTIES CleanupEnds
