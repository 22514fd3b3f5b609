SPECIFICATION FairSpec

CONSTANTS
    FileCount = 2
    GroupCount = 1
    MaxTransactions = 2
    MaxPrepares = 2
    MaxFaults = 1
    MaxRepairFaults = 0
    MaxCrashes = 2
    MaxReloads = 0
    MaxForeign = 1
    MaxTaken = 0

CHECK_DEADLOCK FALSE
INVARIANTS ManifestValid SetWhole
PROPERTIES CommittedStays RetrySettles StartEnds ForeignKept
