SPECIFICATION FairSpec
CONSTANTS
    Capacity = 1
    MaxCommands = 3
    MaxFaults = 1
    MaxFailures = 1
INVARIANTS NotificationsKept NoOrphans
PROPERTIES StaleJobsHarmless FaultRecovered BackoffEnds
