SPECIFICATION FairSpec
CONSTANTS
    Producers = {accept}
    Capacity = 2
    MaxJobs = 2
PROPERTIES CloseEndsWorker
