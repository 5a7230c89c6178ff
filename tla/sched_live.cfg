SPECIFICATION FairSpec
CONSTANTS
    Keys = {k1, k2}
    None = None
    Intervals <- LiveIntervals
    DefaultInterval = 1
    DiscoverEvery = 2
    Concurrency = 0
PROPERTIES
    ManagedJobsKeepBeingChecked
    ShutdownCompletes
