SPECIFICATION Spec
CONSTANTS
    Keys = {k1, k2, k3}
    None = None
    Intervals <- SafetyIntervals
    DefaultInterval = 1
    DiscoverEvery = 2
    Concurrency = 2
SYMMETRY KeySymmetry
INVARIANTS
    TypeOK
    QueueMatchesManaged
    OneCheckPerJob
    SlotsAccounted
    TimerNotLate
PROPERTIES
    TriggerCoversManaged
    ImplementsCycle
