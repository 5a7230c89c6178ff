SPECIFICATION FairSpec
CONSTANTS
    j1 = j1
    j2 = j2
    Entries <- TwoJobs
    KeyOrder <- InOrder
    Values = {r1, r2}
    NoValue = NoValue
    NoFile = NoFile
    Partial = Partial
    Unlocked = Unlocked
    Persist = TRUE
    CanFailIO = TRUE
INVARIANTS
    TypeOK
    AckedOnFile
PROPERTIES
    ImplementsDurableMap
    LastRecordNotPushed
    OnceCoversManaged
    ChecksReturn
    OnceEnds
