SPECIFICATION Spec
CONSTANTS
    NumVars = 1
    MaxRelease = 2
    MaxVersions = 4
    Sources = {src, noauto}
    OptedIn = {src}
    Retained = {src}
    DryRun = FALSE
    Persist = TRUE
    OperatorActs = TRUE
    SourcesGoBack = TRUE
    CanLoseResponse = FALSE
    CanFailIO = FALSE
    CrashSteps <- SafeCrashSteps
INVARIANTS
    TypeOK
    LastHeldBack
    MetaListed
PROPERTIES
    InterruptsOnlyOperator
