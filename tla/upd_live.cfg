SPECIFICATION FairSpec
CONSTANTS
    NumVars = 2
    MaxRelease = 3
    MaxVersions = 9
    Sources = {src}
    OptedIn = {src}
    Retained = {src}
    DryRun = FALSE
    Persist = TRUE
    OperatorActs = FALSE
    SourcesGoBack = FALSE
    CanLoseResponse = FALSE
    CanFailIO = FALSE
    CrashSteps <- SafeCrashSteps
INVARIANTS
    AppliedOnce
PROPERTIES
    Converges
