SPECIFICATION Spec
CONSTANTS
    NumVars = 2
    MaxRelease = 3
    MaxVersions = 6
    Sources = {src}
    OptedIn = {src}
    Retained = {src}
    DryRun = FALSE
    Persist = TRUE
    OperatorActs = FALSE
    SourcesGoBack = FALSE
    CanLoseResponse = TRUE
    CanFailIO = TRUE
    CrashSteps <- AllSteps
INVARIANTS
    HeldBackOnlyIfReverted
