SPECIFICATION Spec
CONSTANTS
    NumVars = 1
    MaxRelease = 2
    MaxVersions = 5
    Sources = {src}
    OptedIn = {src}
    Retained = {src}
    DryRun = FALSE
    Persist = TRUE
    OperatorActs = FALSE
    SourcesGoBack = FALSE
    CanLoseResponse = FALSE
    CanFailIO = FALSE
    CrashSteps <- AllSteps
INVARIANTS
    RevertedNotPushedAgain
