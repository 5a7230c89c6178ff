SPECIFICATION Spec
CONSTANTS
    NumVars = 2
    MaxRelease = 2
    MaxVersions = 7
    Sources = {src}
    OptedIn = {src}
    Retained = {src}
    DryRun = FALSE
    Persist = TRUE
    OperatorActs = FALSE
    SourcesGoBack = FALSE
    CanLoseResponse = FALSE
    CanFailIO = FALSE
    CrashSteps <- SafeCrashSteps
INVARIANTS
    RevertedNotPushedAgain
