SPECIFICATION Spec
CONSTANTS
    NumVars = 1
    MaxRelease = 2
    MaxVersions = 4
    Sources = {src, noauto}
    OptedIn = {src}
    Retained = {src, noauto}
    DryRun = FALSE
    Persist = TRUE
    OperatorActs = TRUE
    SourcesGoBack = FALSE
    CanLoseResponse = FALSE
    CanFailIO = FALSE
    CrashSteps <- SafeCrashSteps
INVARIANTS
    OptOutHolds
