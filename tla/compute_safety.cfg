\* Two runs, one killed or raising; nobody cancels.
CONSTANTS
    Jobs = {1, 2, 3}
    Deps <- MCDeps
    GpusOf <- MCGpusOf
    MaxRetries <- MCMaxRetries
    Gpus = 2
    MaxCpu = 1
    MaxGpu = 2
    FailFast = FALSE
    MaxLines = 1
    MaxRuns = 2
    MaxCrashes = 1
    MaxFaults = 1
    MaxCancels = 0
    MaxTorn = 1
SPECIFICATION Spec
CHECK_DEADLOCK FALSE
INVARIANTS
    StartsAreDue
    NothingForgotten
PROPERTIES
    SuccessIsFinal
