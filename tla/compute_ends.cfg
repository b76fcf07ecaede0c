\* Runs that stop at the first failure, killed or not, while a job is cancelled.
CONSTANTS
    Jobs = {1, 2}
    Deps <- PairDeps
    GpusOf <- PairGpusOf
    MaxRetries <- PairMaxRetries
    Gpus = 2
    MaxCpu = 1
    MaxGpu = 2
    FailFast = TRUE
    MaxLines = 1
    MaxRuns = 2
    MaxCrashes = 1
    MaxFaults = 0
    MaxCancels = 1
    MaxTorn = 1
SPECIFICATION FairSpec
CHECK_DEADLOCK FALSE
PROPERTIES
    RunEnds
