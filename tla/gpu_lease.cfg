\* One scheduler after another on three devices.
CONSTANTS
    Procs = {p1}
    Devices = {0, 1, 2}
    Sizes = {1, 2}
    MaxLeases = 3
    MaxKills = 2
    MaxSweeps = 1
SPECIFICATION GpuSpec
CHECK_DEADLOCK FALSE
INVARIANTS
    
    LockFilesAreExact
