CONSTANTS
    MaxDrivers = 2
    Timers = {1, 2}
    MsPerSec = 4
    IntMod = 16
    MaxCmds = 3
    MaxTimeouts = 1
    MaxCrashes = 1
SPECIFICATION Spec
CHECK_DEADLOCK FALSE
INVARIANTS
    NoStaleResponse
    InOrder
    StaleBusyOnce
PROPERTIES
    TaskRunsItsTime
    BusyEnds
    ExitAfterPunctual
