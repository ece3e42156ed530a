SPECIFICATION WorkerSpec
CONSTANTS
    Systems <- WorkerSystems
    MaxRuns = 2
INVARIANTS
    DpkgNeverRefuses
    WorksBetweenChangesets
    LimitKept
    EndsAsWanted
    GivesUpOnlyOnHardCycles
    MarkedBeforeInstalled
PROPERTIES
    SchedulingEnds
CHECK_DEADLOCK FALSE
