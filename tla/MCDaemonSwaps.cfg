SPECIFICATION Spec
CONSTANTS
    Configs <- SwapConfigs
    LaunchId = {l1, l2, l3}
    None = None
    Monitors = 1
    MaxRelaunches = 1
    BlankIdleDelay = 10
    UserIdleDelay = 300
    Faults = {"launch", "pick"}
    Events = {"activity", "die"}
    MaxIdle = 4
    MaxGen = 1
    MaxFired = 2
    MaxLocks = 1
SYMMETRY Symmetry
CHECK_DEADLOCK FALSE
INVARIANTS
    NoModuleLost
    DeadModuleHasReplacement
PROPERTIES
    LiveModuleStays
    SwapsAreAhead
