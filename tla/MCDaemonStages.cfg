SPECIFICATION Spec
CONSTANTS
    Configs <- StageConfigs
    LaunchId = {l1, l2, l3}
    None = None
    Monitors = 1
    MaxRelaunches = 1
    BlankIdleDelay = 10
    UserIdleDelay = 300
    Faults = {"launch", "setDelay", "addIdle", "idletime"}
    Events = {"activity", "reload", "terminate", "loseMutter", "die"}
    MaxIdle = 3
    MaxGen = 2
    MaxFired = 2
    MaxLocks = 1
SYMMETRY Symmetry
CHECK_DEADLOCK FALSE
INVARIANTS
    TypeOK
    StaleLaunchNeverShown
    StagesAheadAreArmed
    BlankIsRemembered
PROPERTIES
    KeepsPromise
    StagesOnlyAdvance
