SPECIFICATION FairSpec
CONSTANTS
    Configs <- LockConfigs
    LaunchId = {l1, l2}
    None = None
    Monitors = 1
    MaxRelaunches = 1
    BlankIdleDelay = 10
    UserIdleDelay = 300
    Faults = {"launch"}
    Events = {"activity", "lock", "die", "loseLocks"}
    MaxIdle = 2
    MaxGen = 1
    MaxFired = 2
    MaxLocks = 1
CHECK_DEADLOCK FALSE
INVARIANTS
    NothingBehindShield
    ReturnIsNoticed
PROPERTIES
    UserGetsDesktop
    IdleSessionReachesLastStage
    DeadModuleGoes
