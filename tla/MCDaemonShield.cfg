SPECIFICATION Spec
CONSTANTS
    Configs <- SwapConfigs
    LaunchId = {l1, l2, l3}
    None = None
    Monitors = 1
    MaxRelaunches = 3
    BlankIdleDelay = 10
    UserIdleDelay = 300
    Faults = {}
    Events = {"lock", "die"}
    MaxIdle = 4
    MaxGen = 1
    MaxFired = 2
    MaxLocks = 1
CHECK_DEADLOCK FALSE
INVARIANT NothingBehindShield
