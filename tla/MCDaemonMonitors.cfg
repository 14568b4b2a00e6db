SPECIFICATION Spec
CONSTANTS
    Configs <- MonitorConfigs
    LaunchId = {l1, l2, l3}
    None = None
    Monitors = 3
    MaxRelaunches = 1
    BlankIdleDelay = 10
    UserIdleDelay = 300
    Faults = {"addActive", "hotplug", "copyFails", "replace", "pick", "idletime", "connect", "lockSession", "locked", "removeWatch"}
    Events = {"die"}
    MaxIdle = 3
    MaxGen = 1
    MaxFired = 2
    MaxLocks = 1
SYMMETRY Symmetry
CHECK_DEADLOCK FALSE
INVARIANTS
    ScreenIsWatched
