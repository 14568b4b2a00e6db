SPECIFICATION FairSpec
CONSTANTS
    Launches = 2
    Windows = 2
    MaxPids = 3
    Unclutter = TRUE
    Launchers = {"LaunchContext", "LaunchEach"}
    OneLaunch = TRUE
    WritesApart = TRUE
INVARIANTS
    OneModulePerWindow
    ModulesGoBeforeWindows
    SignalledNeverReported
    StateNamesSaver
PROPERTIES
    DeathsAreReported
    StopEnds
CHECK_DEADLOCK FALSE
