SPECIFICATION FairSpec
CONSTANTS
    Setups = {s1, s2}
    UserIdleDelay = 600
    DefaultIdleDelay = 300
    BlankIdleDelay = 10
    NoFile = NoFile
    Empty = Empty
    OneAtATime = TRUE
    Faults = {"systemctl", "pkill"}
INVARIANTS
    OwnValueNeverSaved
    RestoredAtRest
PROPERTIES
    OwnerKeepsDelay
    AutoLockComesBack
