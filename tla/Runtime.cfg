SPECIFICATION Spec
CONSTANTS
    Runs = {"run"}
    Stops = {stop1, stop2}
    Pids = {p1, p2, p3}
    Windows = 1
    MaxStrangers = 1
    MayBeKilled = TRUE
SYMMETRY Symmetry
CHECK_DEADLOCK FALSE
INVARIANTS
    StrangersSpared
    StopTakesWhatItFound
    CrashLeavesNothing
    FileGoesWithLast
