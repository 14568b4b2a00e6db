SPECIFICATION Spec
CONSTANTS
    Installed = {a, b, c, d}
    Monitors = 2
    MaxRelaunches = 2
    MaxFlights = 2
SYMMETRY Symmetry
INVARIANTS
    NothingTickedNothingShown
