SPECIFICATION Spec
CONSTANTS
    Wanted = {w1, w2}
    Other = {o}
    SignalBuffer = 3
    FiredBuffer = 2
CHECK_DEADLOCK FALSE
PROPERTIES
    DeliversInOrder
    CloseReturns
