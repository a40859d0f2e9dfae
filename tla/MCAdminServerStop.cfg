CONSTANTS
    Workers = {w1, w2}
    Conns = {c1}
    MaxPending = 1
SPECIFICATION BusyClientsSpec
PROPERTY StopReturns
CHECK_DEADLOCK FALSE
