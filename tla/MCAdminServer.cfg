CONSTANTS
    Workers = {w1, w2}
    Conns = {c1, c2}
    MaxPending = 1
SPECIFICATION BusyClientsSpec
INVARIANT OwnedOnce
INVARIANT ContextAlive
INVARIANT WorkIsNoticed
INVARIANT OneStranded
PROPERTY ServiceSpec
PROPERTY QueuedIsServed
PROPERTY AwakeStopReturns
CHECK_DEADLOCK FALSE
