CONSTANTS
    QueueSize = 2
    MaxFrames = 3
    SizeMod = 256
    Consumers = {publisher, worker}
    Observers = {}
SPECIFICATION Spec
INVARIANT DeliveredInOrder
