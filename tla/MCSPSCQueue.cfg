CONSTANTS
    QueueSize = 2
    MaxFrames = 6
    SizeMod = 256
    Consumers = {publisher}
    Observers = {status}
SPECIFICATION FairSpec
INVARIANT DeliveredInOrder
INVARIANT RingInv
INVARIANT ReportedDepthTellsWraps
PROPERTY FifoSpec
PROPERTY AcceptedIsDelivered
