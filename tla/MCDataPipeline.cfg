CONSTANTS
    DataTypes = {"imu"}
    QueueSize = 1
    MaxFrames = 4
SPECIFICATION FairSpec
INVARIANT Conserved
INVARIANT AsleepMeansEmpty
PROPERTY QueuesAreFifos
PROPERTY QueuedIsSent
PROPERTY StopReturns
CHECK_DEADLOCK FALSE
