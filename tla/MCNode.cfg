CONSTANTS
    Clients = {c1}
    DataTypes = {"stereo_image", "imu"}
    Workers = {w1, w2}
    OneAtATime = TRUE
    QueueSize = 2
    HasImages = TRUE
SPECIFICATION FairNodeSpec
INVARIANT StrayAtMostOne
INVARIANT OldFramesBounded
INVARIANT NothingLeft
INVARIANT SubscribersAreConnected
PROPERTY WantedIsProduced
PROPERTY ShutdownEnds
PROPERTY ShutdownHasNoLoop
CHECK_DEADLOCK FALSE
