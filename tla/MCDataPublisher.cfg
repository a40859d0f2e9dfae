SPECIFICATION FairPublisherSpec
CONSTANTS
    DataTypes = {"stereo_image", "imu", "temperature"}
    MaxFrames = 4
INVARIANTS
    EveryFrameCounted
    DamageIsBounded
    SentIsHonest
    ShutdownIsCounted
CHECK_DEADLOCK FALSE
