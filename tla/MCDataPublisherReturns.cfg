SPECIFICATION FairPublisherSpec
CONSTANTS
    DataTypes = {"stereo_image", "imu", "temperature"}
    MaxFrames = 1
PROPERTIES
    ShutdownReturns
CHECK_DEADLOCK FALSE
