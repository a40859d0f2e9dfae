CONSTANTS
    Directories <- MCDirectories
    DataTypes = {"stereo_image", "point_cloud"}
    Second = 4
    Drift = 1
    Starts = {2}
    Rates = {1, 2}
    MaxTicks = 3
    MaxSets = 1
SPECIFICATION FairCaptureSpec
INVARIANT StampHonest
INVARIANT SnapshotShared
INVARIANT PaceKept
INVARIANT PairsInTurn
PROPERTY CaptureStops
CHECK_DEADLOCK FALSE
