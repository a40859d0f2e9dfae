\* imu and temperature are of one group: group_active asks for each of them.
CONSTANTS
    Clients = {c1, c2}
    DataTypes = {"stereo_image", "imu", "temperature"}
    Workers = {w1, w2}
    OneAtATime = FALSE
SPECIFICATION CommandSpec
INVARIANT RefcountExact
INVARIANT ActiveIffWanted
INVARIANT LastLeaverFlushes
SYMMETRY ClientsAndWorkers
