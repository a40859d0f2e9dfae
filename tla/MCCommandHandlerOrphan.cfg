CONSTANTS
    Clients = {c1}
    DataTypes = {"stereo_image"}
    Workers = {w1, w2}
    OneAtATime = FALSE
SPECIFICATION CommandSpec
INVARIANT DisconnectedHasNone
