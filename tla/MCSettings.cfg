CONSTANTS
    Keys = {1, 2, 3, 4}
    Registered = {1, 2, 3}
    Integers = {2, 3}
    ReadOnly = {2}
    Configured = {3}
    Values = {1, 2, 3}
    Workers = {w1}
    MaxEdits = 1
    MaxStarts = 3
    MaxSets = 2
    Legal <- MCLegal
    Default <- MCDefault
SPECIFICATION SettingsSpec
INVARIANT ValuesLegal
INVARIANT AnsweredIsSaved
INVARIANT KeptAcrossRestarts
INVARIANT LoadedUpToTheFault
CHECK_DEADLOCK FALSE
