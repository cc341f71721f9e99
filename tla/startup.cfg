SPECIFICATION MCSpec
CONSTANTS
    Inputs <- MCInputs
    UsizeMax = 7
    BufSize = 2
    Commands <- MCCommands
    NoCommand = NoCommand
    Threshold = 10
INVARIANTS TrackersOwnATuner MergingKeepsServices RebuildFollowsTime
CHECK_DEADLOCK FALSE
