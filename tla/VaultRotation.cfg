SPECIFICATION RotationSpec
CONSTANTS
    Keys = {k1, k2}
    NoKey = none
    Sizes <- MCSizes
    BatchSize = 1
    Servers = {p1}
    MaxRuns = 2
    MaxInterrupts = 1
INVARIANT CleanBehindCursor
INVARIANT ReadableAfterCheck
PROPERTY RotationCompletes
CHECK_DEADLOCK FALSE
