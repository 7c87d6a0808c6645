CONSTANTS
    FsyncEvery = 1
    MaxSnapshots = 3
    MaxReopens = 1
SPECIFICATION Spec
INVARIANT CrashLossIsBounded
CHECK_DEADLOCK FALSE
