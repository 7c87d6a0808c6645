CONSTANTS
    FsyncEvery = 2
    MaxSnapshots = 4
    MaxReopens = 1
SPECIFICATION Spec
INVARIANTS InOrderOnce AckedIsRecorded HintsHaveSnapshots
PROPERTY PowerLossIsBounded
CHECK_DEADLOCK FALSE
