CONSTANTS
    FsyncEvery = 2
    MaxSnapshots = 3
    MaxReopens = 1
    Clients = {"tui"}
SPECIFICATION Spec
INVARIANTS SeenIsRecorded ExitOkIsDurable
PROPERTY StopsOnSignal
CHECK_DEADLOCK FALSE
