SPECIFICATION Spec
CONSTANTS
    RingSize = 2  MaxRecords = 4  MaxClock = 3
    Users = {u1, u2}  MaxChanges = 3  a = a  b = b  DeviceLists <- TwoDevices
    NDevices = 2  MaxMoves = 2
    Pids = {p, q}  EvictFactor = 1  CpuCap = 2  Width = 8  MaxStarts = 2  MaxCpu = 2
    Callers = {c1, c2}  MaxTicks = 3  MaxCalls = 4
    Clients = {k}  MaxLives = 3  MaxSnapshots = 2
    MaxFailed = 2  Devices <- OneGpu  Nodes <- OneNode
INVARIANTS
    TimedEventsOnce MissedForAReason
    HandlesAreCurrent ProcessesListedOnce
    NamesAreOwn CpuUseIsOwn SharesAreGrowth
    AgentIsReachable AnswersAreCurrent
    FailuresAccuseNoGPU BadgesMirrorHints
CHECK_DEADLOCK FALSE
