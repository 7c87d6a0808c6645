CONSTANTS
    c1 = c1
    c2 = c2
    Callers <- TwoCallers
    Period = 2
    MaxRefreshes = 4
SPECIFICATION MCSpec
INVARIANTS AtMostOneRefresh ErrorReportedOnce ErrorNewerUnlessOverlapped
PROPERTIES ResultsMoveForward FailuresNeverWedge
