CONSTANTS
    Names = {"gpu-xid-error"}
    Bypass = {}
    One = 10
    Threshold = 20
    MaxScore = 49
    Decay <- TenthsDecay
    DeleteBelow = 1
SPECIFICATION Spec
INVARIANT XidIsSurfaced
