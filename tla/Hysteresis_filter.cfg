CONSTANTS
    Names = {"gpu-parked", "gpu-ecc-errors"}
    Bypass = {"gpu-ecc-errors"}
    One = 10
    Threshold = 20
    MaxScore = 49
    Decay <- TenthsDecay
    DeleteBelow = 1
SPECIFICATION Spec
INVARIANTS TransientIsHeldBack SustainedIsShown
