CONSTANTS
    ShareUnits = 2
    ThermalFloor = 2
    SignalSets <- Fleet
    OtherHints = {"gpu-parked"}
SPECIFICATION Spec
INVARIANT CRCHintMeansGrowth
