CONSTANTS
    ShareUnits = 2
    ThermalFloor = 2
    SignalSets <- Fleet
    OtherHints = {"gpu-parked"}
SPECIFICATION Spec
INVARIANTS PureRulesFresh LinkOutliersFresh BaselineIsCurrent
