CONSTANTS
    Sessions <- AllSessions
    Script <- SessionScript
    Keys <- SessionKeys
    Sizes <- SessionSizes
    Inputs <- SessionInputs
    MaxHintHistory = 2
    Cap = 2
    Samples = {0, 1, 2}
SPECIFICATION FairSpec
INVARIANTS HighlightVisible TablesAreCurrent HistoryIsFaithful CurrentHintsAreListed
INVARIANTS ErrorTotalsAreExact TrendsAreExact ChartsFit
PROPERTY RefreshResumes
CHECK_DEADLOCK FALSE
