CONSTANTS
    c1 = c1
    c2 = c2
    e1 = e1
    Callers <- TwoCallers
    Events <- OneEvent
    Period = 1
    MaxRefreshes = 1
SPECIFICATION FairSpec
INVARIANTS EventsInOnePlace HealthErrorsAreShown
PROPERTIES LostOnlyByFatalErrors LogStreamSpec
