SPECIFICATION Spec
CONSTANTS
    None = None
    Handler = {h1, h2}
    Attempt = {a1, a2, a3, a4, a5}
    MaxAttempts = 2
    MaxDefers = 1
    Incident <- MCEverything
    Budget = 2
INVARIANTS ChildIsNamed OneWakeChild TakeoverStandsDown
PROPERTIES CancelIsFinal ResumedMeansMovedOn ParkedIsResolved CancelEnds
CHECK_DEADLOCK FALSE
