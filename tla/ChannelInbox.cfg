SPECIFICATION FairSpec
CONSTANTS
    p = p
    q = q
    Server = {p, q}
    Drains <- MCDrains
    Kinds <- MCKinds
    MaxEvents = 2
    MaxTries = 2
    Depth = 1
    MaxFailed = 1
    MaxFaults = 1
INVARIANTS KeptUntilSent SentOncePerStart
PROPERTIES EventsSettle
