SPECIFICATION Spec
CONSTANTS
    a = a
    b = b
    c = c
    k1 = k1
    k2 = k2
    p1 = p1
    p2 = p2
    None = None
    Endpoint = {a, b, c}
    Founder = {a, b}
    Key = {k1, k2}
    Payload = {p1, p2}
    Actionable = {p1, p2}
    Sends <- MCSends
    Updates = {"park", "resolve", "reopen"}
    Reading = {b, c}
    Replacing <- MCHeir
    Prompted = {b}
    MaxHops = 2
    PollLimit = 2
    MaxId = 4
    MaxLog = 3
    MaxFaults = 1
    Lossy = TRUE
INVARIANTS FinalReceiptIsCommitted NumberStaysFree HopCapHolds UnackedKeepsAPointer SeqIsUnique
PROPERTIES PromptsAreNews
CONSTRAINT MCDelivery
CHECK_DEADLOCK FALSE
