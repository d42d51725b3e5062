SPECIFICATION WaitSpec
CONSTANTS
    a = a
    b = b
    c = c
    k1 = k1
    p1 = p1
    p2 = p2
    None = None
    Endpoint = {a, b, c}
    Founder = {a, b}
    Key = {k1}
    Payload = {p1, p2}
    Actionable = {p1}
    Sends <- MCOne
    Updates = {}
    Reading = {b, c}
    Replacing <- MCHeir
    Prompted = {}
    MaxHops = 2
    PollLimit = 1
    MaxId = 2
    MaxLog = 1
    MaxFaults = 1
    Lossy = FALSE
INVARIANTS TimeoutIsHonest
CONSTRAINT Heirs
PROPERTIES ImplementsService MailIsShown NoMailWaits WaitsEnd
CHECK_DEADLOCK FALSE
