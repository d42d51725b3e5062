SPECIFICATION Spec
CONSTANTS
    a = a
    b = b
    c = c
    k1 = k1
    k2 = k2
    p1 = p1
    p2 = p2
    None = None
    Endpoint = {a, b, c}
    Founder = {a, b}
    Key = {k1, k2}
    Payload = {p1, p2}
    Actionable = {p1}
    Sends <- MCTwo
    Updates = {}
    Reading = {b, c}
    Replacing <- MCHeir
    Prompted = {b, c}
    MaxHops = 2
    PollLimit = 2
    MaxId = 2
    MaxLog = 4
    MaxFaults = 0
    Lossy = FALSE
INVARIANTS SilenceMeansNothingNew
CHECK_DEADLOCK FALSE
