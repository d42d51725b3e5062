SPECIFICATION Spec
CONSTANTS
    None = None
    Handler = {h1}
    Attempt = {a1, a2, a3}
    MaxAttempts = 2
    MaxDefers = 1
    Incident <- MCReopens
    Budget = 1
PROPERTIES NoClaimWedges
CHECK_DEADLOCK FALSE
