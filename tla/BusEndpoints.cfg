SPECIFICATION Spec
CONSTANTS
    m = m
    n = n
    x = x
    y = y
    None = None
    Caller = {x, y}
    Conversation = {m, n}
    MaxSessions <- MCSessions
    MaxProcesses <- MCProcesses
    MaxEndpoints = 3
    MaxLineages = 2
    Budget = 2
INVARIANTS MailboxesAreKept CompactionKeepsSeat
CONSTRAINT MCSmall
PROPERTIES ImplementsRegistry LiveIsNeverReplaced
SYMMETRY MCSymmetry
CHECK_DEADLOCK FALSE
