CONSTANTS
    a = a
    b = b
    v = v
    w = w
    NoFile = NoFile
    Torn = Torn
    Items = {a, b}
    Values = {v, w}
    Pids = {p, q}
    MaxFaults = 3
    Transactions <- MCTransactions
SPECIFICATION FairSpec
INVARIANTS HandlerSeesWhole
PROPERTIES SavesAreAtomic PendingCompletes
