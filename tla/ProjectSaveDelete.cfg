CONSTANTS
    a = a
    b = b
    v = v
    w = w
    NoFile = NoFile
    Torn = Torn
    Items = {a, b}
    Values = {v, w}
    Pids = {p, q}
    MaxFaults = 1
    Transactions <- MCTransactions
SPECIFICATION Spec
INVARIANTS RecoveredBeforeSaving
