SPECIFICATION FairSpec
CONSTANTS
    t1 = t1
    t2 = t2
    t3 = t3
    NoOne = NoOne
    Dir = Dir
    Task <- MCTask
    Process <- MCTask
    ProcOf <- MCAlone
    MaxDirs = 2
    MaxFailures = 1
CONSTRAINT MCTwo
INVARIANTS HolderKeepsLock
PROPERTIES ImplementsService AcquisitionEnds AbandonedIsReclaimed
CHECK_DEADLOCK FALSE
