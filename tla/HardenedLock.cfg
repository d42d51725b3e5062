SPECIFICATION FairSpec
CONSTANTS
    t1 = t1
    t2 = t2
    t3 = t3
    NoOne = NoOne
    Signatures = {TRUE}
    MaxFaults = 1
    Task <- MCTask
    Process <- MCTask
    ProcOf <- MCAlone
    Modes = {"wait", "try"}
CONSTRAINT MCHolder
INVARIANTS MutualExclusion UnlinksWhatItCompared LeftOnlyByFailure
PROPERTIES AcquisitionEnds DeadHolderReclaimed OnlyDeadAreReaped ImplementsService
CHECK_DEADLOCK FALSE
