SPECIFICATION FairSpec
CONSTANTS
    ExitCode = {0, 3}
    Signaled = Signaled
    PipeSize = 2
    MaxChunks = 3
    MaxSignals = 2
INVARIANTS FilterTypeOK PidsAreOurs NothingDropped FilterOutlivesPrimary SuccessIsReal NoFilterLeft
PROPERTIES EndsOnceOver
CHECK_DEADLOCK FALSE
