SPECIFICATION Spec
CONSTANTS
    ExitCode = {0, 3}
    Signaled = Signaled
    PipeSize = 1
    MaxChunks = 2
    MaxSignals = 1
INVARIANTS SignalReachesPrimary
CHECK_DEADLOCK FALSE
