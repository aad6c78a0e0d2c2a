SPECIFICATION Spec
CONSTANTS
    Name <- MCName
    Spock = "spock"
    CodeGeneration = "code-generation"
    Defs <- MCDefs
    Initial <- MCInitial
    Requests <- MCRequests
    MaxShells = 2
    MaxStore = 8
INVARIANTS
    SessionTypeOK
    ShellsConsistent
    RequestMet
    NothingLeaks
    PathOrder
    StoreUsable
    BuildEnvironment
    LatticeEmptied
CHECK_DEADLOCK FALSE
