SPECIFICATION Spec
CONSTANTS
    Name <- MCName
    Spock = "spock"
    CodeGeneration = "code-generation"
    Defs <- ExclusiveDefs
    Initial <- MCInitial
    Requests <- ExclusiveRequests
    MaxShells = 2
    MaxStore = 8
INVARIANT SecondaryNamesExclude
CHECK_DEADLOCK FALSE
