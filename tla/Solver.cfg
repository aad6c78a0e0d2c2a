SPECIFICATION Spec
CONSTANTS
    Worlds <- MCWorlds
    Name <- MCName
    Rank <- MCRank
    NoHash = "none"
    CodeGeneration = "code-generation"
    MaxSolutions = 3
INVARIANTS
    SolverTypeOK
    ConstraintsCompatible
    AnyChoiceIsValid
    NoSolutionMissed
CHECK_DEADLOCK FALSE
