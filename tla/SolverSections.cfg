SPECIFICATION Spec
CONSTANTS
    Worlds <- OverlapWorlds
    Name <- MCName
    Rank <- MCRank
    NoHash = "none"
    CodeGeneration = "code-generation"
    MaxSolutions = 1
INVARIANT LastSectionApplies
CHECK_DEADLOCK FALSE
