SPECIFICATION AgentFairSpec
CONSTANTS
    Caller = {1, 2}
    Contexts <- MCContexts
    Rounds <- MCRounds
    Scores = {1}
    Depth <- MCDepth
    MaxRounds <- MCMaxRounds
    Reuse = FALSE
    MaxBranches = 5
    MaxFaults = 1
INVARIANTS LedgerSound WinnerExtends LineSpared
PROPERTIES SoleLeaf CallsEnd
CHECK_DEADLOCK FALSE
