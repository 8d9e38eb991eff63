SPECIFICATION FCSpec
CONSTANTS
    ID = {a, b}
    NoBranch = NoBranch
    MaxVMs = 3
    Capacity = 2
    MaxFaults = 2
    MaxCrashes = 1
SYMMETRY Symmetry
INVARIANTS OnlyKnownOrphans KilledIsGone IndicesKept NetworkKept
CHECK_DEADLOCK FALSE
