SPECIFICATION SnapSpec
CONSTANTS
    ID = {a, b, c}
    NoBranch = NoBranch
    Overlay = TRUE
    Background = FALSE
    MaxWrites = 1
    MaxExecs = 2
    MaxLives = 4
    MaxFaults = 1
SYMMETRY Symmetry
INVARIANTS CurrentIsSaved ForkInherits NeverFrozen
CHECK_DEADLOCK FALSE
