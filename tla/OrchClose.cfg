SPECIFICATION FairSpec
CONSTANTS
    ID = {a, b}
    NoBranch = NoBranch
    MaxCalls = 2
    MaxFan = 1
    MaxFaults = 1
    MaxCrashes = 0
    Leases = {"none"}
    RacingReuse = FALSE
    RestartDead = FALSE
    Sweeps = {"close", "losers"}
INVARIANTS ClosedIsQuiet
PROPERTIES WaitsEnd LosersGone
CHECK_DEADLOCK FALSE
