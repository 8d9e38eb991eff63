SPECIFICATION Spec
CONSTANTS
    ID = {a, b, c}
    NoBranch = NoBranch
    MaxCalls = 2
    MaxFan = 2
    MaxFaults = 1
    MaxCrashes = 1
    Leases = {"none"}
    RacingReuse = FALSE
    RestartDead = FALSE
    Sweeps = {"reconcile"}
SYMMETRY Symmetry
INVARIANTS TypeOK NoLeak OneWorkerPerId LiveIsWhole Agreement
PROPERTIES KillIsFinal ImplementsLedger
CHECK_DEADLOCK FALSE
