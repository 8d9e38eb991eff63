SPECIFICATION FairSpec
CONSTANTS
    ID = {a}
    NoBranch = NoBranch
    MaxCalls = 2
    MaxFan = 1
    MaxFaults = 2
    MaxCrashes = 1
    Leases = {"held"}
    RacingReuse = FALSE
    RestartDead = TRUE
    Sweeps = {"reap", "reconcile", "dead", "close"}
INVARIANT OnlySandboxOrphans
PROPERTIES DeadHandled LapsedCollected LeftoversSettle
CHECK_DEADLOCK FALSE
