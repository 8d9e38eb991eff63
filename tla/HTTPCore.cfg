SPECIFICATION HTTPFairSpec
CONSTANTS
    Branch = {a, b}
    NoBranch = NoBranch
    Thread = {t1, t2}
    MaxRetries = 1
    MaxRequests = 4
    MaxFaults = 2
INVARIANTS ActiveExact KillWaits SidesAgree
PROPERTIES CallsReturn
CHECK_DEADLOCK FALSE
