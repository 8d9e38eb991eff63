SPECIFICATION ExecFairSpec
CONSTANTS
    CL = {c1, c2}
    Timeout = 2
    Grace = 1
    Handshake = 2
    Readiness = 3
    Never = 9
    MaxFaults = 1
INVARIANT TimeoutsHold
PROPERTIES TimedCallsReturn
CHECK_DEADLOCK FALSE
