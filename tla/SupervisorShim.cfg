SPECIFICATION SupSpec
CONSTANTS
    ID = {a, b}
    Modes = {"shim"}
    MaxFan = 2
    MaxCalls = 2
    MaxFaults = 1
    MaxCrashes = 1
INVARIANT ForkedStaysUp
CHECK_DEADLOCK FALSE
