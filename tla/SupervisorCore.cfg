SPECIFICATION SupFairSpec
CONSTANTS
    ID = {a, b}
    Modes = {"preexec", "shim", "off"}
    MaxFan = 2
    MaxCalls = 2
    MaxFaults = 1
    MaxCrashes = 1
INVARIANTS MemoryMatchesFile EveryProcessJournaled NoneOutlives
PROPERTIES OrphansEnd
CHECK_DEADLOCK FALSE
