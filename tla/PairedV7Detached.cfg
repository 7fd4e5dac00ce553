SPECIFICATION FairSpec
CONSTANTS
    Versions = {7}
    MaxCrashes = 1
    MaxFaults = 1
    AppendFaults = {}
    Requests = "latest"
    Relay = {"panics"}
    Slow = {}
    Killed = {"main"}
    Operator = "never"
    Disturbed = {}
CHECK_DEADLOCK FALSE
PROPERTIES
    DetachedRecovery
