SPECIFICATION FairSpec
CONSTANTS
    Versions = {7}
    MaxCrashes = 1
    MaxFaults = 2
    AppendFaults = {"lost", "torn", "kept"}
    Requests = "latest"
    Relay = {"panics", "survives"}
    Slow = {"root"}
    Killed = {"main", "restore", "machine"}
    Operator = "late"
    Disturbed = {"retry3Root"}
CHECK_DEADLOCK FALSE
INVARIANTS
  RollbackRestoresDriver
  CommitKeepsDriver
  RollbackPossible
PROPERTIES
  MovesHostless
  Settles
