SPECIFICATION FairSpec
CONSTANTS
    Versions = {8}
    MaxCrashes = 2
    MaxFaults = 2
    AppendFaults = {"restored", "lost", "torn", "kept"}
    Requests = "latest"
CHECK_DEADLOCK FALSE
INVARIANTS
  BaselineInOnePlace
PROPERTIES
  StepsProved
  UpdateSettles
