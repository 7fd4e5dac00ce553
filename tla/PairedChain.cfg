SPECIFICATION Spec
CONSTANTS
    Versions = {1, 2, 3, 4, 5, 6}
    MaxCrashes = 1
    MaxFaults = 1
    AppendFaults = {"restored", "lost", "torn", "kept"}
    Requests = "latest"
CHECK_DEADLOCK FALSE
INVARIANTS
  HistoryCoherent
PROPERTIES
  ImplementsReleases
