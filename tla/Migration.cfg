SPECIFICATION FairSpec
CONSTANTS
    MaxGen = 3
    MaxCrashes = 1
    MaxFaults = 1
    AppendFaults = {"lost"}
    Substitution = TRUE
CHECK_DEADLOCK FALSE
INVARIANTS
  NeverBothHosts
  JournalTruthful
PROPERTIES
  ReadinessFresh
  ImplementsCutover
  ServiceReturns
