SPECIFICATION LiveSpec
CONSTANTS
  MaxTroubles = 2
  Events = {"host", "audio", "routes", "files"}
  Things = {"pairing"}
CHECK_DEADLOCK FALSE
INVARIANTS
  DriverKept
  HostSeesInstalledDriver
  RecordsTrue
  Recoverable
PROPERTIES
  TransactionOnce
  HostReturns
