SPECIFICATION FairSpec
CONSTANTS
  s1 = s1
  s2 = s2
  s3 = s3
  NoSocket = NoSocket
  Sockets = {s1, s2, s3}
  MaxExchange = 6
  MaxSequence = 1
  MaxFaults = 2
CHECK_DEADLOCK FALSE
INVARIANTS
  AttachmentsCoherent
PROPERTIES
  LiveExchangeKept
  ProbeProvesCurrentHost
  EventuallyPaired
