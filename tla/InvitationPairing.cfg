SPECIFICATION Spec
CONSTANTS
  s1 = s1
  s2 = s2
  s3 = s3
  Sockets = {s1, s2, s3}
  Mode = "pairing"
  Crashes = TRUE
  MaxGeneration = 1
  MaxAttempt = 2
  MaxSequence = 4
SYMMETRY SocketSymmetry
CHECK_DEADLOCK FALSE
INVARIANTS
  TypeOK
  TombstoneDeserted
  AckProgressIsCurrent
PROPERTIES
  ConsumeNeedsExchange
  LiveAttemptProgresses
  ImplementsOneUse
