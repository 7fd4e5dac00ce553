SPECIFICATION Spec
CONSTANTS
  s1 = s1
  s2 = s2
  s3 = s3
  Sockets = {s1, s2, s3}
  Mode = "invitation"
  Crashes = TRUE
  MaxGeneration = 2
  MaxAttempt = 0
  MaxSequence = 1
SYMMETRY SocketSymmetry
CHECK_DEADLOCK FALSE
INVARIANTS
  OneSocketPerRole
  NoOrphanSocket
  OneViewerAdmitted
