SPECIFICATION FairSpec
CONSTANTS
  s1 = s1
  s2 = s2
  Sockets = {s1, s2}
  Mode = "pairing"
  Crashes = FALSE
  MaxGeneration = 2
  MaxAttempt = 2
  MaxSequence = 4
CHECK_DEADLOCK FALSE
PROPERTIES
  InvitationsEnd
