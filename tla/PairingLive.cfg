SPECIFICATION FairSpec
CONSTANTS
  Prompt = TRUE
  MaxParticipant = 2
  MaxExchange = 8
  MaxReconnect = 8
  MaxFault = 2
CHECK_DEADLOCK FALSE
PROPERTIES
  PairingFinishes
