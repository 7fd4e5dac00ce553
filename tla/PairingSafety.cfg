SPECIFICATION Spec
CONSTANTS
  Prompt = FALSE
  MaxParticipant = 3
  MaxExchange = 5
  MaxReconnect = 3
  MaxFault = 4
CHECK_DEADLOCK FALSE
INVARIANTS
  RecordsMatch
  SequencesFresh
  CommitsAccepted
PROPERTIES
  RecordsAdvance
