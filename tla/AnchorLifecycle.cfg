SPECIFICATION FairSpec
CONSTANTS
  N = 2
  LIMIT = 1
  TTL = 1
INVARIANTS
  ReceiptBacksStatus
  TimeoutNeverEarly
  KarmaHasTx
PROPERTIES
  TerminalIsFinal
  SubmittedResolves
CHECK_DEADLOCK FALSE
