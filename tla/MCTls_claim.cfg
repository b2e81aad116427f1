SPECIFICATION Spec
CONSTANTS
  Pairings <- Threads
  Handshakes <- ShortHandshake
  RecordUnits = 1
  Cap = 2
  MaxRecords = 4
  StepsMax = 3
INVARIANT SendsAll
CHECK_DEADLOCK FALSE
