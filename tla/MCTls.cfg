SPECIFICATION FairSpec
CONSTANTS
  Pairings <- AllPairings
  Handshakes <- BothHandshakes
  RecordUnits = 3
  Cap = 2
  MaxRecords = 2
  StepsMax = 10
INVARIANTS FlagsTrue RecordsInOrder SuppressionHonest
PROPERTY EverythingArrives
CHECK_DEADLOCK FALSE
