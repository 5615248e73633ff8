SPECIFICATION FairSpec
CONSTANTS
  FileLen = 9
  DataSize = 4
  AckLen = 4
  RetransMax = 3
  MaxTries = 20
  MaxLoss = 2
  MaxDup = 2
  DropFirst = TRUE
  NameTerminated = TRUE
  Faults = {}
INVARIANT ConfirmedIsStored
PROPERTIES HandshakeAnswered ClientStops ServerGetsAll ClientFinishes
CHECK_DEADLOCK FALSE
