SPECIFICATION Spec
CONSTANTS
  FileLen = 9
  DataSize = 4
  AckLen = 4
  RetransMax = 3
  MaxTries = 4
  MaxLoss = 0
  MaxDup = 0
  DropFirst = TRUE
  NameTerminated = TRUE
  Faults = {}
INVARIANT AckMeansStored
CHECK_DEADLOCK FALSE
