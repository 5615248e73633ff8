SPECIFICATION Spec
CONSTANTS
  FileLen = 9
  DataSize = 4
  AckLen = 4
  RetransMax = 3
  MaxTries = 4
  MaxLoss = 2
  MaxDup = 2
  DropFirst = FALSE
  NameTerminated = FALSE
  Faults = {"open", "write"}
INVARIANTS TypeOK ConfirmedWasReceived StoredAtMostOnce FileIsPrefix NothingPadded IInv
PROPERTY ImplementsDelivery
CHECK_DEADLOCK FALSE
