SPECIFICATION FairSpec
CONSTANT MaxRecords = 5
CHECK_DEADLOCK FALSE
INVARIANTS TypeOK OrderKept WholeReadsSuffice NoneSkipped
PROPERTY StreamsDrain
