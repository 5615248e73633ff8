SPECIFICATION FairSpec
CONSTANTS
    MaxCmds = 5
    MaxLate = 2
    MaxOthers = 1
CHECK_DEADLOCK FALSE
INVARIANTS TypeOK Undamaged SentAsTyped InsessionTrue
PROPERTY AnswerComes
