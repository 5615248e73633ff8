SPECIFICATION FairSpec
CONSTANTS
    c1 = c1 c2 = c2 c3 = c3 a = a b = b s1 = s1
    Threads = {c1, c2, c3}
    Sessions = {a, b}
    List = List
    Ids = {s1}
    NULL = NULL
    MaxOps = 4
    MaxLate = 0
CHECK_DEADLOCK FALSE
INVARIANTS TypeOK  CountersAgree
PROPERTIES EveryMemberSeen ImplementsRosters HandlersEnd
