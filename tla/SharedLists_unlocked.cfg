SPECIFICATION Spec
CONSTANTS
    c1 = c1 c2 = c2 a = a b = b s1 = s1
    Threads = {c1, c2}
    Sessions = {a, b}
    List = List
    Ids = {s1}
    NULL = NULL
    MaxOps = 4
    MaxLate = 4
CHECK_DEADLOCK FALSE
INVARIANT WalksStayInside
