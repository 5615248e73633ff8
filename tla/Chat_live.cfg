SPECIFICATION FairSpec
CONSTANTS
    c1 = c1 c2 = c2 s1 = s1 u1 = u1
    Conns = {c1, c2}
    SessIds = {s1}
    Users = {u1}
    FirstClient = u1
    NULL = NULL  NoName = NoName
    Patient = TRUE
    Kills = TRUE
    MaxCmds = 1
CHECK_DEADLOCK FALSE
PROPERTIES Answered EndsNoticed
