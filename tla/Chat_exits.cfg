SPECIFICATION FairSpec
CONSTANTS
    c1 = c1 s1 = s1 u1 = u1
    Conns = {c1}
    SessIds = {s1}
    Users = {u1}
    FirstClient = u1
    NULL = NULL  NoName = NoName
    Patient = TRUE
    Kills = FALSE
    MaxCmds = 2
CHECK_DEADLOCK FALSE
PROPERTY ExitCompletes
