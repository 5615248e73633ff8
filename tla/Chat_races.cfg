SPECIFICATION Spec
CONSTANTS
    c1 = c1 c2 = c2 s1 = s1 u1 = u1 u2 = u2
    Conns = {c1, c2}
    SessIds = {s1}
    Users = {u1, u2}
    FirstClient = u1
    NULL = NULL  NoName = NoName
    Patient = TRUE
    Kills = TRUE
    MaxCmds = 3
CHECK_DEADLOCK FALSE
SYMMETRY ConnSymmetry
INVARIANTS IsLogExact AckedIsMember LoginReadsReply
PROPERTY MembersHear
