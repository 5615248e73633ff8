----------------------------- MODULE SharedLists -----------------------------
(***************************************************************************)
(* lab4/SessionList.h as the server's threads run it: one step per turn of *)
(* a loop and per store to shared memory (the way to an index FindSession  *)
(* has returned, and DestroySession's loop of frees, are one step).  Only  *)
(* JOIN takes a lock; NEW_SESS, LEAVE_SESS, MESSAGE and QUERY take none.   *)
(*                                                                         *)
(* The list of sessions and the list of a session's clients have the same  *)
(* shape: an owner with a pointer to the first node and a counter, and in  *)
(* each node one pointer to the next.  CreateSess and JoinSess append to   *)
(* them with the same statements in the same order, and are one set of     *)
(* actions here.  A thread stands for its CoClient.                        *)
(***************************************************************************)
EXTENDS Integers, Sequences, SequencesExt, FiniteSets

CONSTANTS
    Threads,    \* one per logged in client
    Sessions,   \* memory cells for Session records
    List,       \* the SessionList record
    Ids,        \* session names
    NULL,
    MaxOps,     \* bound: packets handled
    MaxLate     \* bound: of these, once two changes have clashed

ASSUME SharedAssumption ==
    /\ NULL \notin Threads \cup Sessions \cup Ids
    /\ List \notin Threads \cup Sessions \cup {NULL}
    /\ Threads \cap Sessions = {}
    /\ IsFiniteSet(Threads) /\ IsFiniteSet(Sessions)
    /\ MaxOps \in Nat /\ MaxLate \in Nat

VARIABLES
    first,      \* head of the session list and of each session
    size,       \* list_sz and session_sz
    nxt,        \* nextSession and nextCoClient; of NULL it is NULL
    id,         \* sessionID; NULL in a cell that malloc has not given out
    freed,      \* cells and CoClients given to free
    mutex,      \* sessionList_mutex: its holder, or NULL
    fault,      \* "segv", "freed" or "abort" ends the server
    joined,     \* the names in each client's joinedSession list
    pc, op,     \* where the thread is, and in which function called by whom
    loc,        \* its locals
    ops,        \* used of MaxOps
    seen, owed, \* history of a MESSAGE or QUERY: the clients it has visited,
                \* and those that were members when it began
    stale,      \* history: those who read while an unlocked change was under way
    clashed     \* history: an unlocked change has met another change

heap == <<first, size, nxt, id, freed>>
history == <<seen, owed>>
races == <<stale, clashed>>
vars == <<heap, mutex, fault, joined, pc, op, loc, ops, history, races>>

Init ==
    /\ first = [x \in Sessions \cup {List} |-> NULL]
    /\ size = [x \in Sessions \cup {List} |-> 0]
    /\ nxt = [x \in Sessions \cup Threads \cup {NULL} |-> NULL]
    /\ id = [s \in Sessions |-> NULL]
    /\ freed = {} /\ mutex = NULL /\ fault = "none"
    /\ joined = [c \in Threads |-> <<>>]
    /\ pc = [c \in Threads |-> "idle"] /\ op = [c \in Threads |-> "none"]
    /\ loc = [c \in Threads |-> [name |-> NULL, own |-> List, node |-> NULL,
                                 at |-> NULL, i |-> 0, n |-> 0]]
    /\ ops = 0
    /\ seen = [c \in Threads |-> <<>>] /\ owed = [c \in Threads |-> {}]
    /\ stale = {} /\ clashed = FALSE

-----------------------------------------------------------------------------
\* The n-th node of x's list, counted from 0; past the end it is NULL.
Nth(x, n) ==
    LET walk[k \in 0..n] == IF k = 0 THEN first[x] ELSE nxt[walk[k - 1]]
    IN  walk[n]

\* The nodes of x's list, which are no more than there are.
Chain(x) ==
    [n \in {k \in 1..Cardinality(Sessions \cup Threads) : Nth(x, k - 1) # NULL}
        |-> Nth(x, n - 1)]

Goes(c, to) == pc' = [pc EXCEPT ![c] = to]

\* Mutant of Returns: the lock is not given back.
ReturnsHolding(c) == Goes(c, "idle")

\* The list function returns; JOIN then gives the lock back.
Returns(c) == Goes(c, IF op[c] = "JOIN" THEN "unlock" ELSE "idle")

\* Within a list function: to the next statement, with these locals.
Moves(c, to, l) ==
    /\ Goes(c, to) /\ loc' = [loc EXCEPT ![c] = l]
    /\ UNCHANGED <<mutex, joined, op, ops, history>>

\* Dereferencing y, then the rest of the step: NULL ends the server, and so,
\* here, does freed memory.
Reads(y, rest) ==
    IF y = NULL \/ y \in freed
    THEN /\ fault' = IF y = NULL THEN "segv" ELSE "freed"
         /\ UNCHANGED <<heap, mutex, joined, pc, op, loc, ops, history>>
    ELSE rest /\ UNCHANGED fault

\* FindSession begins, on behalf of what.
Searches(c, what, l) ==
    /\ op' = [op EXCEPT ![c] = what]
    /\ loc' = [loc EXCEPT ![c] = [l EXCEPT !.at = first[List], !.i = 0]]
    /\ Goes(c, "search")

-----------------------------------------------------------------------------
(***************************************************************************)
(* A packet is read.  What arrives fits what the client program takes      *)
(* itself to be in: a session, or none.                                    *)
(***************************************************************************)
Begins(c) ==
    /\ pc[c] = "idle" /\ ops < (IF clashed THEN MaxLate ELSE MaxOps) /\ c \notin freed
    /\ ops' = ops + 1

BeginJoin(c) ==
    /\ Begins(c) /\ joined[c] = <<>>
    /\ \E s \in Ids : Searches(c, "check", [loc[c] EXCEPT !.name = s])
    /\ UNCHANGED <<heap, mutex, fault, joined, history>>

\* CreateSess: a new cell, to be appended to the session list.
BeginNew(c) ==
    /\ Begins(c) /\ joined[c] = <<>>
    /\ LET unused == {s \in Sessions : id[s] = NULL}
           cell == CHOOSE s \in unused : TRUE
       IN  /\ unused # {}
           /\ \E s \in Ids :
                 /\ id' = [id EXCEPT ![cell] = s]
                 /\ loc' = [loc EXCEPT ![c] =
                       [@ EXCEPT !.name = s, !.own = List, !.node = cell]]
    /\ op' = [op EXCEPT ![c] = "NEW_SESS"] /\ Goes(c, "append")
    /\ UNCHANGED <<first, size, nxt, freed, mutex, fault, joined, history>>

\* LeaveSess takes the last name from the client's own list.
BeginLeave(c) ==
    /\ Begins(c) /\ joined[c] # <<>>
    /\ joined' = [joined EXCEPT ![c] = Front(@)]
    /\ Searches(c, "LEAVE", [loc[c] EXCEPT !.name = Last(joined[c])])
    /\ UNCHANGED <<heap, mutex, fault, history>>

\* Those who are in a session, and counted there.
Settled ==
    {c \in UNION {ToSet(Chain(s)) : s \in Sessions} : pc[c] \notin {"load", "store"}}

\* MESSAGE and QUERY read the lists in the same way.
BeginRead(c) ==
    /\ Begins(c)
    /\ op' = [op EXCEPT ![c] = "READ"] /\ Goes(c, "sessions")
    /\ loc' = [loc EXCEPT ![c] = [@ EXCEPT !.at = first[List], !.i = 0]]
    /\ seen' = [seen EXCEPT ![c] = <<>>]
    /\ owed' = [owed EXCEPT ![c] = Settled]
    /\ UNCHANGED <<heap, mutex, fault, joined>>

-----------------------------------------------------------------------------
(***************************************************************************)
(* FindSession, and what its caller does with the result.                  *)
(***************************************************************************)
Search(c) ==
    LET l == loc[c]
        next == CASE op[c] = "check" -> "lock"
                  [] op[c] \in {"JOIN", "NEW_SESS"} -> "enter"
                  [] op[c] = "LEAVE" -> "look"
                  [] op[c] = "destroy" -> "destroy"
    IN  /\ pc[c] = "search"
        /\ IF l.i >= size[List]
           THEN /\ Returns(c)
                /\ UNCHANGED <<mutex, fault, joined, op, loc, ops, history>>
           ELSE Reads(l.at,
                  IF id[l.at] = l.name THEN Moves(c, next, l)
                  ELSE Moves(c, "search",
                             [l EXCEPT !.at = nxt[l.at], !.i = @ + 1]))
        /\ UNCHANGED heap

\* Mutant of Lock: nobody waits.
LockFree(c) ==
    /\ pc[c] = "lock"
    /\ mutex' = c
    /\ joined' = [joined EXCEPT ![c] = <<>>] /\ nxt' = [nxt EXCEPT ![c] = NULL]
    /\ Searches(c, "JOIN", loc[c])
    /\ UNCHANGED <<first, size, id, freed, fault, ops, history>>

\* JOIN found the session: the lock, a CoClient in no list, and JoinSess.
Lock(c) ==
    /\ pc[c] = "lock" /\ mutex = NULL
    /\ mutex' = c
    /\ joined' = [joined EXCEPT ![c] = <<>>] /\ nxt' = [nxt EXCEPT ![c] = NULL]
    /\ Searches(c, "JOIN", loc[c])
    /\ UNCHANGED <<first, size, id, freed, fault, ops, history>>

Unlock(c) ==
    /\ pc[c] = "unlock"
    /\ mutex' = NULL /\ Goes(c, "idle")
    /\ UNCHANGED <<heap, fault, joined, op, loc, ops, history>>

\* JoinSess: the session's name goes to the client's own list.
Enter(c) ==
    LET s == Nth(List, loc[c].i)
    IN  /\ pc[c] = "enter"
        /\ Reads(s, /\ joined' = [joined EXCEPT ![c] = Append(@, id[s])]
                    /\ loc' = [loc EXCEPT ![c] = [@ EXCEPT !.own = s, !.node = c]]
                    /\ Goes(c, "append")
                    /\ UNCHANGED <<mutex, op, ops, history>>)
        /\ UNCHANGED heap

-----------------------------------------------------------------------------
(***************************************************************************)
(* Appending a node, in CreateSess and JoinSess: to an empty list through  *)
(* the owner's pointer, else behind the last node; then the counter, which *)
(* takes a load and a store.                                               *)
(***************************************************************************)
AppendTo(c) ==
    LET l == loc[c]
    IN  /\ pc[c] = "append"
        /\ Reads(l.own,
             IF first[l.own] = NULL THEN Moves(c, "head", l)
             ELSE Moves(c, "walk", [l EXCEPT !.at = first[l.own]]))
        /\ UNCHANGED heap

SetHead(c) ==
    LET l == loc[c]
    IN  /\ pc[c] = "head"
        /\ Reads(l.own, /\ first' = [first EXCEPT ![l.own] = l.node]
                        /\ Moves(c, "load", l))
        /\ UNCHANGED <<size, nxt, id, freed>>

Walk(c) ==
    LET l == loc[c]
    IN  /\ pc[c] = "walk"
        /\ Reads(l.at, IF nxt[l.at] = NULL THEN Moves(c, "link", l)
                       ELSE Moves(c, "walk", [l EXCEPT !.at = nxt[l.at]]))
        /\ UNCHANGED heap

Link(c) ==
    LET l == loc[c]
    IN  /\ pc[c] = "link"
        /\ Reads(l.at, /\ nxt' = [nxt EXCEPT ![l.at] = l.node]
                       /\ Moves(c, "load", l))
        /\ UNCHANGED <<first, size, id, freed>>

Load(c) ==
    LET l == loc[c]
    IN  /\ pc[c] = "load"
        /\ Reads(l.own, Moves(c, "store", [l EXCEPT !.n = size[l.own]]))
        /\ UNCHANGED heap

\* After the store CreateSess is followed by JoinSess, and DestroySession by
\* free.
Store(c) ==
    LET l == loc[c]
        change == IF op[c] \in {"LEAVE", "destroy"} THEN -1 ELSE 1
    IN  /\ pc[c] = "store"
        /\ Reads(l.own,
             /\ size' = [size EXCEPT ![l.own] = l.n + change]
             /\ freed' = IF op[c] = "destroy" THEN freed \cup {l.node} ELSE freed
             /\ IF op[c] = "NEW_SESS" /\ l.own = List
                THEN Searches(c, "NEW_SESS", l)
                ELSE Returns(c) /\ UNCHANGED <<op, loc>>
             /\ UNCHANGED <<mutex, joined, ops, history>>)
        /\ UNCHANGED <<first, nxt, id>>

-----------------------------------------------------------------------------
(***************************************************************************)
(* LeaveSess, from where it has found the session.                         *)
(***************************************************************************)
Look(c) ==
    LET s == Nth(List, loc[c].i)
        l == [loc[c] EXCEPT !.own = s, !.node = c, !.at = first[s]]
    IN  /\ pc[c] = "look"
        /\ Reads(s,
             IF first[s] # c THEN Moves(c, "find", l)
             ELSE IF nxt[c] # NULL THEN Moves(c, "behead", l)
             ELSE /\ Searches(c, "destroy", [l EXCEPT !.own = List, !.node = s,
                                                      !.name = id[s]])
                  /\ UNCHANGED <<mutex, joined, ops, history>>)
        /\ UNCHANGED heap

Behead(c) ==
    LET l == loc[c]
    IN  /\ pc[c] = "behead"
        /\ Reads(l.own, /\ first' = [first EXCEPT ![l.own] = nxt[c]]
                        /\ Moves(c, "cut", l))
        /\ UNCHANGED <<size, nxt, id, freed>>

Find(c) ==
    LET l == loc[c]
    IN  /\ pc[c] = "find"
        /\ IF l.at = NULL
           THEN /\ Returns(c)
                /\ UNCHANGED <<mutex, fault, joined, op, loc, ops, history>>
           ELSE Reads(l.at, IF nxt[l.at] = c THEN Moves(c, "unlink", l)
                            ELSE Moves(c, "find", [l EXCEPT !.at = nxt[l.at]]))
        /\ UNCHANGED heap

\* Mutant of Unlink: what follows the client is dropped with it.
UnlinkRest(c) ==
    LET l == loc[c]
    IN  /\ pc[c] = "unlink"
        /\ Reads(l.at, nxt' = [nxt EXCEPT ![l.at] = NULL] /\ Moves(c, "cut", l))
        /\ UNCHANGED <<first, size, id, freed>>

Unlink(c) ==
    LET l == loc[c]
        cur == nxt[l.at]
    IN  /\ pc[c] = "unlink"
        /\ Reads(cur, /\ nxt' = [nxt EXCEPT ![l.at] = nxt[cur]]
                      /\ Moves(c, "cut", [l EXCEPT !.node = cur]))
        /\ UNCHANGED <<first, size, id, freed>>

\* Mutant of Cut: the counter stays.
CutUncounted(c) ==
    LET l == loc[c]
    IN  /\ pc[c] = "cut"
        /\ Reads(l.node, /\ nxt' = [nxt EXCEPT ![l.node] = NULL]
                         /\ Moves(c, "idle", l))
        /\ UNCHANGED <<first, size, id, freed>>

Cut(c) ==
    LET l == loc[c]
    IN  /\ pc[c] = "cut"
        /\ Reads(l.node, /\ nxt' = [nxt EXCEPT ![l.node] = NULL]
                         /\ Moves(c, "load", l))
        /\ UNCHANGED <<first, size, id, freed>>

\* DestroySession frees session_sz clients, then takes the session off the
\* list at the index FindSession gave it.
Destroy(c) ==
    LET s == loc[c].node
        clients == {Nth(s, n) : n \in 0..(size[s] - 1)}
    IN  /\ pc[c] = "destroy"
        /\ IF clients \cap freed # {}
           THEN /\ fault' = "abort"
                /\ UNCHANGED <<heap, mutex, joined, pc, op, loc, ops, history>>
           ELSE Reads(IF NULL \in clients THEN NULL ELSE s,
                  /\ freed' = freed \cup clients
                  /\ first' = [first EXCEPT ![s] = NULL]
                  /\ Moves(c, "drop", loc[c])
                  /\ UNCHANGED <<size, nxt, id>>)

Drop(c) ==
    LET l == loc[c]
        pre == Nth(List, l.i - 1)
    IN  /\ pc[c] = "drop"
        /\ IF l.i = 0
           THEN /\ first' = [first EXCEPT ![List] = nxt[l.node]]
                /\ Moves(c, "cut", l)
                /\ UNCHANGED <<nxt, fault>>
           ELSE Reads(pre, /\ nxt' = [nxt EXCEPT ![pre] = nxt[l.node]]
                           /\ Moves(c, "cut", l)
                           /\ UNCHANGED first)
        /\ UNCHANGED <<size, id, freed>>

-----------------------------------------------------------------------------
(***************************************************************************)
(* MESSAGE and QUERY: list_sz sessions, session_sz clients of each.        *)
(***************************************************************************)
NextSession(c) ==
    LET l == loc[c]
    IN  /\ pc[c] = "sessions"
        /\ IF l.i >= size[List]
           THEN /\ Goes(c, "idle")
                /\ UNCHANGED <<mutex, fault, joined, op, loc, ops, history>>
           ELSE Reads(l.at, Moves(c, "members",
                  [l EXCEPT !.own = l.at, !.node = first[l.at], !.n = 0]))
        /\ UNCHANGED heap

\* The loop over the clients: it goes on while more holds, and looks at the
\* client last named, which may be the NULL at the end of the list.
Visits(c, more, client) ==
    LET l == loc[c]
    IN  /\ pc[c] = "members"
        /\ Reads(IF more /\ l.own \notin freed THEN client ELSE l.own,
             IF more
             THEN /\ seen' = [seen EXCEPT ![c] = Append(@, client)]
                  /\ loc' = [loc EXCEPT ![c] =
                        [l EXCEPT !.node = nxt[client], !.n = @ + 1]]
                  /\ UNCHANGED <<pc, mutex, joined, op, ops, owed>>
             ELSE Moves(c, "sessions", [l EXCEPT !.at = nxt[l.own], !.i = @ + 1]))
        /\ UNCHANGED heap

\* Mutants of NextMember: the loop ends one early; it starts at the session.
NextMemberShort(c) == Visits(c, loc[c].n < size[loc[c].own] - 1, loc[c].node)
NextMemberSession(c) ==
    Visits(c, loc[c].n < size[loc[c].own],
           IF loc[c].n = 0 THEN loc[c].own ELSE loc[c].node)

NextMember(c) == Visits(c, loc[c].n < size[loc[c].own], loc[c].node)

-----------------------------------------------------------------------------
Step(c) ==
    \/ Search(c) \/ Lock(c) \/ Unlock(c) \/ Enter(c)
    \/ AppendTo(c) \/ SetHead(c) \/ Walk(c) \/ Link(c) \/ Load(c) \/ Store(c)
    \/ Look(c) \/ Behead(c) \/ Find(c) \/ Unlink(c) \/ Cut(c)
    \/ Destroy(c) \/ Drop(c) \/ NextSession(c) \/ NextMember(c)

(***************************************************************************)
(* The races, of which nothing but the histories keeps a record.  NEW_SESS *)
(* and LEAVE_SESS change the lists without the lock: who reads beside them *)
(* is stale until it is done, and a change beside them clashes.            *)
(***************************************************************************)
Looking(c) == pc[c] # "idle" /\ op[c] \in {"check", "READ"}
Unlocked(c) == pc[c] # "idle" /\ op[c] \in {"NEW_SESS", "LEAVE", "destroy"}
Locked(c) == pc[c] # "idle" /\ op[c] = "JOIN"

Beside(c) == \E d \in Threads \ {c} : Unlocked(d)
Clash == \E c \in Threads : (Unlocked(c) \/ Locked(c)) /\ Beside(c)

Recorded ==
    /\ stale' = {c \in Threads : Looking(c)' /\ (c \in stale \/ Beside(c)')}
    /\ clashed' = (clashed \/ Clash')

Next ==
    /\ fault = "none"
    /\ \E c \in Threads :
          BeginJoin(c) \/ BeginNew(c) \/ BeginLeave(c) \/ BeginRead(c) \/ Step(c)
    /\ Recorded

Spec == Init /\ [][Next]_vars

FairSpec == Spec /\ \A c \in Threads : WF_vars(fault = "none" /\ Step(c) /\ Recorded)

-----------------------------------------------------------------------------
TypeOK ==
    /\ first \in [Sessions \cup {List} -> Sessions \cup Threads \cup {NULL}]
    /\ size \in [Sessions \cup {List} -> Int]
    /\ nxt \in [Sessions \cup Threads \cup {NULL} -> Sessions \cup Threads \cup {NULL}]
    /\ id \in [Sessions -> Ids \cup {NULL}]
    /\ freed \subseteq Sessions \cup Threads
    /\ mutex \in Threads \cup {NULL}
    /\ fault \in {"none", "segv", "freed", "abort"}
    /\ joined \in [Threads -> Seq(Ids)]
    /\ seen \in [Threads -> Seq(Threads)] /\ owed \in [Threads -> SUBSET Threads]

\* server.c 24, "Enforce synchronization": no thread walks off the end of a
\* list, or into a session or client another one has freed.
WalksStayInside == fault = "none"

\* server.c 146, 211: until two changes clash, only those who read go wrong:
\* beside an unlocked change, or in a MESSAGE or QUERY that has followed the last
\* client's NULL when a client is added and counted, takes one turn more, and
\* follows the NULL.
OnlyReadersOverrun ==
    ~clashed /\ fault # "none" =>
        \/ stale # {}
        \/ /\ fault = "segv"
           /\ \E c \in Threads :
                 /\ pc[c] = "members" /\ loc[c].node = NULL
                 /\ ToSet(Chain(loc[c].own)) \ owed[c] # {}

Changing(x) ==
    \E c \in Threads :
        \/ pc[c] \in {"cut", "load", "store"} /\ loc[c].own = x
        \/ pc[c] \in {"drop", "cut", "load", "store"} /\ loc[c].node = x

\* SessionList.h 33 and 41: until two changes clash, a counter is the length of
\* its list, but for the moment between a link and its count.
CountersAgree ==
    ~clashed => \A x \in (Sessions \ freed) \cup {List} :
        Changing(x) \/ size[x] = Len(Chain(x))

\* A broadcast reaches, once, everybody who was a member when it began,
\* whoever joins meanwhile, unless it ran beside an unlocked change.
EveryMemberSeen ==
    [][\A c \in Threads :
        pc[c] = "sessions" /\ pc'[c] = "idle" /\ ~clashed' /\ c \notin stale =>
            /\ owed[c] \subseteq ToSet(seen[c])
            /\ IsInjective(seen[c])]_vars

\* Joining and leaving take effect at once, at the store that links or unlinks
\* the client: the grain at which the other modules model them.  It is so until
\* two changes clash.
Members == INSTANCE Rosters WITH
    Clients <- Threads, roster <- [s \in Sessions |-> Chain(s)]

ImplementsRosters ==
    /\ Members!Init
    /\ [][clashed' \/ Members!Next \/ UNCHANGED [s \in Sessions |-> Chain(s)]]_vars

\* Every packet is handled to the end, unless the server ends or two changes
\* have clashed: no walk goes in circles, and the lock comes back.
HandlersEnd ==
    \A c \in Threads :
        pc[c] # "idle" ~> pc[c] = "idle" \/ fault # "none" \/ clashed

=============================================================================
