--------------------------------- MODULE Chat ---------------------------------
(***************************************************************************)
(* lab4's chat: the client programs and the server over their connections. *)
(* The model ends when the server process does.                            *)
(***************************************************************************)
EXTENDS ChatServer, ChatClient

\* History: the races between threads that have happened.  No action of the
\* program reads it; properties use it to say what goes wrong only with them.
VARIABLES
    twins,      \* two LOGINs of one user have both passed the test of isLog
    missed,     \* threads whose session went after they had found or created
                \* it and before they joined it
    strayed     \* connections that were handed, as a descriptor just closed,
                \* to accept while a thread was still to leave with it, and
                \* then had its messages

races == <<twins, missed, strayed>>

vars == <<net, server, clients, races>>

Init ==
    /\ NetInit /\ ServerInit /\ ClientInit
    /\ twins = FALSE /\ missed = {} /\ strayed = {}

Busy(c) == thr[c] \in {"joining", "created"}

TwinLogins ==
    \E c, d \in Conns :
        /\ c # d /\ thr[c] = "granted" /\ thr[d] = "granted"
        /\ heap.clientID[c] = heap.clientID[d]

InSomeSession == UNION {Members(heap, i) : i \in DOMAIN heap.list}

\* Connection c has the descriptor that another member's CoClient still holds.
Reissued(c) ==
    HasSocket(c) /\ \E d \in InSomeSession \ {c} : fd[d] = fd[c]

\* The thread of c reads a MESSAGE.
Speaks(c) ==
    /\ thr[c] = "recv" /\ c2s[c] # <<>> /\ Head(c2s[c]).type = "MESSAGE"
    /\ c2s'[c] = Tail(c2s[c])

Recorded ==
    /\ twins' = (twins \/ TwinLogins')
    /\ missed' = missed \cup
          {c \in Conns : /\ Busy(c) /\ FindSession(heap, sessionId[c]) # 0
                         /\ FindSession(heap', sessionId[c]) = 0}
    /\ strayed' = strayed \cup
          {c \in Conns : Reissued(c) /\ \E d \in Conns : Speaks(d)}

Next ==
    /\ down = "up"
    /\ \E c \in Conns :
          \/ (Accept(c) \/ ThreadStep(c)) /\ UNCHANGED clients
          \/ ClientStep(c) /\ UNCHANGED server
    /\ Recorded

Spec == Init /\ [][Next]_vars

\* Every thread of the server, and of a client, goes on while it can: nothing
\* but input and the one mutex holds it up.  What the user types is up to him.
Fairness ==
    \A c \in Conns :
        /\ WF_vars(Accept(c) /\ UNCHANGED clients /\ Recorded)
        /\ WF_vars(ThreadStep(c) /\ UNCHANGED clients /\ Recorded)
        /\ WF_vars(/\ down = "up" /\ (LoginReply(c) \/ Receive(c))
                   /\ UNCHANGED server /\ Recorded)

FairSpec == Spec /\ Fairness

-----------------------------------------------------------------------------
ToServer == {"LOGIN", "JOIN", "LEAVE_SESS", "NEW_SESS", "MESSAGE", "QUERY", "EXIT"}
ToClient == {"LO_ACK", "LO_NAK", "JN_ACK", "JN_NAK", "NS_ACK", "MESSAGE", "QU_ACK"}

TypeOK ==
    /\ link \in [Conns -> {"none", "open", "fin", "finrst", "rst"}]
    /\ \A c \in Conns :
          /\ \A i \in DOMAIN c2s[c] : c2s[c][i].type \in ToServer
          /\ \A i \in DOMAIN s2c[c] : s2c[c][i] \in ToClient
    /\ thr \in [Conns -> Between \cup {"granted", "joining", "created", "leave"}]
    /\ sessionId \in [Conns -> SessIds \cup {NoName}]
    /\ source \in [Conns -> Users \cup {NoName}]
    /\ fd \in [Conns -> 0..(Cardinality(Conns) + 1)]
    /\ isLog \in [Users -> BOOLEAN]
    /\ \A i \in DOMAIN heap.list :
          /\ heap.list[i].id \in SessIds
          /\ heap.list[i].head \in Conns \cup {NULL}
          /\ heap.list[i].sz \in Int
    /\ heap.next \in [Conns -> Conns \cup {NULL}]
    /\ heap.joined \in [Conns -> Seq(SessIds \cup {NoName})]
    /\ heap.clientID \in [Conns -> Users \cup {NoName}]
    /\ heap.freed \subseteq Conns
    /\ heap.fault = "none"
    /\ down \in {"up", "exit", "sigpipe", "segv", "abort", "undefined"}
    /\ ui \in [Conns -> {"off", "login", "on", "out"}]
    /\ insession \in [Conns -> BOOLEAN] /\ awaiting \in [Conns -> BOOLEAN]
    /\ cmds \in [Conns -> 0..MaxCmds]
    /\ twins \in BOOLEAN /\ missed \subseteq Conns /\ strayed \subseteq Conns

Sessions == DOMAIN heap.list

\* The threads of the connections user u is logged in on.
Logins(u) == {c \in Conns : source[c] = u /\ thr[c] # "gone"}

\* SessionList.h 33, "the number of nodes in a session": the counter that
\* every loop over a session trusts is the length of its list.
SizeIsNodes ==
    \A i \in Sessions :
        ~Cyclic(heap, i) /\ heap.list[i].sz = Cardinality(Members(heap, i))

\* SessionList.h 23, "one client, one session".
OneSession == \A c \in Conns : Len(heap.joined[c]) <= 1

\* A client's own list of sessions and the sessions' lists of members agree,
\* so that LeaveSess finds what it is to undo.
MembershipAgrees ==
    down = "up" => \A c \in Conns, s \in SessIds :
        CheckClient(heap, c, s) <=>
            \E i \in Sessions : heap.list[i].id = s /\ c \in Members(heap, i)

\* ClientList.h 15, "0: not log in  1: have logged in".
IsLogMeansLoggedIn ==
    down = "up" => \A u \in Users : isLog[u] <=> Logins(u) # {}

\* The same, more exactly: until two LOGINs of one user race through the test of
\* isLog, it says whether the user is logged in, on one connection, whatever
\* else threads do between one's test and its setting the flag, or its exit.
IsLogExact ==
    down = "up" /\ ~twins => \A u \in Users :
        Cardinality(Logins(u)) = IF isLog[u] THEN 1 ELSE 0

\* The lists keep rooms: see ChatRooms.
RoomOf(c) ==
    LET n == Len(heap.joined[c]) IN IF n = 0 THEN NoName ELSE heap.joined[c][n]

Rooms == INSTANCE ChatRooms WITH
    Clients <- Conns, Rooms <- SessIds, Nowhere <- NoName,
    room <- [c \in Conns |-> RoomOf(c)],
    open <- {heap.list[i].id : i \in Sessions}

\* However the threads' steps fall, sessions of patient users are entered and
\* left one at a time and outlive every member but the last.
ImplementsRooms == Rooms!Spec

Quiet(c) == ui[c] = "on" /\ thr[c] = "recv" /\ c2s[c] = <<>> /\ s2c[c] = <<>>

\* With nothing under way a member's program knows it is in a session, so the
\* user can send text and leave.
MemberKnows ==
    \A c \in Conns : Quiet(c) /\ heap.joined[c] # <<>> => insession[c]

\* client.c 45, "Successfully joined session": with nothing under way a program
\* that says so is a member, unless the session went while its thread was on
\* the way into it.  Otherwise its /leavesession is read through NULL.
AckedIsMember ==
    \A c \in Conns :
        Quiet(c) /\ insession[c] /\ c \notin missed => heap.joined[c] # <<>>

\* A message reaches every member whose connection is open, once, and nobody
\* who is in no session, but for a connection that has a leaver's descriptor:
\* other members' messages are right even while somebody leaves.
MembersHear ==
    [][\A c \in Conns : Speaks(c) /\ down' = "up" =>
        \A d \in Conns : ~Reissued(d) => s2c'[d] =
            IF d \in InSomeSession /\ link[d] = "open"
            THEN Append(s2c[d], "MESSAGE") ELSE s2c[d]]_vars

\* client.c 29-30: MESSAGE is for receive, and what login reads is the reply to
\* LOGIN, unless a leaver's messages have strayed to the connection.
LoginReadsReply ==
    \A c \in Conns :
        ui[c] = "login" /\ s2c[c] # <<>> /\ c \notin strayed
        => Head(s2c[c]) \in {"LO_ACK", "LO_NAK"}

\* Every /joinsession, /createsession and /list is answered, unless the client
\* or the server ends: no thread waits for another for ever.
Answered ==
    \A c \in Conns : awaiting[c] ~> (~awaiting[c] \/ ui[c] # "on" \/ down # "up")

\* The server notices every client that ends, logged out or not, and finishes
\* with it (which clears isLog), unless the process ends.
EndsNoticed ==
    \A c \in Conns : ui[c] = "out" ~> (thr[c] = "gone" \/ down # "up")

\* server.c 290, "leave all sessions before the client exits": a thread that
\* leaves its sessions lets the client exit, and the server goes on.
ExitCompletes ==
    \A c \in Conns : thr[c] = "leave" ~> (thr[c] = "gone" /\ down = "up")

=============================================================================
