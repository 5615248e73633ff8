------------------------------ MODULE ChatServer ------------------------------
(***************************************************************************)
(* lab4/server.c: the main thread accepts connections, and one thread per  *)
(* connection runs ReceiveClient: it reads a packet, handles it against    *)
(* the shared client and session lists, and answers.                       *)
(*                                                                         *)
(* A handler that looks at shared state and then acts on it is two steps   *)
(* here, so that other threads' steps can come between.  The operations of *)
(* SessionList.h are one step each, although only JOIN takes a lock.       *)
(***************************************************************************)
EXTENDS SessionList, ChatNet

CONSTANT
    FirstClient     \* the name at the head of clientList: the file's last

ASSUME ServerAssumption == FirstClient \in Users

VARIABLES
    thr,        \* where the connection's thread is in ReceiveClient
    sessionId,  \* the local variable, while a JOIN or NEW_SESS is under way
    source,     \* the local variable; NoName as long as loggedIn is false
    fd,         \* CoClient.sockfd, 0 before accept
    isLog,      \* per user, in clientList
    heap,       \* sessionList and the CoClients
    down        \* "up", or how the server process ended

threads == <<thr, sessionId, source, fd>>
server == <<threads, isLog, heap, down>>

ServerInit ==
    /\ thr = [c \in Conns |-> "none"]
    /\ sessionId = [c \in Conns |-> NoName]
    /\ source = [c \in Conns |-> NoName]
    /\ fd = [c \in Conns |-> 0]
    /\ isLog = [u \in Users |-> FALSE]
    /\ heap = EmptyHeap
    /\ down = "up"

Between == {"none", "recv", "gone", "stuck", "lost", "locked"}

HasSocket(c) == thr[c] \notin {"none", "leave", "lost", "gone"}

\* Where a thread is that follows a circular list for ever: on its way out it
\* has closed its socket.
Looping(pc) == IF pc = "leave" THEN "lost" ELSE "stuck"

-----------------------------------------------------------------------------
(***************************************************************************)
(* How a step of a thread ends: with the heap h, at pc, and with packets   *)
(* sent unless a list function went wrong.                                 *)
(***************************************************************************)
Ends(c, h, pc) ==
    /\ heap' = [h EXCEPT !.fault = "none"]
    /\ thr' = [thr EXCEPT ![c] = IF h.fault = "hang" THEN Looping(pc) ELSE pc]
    /\ down' = IF h.fault \in {"none", "hang"} THEN down ELSE h.fault

\* A reply that cannot be sent is only reported (server.c 264-267).
Replies(c, h, pc, m) ==
    \E prompt \in SUBSET ({c} \cap Resettable) :
        LET w == SendOn(Unsent, c, m, prompt)
        IN  /\ heap' = h /\ thr' = [thr EXCEPT ![c] = pc]
            /\ link' = w.link /\ s2c' = w.s2c
            /\ down' = IF w.fate = "sigpipe" THEN "sigpipe" ELSE down

Silent(c, h, pc) == Ends(c, h, pc) /\ UNCHANGED <<link, s2c>>

\* recv returns the next packet, of this type.
Reads(c, type) ==
    /\ thr[c] = "recv" /\ down = "up"
    /\ c2s[c] # <<>> /\ Head(c2s[c]).type = type
    /\ c2s' = [c2s EXCEPT ![c] = Tail(@)]

Arg(c) == Head(c2s[c]).arg

-----------------------------------------------------------------------------
\* The lowest descriptor that is not in use.
FreeFd ==
    LET used == {fd[d] : d \in {e \in Conns : HasSocket(e)}}
    IN  CHOOSE n \in 1..(Cardinality(Conns) + 1) :
            n \notin used /\ \A m \in 1..(n - 1) : m \in used

\* main: accept, a zeroed CoClient, and a thread for it.
Accept(c) ==
    /\ thr[c] = "none" /\ link[c] # "none" /\ down = "up"
    /\ thr' = [thr EXCEPT ![c] = "recv"]
    /\ fd' = [fd EXCEPT ![c] = FreeFd]
    /\ UNCHANGED <<sessionId, source, isLog, heap, down, net>>

\* FindClient and CheckPassword find this name with its password.
Registered(name) == name \in Users

\* The client an index from FindClient leads to: the head of the list if it is
\* -1, which no caller but LOGIN looks at.
FoundClient(name) == IF name \in Users THEN name ELSE FirstClient

\* Mutant of Login: no test of isLog.
LoginAgain(c) ==
    /\ Reads(c, "LOGIN") /\ source[c] = NoName
    /\ LET h == [heap EXCEPT !.clientID[c] = Arg(c)]
       IN  IF Registered(Arg(c)) THEN Silent(c, h, "granted")
           ELSE Replies(c, h, "recv", "LO_NAK")
    /\ UNCHANGED <<sessionId, source, fd, isLog>>

\* LOGIN up to the test of isLog.
Login(c) ==
    /\ Reads(c, "LOGIN") /\ source[c] = NoName
    /\ LET h == [heap EXCEPT !.clientID[c] = Arg(c)]
       IN  IF Registered(Arg(c)) /\ ~isLog[Arg(c)]
           THEN Silent(c, h, "granted")
           ELSE Replies(c, h, "recv", "LO_NAK")
    /\ UNCHANGED <<sessionId, source, fd, isLog>>

Grant(c) ==
    /\ thr[c] = "granted" /\ down = "up"
    /\ isLog' = [isLog EXCEPT ![heap.clientID[c]] = TRUE]
    /\ source' = [source EXCEPT ![c] = heap.clientID[c]]
    /\ Replies(c, heap, "recv", "LO_ACK")
    /\ UNCHANGED <<sessionId, fd, c2s>>

\* Mutant of Join: no test that the session exists.
JoinUnchecked(c) ==
    /\ Reads(c, "JOIN")
    /\ IF CheckClient(heap, c, Arg(c))
       THEN Replies(c, heap, "recv", "JN_NAK") /\ UNCHANGED sessionId
       ELSE /\ Silent(c, heap, "joining")
            /\ sessionId' = [sessionId EXCEPT ![c] = Arg(c)]
    /\ UNCHANGED <<source, fd, isLog>>

Join(c) ==
    /\ Reads(c, "JOIN")
    /\ IF FindSession(heap, Arg(c)) = 0 \/ CheckClient(heap, c, Arg(c))
       THEN Replies(c, heap, "recv", "JN_NAK") /\ UNCHANGED sessionId
       ELSE /\ Silent(c, heap, "joining")
            /\ sessionId' = [sessionId EXCEPT ![c] = Arg(c)]
    /\ UNCHANGED <<source, fd, isLog>>

\* Under sessionList_mutex, which a thread lost in JoinSess never gives back.
\* The reply was made up before and says JN_ACK whatever JoinSess finds.
JoinLocked(c) ==
    LET reset == [heap EXCEPT !.clientID[c] = source[c], !.joined[c] = <<>>,
                              !.next[c] = NULL]
        h == JoinSess(reset, c, sessionId[c])
    IN  /\ thr[c] = "joining" /\ down = "up" /\ \A d \in Conns : thr[d] # "locked"
        /\ IF h.fault = "none" THEN Replies(c, h, "recv", "JN_ACK")
           ELSE /\ heap' = [h EXCEPT !.fault = "none"]
                /\ thr' = [thr EXCEPT ![c] = "locked"]
                /\ UNCHANGED <<link, s2c, down>>
        /\ sessionId' = [sessionId EXCEPT ![c] = NoName]
        /\ UNCHANGED <<source, fd, isLog, c2s>>

Leave(c) ==
    /\ Reads(c, "LEAVE_SESS")
    /\ Silent(c, LeaveSess(heap, c), "recv")
    /\ UNCHANGED <<sessionId, source, fd, isLog>>

NewSess(c) ==
    /\ Reads(c, "NEW_SESS")
    /\ Silent(c, CreateSess(heap, Arg(c)), "created")
    /\ sessionId' = [sessionId EXCEPT ![c] = Arg(c)]
    /\ UNCHANGED <<source, fd, isLog>>

\* Mutant of JoinCreated: toSent is not set.
JoinCreatedMute(c) ==
    /\ thr[c] = "created" /\ down = "up"
    /\ Silent(c, JoinSess(heap, c, sessionId[c]), "recv")
    /\ sessionId' = [sessionId EXCEPT ![c] = NoName]
    /\ UNCHANGED <<source, fd, isLog, c2s>>

JoinCreated(c) ==
    LET h == JoinSess(heap, c, sessionId[c])
    IN  /\ thr[c] = "created" /\ down = "up"
        /\ IF h.fault = "none" THEN Replies(c, h, "recv", "NS_ACK")
           ELSE Silent(c, h, "recv")
        /\ sessionId' = [sessionId EXCEPT ![c] = NoName]
        /\ UNCHANGED <<source, fd, isLog, c2s>>

\* The nodes a loop over all sessions visits, NULL where a list is short.
Visited == FlattenSeq([i \in DOMAIN heap.list |-> Nodes(heap, i)])

HitsNULL == \E n \in DOMAIN Visited : Visited[n] = NULL

\* The connections that own a node's descriptor now: none once it is closed,
\* another one's once accept has given the number out again.
Owner(d) == {e \in Conns : HasSocket(e) /\ fd[e] = fd[d]}

\* Mutant of Broadcast: a message goes to every connection.
BroadcastAll(c) ==
    /\ Reads(c, "MESSAGE")
    /\ LET w == Sent(SetToSeq({d \in Conns : HasSocket(d)}), "MESSAGE", {})
       IN  link' = w.link /\ s2c' = w.s2c
    /\ UNCHANGED <<threads, isLog, heap, down>>

\* A message goes to every node of every session; any error is exit(1).
Broadcast(c) ==
    /\ Reads(c, "MESSAGE")
    /\ LET upto == SelectInSeq(Visited, LAMBDA d : d = NULL \/ Owner(d) = {})
           reached == IF upto = 0 THEN Visited ELSE SubSeq(Visited, 1, upto - 1)
           to == [n \in DOMAIN reached |-> CHOOSE e \in Owner(reached[n]) : TRUE]
       IN  \E prompt \in SUBSET Resettable :
             LET w == Sent(to, "MESSAGE", prompt)
             IN  /\ link' = w.link /\ s2c' = w.s2c
                 /\ down' = CASE w.fate = "sigpipe" -> "sigpipe"
                              [] w.fate = "error" -> "exit"
                              [] w.fate = "ok" /\ upto = 0 -> down
                              [] OTHER -> IF Visited[upto] = NULL THEN "segv"
                                          ELSE "exit"
    /\ UNCHANGED <<threads, isLog, heap>>

Query(c) ==
    /\ Reads(c, "QUERY")
    /\ IF HitsNULL THEN Silent(c, [heap EXCEPT !.fault = "segv"], "recv")
       ELSE Replies(c, heap, "recv", "QU_ACK")
    /\ UNCHANGED <<sessionId, source, fd, isLog>>

\* Mutant of Hangup: the end of the stream goes unnoticed.
HangupOnExit(c) ==
    /\ Reads(c, "EXIT")
    /\ Silent(c, heap, IF source[c] = NoName THEN "gone" ELSE "leave")
    /\ UNCHANGED <<sessionId, source, fd, isLog>>

\* EXIT, or the end of the stream.  The latter is parsed as a packet of type 0,
\* a LOGIN without a name, and answered if nobody is logged in.
Hangup(c) ==
    LET pc == IF source[c] = NoName THEN "gone" ELSE "leave"
    IN  /\ \/ Reads(c, "EXIT") /\ Silent(c, heap, pc)
           \/ /\ thr[c] = "recv" /\ down = "up"
              /\ c2s[c] = <<>> /\ link[c] \in {"fin", "finrst"}
              /\ IF source[c] = NoName
                 THEN Replies(c, [heap EXCEPT !.clientID[c] = NoName], pc, "LO_NAK")
                 ELSE Silent(c, heap, pc)
              /\ UNCHANGED c2s
        /\ UNCHANGED <<sessionId, source, fd, isLog>>

\* recv fails on a reset connection: exit(1).
RecvFails(c) ==
    /\ thr[c] = "recv" /\ down = "up"
    /\ c2s[c] = <<>> /\ link[c] = "rst"
    /\ down' = "exit"
    /\ UNCHANGED <<threads, isLog, heap, net>>

\* After the loop, the socket closed: leave all sessions ...
ExitLeaves(c) ==
    /\ thr[c] = "leave" /\ down = "up" /\ heap.joined[c] # <<>>
    /\ Silent(c, LeaveSess(heap, c), "leave")
    /\ UNCHANGED <<sessionId, source, fd, isLog, c2s>>

\* ... clear isLog of the user whose name the CoClient holds, of the first in
\* the list if it holds no user's, and free the CoClient.
ExitFrees(c) ==
    /\ thr[c] = "leave" /\ down = "up" /\ heap.joined[c] = <<>>
    /\ isLog' = [isLog EXCEPT ![FoundClient(heap.clientID[c])] = FALSE]
    /\ Silent(c, IF c \in heap.freed THEN [heap EXCEPT !.fault = "abort"]
                 ELSE [heap EXCEPT !.freed = @ \cup {c}, !.clientID[c] = NoName],
              "gone")
    /\ UNCHANGED <<sessionId, source, fd, c2s>>

ThreadStep(c) ==
    \/ Login(c) \/ Grant(c) \/ Join(c) \/ JoinLocked(c) \/ Leave(c)
    \/ NewSess(c) \/ JoinCreated(c) \/ Broadcast(c) \/ Query(c)
    \/ Hangup(c) \/ RecvFails(c) \/ ExitLeaves(c) \/ ExitFrees(c)

=============================================================================
