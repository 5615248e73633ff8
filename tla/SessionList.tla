----------------------------- MODULE SessionList -----------------------------
(***************************************************************************)
(* lab4/SessionList.h: the chat server's linked lists, as functions from a *)
(* heap to the heap the C function leaves.  A heap is a record:            *)
(*   list      the session list, in nextSession order; a session has its   *)
(*             id, its head pointer and its counter session_sz             *)
(*   next      nextCoClient of each CoClient (ONE pointer per client)      *)
(*   joined    the ids in the client's private joinedSession list; NoName  *)
(*             stands for a node that was freed but is still linked        *)
(*   clientID  the name in the CoClient                                    *)
(*   freed     the CoClients passed to free                                *)
(*   fault     how the function went wrong, "none" if it returned          *)
(* A freed CoClient keeps its pointers and its socket but not its name,    *)
(* which the allocator overwrites; nothing else of its size is allocated   *)
(* by its thread, so its memory is not reused.  What use of a freed        *)
(* joinedSession node does is not followed further ("undefined").          *)
(***************************************************************************)
EXTENDS ChatNames, Integers, Sequences

CONSTANT NULL       \* the null pointer

ASSUME PointerAssumption == NULL \notin Conns

EmptyHeap ==
    [list |-> <<>>, next |-> [c \in Conns |-> NULL],
     joined |-> [c \in Conns |-> <<>>], clientID |-> [c \in Conns |-> NoName],
     freed |-> {}, fault |-> "none"]

\* The pointer n nodes down the list that begins at start; NULL past its end.
Walk(h, start, n) ==
    LET w[k \in 0..n] ==
            IF k = 0 THEN start
            ELSE IF w[k - 1] = NULL THEN NULL ELSE h.next[w[k - 1]]
    IN  w[n]

\* The clients met on session i's list, which ends unless a client recurs.
Members(h, i) ==
    {Walk(h, h.list[i].head, n) : n \in 0..Cardinality(Conns)} \ {NULL}

Cyclic(h, i) == Walk(h, h.list[i].head, Cardinality(Conns)) # NULL

\* Mutant of Nodes: the loop stops one short.
NodesButLast(h, i) ==
    [n \in 1..(h.list[i].sz - 1) |-> Walk(h, h.list[i].head, n - 1)]

\* What a loop over session_sz nodes of session i reads, NULL included.
Nodes(h, i) == [n \in 1..h.list[i].sz |-> Walk(h, h.list[i].head, n - 1)]

\* Index of the first session with this name, 0 if there is none.
FindSession(h, id) ==
    LET hits == {i \in DOMAIN h.list : h.list[i].id = id}
    IN  IF hits = {} THEN 0 ELSE CHOOSE i \in hits : \A j \in hits : i <= j

CheckClient(h, c, id) == \E i \in DOMAIN h.joined[c] : h.joined[c][i] = id

\* No test that the name is new: a second session of the same name is made.
CreateSess(h, id) ==
    [h EXCEPT !.list = Append(@, [id |-> id, head |-> NULL, sz |-> 0])]

\* The client is linked behind the last member, by the one nextCoClient it
\* has in whatever session; a circular list is followed forever.
JoinSess(h, c, id) ==
    LET i == FindSession(h, id)
        own == [h EXCEPT !.joined[c] = Append(@, id)]
        counted == [own EXCEPT !.list[i].sz = @ + 1]
        last == CHOOSE d \in Members(h, i) : h.next[d] = NULL
    IN  IF i = 0 THEN h
        ELSE IF h.list[i].head = NULL THEN [counted EXCEPT !.list[i].head = c]
        ELSE IF Cyclic(h, i) THEN [own EXCEPT !.fault = "hang"]
        ELSE [counted EXCEPT !.next[last] = c]

\* Mutant of DestroySession: steps on before it frees.
DestroyNext(h, c, i) ==
    [h EXCEPT !.list = SubSeq(@, 1, i - 1) \o SubSeq(@, i + 1, Len(@)),
              !.freed = @ \cup {h.next[c]}, !.clientID[c] = NoName]

\* Frees the CoClients of the session, session_sz of them by its counter, and
\* their joinedSession lists, and drops the session.  LeaveSess calls it when
\* c is the head and has no successor.
DestroySession(h, c, i) ==
    LET gone == [h EXCEPT !.list = SubSeq(@, 1, i - 1) \o SubSeq(@, i + 1, Len(@))]
    IN  IF h.list[i].sz <= 0 THEN gone
        ELSE IF c \in h.freed THEN [h EXCEPT !.fault = "abort"]
        ELSE IF CheckClient(h, c, NoName) THEN [h EXCEPT !.fault = "undefined"]
        ELSE IF h.list[i].sz > 1 THEN [h EXCEPT !.fault = "segv"]
        ELSE [gone EXCEPT !.freed = @ \cup {c}, !.clientID[c] = NoName,
                          !.joined[c] = [n \in DOMAIN @ |-> NoName]]

\* Mutants of Unlink: session_sz stays; the members behind c are dropped.
UnlinkUncounted(h, c, i) ==
    LET pre == {d \in Members(h, i) : h.next[d] = c}
    IN  IF h.list[i].head = c
        THEN [h EXCEPT !.next[c] = NULL, !.list[i].head = h.next[c]]
        ELSE [h EXCEPT !.next = [d \in Conns |-> IF d = c THEN NULL
                                 ELSE IF d \in pre THEN h.next[c] ELSE @[d]]]

UnlinkTail(h, c, i) ==
    LET pre == {d \in Members(h, i) : h.next[d] = c}
    IN  [h EXCEPT !.next = [d \in Conns |-> IF d \in pre \cup {c} THEN NULL ELSE @[d]],
                  !.list[i].head = IF @ = c THEN NULL ELSE @,
                  !.list[i].sz = @ - 1]

\* Takes c out of session i, whose list it may not be on.
Unlink(h, c, i) ==
    LET at == {n \in 0..Cardinality(Conns) :
                  LET d == Walk(h, h.list[i].head, n)
                  IN  d # NULL /\ h.next[d] = c}
        pre == Walk(h, h.list[i].head, CHOOSE n \in at : \A m \in at : n <= m)
        cut == [h EXCEPT !.next[c] = NULL, !.list[i].sz = @ - 1]
    IN  IF h.list[i].head = c THEN [cut EXCEPT !.list[i].head = h.next[c]]
        ELSE IF at # {}
        THEN [cut EXCEPT !.next[pre] = IF pre = c THEN NULL ELSE h.next[c]]
        ELSE IF Cyclic(h, i) THEN [h EXCEPT !.fault = "hang"]
        ELSE h

\* Mutant of LeaveSess: the first member takes the session along, alone or not.
LeaveDestroys(h, c) ==
    LET n == Len(h.joined[c])
        popped == [h EXCEPT !.joined[c] = SubSeq(@, 1, n - 1)]
        i == FindSession(h, h.joined[c][n])
    IN  IF n = 0 THEN [h EXCEPT !.fault = "segv"]
        ELSE IF i = 0 THEN popped
        ELSE IF h.list[i].head = c
        THEN [popped EXCEPT !.list = SubSeq(@, 1, i - 1) \o SubSeq(@, i + 1, Len(@))]
        ELSE Unlink(popped, c, i)

\* Leaves the session joined last; the last member takes the session with it.
\* With no session joined the end of the joined list is read through NULL.
LeaveSess(h, c) ==
    LET n == Len(h.joined[c])
        id == h.joined[c][n]
        popped == [h EXCEPT !.joined[c] = SubSeq(@, 1, n - 1)]
        i == FindSession(h, id)
    IN  IF n = 0 THEN [h EXCEPT !.fault = "segv"]
        ELSE IF id = NoName THEN [h EXCEPT !.fault = "undefined"]
        ELSE IF i = 0 THEN popped
        ELSE IF h.list[i].head = c /\ h.next[c] = NULL
        THEN DestroySession(popped, c, i)
        ELSE Unlink(popped, c, i)

=============================================================================
