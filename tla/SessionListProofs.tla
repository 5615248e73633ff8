-------------------------- MODULE SessionListProofs --------------------------
(***************************************************************************)
(* Proofs about the functions of SessionList, for any heap.                *)
(***************************************************************************)
EXTENDS SessionList, SequenceTheorems, RecursionLemmas

Pointers == Conns \cup {NULL}

SessionRecords == [id : SessIds, head : Pointers, sz : Int]

Faults == {"none", "segv", "abort", "hang", "undefined"}

Heaps ==
    [list : Seq(SessionRecords), next : [Conns -> Pointers],
     joined : [Conns -> Seq(SessIds \cup {NoName})],
     clientID : [Conns -> Users \cup {NoName}],
     freed : SUBSET Conns, fault : Faults]

-----------------------------------------------------------------------------
\* What a heap is made of.
LEMMA HeapParts ==
    ASSUME NEW h \in Heaps
    PROVE  /\ h.list \in Seq(SessionRecords) /\ h.next \in [Conns -> Pointers]
           /\ h.joined \in [Conns -> Seq(SessIds \cup {NoName})]
           /\ h.clientID \in [Conns -> Users \cup {NoName}]
           /\ h.freed \in SUBSET Conns /\ h.fault \in Faults
BY DEF Heaps

LEMMA EmptyHeapIsHeap == EmptyHeap \in Heaps
BY DEF EmptyHeap, Heaps, Pointers, Faults

\* FindSession returns 0 or the first of the indices that have the name.
LEMMA FindSessionMeans ==
    ASSUME NEW h \in Heaps, NEW id
    PROVE  LET i == FindSession(h, id) IN
           \/ i = 0 /\ \A j \in DOMAIN h.list : h.list[j].id # id
           \/ /\ i \in DOMAIN h.list /\ h.list[i].id = id
              /\ \A j \in DOMAIN h.list : h.list[j].id = id => i <= j
<1> DEFINE hits == {i \in DOMAIN h.list : h.list[i].id = id}
<1>1. hits \subseteq Nat
  BY HeapParts
<1>2. CASE hits = {}
  BY <1>2 DEF FindSession
<1>3. CASE hits # {}
  <2>1. \E i \in hits : \A j \in hits : i <= j
    <3> HIDE DEF hits
    <3> QED BY <1>1, <1>3, LeastNumber
  <2>2. FindSession(h, id) \in hits /\ \A j \in hits : FindSession(h, id) <= j
    BY <1>3, <2>1 DEF FindSession
  <2> QED BY <2>2
<1> QED BY <1>2, <1>3

\* CreateSess changes the list only.
LEMMA CreateSessKeeps ==
    ASSUME NEW h \in Heaps, NEW id \in SessIds
    PROVE  LET k == CreateSess(h, id) IN
           /\ k \in Heaps
           /\ k.clientID = h.clientID /\ k.freed = h.freed
           /\ k.joined = h.joined /\ k.fault = h.fault
<1>1. [id |-> id, head |-> NULL, sz |-> 0] \in SessionRecords
  BY DEF SessionRecords, Pointers
<1>2. Append(h.list, [id |-> id, head |-> NULL, sz |-> 0]) \in Seq(SessionRecords)
  BY <1>1, HeapParts
<1> QED BY <1>2 DEF CreateSess, Heaps

\* JoinSess leaves everybody's name, and what is freed; it adds the session to
\* the client's own list if it finds one of that name.
LEMMA JoinSessKeeps ==
    ASSUME NEW h \in Heaps, NEW c \in Conns, NEW id \in SessIds
    PROVE  LET k == JoinSess(h, c, id) IN
           /\ k \in Heaps
           /\ k.clientID = h.clientID /\ k.freed = h.freed
           /\ k.fault \in {h.fault, "hang"}
           /\ k.joined = IF FindSession(h, id) = 0 THEN h.joined
                         ELSE [h.joined EXCEPT ![c] = Append(@, id)]
<1> DEFINE i == FindSession(h, id)
           last == CHOOSE d \in Members(h, i) : h.next[d] = NULL
           own == [h EXCEPT !.joined[c] = Append(@, id)]
           counted == [own EXCEPT !.list[i].sz = @ + 1]
<1>1. /\ own \in Heaps /\ own.list = h.list /\ own.next = h.next
      /\ own.clientID = h.clientID /\ own.freed = h.freed /\ own.fault = h.fault
      /\ own.joined = [h.joined EXCEPT ![c] = Append(@, id)]
  <2>1. [h.joined EXCEPT ![c] = Append(@, id)] \in [Conns -> Seq(SessIds \cup {NoName})]
    BY HeapParts
  <2> QED BY <2>1 DEF Heaps
<1>2. CASE i = 0
  BY <1>2 DEF JoinSess
<1>3. CASE i # 0
  <2>1. i \in DOMAIN h.list
    BY <1>3, FindSessionMeans
  <2>2. /\ counted \in Heaps /\ counted.list[i] \in SessionRecords
        /\ i \in DOMAIN counted.list /\ counted.next = h.next
        /\ counted.clientID = h.clientID /\ counted.freed = h.freed
        /\ counted.joined = own.joined /\ counted.fault = h.fault
    <3> HIDE DEF own
    <3>1. own.list[i] \in SessionRecords /\ i \in DOMAIN own.list
      BY <1>1, <2>1, HeapParts
    <3>2. [own.list[i] EXCEPT !.sz = @ + 1] \in SessionRecords
      BY <3>1 DEF SessionRecords
    <3>3. [own.list EXCEPT ![i] = [own.list[i] EXCEPT !.sz = @ + 1]] \in Seq(SessionRecords)
      BY <1>1, <3>1, <3>2, HeapParts
    <3>4. counted = [own EXCEPT !.list =
                        [own.list EXCEPT ![i] = [own.list[i] EXCEPT !.sz = @ + 1]]]
      BY <1>1, <3>1 DEF Heaps
    <3> HIDE DEF counted
    <3> QED BY <1>1, <3>1, <3>2, <3>3, <3>4 DEF Heaps
  <2> HIDE DEF own, counted
  <2>3. ASSUME JoinSess(h, c, id) = [counted EXCEPT !.list[i].head = c]
        PROVE  /\ JoinSess(h, c, id) \in Heaps
               /\ JoinSess(h, c, id).clientID = h.clientID
               /\ JoinSess(h, c, id).freed = h.freed
               /\ JoinSess(h, c, id).joined = own.joined
               /\ JoinSess(h, c, id).fault = h.fault
    <3>1. [counted.list[i] EXCEPT !.head = c] \in SessionRecords
      BY <2>2 DEF SessionRecords, Pointers
    <3>2. [counted.list EXCEPT ![i] = [counted.list[i] EXCEPT !.head = c]]
              \in Seq(SessionRecords)
      BY <2>2, <3>1, HeapParts
    <3>3. JoinSess(h, c, id) = [counted EXCEPT !.list =
              [counted.list EXCEPT ![i] = [counted.list[i] EXCEPT !.head = c]]]
      BY <2>2, <2>3 DEF Heaps
    <3> QED BY <2>2, <3>2, <3>3 DEF Heaps
  <2>4. [counted EXCEPT !.next[last] = c] \in Heaps
    <3> HIDE DEF last
    <3>1. [counted.next EXCEPT ![last] = c] \in [Conns -> Pointers]
      BY <2>2, HeapParts DEF Pointers
    <3> QED BY <2>2, <3>1 DEF Heaps
  <2>5. [own EXCEPT !.fault = "hang"] \in Heaps
    BY <1>1 DEF Heaps, Faults
  <2>6. \/ JoinSess(h, c, id) = [counted EXCEPT !.list[i].head = c]
        \/ JoinSess(h, c, id) = [own EXCEPT !.fault = "hang"]
        \/ JoinSess(h, c, id) = [counted EXCEPT !.next[last] = c]
    BY <1>3 DEF JoinSess, own, counted
  <2> DEFINE k == JoinSess(h, c, id)
  <2> HIDE DEF last, k
  <2>7. /\ k \in Heaps /\ k.clientID = h.clientID /\ k.freed = h.freed
        /\ k.fault \in {h.fault, "hang"} /\ k.joined = own.joined
    <3>1. CASE k = [counted EXCEPT !.list[i].head = c]
      BY <1>1, <2>3, <3>1 DEF k
    <3>2. CASE k = [own EXCEPT !.fault = "hang"]
      BY <1>1, <2>5, <3>2 DEF Heaps
    <3>3. CASE k = [counted EXCEPT !.next[last] = c]
      BY <1>1, <2>2, <2>4, <3>3 DEF Heaps
    <3> QED BY <2>6, <3>1, <3>2, <3>3 DEF k
  <2> QED BY <1>1, <1>3, <2>7 DEF k
<1> QED BY <1>2, <1>3

\* Unlink changes pointers and the counter only.
LEMMA UnlinkKeeps ==
    ASSUME NEW h \in Heaps, NEW c \in Conns, NEW i \in DOMAIN h.list
    PROVE  LET k == Unlink(h, c, i) IN
           /\ k \in Heaps
           /\ k.clientID = h.clientID /\ k.freed = h.freed /\ k.joined = h.joined
<1> DEFINE at == {n \in 0..Cardinality(Conns) :
                     LET d == Walk(h, h.list[i].head, n)
                     IN  d # NULL /\ h.next[d] = c}
           pre == Walk(h, h.list[i].head, CHOOSE n \in at : \A m \in at : n <= m)
           to == IF pre = c THEN NULL ELSE h.next[c]
           cut == [h EXCEPT !.next[c] = NULL, !.list[i].sz = @ - 1]
           k == Unlink(h, c, i)
<1>1. h.list[i] \in SessionRecords /\ h.next[c] \in Pointers
  BY HeapParts
<1>2. /\ cut \in Heaps /\ cut.list[i] \in SessionRecords
      /\ i \in DOMAIN cut.list
      /\ cut.clientID = h.clientID /\ cut.freed = h.freed /\ cut.joined = h.joined
  <2>1. [h.list[i] EXCEPT !.sz = @ - 1] \in SessionRecords
    BY <1>1 DEF SessionRecords
  <2>2. [h.list EXCEPT ![i] = [h.list[i] EXCEPT !.sz = @ - 1]] \in Seq(SessionRecords)
    BY <2>1, HeapParts
  <2>3. [h.next EXCEPT ![c] = NULL] \in [Conns -> Pointers]
    BY HeapParts DEF Pointers
  <2>4. cut = [h EXCEPT !.next = [h.next EXCEPT ![c] = NULL],
                 !.list = [h.list EXCEPT ![i] = [h.list[i] EXCEPT !.sz = @ - 1]]]
    BY <1>1 DEF Heaps
  <2> HIDE DEF cut
  <2> QED BY <1>1, <2>1, <2>2, <2>3, <2>4 DEF Heaps
<1>3. \/ k = [cut EXCEPT !.list[i].head = h.next[c]]
      \/ k = [cut EXCEPT !.next[pre] = to]
      \/ k = [h EXCEPT !.fault = "hang"]
      \/ k = h
  BY DEF Unlink
<1>4. to \in Pointers
  BY <1>1 DEF Pointers
<1> HIDE DEF at, pre, to, cut, k
<1>5. CASE k = [cut EXCEPT !.list[i].head = h.next[c]]
  <2>1. [cut.list[i] EXCEPT !.head = h.next[c]] \in SessionRecords
    BY <1>1, <1>2 DEF SessionRecords
  <2>2. [cut.list EXCEPT ![i] = [cut.list[i] EXCEPT !.head = h.next[c]]]
            \in Seq(SessionRecords)
    BY <1>2, <2>1, HeapParts
  <2>3. k = [cut EXCEPT !.list =
                [cut.list EXCEPT ![i] = [cut.list[i] EXCEPT !.head = h.next[c]]]]
    BY <1>2, <1>5 DEF Heaps
  <2>4. k \in Heaps /\ k.clientID = h.clientID /\ k.freed = h.freed
        /\ k.joined = h.joined
    BY <1>2, <2>2, <2>3 DEF Heaps
  <2> QED BY <2>4 DEF k
<1>6. CASE k = [cut EXCEPT !.next[pre] = to]
  <2>1. [cut.next EXCEPT ![pre] = to] \in [Conns -> Pointers]
    BY <1>2, <1>4, HeapParts
  <2>2. k \in Heaps /\ k.clientID = h.clientID /\ k.freed = h.freed
        /\ k.joined = h.joined
    BY <1>2, <1>6, <2>1 DEF Heaps
  <2> QED BY <2>2 DEF k
<1>7. CASE k = [h EXCEPT !.fault = "hang"]
  <2>1. k \in Heaps /\ k.clientID = h.clientID /\ k.freed = h.freed
        /\ k.joined = h.joined
    BY <1>7 DEF Heaps, Faults
  <2> QED BY <2>1 DEF k
<1>8. CASE k = h
  BY <1>8 DEF k
<1> QED BY <1>3, <1>5, <1>6, <1>7, <1>8

\* DestroySession frees c or nobody, and makes nodes of freed memory of c's own
\* list, whose length stays.
LEMMA DestroySessionKeeps ==
    ASSUME NEW h \in Heaps, NEW c \in Conns, NEW i \in DOMAIN h.list
    PROVE  LET k == DestroySession(h, c, i) IN
           /\ k \in Heaps
           /\ \/ k.freed = h.freed /\ k.clientID = h.clientID /\ k.joined = h.joined
              \/ /\ k.freed = h.freed \cup {c}
                 /\ k.clientID = [h.clientID EXCEPT ![c] = NoName]
                 /\ k.joined = [h.joined EXCEPT ![c] = [n \in DOMAIN @ |-> NoName]]
<1> DEFINE rest == SubSeq(h.list, 1, i - 1) \o SubSeq(h.list, i + 1, Len(h.list))
           gone == [h EXCEPT !.list = rest]
           k == DestroySession(h, c, i)
<1>1. rest \in Seq(SessionRecords)
  <2>1. h.list \in Seq(SessionRecords) /\ i \in 1..Len(h.list)
    BY HeapParts
  <2>2. SubSeq(h.list, 1, i - 1) \in Seq(SessionRecords)
    <3>1. \A n \in 1..(i - 1) : h.list[n] \in SessionRecords
      BY <2>1
    <3> QED BY <2>1, <3>1
  <2>3. SubSeq(h.list, i + 1, Len(h.list)) \in Seq(SessionRecords)
    <3>1. \A n \in (i + 1)..Len(h.list) : h.list[n] \in SessionRecords
      BY <2>1
    <3> QED BY <2>1, <3>1
  <2> QED BY <2>2, <2>3
<1>2. \/ k = gone
      \/ k = [h EXCEPT !.fault = "abort"]
      \/ k = [h EXCEPT !.fault = "undefined"]
      \/ k = [h EXCEPT !.fault = "segv"]
      \/ k = [gone EXCEPT !.freed = @ \cup {c}, !.clientID[c] = NoName,
                          !.joined[c] = [n \in DOMAIN @ |-> NoName]]
  BY DEF DestroySession
<1> HIDE DEF rest
<1>3. /\ gone \in Heaps /\ gone.clientID = h.clientID
      /\ gone.freed = h.freed /\ gone.joined = h.joined
  BY <1>1 DEF Heaps
<1> HIDE DEF gone, k
<1>4. CASE k = [gone EXCEPT !.freed = @ \cup {c}, !.clientID[c] = NoName,
                            !.joined[c] = [n \in DOMAIN @ |-> NoName]]
  <2>1. [n \in DOMAIN h.joined[c] |-> NoName] \in Seq(SessIds \cup {NoName})
    <3>1. h.joined[c] \in Seq(SessIds \cup {NoName})
      BY HeapParts
    <3> QED BY <3>1
  <2>2. [h.joined EXCEPT ![c] = [n \in DOMAIN @ |-> NoName]]
            \in [Conns -> Seq(SessIds \cup {NoName})]
    BY <2>1, HeapParts
  <2>3. [h.clientID EXCEPT ![c] = NoName] \in [Conns -> Users \cup {NoName}]
    BY HeapParts
  <2>4. k \in Heaps /\ k.freed = h.freed \cup {c}
        /\ k.clientID = [h.clientID EXCEPT ![c] = NoName]
        /\ k.joined = [h.joined EXCEPT ![c] = [n \in DOMAIN @ |-> NoName]]
    BY <1>3, <1>4, <2>2, <2>3 DEF Heaps
  <2> QED BY <2>4 DEF k
<1>5. CASE k \in {gone, [h EXCEPT !.fault = "abort"],
                  [h EXCEPT !.fault = "undefined"], [h EXCEPT !.fault = "segv"]}
  <2>1. k \in Heaps /\ k.clientID = h.clientID /\ k.freed = h.freed
        /\ k.joined = h.joined
    BY <1>3, <1>5 DEF Heaps, Faults
  <2> QED BY <2>1 DEF k
<1> QED BY <1>2, <1>4, <1>5

\* LeaveSess shortens the client's own list by one, unless there is nothing on
\* it or only freed memory, and leaves everybody else's; it may free the client,
\* whose name is lost then.
LEMMA LeaveSessKeeps ==
    ASSUME NEW h \in Heaps, NEW c \in Conns
    PROVE  LET k == LeaveSess(h, c)
               n == Len(h.joined[c]) IN
           /\ k \in Heaps
           /\ \A d \in Conns \ {c} : k.clientID[d] = h.clientID[d]
           /\ \/ k.freed = h.freed /\ k.clientID = h.clientID
              \/ k.freed = h.freed \cup {c}
           /\ \A d \in Conns \ {c} : k.joined[d] = h.joined[d]
           /\ \/ /\ k.joined = h.joined /\ k.clientID = h.clientID
                 /\ k.freed = h.freed
                 /\ \/ n = 0 /\ k.fault = "segv"
                    \/ n > 0 /\ h.joined[c][n] = NoName /\ k.fault = "undefined"
              \/ n > 0 /\ Len(k.joined[c]) = n - 1
<1> DEFINE n == Len(h.joined[c])
           id == h.joined[c][n]
           popped == [h EXCEPT !.joined[c] = SubSeq(@, 1, n - 1)]
           i == FindSession(h, id)
           k == LeaveSess(h, c)
<1>1. h.joined[c] \in Seq(SessIds \cup {NoName}) /\ n \in Nat
  BY HeapParts
<1>2. CASE n = 0
  BY <1>2 DEF LeaveSess, Heaps, Faults
<1>3. CASE n > 0 /\ id = NoName
  BY <1>1, <1>3 DEF LeaveSess, Heaps, Faults
<1>4. CASE n > 0 /\ id # NoName
  <2>1. /\ popped \in Heaps /\ popped.list = h.list
        /\ popped.clientID = h.clientID /\ popped.freed = h.freed
        /\ \A d \in Conns \ {c} : popped.joined[d] = h.joined[d]
        /\ Len(popped.joined[c]) = n - 1
    <3> DEFINE rest == SubSeq(h.joined[c], 1, n - 1)
    <3>1. rest \in Seq(SessIds \cup {NoName}) /\ Len(rest) = n - 1
      BY <1>1, <1>4
    <3> HIDE DEF rest
    <3>2. [h.joined EXCEPT ![c] = rest] \in [Conns -> Seq(SessIds \cup {NoName})]
      BY <3>1, HeapParts
    <3>3. popped = [h EXCEPT !.joined = [h.joined EXCEPT ![c] = rest]]
      BY DEF Heaps, rest
    <3> HIDE DEF popped
    <3> QED BY <3>1, <3>2, <3>3 DEF Heaps
  <2>2. \/ k = popped
        \/ i # 0 /\ k = DestroySession(popped, c, i)
        \/ i # 0 /\ k = Unlink(popped, c, i)
    BY <1>4 DEF LeaveSess
  <2>3. i # 0 => i \in DOMAIN popped.list
    BY <2>1, FindSessionMeans
  <2> HIDE DEF popped, i, k
  <2>4. CASE k = popped
    BY <1>4, <2>1, <2>4 DEF k
  <2>5. CASE i # 0 /\ k = DestroySession(popped, c, i)
    <3>1. /\ k \in Heaps
          /\ \/ /\ k.freed = h.freed /\ k.clientID = h.clientID
                /\ k.joined = popped.joined
             \/ /\ k.freed = h.freed \cup {c}
                /\ k.clientID = [h.clientID EXCEPT ![c] = NoName]
                /\ k.joined = [popped.joined EXCEPT ![c] = [m \in DOMAIN @ |-> NoName]]
      BY <2>1, <2>3, <2>5, DestroySessionKeeps
    <3>2. Len([m \in DOMAIN popped.joined[c] |-> NoName]) = n - 1
      <4>1. popped.joined[c] \in Seq(SessIds \cup {NoName})
        BY <2>1, HeapParts
      <4> QED BY <2>1, <4>1
    <3>3. c \in DOMAIN popped.joined /\ c \in DOMAIN h.clientID
      BY <2>1, HeapParts
    <3>4. CASE k.freed = h.freed /\ k.clientID = h.clientID /\ k.joined = popped.joined
      BY <1>4, <2>1, <3>1, <3>4 DEF k
    <3>5. CASE /\ k.freed = h.freed \cup {c}
               /\ k.clientID = [h.clientID EXCEPT ![c] = NoName]
               /\ k.joined = [popped.joined EXCEPT ![c] = [m \in DOMAIN @ |-> NoName]]
      <4>1. k.joined[c] = [m \in DOMAIN popped.joined[c] |-> NoName]
        BY <3>3, <3>5
      <4>2. /\ \A d \in Conns \ {c} : k.joined[d] = popped.joined[d]
            /\ \A d \in Conns \ {c} : k.clientID[d] = h.clientID[d]
        <5>1. popped.joined \in [Conns -> Seq(SessIds \cup {NoName})]
              /\ h.clientID \in [Conns -> Users \cup {NoName}]
          BY <2>1, HeapParts
        <5> QED BY <3>5, <5>1
      <4> QED BY <1>4, <2>1, <3>1, <3>2, <3>5, <4>1, <4>2 DEF k
    <3> QED BY <3>1, <3>4, <3>5
  <2>6. CASE i # 0 /\ k = Unlink(popped, c, i)
    <3>1. k \in Heaps /\ k.clientID = h.clientID /\ k.freed = h.freed
          /\ k.joined = popped.joined
      BY <2>1, <2>3, <2>6, UnlinkKeeps
    <3> QED BY <1>4, <2>1, <3>1 DEF k
  <2> QED BY <2>2, <2>4, <2>5, <2>6
<1> QED BY <1>1, <1>2, <1>3, <1>4

-----------------------------------------------------------------------------
(***************************************************************************)
(* What the lists mean as long as nobody is on two of them.  Q has for     *)
(* each session the row of its members; of sessions of one name only the   *)
(* first has any, since only the first is found; and a client on no row    *)
(* leads nowhere.                                                          *)
(***************************************************************************)
IsRow(h, i, q) ==
    Leads(q, h.list[i].head, h.next, Conns, NULL) /\ h.list[i].sz = Len(q)

Lists(h, Q) ==
    /\ Q \in Seq(Seq(Conns)) /\ Len(Q) = Len(h.list)
    /\ \A i \in 1..Len(Q) : IsRow(h, i, Q[i])
    /\ \A i, j \in 1..Len(Q), c \in Conns : In(c, Q[i]) /\ In(c, Q[j]) => i = j
    /\ \A i, j \in 1..Len(Q) : i < j /\ h.list[i].id = h.list[j].id => Q[j] = <<>>
    /\ \A c \in Conns : (\A i \in 1..Len(Q) : ~In(c, Q[i])) => h.next[c] = NULL

\* Each client's own list says where it is.
Homes(h, Q) ==
    \A c \in Conns :
        \/ h.joined[c] = <<>> /\ \A i \in 1..Len(Q) : ~In(c, Q[i])
        \/ \E i \in 1..Len(Q) : In(c, Q[i]) /\ h.joined[c] = <<h.list[i].id>>

LEMMA ListsParts ==
    ASSUME NEW h \in Heaps, NEW Q, Lists(h, Q)
    PROVE  /\ Len(Q) \in Nat /\ DOMAIN Q = 1..Len(Q) /\ DOMAIN h.list = 1..Len(Q)
           /\ \A i \in 1..Len(Q) : Q[i] \in Seq(Conns) /\ h.list[i] \in SessionRecords
BY HeapParts DEF Lists

\* A walk from a head visits the row.
LEMMA WalkIs ==
    ASSUME NEW h, NEW start, NEW q, Leads(q, start, h.next, Conns, NULL), NEW n \in Nat
    PROVE  Walk(h, start, n) = ItemOr(q, n + 1, NULL)
<1> DEFINE Good(w) == w = [k \in 0..n |-> IF k = 0 THEN start
                                          ELSE IF w[k - 1] = NULL THEN NULL ELSE h.next[w[k - 1]]]
           g == [k \in 0..n |-> ItemOr(q, k + 1, NULL)]
<1>1. q \in Seq(Conns) /\ Len(q) \in Nat /\ \A k \in 1..Len(q) : q[k] # NULL
  BY PointerAssumption DEF Leads
<1>2. Good(g)
  <2>1. ASSUME NEW k \in 0..n
        PROVE  g[k] = IF k = 0 THEN start
                      ELSE IF g[k - 1] = NULL THEN NULL ELSE h.next[g[k - 1]]
    <3>1. CASE k = 0
      BY <3>1 DEF Leads
    <3>2. CASE k # 0
      <4>1. k - 1 \in 0..n /\ (k - 1) + 1 = k /\ g[k] = ItemOr(q, k + 1, NULL)
        BY <3>2
      <4>2. g[k - 1] = ItemOr(q, k, NULL)
        BY <4>1
      <4> HIDE DEF g
      <4>3. CASE k \in 1..Len(q)
        <5>1. ItemOr(q, k, NULL) = q[k] /\ h.next[q[k]] = ItemOr(q, k + 1, NULL)
          BY <4>3 DEF ItemOr, Leads
        <5> QED BY <1>1, <3>2, <4>1, <4>2, <4>3, <5>1
      <4>4. CASE k \notin 1..Len(q)
        <5>1. ItemOr(q, k, NULL) = NULL /\ ItemOr(q, k + 1, NULL) = NULL
          BY <1>1, <3>2, <4>4 DEF ItemOr
        <5> QED BY <3>2, <4>1, <4>2, <5>1
      <4> QED BY <4>3, <4>4
    <3> QED BY <3>1, <3>2
  <2> QED BY <2>1
<1>3. ASSUME NEW w, Good(w) PROVE w[n] = ItemOr(q, n + 1, NULL)
  <2>1. \A k \in 0..n : w[k] = IF k = 0 THEN start
                               ELSE IF w[k - 1] = NULL THEN NULL ELSE h.next[w[k - 1]]
    <3> DEFINE v == w
    <3>1. w = [k \in 0..n |-> IF k = 0 THEN start
                              ELSE IF v[k - 1] = NULL THEN NULL ELSE h.next[v[k - 1]]]
      BY <1>3
    <3> HIDE DEF v
    <3>2. \A k \in 0..n : w[k] = IF k = 0 THEN start
                                 ELSE IF v[k - 1] = NULL THEN NULL ELSE h.next[v[k - 1]]
      BY <3>1
    <3> QED BY <3>2 DEF v
  <2>2. /\ w[0] = start
        /\ \A k \in 1..n : w[k] = IF w[k - 1] = NULL THEN NULL ELSE h.next[w[k - 1]]
    BY <2>1
  <2> QED BY <2>2, PointerAssumption, LeadsWalk
<1> DEFINE walk == CHOOSE w : Good(w)
<1>4. Good(walk)
  <2> HIDE DEF Good, g
  <2> QED BY <1>2
<1>5. walk[n] = ItemOr(q, n + 1, NULL)
  <2> HIDE DEF walk, Good
  <2> QED BY <1>3, <1>4
<1>6. Walk(h, start, n) = walk[n]
  BY DEF Walk
<1> QED BY <1>5, <1>6

LEMMA ConnsFinite == IsFiniteSet(Conns) /\ Cardinality(Conns) \in Nat
BY NamesAssumption, FS_CardinalityType

\* A row ends, and what is met on it are its members, as often as it counts.
LEMMA RowMeans ==
    ASSUME NEW h, NEW i, NEW q, IsRow(h, i, q)
    PROVE  /\ q \in Seq(Conns) /\ Distinct(q) /\ Len(q) \in Nat /\ Len(q) <= Cardinality(Conns)
           /\ ~Cyclic(h, i)
           /\ \A x : x \in Members(h, i) <=> In(x, q)
           /\ h.list[i].sz = Len(q) /\ Len(q) = Cardinality(Members(h, i))
           /\ Nodes(h, i) = q
           /\ \A n \in 1..Len(q) : Walk(h, h.list[i].head, n - 1) = q[n]
<1> DEFINE N == Cardinality(Conns)
           At(n) == Walk(h, h.list[i].head, n)
<1>1. /\ q \in Seq(Conns) /\ Distinct(q) /\ Len(q) \in Nat /\ Len(q) <= N /\ N \in Nat
      /\ h.list[i].sz = Len(q) /\ q = [n \in 1..Len(q) |-> q[n]]
  BY ConnsFinite, DistinctShort DEF IsRow, Leads
<1>2. \A n \in Nat : At(n) = ItemOr(q, n + 1, NULL)
  BY WalkIs DEF IsRow
<1>3. \A n \in 1..Len(q) : q[n] # NULL
  BY <1>1, PointerAssumption
<1>4. Members(h, i) = {At(n) : n \in 0..N} \ {NULL}
  BY DEF Members
<1>5. Cyclic(h, i) <=> At(N) # NULL
  BY DEF Cyclic
<1>6. Nodes(h, i) = [n \in 1..Len(q) |-> At(n - 1)]
  BY <1>1 DEF Nodes
<1> HIDE DEF At, N
<1>7. ~Cyclic(h, i)
  <2>1. N + 1 \notin 1..Len(q)
    BY <1>1
  <2> QED BY <1>1, <1>2, <1>5, <2>1 DEF ItemOr
<1>8. \A n \in 1..Len(q) : At(n - 1) = q[n]
  <2>1. ASSUME NEW n \in 1..Len(q) PROVE At(n - 1) = q[n]
    <3>1. n - 1 \in Nat /\ (n - 1) + 1 = n
      BY <1>1
    <3>2. At(n - 1) = ItemOr(q, (n - 1) + 1, NULL)
      BY <1>2, <3>1
    <3> QED BY <3>1, <3>2 DEF ItemOr
  <2> QED BY <2>1
<1>9. ASSUME NEW x PROVE x \in Members(h, i) <=> In(x, q)
  <2>1. ASSUME NEW n \in 0..N, At(n) # NULL PROVE In(At(n), q)
    <3>1. n \in Nat /\ At(n) = ItemOr(q, n + 1, NULL)
      BY <1>1, <1>2
    <3> QED BY <2>1, <3>1 DEF ItemOr, In
  <2>2. ASSUME NEW n \in 1..Len(q) PROVE q[n] \in Members(h, i)
    <3>1. n - 1 \in 0..N
      BY <1>1
    <3> QED BY <1>3, <1>4, <1>8, <3>1
  <2> QED BY <1>4, <2>1, <2>2 DEF In
<1>10. Nodes(h, i) = q
  BY <1>1, <1>6, <1>8
<1>11. Len(q) = Cardinality(Members(h, i))
  <2> DEFINE M == Members(h, i)
  <2>1. q \in Bijection(1..Len(q), M)
    <3>1. q \in [1..Len(q) -> M]
      <4>1. \A n \in 1..Len(q) : q[n] \in M
        BY <1>9 DEF In
      <4> QED BY <1>1, <4>1
    <3>2. \A x \in M : \E n \in 1..Len(q) : q[n] = x
      BY <1>9 DEF In
    <3> HIDE DEF M
    <3> QED BY <1>1, <3>1, <3>2 DEF Bijection, Injection, Surjection, IsInjective, Distinct
  <2>2. IsFiniteSet(1..Len(q)) /\ Cardinality(1..Len(q)) = Len(q)
    <3>1. \A m \in Nat : IsFiniteSet(1..m) /\ Cardinality(1..m) = m
      BY FS_Interval
    <3> QED BY <1>1, <3>1
  <2> HIDE DEF M
  <2>3. Cardinality(1..Len(q)) = Cardinality(M)
    BY <2>1, <2>2, FS_Bijection DEF ExistsBijection
  <2> QED BY <2>2, <2>3 DEF M
<1> QED BY <1>1, <1>7, <1>8, <1>9, <1>10, <1>11 DEF At, N

\* A new row for one session, with c the only client that came or went.
LEMMA RowChanges ==
    ASSUME NEW h \in Heaps, NEW k \in Heaps, NEW Q, Lists(h, Q), NEW i \in 1..Len(Q),
           NEW q, NEW c \in Conns, IsRow(k, i, q),
           Len(k.list) = Len(h.list), \A j \in 1..Len(Q) : k.list[j].id = h.list[j].id,
           \A j \in 1..Len(Q) : j # i => k.list[j] = h.list[j] /\ ~In(c, Q[j]),
           \A j \in 1..Len(Q) : h.list[j].id = h.list[i].id => i <= j,
           \A d \in Conns \ {c} : In(d, q) <=> In(d, Q[i]),
           \A d \in Conns \ {c} : ~In(d, Q[i]) => k.next[d] = h.next[d],
           ~In(c, q) => k.next[c] = NULL
    PROVE  Lists(k, [Q EXCEPT ![i] = q])
<1> DEFINE R == [Q EXCEPT ![i] = q]
<1>1. /\ Q \in Seq(Seq(Conns)) /\ Len(Q) \in Nat /\ Len(Q) = Len(h.list)
      /\ q \in Seq(Conns)
  BY DEF Lists, IsRow, Leads
<1>2. /\ R \in Seq(Seq(Conns)) /\ Len(R) = Len(Q) /\ R[i] = q
      /\ \A j \in 1..Len(Q) : j # i => R[j] = Q[j]
  BY <1>1
<1> HIDE DEF R
<1>3. ASSUME NEW j \in 1..Len(Q) PROVE IsRow(k, j, R[j])
  <2>1. CASE j = i
    BY <1>2, <2>1
  <2>2. CASE j # i
    <3>1. Leads(Q[j], h.list[j].head, h.next, Conns, NULL) /\ h.list[j].sz = Len(Q[j])
      BY DEF Lists, IsRow
    <3>2. ASSUME NEW m \in 1..Len(Q[j]) PROVE k.next[Q[j][m]] = h.next[Q[j][m]]
      <4>1. Q[j][m] \in Conns /\ In(Q[j][m], Q[j])
        BY <3>1 DEF Leads, In
      <4>2. Q[j][m] # c /\ ~In(Q[j][m], Q[i])
        BY <2>2, <4>1 DEF Lists
      <4> QED BY <4>1, <4>2
    <3>3. Leads(Q[j], k.list[j].head, k.next, Conns, NULL) /\ k.list[j].sz = Len(Q[j])
      BY <2>2, <3>1, <3>2 DEF Leads
    <3> QED BY <1>2, <2>2, <3>3 DEF IsRow
  <2> QED BY <2>1, <2>2
<1>4. ASSUME NEW j \in 1..Len(Q), NEW d \in Conns
      PROVE  In(d, R[j]) <=> IF d = c THEN j = i /\ In(c, q) ELSE In(d, Q[j])
  BY <1>2
<1>5. \A j, l \in 1..Len(Q), d \in Conns : In(d, R[j]) /\ In(d, R[l]) => j = l
  BY <1>4 DEF Lists
<1>6. ASSUME NEW j \in 1..Len(Q), NEW l \in 1..Len(Q), j < l, k.list[j].id = k.list[l].id
      PROVE  R[l] = <<>>
  <2>1. l # i
    BY <1>1, <1>6
  <2>2. Q[l] = <<>>
    BY <1>6 DEF Lists
  <2> QED BY <1>2, <2>1, <2>2
<1>7. ASSUME NEW d \in Conns, \A j \in 1..Len(Q) : ~In(d, R[j]) PROVE k.next[d] = NULL
  <2>1. CASE d = c
    BY <1>4, <1>7, <2>1
  <2>2. CASE d # c
    <3>1. \A j \in 1..Len(Q) : ~In(d, Q[j])
      BY <1>4, <1>7, <2>2
    <3> QED BY <2>2, <3>1 DEF Lists
  <2> QED BY <2>1, <2>2
<1> QED BY <1>1, <1>2, <1>3, <1>5, <1>6, <1>7 DEF Lists, R

\* Only the pointers and the session list matter.
LEMMA ListsSame ==
    ASSUME NEW h, NEW k, NEW Q, Lists(h, Q), k.list = h.list, k.next = h.next
    PROVE  Lists(k, Q)
BY DEF Lists, IsRow

LEMMA NothingIn == \A x : ~In(x, <<>>)
BY DEF In

\* The first row to have a member of a name is what FindSession finds.
LEMMA FoundRow ==
    ASSUME NEW h \in Heaps, NEW Q, Lists(h, Q), NEW i \in 1..Len(Q), Q[i] # <<>>
    PROVE  /\ FindSession(h, h.list[i].id) = i
           /\ \A j \in 1..Len(Q) : h.list[j].id = h.list[i].id => i <= j
<1>1. Len(Q) \in Nat /\ DOMAIN h.list = 1..Len(Q)
  BY ListsParts
<1>2. \A j \in 1..Len(Q) : h.list[j].id = h.list[i].id => i <= j
  BY <1>1 DEF Lists
<1> DEFINE f == FindSession(h, h.list[i].id)
<1>3. /\ f \in 1..Len(Q) /\ h.list[f].id = h.list[i].id
      /\ \A j \in 1..Len(Q) : h.list[j].id = h.list[i].id => f <= j
  BY <1>1, FindSessionMeans
<1> HIDE DEF f
<1>4. i <= f /\ f <= i
  BY <1>2, <1>3
<1>5. f = i
  BY <1>1, <1>3, <1>4
<1> QED BY <1>2, <1>5 DEF f

\* A session is added at the end, with nobody in it.
LEMMA CreateSessLists ==
    ASSUME NEW h \in Heaps, NEW id \in SessIds, NEW Q, Lists(h, Q)
    PROVE  LET k == CreateSess(h, id) IN
           /\ Lists(k, Append(Q, <<>>))
           /\ Len(k.list) = Len(Q) + 1 /\ k.list[Len(Q) + 1].id = id
           /\ \A i \in 1..Len(Q) : k.list[i] = h.list[i]
<1> DEFINE k == CreateSess(h, id)
           R == Append(Q, <<>>)
           n == Len(Q)
           new == [id |-> id, head |-> NULL, sz |-> 0]
<1>1. n \in Nat /\ Q \in Seq(Seq(Conns)) /\ h.list \in Seq(SessionRecords) /\ n = Len(h.list)
  BY HeapParts DEF Lists
<1>2. /\ R \in Seq(Seq(Conns)) /\ Len(R) = n + 1 /\ R[n + 1] = <<>>
      /\ \A i \in 1..n : R[i] = Q[i]
  BY <1>1
<1>3. k.list = Append(h.list, new) /\ k.next = h.next
  BY DEF CreateSess, Heaps
<1>4. Len(k.list) = n + 1 /\ k.list[n + 1] = new /\ \A i \in 1..n : k.list[i] = h.list[i]
  BY <1>1, <1>3
<1>5. \A i \in 1..(n + 1) : i \in 1..n \/ i = n + 1
  BY <1>1
<1> HIDE DEF k, R, n
<1>6. IsRow(k, n + 1, <<>>)
  <2>1. Leads(<<>>, NULL, k.next, Conns, NULL)
    BY DEF Leads, Distinct, ItemOr
  <2> QED BY <1>4, <2>1 DEF IsRow
<1>7. \A i \in 1..n : IsRow(k, i, R[i])
  BY <1>2, <1>3, <1>4 DEF Lists, IsRow, n
<1>8. \A i, j \in 1..(n + 1), c \in Conns : In(c, R[i]) /\ In(c, R[j]) => i = j
  BY <1>2, <1>5, NothingIn DEF Lists, n
<1>9. \A i, j \in 1..(n + 1) : i < j /\ k.list[i].id = k.list[j].id => R[j] = <<>>
  <2>1. \A i \in 1..(n + 1), j \in 1..n : i < j => i \in 1..n
    BY <1>1
  <2> QED BY <1>2, <1>4, <1>5, <2>1 DEF Lists, n
<1>10. \A c \in Conns : (\A i \in 1..(n + 1) : ~In(c, R[i])) => k.next[c] = NULL
  <2>1. \A i \in 1..n : i \in 1..(n + 1)
    BY <1>1
  <2> QED BY <1>2, <1>3, <2>1 DEF Lists, n
<1>11. Lists(k, R)
  BY <1>2, <1>4, <1>5, <1>6, <1>7, <1>8, <1>9, <1>10 DEF Lists
<1> QED BY <1>4, <1>11 DEF k, R, n

\* The stores of the list functions.
PutSize(h, i, v) == [h EXCEPT !.list[i].sz = v]
PutHead(h, i, v) == [h EXCEPT !.list[i].head = v]
PutNext(h, c, v) == [h EXCEPT !.next[c] = v]
PutJoined(h, c, v) == [h EXCEPT !.joined[c] = v]

\* k differs from h in the field f at most.
SameBut(h, k, f) ==
    /\ k \in Heaps
    /\ f # "list" => k.list = h.list
    /\ f # "next" => k.next = h.next
    /\ f # "joined" => k.joined = h.joined
    /\ f # "fault" => k.fault = h.fault
    /\ k.clientID = h.clientID /\ k.freed = h.freed

LEMMA StoreSize ==
    ASSUME NEW h \in Heaps, NEW i \in DOMAIN h.list, NEW v \in Int
    PROVE  LET k == PutSize(h, i, v) IN
           /\ SameBut(h, k, "list") /\ Len(k.list) = Len(h.list)
           /\ k.list[i] = [id |-> h.list[i].id, head |-> h.list[i].head, sz |-> v]
           /\ \A j \in DOMAIN h.list : j # i => k.list[j] = h.list[j]
<1> DEFINE r == [h.list[i] EXCEPT !.sz = v]
           l == [h.list EXCEPT ![i] = r]
           x == [h EXCEPT !.list = l]
<1>1. h.list \in Seq(SessionRecords) /\ h.list[i] \in SessionRecords
  BY HeapParts
<1>2. r \in SessionRecords /\ r = [id |-> h.list[i].id, head |-> h.list[i].head, sz |-> v]
  BY <1>1 DEF SessionRecords
<1> HIDE DEF r
<1>3. /\ l \in Seq(SessionRecords) /\ Len(l) = Len(h.list) /\ l[i] = r
      /\ \A j \in DOMAIN h.list : j # i => l[j] = h.list[j]
  BY <1>1, <1>2
<1> HIDE DEF l
<1>4. SameBut(h, x, "list") /\ x.list = l
  BY <1>3 DEF Heaps, SameBut
<1>5. PutSize(h, i, v) = x
  BY DEF PutSize, Heaps, l, r
<1> QED BY <1>2, <1>3, <1>4, <1>5

LEMMA StoreHead ==
    ASSUME NEW h \in Heaps, NEW i \in DOMAIN h.list, NEW v \in Pointers
    PROVE  LET k == PutHead(h, i, v) IN
           /\ SameBut(h, k, "list") /\ Len(k.list) = Len(h.list)
           /\ k.list[i] = [id |-> h.list[i].id, head |-> v, sz |-> h.list[i].sz]
           /\ \A j \in DOMAIN h.list : j # i => k.list[j] = h.list[j]
<1> DEFINE r == [h.list[i] EXCEPT !.head = v]
           l == [h.list EXCEPT ![i] = r]
           x == [h EXCEPT !.list = l]
<1>1. h.list \in Seq(SessionRecords) /\ h.list[i] \in SessionRecords
  BY HeapParts
<1>2. r \in SessionRecords /\ r = [id |-> h.list[i].id, head |-> v, sz |-> h.list[i].sz]
  BY <1>1 DEF SessionRecords
<1> HIDE DEF r
<1>3. /\ l \in Seq(SessionRecords) /\ Len(l) = Len(h.list) /\ l[i] = r
      /\ \A j \in DOMAIN h.list : j # i => l[j] = h.list[j]
  BY <1>1, <1>2
<1> HIDE DEF l
<1>4. SameBut(h, x, "list") /\ x.list = l
  BY <1>3 DEF Heaps, SameBut
<1>5. PutHead(h, i, v) = x
  BY DEF PutHead, Heaps, l, r
<1> QED BY <1>2, <1>3, <1>4, <1>5

LEMMA StoreNext ==
    ASSUME NEW h \in Heaps, NEW c \in Conns, NEW v \in Pointers
    PROVE  LET k == PutNext(h, c, v) IN
           /\ SameBut(h, k, "next") /\ k.next[c] = v
           /\ \A d \in Conns : d # c => k.next[d] = h.next[d]
<1> DEFINE n == [h.next EXCEPT ![c] = v]
           x == [h EXCEPT !.next = n]
<1>1. /\ n \in [Conns -> Pointers] /\ n[c] = v
      /\ \A d \in Conns : d # c => n[d] = h.next[d]
  BY HeapParts
<1> HIDE DEF n
<1>2. SameBut(h, x, "next") /\ x.next = n
  BY <1>1 DEF Heaps, SameBut
<1>3. PutNext(h, c, v) = x
  BY DEF PutNext, Heaps, n
<1> QED BY <1>1, <1>2, <1>3

LEMMA StoreJoined ==
    ASSUME NEW h \in Heaps, NEW c \in Conns, NEW v \in Seq(SessIds \cup {NoName})
    PROVE  LET k == PutJoined(h, c, v) IN
           /\ SameBut(h, k, "joined") /\ k.joined[c] = v
           /\ \A d \in Conns : d # c => k.joined[d] = h.joined[d]
<1> DEFINE n == [h.joined EXCEPT ![c] = v]
           x == [h EXCEPT !.joined = n]
<1>1. /\ n \in [Conns -> Seq(SessIds \cup {NoName})] /\ n[c] = v
      /\ \A d \in Conns : d # c => n[d] = h.joined[d]
  BY HeapParts
<1> HIDE DEF n
<1>2. SameBut(h, x, "joined") /\ x.joined = n
  BY <1>1 DEF Heaps, SameBut
<1>3. PutJoined(h, c, v) = x
  BY DEF PutJoined, Heaps, n
<1> QED BY <1>1, <1>2, <1>3

\* A client on no list goes to the end of the one it joins, which ends.
LEMMA JoinSessLists ==
    ASSUME NEW h \in Heaps, NEW c \in Conns, NEW id \in SessIds, NEW Q, Lists(h, Q),
           \A j \in 1..Len(Q) : ~In(c, Q[j])
    PROVE  LET k == JoinSess(h, c, id)
               i == FindSession(h, id) IN
           \/ i = 0 /\ k = h
           \/ /\ i \in 1..Len(Q) /\ h.list[i].id = id
              /\ Lists(k, [Q EXCEPT ![i] = Append(@, c)])
              /\ k.fault = h.fault /\ Len(k.list) = Len(h.list)
              /\ \A j \in 1..Len(Q) : k.list[j].id = h.list[j].id
<1> DEFINE i == FindSession(h, id)
           k == JoinSess(h, c, id)
           own == [h EXCEPT !.joined[c] = Append(@, id)]
           counted == [own EXCEPT !.list[i].sz = @ + 1]
           last == CHOOSE d \in Members(h, i) : h.next[d] = NULL
           q == Q[i]
           r == Append(q, c)
<1>1. CASE i = 0
  BY <1>1 DEF JoinSess
<1>2. CASE i # 0
  <2>1. /\ i \in 1..Len(Q) /\ h.list[i].id = id /\ i \in DOMAIN h.list
        /\ \A j \in 1..Len(Q) : h.list[j].id = id => i <= j
    BY <1>2, ListsParts, FindSessionMeans
  <2>2. IsRow(h, i, q)
    BY <2>1 DEF Lists
  <2>3. /\ Leads(q, h.list[i].head, h.next, Conns, NULL)
        /\ q \in Seq(Conns) /\ Distinct(q) /\ Len(q) \in Nat /\ ~Cyclic(h, i)
        /\ h.list[i].sz = Len(q) /\ \A x : x \in Members(h, i) <=> In(x, q)
    <3> HIDE DEF q, i
    <3>1. Leads(q, h.list[i].head, h.next, Conns, NULL)
      BY <2>2 DEF IsRow
    <3> QED BY <2>2, <3>1, RowMeans
  <2>4. h.list[i] \in SessionRecords /\ c \in Pointers
        /\ DOMAIN h.list = 1..Len(Q) /\ Len(Q) \in Nat
    BY <2>1, HeapParts, ListsParts DEF Pointers
  <2>5. SameBut(h, own, "joined")
    <3>1. Append(h.joined[c], id) \in Seq(SessIds \cup {NoName})
      BY HeapParts
    <3>2. own = PutJoined(h, c, Append(h.joined[c], id))
      BY DEF PutJoined
    <3>3. SameBut(h, PutJoined(h, c, Append(h.joined[c], id)), "joined")
      BY <3>1, StoreJoined
    <3> HIDE DEF own
    <3> QED BY <3>2, <3>3
  <2>6. k = IF h.list[i].head = NULL THEN [counted EXCEPT !.list[i].head = c]
            ELSE [counted EXCEPT !.next[last] = c]
    BY <1>2, <2>3 DEF JoinSess
  <2> DEFINE v == own.list[i].sz + 1
  <2>7. v = Len(q) + 1 /\ v \in Int
    BY <2>3, <2>5 DEF SameBut
  <2>8. counted = [own EXCEPT !.list[i].sz = v]
    OBVIOUS
  <2> HIDE DEF own, v, counted, last, i
  <2>9. /\ SameBut(own, counted, "list") /\ Len(counted.list) = Len(h.list)
        /\ counted.list[i] = [id |-> h.list[i].id, head |-> h.list[i].head, sz |-> Len(q) + 1]
        /\ \A j \in DOMAIN h.list : j # i => counted.list[j] = h.list[j]
    <3>1. own \in Heaps /\ own.list = h.list
      BY <2>5 DEF SameBut
    <3> HIDE DEF q
    <3>2. i \in DOMAIN own.list /\ v \in Int
      BY <2>1, <2>7, <3>1
    <3> counted = PutSize(own, i, v)
      BY <2>8 DEF PutSize
    <3>3. /\ SameBut(own, counted, "list") /\ Len(counted.list) = Len(own.list)
          /\ counted.list[i] = [id |-> own.list[i].id, head |-> own.list[i].head, sz |-> v]
          /\ \A j \in DOMAIN own.list : j # i => counted.list[j] = own.list[j]
      BY <3>1, <3>2, StoreSize
    <3> QED BY <2>7, <3>1, <3>3
  <2>10. /\ counted \in Heaps /\ counted.next = h.next /\ counted.fault = h.fault
         /\ DOMAIN counted.list = DOMAIN h.list
    BY <2>5, <2>9, HeapParts DEF SameBut
  <2>11. ~In(c, q)
    BY <2>1
  <2>12. /\ k \in Heaps /\ k.fault = h.fault /\ IsRow(k, i, r)
         /\ Len(k.list) = Len(h.list) /\ k.list[i].id = h.list[i].id
         /\ \A j \in DOMAIN h.list : j # i => k.list[j] = h.list[j]
         /\ \A d \in Conns \ {c} : ~In(d, q) => k.next[d] = h.next[d]
    <3>1. CASE q = <<>>
      <4>1. h.list[i].head = NULL /\ Len(q) = 0
        BY <2>3, <3>1 DEF Leads, ItemOr
      <4>2. k = [counted EXCEPT !.list[i].head = c]
        BY <2>6, <4>1
      <4> HIDE DEF k
      <4>3. /\ SameBut(counted, k, "list") /\ Len(k.list) = Len(h.list)
            /\ k.list[i] = [id |-> h.list[i].id, head |-> c, sz |-> 1]
            /\ \A j \in DOMAIN h.list : j # i => k.list[j] = h.list[j]
        <5> HIDE DEF q
        <5>1. i \in DOMAIN counted.list /\ counted \in Heaps /\ c \in Pointers
          BY <2>1, <2>4, <2>10
        <5> k = PutHead(counted, i, c)
          BY <4>2 DEF PutHead
        <5>2. /\ SameBut(counted, k, "list") /\ Len(k.list) = Len(counted.list)
              /\ k.list[i] = [id |-> counted.list[i].id, head |-> c,
                              sz |-> counted.list[i].sz]
              /\ \A j \in DOMAIN counted.list : j # i => k.list[j] = counted.list[j]
          BY <5>1, StoreHead
        <5>3. counted.list[i].id = h.list[i].id /\ counted.list[i].sz = 1
          BY <2>9, <4>1
        <5> QED BY <2>9, <2>10, <5>2, <5>3
      <4>4. k \in Heaps /\ k.next = h.next /\ k.fault = h.fault
        BY <2>10, <4>3 DEF SameBut
      <4>5. h.next[c] = NULL
        BY DEF Lists
      <4>6. Leads(r, c, k.next, Conns, NULL)
        <5>1. k.next[c] = NULL
          BY <4>4, <4>5
        <5>2. \A n \in 1..Len(q) : k.next[q[n]] = IF n = Len(q) THEN c ELSE h.next[q[n]]
          BY <4>1
        <5>3. c = IF q = <<>> THEN c ELSE h.list[i].head
          BY <3>1
        <5> HIDE DEF q
        <5> QED BY <2>3, <2>11, <5>1, <5>2, <5>3, LeadsAppend
      <4>7. IsRow(k, i, r)
        <5>1. Len(r) = 1
          BY <3>1
        <5> QED BY <4>3, <4>6, <5>1 DEF IsRow
      <4> QED BY <4>3, <4>4, <4>7
    <3>2. CASE q # <<>>
      <4>1. /\ Len(q) \in 1..Len(q) /\ 1 \in 1..Len(q)
            /\ \A n \in 1..Len(q) : q[n] \in Conns /\ q[n] # NULL
        BY <2>3, <3>2, PointerAssumption
      <4>2. h.list[i].head # NULL
        BY <2>3, <4>1 DEF Leads, ItemOr
      <4>3. last = q[Len(q)]
        <5>1. \A d : d \in Members(h, i) /\ h.next[d] = NULL <=> d = q[Len(q)]
          <6>1. ASSUME NEW n \in 1..Len(q)
                PROVE  h.next[q[n]] = NULL <=> n = Len(q)
            <7>1. h.next[q[n]] = ItemOr(q, n + 1, NULL)
              BY <2>3 DEF Leads
            <7>2. n + 1 \in 1..Len(q) <=> n # Len(q)
              BY <2>3
            <7> QED BY <4>1, <7>1, <7>2 DEF ItemOr
          <6> QED BY <2>3, <4>1, <6>1 DEF In
        <5> QED BY <5>1 DEF last
      <4>4. k = [counted EXCEPT !.next[last] = c]
        BY <2>6, <4>2
      <4> HIDE DEF k
      <4>5. /\ SameBut(counted, k, "next") /\ k.next[last] = c
            /\ \A d \in Conns : d # last => k.next[d] = h.next[d]
        <5>1. last \in Conns /\ counted \in Heaps /\ c \in Pointers
          BY <2>4, <2>10, <4>1, <4>3
        <5> k = PutNext(counted, last, c)
          BY <4>4 DEF PutNext
        <5>2. /\ SameBut(counted, k, "next") /\ k.next[last] = c
              /\ \A d \in Conns : d # last => k.next[d] = counted.next[d]
          BY <5>1, StoreNext
        <5> QED BY <2>10, <5>2
      <4>6. k \in Heaps /\ k.list = counted.list /\ k.fault = h.fault
        BY <2>10, <4>5 DEF SameBut
      <4>7. h.next[c] = NULL /\ c # last
        BY <2>11, <4>1, <4>3 DEF Lists, In
      <4>8. \A n \in 1..Len(q) : k.next[q[n]] = IF n = Len(q) THEN c ELSE h.next[q[n]]
        BY <2>3, <4>1, <4>3, <4>5 DEF Distinct
      <4>9. Leads(r, h.list[i].head, k.next, Conns, NULL)
        BY <2>3, <2>11, <3>2, <4>5, <4>7, <4>8, LeadsAppend
      <4>10. IsRow(k, i, r)
        <5>1. Len(r) = Len(q) + 1
          BY <2>3
        <5> QED BY <2>9, <4>6, <4>9, <5>1 DEF IsRow
      <4>11. \A d \in Conns \ {c} : ~In(d, q) => k.next[d] = h.next[d]
        BY <4>1, <4>3, <4>5 DEF In
      <4> QED BY <2>9, <4>6, <4>10, <4>11
    <3> QED BY <3>1, <3>2
  <2> HIDE DEF k
  <2>13. \A x : In(x, r) <=> In(x, q) \/ x = c
    BY <2>3, AppendGives
  <2>14. Lists(k, [Q EXCEPT ![i] = r])
    <3> HIDE DEF r, q
    <3>1. \A j \in 1..Len(Q) : k.list[j].id = h.list[j].id
      BY <2>4, <2>12
    <3> QED BY <2>1, <2>4, <2>12, <2>13, <3>1, RowChanges DEF q
  <2>15. \A j \in 1..Len(Q) : k.list[j].id = h.list[j].id
    BY <2>4, <2>12
  <2> QED BY <2>1, <2>12, <2>14, <2>15 DEF k, i
<1> QED BY <1>1, <1>2

\* A member is unlinked from its list.
LEMMA UnlinkLists ==
    ASSUME NEW h \in Heaps, NEW Q, Lists(h, Q), NEW i \in 1..Len(Q),
           NEW m \in 1..Len(Q[i]), NEW c \in Conns, Q[i][m] = c
    PROVE  LET k == Unlink(h, c, i) IN
           /\ Lists(k, [Q EXCEPT ![i] = Without(@, m)])
           /\ k.fault = h.fault /\ Len(k.list) = Len(h.list)
           /\ \A j \in 1..Len(Q) : k.list[j].id = h.list[j].id
<1> DEFINE q == Q[i]
           r == Without(q, m)
           at == {n \in 0..Cardinality(Conns) :
                     LET d == Walk(h, h.list[i].head, n)
                     IN  d # NULL /\ h.next[d] = c}
           pre == Walk(h, h.list[i].head, CHOOSE n \in at : \A l \in at : n <= l)
           alone == PutNext(h, c, NULL)
           cut == PutSize(alone, i, h.list[i].sz - 1)
           k == Unlink(h, c, i)
<1>1. IsRow(h, i, q) /\ m \in 1..Len(q) /\ q[m] = c
  BY DEF Lists
<1>2. /\ q \in Seq(Conns) /\ Distinct(q) /\ Len(q) \in Nat
      /\ Len(q) <= Cardinality(Conns) /\ h.list[i].sz = Len(q)
  <2> HIDE DEF q
  <2> QED BY <1>1, RowMeans
<1>3. Leads(q, h.list[i].head, h.next, Conns, NULL)
  BY <1>1 DEF IsRow
<1>4. /\ DOMAIN h.list = 1..Len(Q) /\ Len(Q) \in Nat /\ h.list[i] \in SessionRecords
      /\ NULL \in Pointers /\ \A d \in Conns : h.next[d] \in Pointers
  BY HeapParts, ListsParts DEF Pointers
<1>5. /\ SameBut(h, alone, "next") /\ alone.next[c] = NULL
      /\ \A d \in Conns : d # c => alone.next[d] = h.next[d]
  <2> HIDE DEF alone
  <2>1. alone = PutNext(h, c, NULL)
    BY DEF alone
  <2> QED BY <1>4, <2>1, StoreNext
<1>6. alone \in Heaps /\ alone.list = h.list /\ alone.fault = h.fault
  BY <1>5 DEF SameBut
<1>7. k = IF h.list[i].head = c THEN PutHead(cut, i, h.next[c])
          ELSE IF at # {}
          THEN PutNext(cut, pre, IF pre = c THEN NULL ELSE h.next[c])
          ELSE IF Cyclic(h, i) THEN [h EXCEPT !.fault = "hang"]
          ELSE h
  <2>1. cut = [h EXCEPT !.next[c] = NULL, !.list[i].sz = @ - 1]
    BY DEF PutNext, PutSize, Heaps
  <2> HIDE DEF cut, pre, at
  <2> QED BY <2>1 DEF Unlink, PutHead, PutNext, at, pre
<1> HIDE DEF alone
<1>8. /\ SameBut(alone, cut, "list") /\ Len(cut.list) = Len(h.list)
      /\ cut.list[i] = [id |-> h.list[i].id, head |-> h.list[i].head, sz |-> Len(q) - 1]
      /\ \A j \in DOMAIN h.list : j # i => cut.list[j] = h.list[j]
  <2> HIDE DEF q
  <2>1. i \in DOMAIN alone.list /\ h.list[i].sz - 1 \in Int
    BY <1>2, <1>4, <1>6
  <2> QED BY <1>2, <1>6, <2>1, StoreSize
<1> HIDE DEF cut
<1>9. /\ cut \in Heaps /\ cut.next = alone.next /\ cut.fault = h.fault
      /\ i \in DOMAIN cut.list /\ DOMAIN cut.list = DOMAIN h.list
  BY <1>4, <1>6, <1>8, HeapParts DEF SameBut
<1>10. \A n \in 1..Len(q) : q[n] \in Conns /\ q[n] # NULL /\ (n # m => q[n] # c)
  BY <1>1, <1>2, PointerAssumption DEF Distinct
<1>11. \A n \in 1..Len(q) : n + 1 \in 1..Len(q) => h.next[q[n]] = q[n + 1]
  BY <1>3 DEF Leads, ItemOr
<1>12. /\ k \in Heaps /\ k.fault = h.fault /\ IsRow(k, i, r)
       /\ Len(k.list) = Len(h.list) /\ k.list[i].id = h.list[i].id
       /\ \A j \in DOMAIN h.list : j # i => k.list[j] = h.list[j]
       /\ \A d \in Conns \ {c} : ~In(d, q) => k.next[d] = h.next[d]
       /\ k.next[c] = NULL
  <2>0. r \in Seq(Conns) /\ Len(r) = Len(q) - 1
    BY <1>1, <1>2, RemoveGives
  <2>1. CASE m = 1
    <3>1. h.list[i].head = c
      BY <1>1, <1>3, <2>1 DEF Leads, ItemOr
    <3>2. k = PutHead(cut, i, h.next[c])
      BY <1>7, <3>1
    <3> HIDE DEF k
    <3>3. /\ SameBut(cut, k, "list") /\ Len(k.list) = Len(cut.list)
          /\ k.list[i] = [id |-> cut.list[i].id, head |-> h.next[c], sz |-> cut.list[i].sz]
          /\ \A j \in DOMAIN cut.list : j # i => k.list[j] = cut.list[j]
      BY <1>4, <1>9, <3>2, StoreHead
    <3>4. k \in Heaps /\ k.next = alone.next /\ k.fault = h.fault
      BY <1>9, <3>3 DEF SameBut
    <3>5. \A n \in 1..Len(q) : n # m => k.next[q[n]] = IF n = m - 1 THEN h.next[q[m]] ELSE h.next[q[n]]
      BY <1>5, <1>10, <2>1, <3>4
    <3>6. h.next[c] = IF m = 1 THEN h.next[q[1]] ELSE h.list[i].head
      BY <1>1, <2>1
    <3>7. Leads(r, h.next[c], k.next, Conns, NULL)
      <4> DEFINE to == h.next[c]
      <4>1. to = IF m = 1 THEN h.next[q[1]] ELSE h.list[i].head
        BY <3>6
      <4> DEFINE g == k.next
                 f == h.next
                 hd == h.list[i].head
      <4>2. /\ Leads(q, hd, f, Conns, NULL) /\ m \in 1..Len(q)
            /\ to = IF m = 1 THEN f[q[1]] ELSE hd
            /\ \A n \in 1..Len(q) : n # m => g[q[n]] = IF n = m - 1 THEN f[q[m]] ELSE f[q[n]]
        BY <1>1, <1>3, <3>5, <4>1
      <4> HIDE DEF q, to, f, g, hd
      <4>3. Leads(r, to, g, Conns, NULL)
        BY <4>2, LeadsRemove
      <4> QED BY <4>3 DEF to, g
    <3>8. IsRow(k, i, r)
      <4> HIDE DEF r
      <4> QED BY <1>8, <2>0, <3>3, <3>7 DEF IsRow
    <3> HIDE DEF r
    <3> QED BY <1>5, <1>8, <1>9, <3>3, <3>4, <3>8
  <2>2. CASE m # 1
    <3>1. m - 1 \in 1..Len(q) /\ (m - 1) + 1 = m /\ 1 \in 1..Len(q) /\ m - 2 \in Nat
          /\ (m - 2) + 1 = m - 1 /\ m - 2 \in 0..Cardinality(Conns)
      BY <1>1, <1>2, <2>2, ConnsFinite
    <3>2. h.list[i].head # c
      BY <1>3, <1>10, <2>2, <3>1 DEF Leads, ItemOr
    <3>3. at = {m - 2} /\ Walk(h, h.list[i].head, m - 2) = q[m - 1]
      <4>1. \A n \in Nat : Walk(h, h.list[i].head, n) = ItemOr(q, n + 1, NULL)
        BY <1>3, WalkIs
      <4>2. ASSUME NEW n \in 0..Cardinality(Conns)
            PROVE  n \in at <=> n + 1 = m - 1
        <5>1. n \in Nat /\ (n \in at <=> ItemOr(q, n + 1, NULL) # NULL
                                          /\ h.next[ItemOr(q, n + 1, NULL)] = c)
          <6> DEFINE d == Walk(h, h.list[i].head, n)
          <6>1. n \in Nat /\ d = ItemOr(q, n + 1, NULL)
            BY <4>1, ConnsFinite
          <6>2. n \in at <=> d # NULL /\ h.next[d] = c
            OBVIOUS
          <6> HIDE DEF d, at
          <6> QED BY <6>1, <6>2
        <5>2. CASE n + 1 \notin 1..Len(q)
          BY <3>1, <5>1, <5>2 DEF ItemOr
        <5>3. CASE n + 1 \in 1..Len(q)
          <6>1. n \in at <=> h.next[q[n + 1]] = c
            BY <1>10, <5>1, <5>3 DEF ItemOr
          <6>2. h.next[q[n + 1]] = ItemOr(q, (n + 1) + 1, NULL)
            BY <1>3, <5>3 DEF Leads
          <6>3. ItemOr(q, (n + 1) + 1, NULL) = c <=> (n + 1) + 1 = m
            BY <1>1, <1>10, PointerAssumption DEF ItemOr
          <6> QED BY <1>1, <5>1, <6>1, <6>2, <6>3
        <5> QED BY <5>2, <5>3
      <4>3. at \subseteq 0..Cardinality(Conns)
        OBVIOUS
      <4> HIDE DEF at
      <4>4. at = {m - 2}
        <5>1. m - 2 \in at
          BY <3>1, <4>2
        <5>2. \A n \in at : n = m - 2
          <6>1. ASSUME NEW n \in at PROVE n = m - 2
            <7>1. n \in 0..Cardinality(Conns) /\ n + 1 = m - 1
              BY <4>2, <4>3
            <7> QED BY <3>1, <7>1, ConnsFinite
          <6> QED BY <6>1
        <5> QED BY <5>1, <5>2
      <4>5. Walk(h, h.list[i].head, m - 2) = q[m - 1]
        BY <3>1, <4>1 DEF ItemOr
      <4> QED BY <4>4, <4>5
    <3>4. pre = q[m - 1]
      <4> HIDE DEF at
      <4>1. (CHOOSE n \in at : \A l \in at : n <= l) = m - 2
        BY <3>1, <3>3
      <4> QED BY <3>3, <4>1
    <3> HIDE DEF at, pre
    <3>5. pre \in Conns /\ pre # c
      BY <1>10, <2>2, <3>1, <3>4
    <3>6. k = PutNext(cut, pre, h.next[c])
      BY <1>7, <3>2, <3>3, <3>5
    <3> HIDE DEF k
    <3>7. /\ SameBut(cut, k, "next") /\ k.next[pre] = h.next[c]
          /\ \A d \in Conns : d # pre => k.next[d] = cut.next[d]
      BY <1>4, <1>9, <3>5, <3>6, StoreNext
    <3>8. k \in Heaps /\ k.list = cut.list /\ k.fault = h.fault
      BY <1>9, <3>7 DEF SameBut
    <3>9. \A n \in 1..Len(q) : n # m => k.next[q[n]] = IF n = m - 1 THEN h.next[q[m]] ELSE h.next[q[n]]
      <4>1. ASSUME NEW n \in 1..Len(q), n # m
            PROVE  k.next[q[n]] = IF n = m - 1 THEN h.next[q[m]] ELSE h.next[q[n]]
        <5>1. CASE n = m - 1
          BY <1>1, <3>4, <3>7, <5>1
        <5>2. CASE n # m - 1
          <6>1. q[n] # pre /\ q[n] # c /\ q[n] \in Conns
            BY <1>2, <1>10, <3>1, <3>4, <4>1, <5>2 DEF Distinct
          <6> QED BY <1>5, <1>9, <3>7, <5>2, <6>1
        <5> QED BY <5>1, <5>2
      <4> QED BY <4>1
    <3>10. h.list[i].head = IF m = 1 THEN h.next[q[1]] ELSE h.list[i].head
      BY <2>2
    <3>11. Leads(r, h.list[i].head, k.next, Conns, NULL)
      <4> HIDE DEF q
      <4> QED BY <1>1, <1>3, <3>9, <3>10, LeadsRemove
    <3>12. IsRow(k, i, r)
      <4> HIDE DEF r
      <4> QED BY <1>8, <2>0, <3>8, <3>11 DEF IsRow
    <3>13. ASSUME NEW d \in Conns \ {c}, ~In(d, q) PROVE k.next[d] = h.next[d]
      <4>1. d # pre
        BY <3>1, <3>4, <3>13 DEF In
      <4> QED BY <1>5, <1>9, <3>7, <4>1
    <3>14. k.next[c] = NULL
      BY <1>5, <1>9, <3>5, <3>7
    <3> HIDE DEF r
    <3> QED BY <1>8, <3>8, <3>12, <3>13, <3>14
  <2> QED BY <2>1, <2>2
<1> HIDE DEF k
<1>13. \A x : In(x, r) <=> In(x, q) /\ x # c
  BY <1>1, <1>2, RemoveHas
<1>14. In(c, q)
  BY <1>1 DEF In
<1>15. Lists(k, [Q EXCEPT ![i] = r])
  <2>1. \A j \in 1..Len(Q) : j # i => k.list[j] = h.list[j] /\ ~In(c, Q[j])
    BY <1>4, <1>12, <1>14 DEF Lists
  <2>2. \A j \in 1..Len(Q) : h.list[j].id = h.list[i].id => i <= j
    <3>1. Q[i] # <<>>
      BY <1>1
    <3> QED BY <3>1, FoundRow
  <2>3. \A j \in 1..Len(Q) : k.list[j].id = h.list[j].id
    BY <1>4, <1>12
  <2> HIDE DEF r
  <2> QED BY <1>12, <1>13, <2>1, <2>2, <2>3, RowChanges
<1>16. \A j \in 1..Len(Q) : k.list[j].id = h.list[j].id
  BY <1>4, <1>12
<1> QED BY <1>12, <1>15, <1>16 DEF k

\* A session goes with its one member.
LEMMA RowGoes ==
    ASSUME NEW h \in Heaps, NEW Q, Lists(h, Q), NEW i \in 1..Len(Q),
           NEW c \in Conns, Q[i] = <<c>>,
           NEW k, k.list = Without(h.list, i), k.next = h.next
    PROVE  Lists(k, Without(Q, i))
<1> DEFINE R == Without(Q, i)
           n == Len(Q)
           At(j) == IF j < i THEN j ELSE j + 1
<1>1. n \in Nat /\ Q \in Seq(Seq(Conns)) /\ h.list \in Seq(SessionRecords) /\ n = Len(h.list)
  BY HeapParts DEF Lists
<1>2. /\ R \in Seq(Seq(Conns)) /\ Len(R) = n - 1
      /\ \A j \in 1..Len(R) : R[j] = IF j < i THEN Q[j] ELSE Q[j + 1]
  BY <1>1, RemoveGives
<1>3. /\ Len(k.list) = n - 1
      /\ \A j \in 1..Len(k.list) : k.list[j] = IF j < i THEN h.list[j] ELSE h.list[j + 1]
  <2> DEFINE l == h.list
  <2>1. l \in Seq(SessionRecords) /\ i \in 1..Len(l) /\ n = Len(l)
    BY <1>1
  <2> HIDE DEF l
  <2>2. LET r == Without(l, i) IN
        /\ Len(r) = Len(l) - 1
        /\ \A j \in 1..Len(r) : r[j] = IF j < i THEN l[j] ELSE l[j + 1]
    BY <2>1, RemoveGives
  <2> QED BY <2>1, <2>2 DEF l
<1> HIDE DEF R, n
<1>4. \A j \in 1..Len(R) : /\ At(j) \in 1..n /\ At(j) # i
                           /\ R[j] = Q[At(j)] /\ k.list[j] = h.list[At(j)]
  BY SMTT(30), <1>1, <1>2, <1>3 DEF n
<1>5. \A j, l \in 1..Len(R) : (At(j) = At(l) => j = l) /\ (j < l => At(j) < At(l))
  BY <1>1, <1>2 DEF n
<1>6. \A l \in 1..n : l # i => \E j \in 1..Len(R) : At(j) = l
  <2>1. ASSUME NEW l \in 1..n, l # i PROVE \E j \in 1..Len(R) : At(j) = l
    <3>1. CASE l < i
      <4>1. l \in 1..Len(R) /\ At(l) = l
        BY <1>1, <1>2, <3>1 DEF n
      <4> QED BY <4>1
    <3>2. CASE ~(l < i)
      <4>1. l - 1 \in 1..Len(R) /\ At(l - 1) = l
        BY <1>1, <1>2, <2>1, <3>2 DEF n
      <4> QED BY <4>1
    <3> QED BY <3>1, <3>2
  <2> QED BY <2>1
<1> HIDE DEF At
<1>7. ASSUME NEW j \in 1..Len(R) PROVE IsRow(k, j, R[j])
  <2>1. IsRow(h, At(j), Q[At(j)])
    BY <1>4 DEF Lists, n
  <2> QED BY <1>4, <2>1 DEF IsRow
<1>8. \A j, l \in 1..Len(R), d \in Conns : In(d, R[j]) /\ In(d, R[l]) => j = l
  <2>1. ASSUME NEW j \in 1..Len(R), NEW l \in 1..Len(R), NEW d \in Conns,
               In(d, R[j]), In(d, R[l])
        PROVE  j = l
    <3>1. At(j) = At(l)
      BY <1>4, <2>1 DEF Lists, n
    <3> QED BY <1>5, <3>1
  <2> QED BY <2>1
<1>9. \A j, l \in 1..Len(R) : j < l /\ k.list[j].id = k.list[l].id => R[l] = <<>>
  <2>1. ASSUME NEW j \in 1..Len(R), NEW l \in 1..Len(R), j < l, k.list[j].id = k.list[l].id
        PROVE  R[l] = <<>>
    <3>1. At(j) < At(l) /\ h.list[At(j)].id = h.list[At(l)].id
      BY <1>4, <1>5, <2>1
    <3>2. Q[At(l)] = <<>>
      BY <1>4, <3>1 DEF Lists, n
    <3> QED BY <1>4, <3>2
  <2> QED BY <2>1
<1>10. ASSUME NEW d \in Conns, \A j \in 1..Len(R) : ~In(d, R[j]) PROVE k.next[d] = NULL
  <2>1. \A l \in 1..n : l # i => ~In(d, Q[l])
    BY <1>4, <1>6, <1>10
  <2>2. CASE d = c
    <3>1. Leads(<<c>>, h.list[i].head, h.next, Conns, NULL)
      BY DEF Lists, IsRow
    <3>2. h.next[c] = ItemOr(<<c>>, 2, NULL)
      <4> DEFINE q == <<c>>
      <4>1. Len(q) = 1 /\ q[1] = c
        OBVIOUS
      <4>2. h.next[q[1]] = ItemOr(q, 1 + 1, NULL)
        <5>1. 1 \in 1..Len(q)
          BY <4>1
        <5> HIDE DEF q
        <5> QED BY <3>1, <5>1 DEF Leads, q
      <4> QED BY <4>1, <4>2
    <3>3. ItemOr(<<c>>, 2, NULL) = NULL
      BY DEF ItemOr
    <3> QED BY <2>2, <3>2, <3>3
  <2>3. CASE d # c
    <3>1. ~In(d, Q[i])
      BY <2>3 DEF In
    <3>2. \A l \in 1..n : ~In(d, Q[l])
      BY <2>1, <3>1
    <3> QED BY <3>2 DEF Lists, n
  <2> QED BY <2>2, <2>3
<1> QED BY <1>1, <1>2, <1>3, <1>7, <1>8, <1>9, <1>10 DEF Lists, R

\* A client that is in one session leaves it.  The session stays if there are
\* others; and if the client is freed already the process ends.
LEMMA LeaveSessLists ==
    ASSUME NEW h \in Heaps, NEW c \in Conns, NEW Q, Lists(h, Q), NEW i \in 1..Len(Q),
           In(c, Q[i]), h.joined[c] = <<h.list[i].id>>
    PROVE  LET k == LeaveSess(h, c) IN
           /\ k.joined[c] = <<>>
           /\ \/ k.fault = "abort" /\ k.list = h.list /\ Lists(k, Q)
              \/ /\ k.fault = h.fault /\ Q[i] = <<c>>
                 /\ k.list = Without(h.list, i) /\ Lists(k, Without(Q, i))
              \/ /\ k.fault = h.fault /\ Len(k.list) = Len(h.list)
                 /\ \E m \in 1..Len(Q[i]) :
                       Q[i][m] = c /\ Lists(k, [Q EXCEPT ![i] = Without(@, m)])
                 /\ \A j \in 1..Len(Q) : k.list[j].id = h.list[j].id
<1> DEFINE id == h.list[i].id
           popped == [h EXCEPT !.joined[c] = SubSeq(@, 1, Len(h.joined[c]) - 1)]
           k == LeaveSess(h, c)
           q == Q[i]
<1>1. /\ id \in SessIds /\ id # NoName /\ h.joined[c] = <<id>> /\ Len(h.joined[c]) = 1
      /\ h.joined[c][1] = id /\ SubSeq(h.joined[c], 1, 0) = <<>>
  <2>1. h.list[i] \in SessionRecords
    BY ListsParts
  <2> QED BY <2>1, NamesAssumption DEF SessionRecords
<1>2. IsRow(h, i, q) /\ In(c, q)
  BY DEF Lists
<1>3. /\ q \in Seq(Conns) /\ Distinct(q) /\ Len(q) \in Nat /\ h.list[i].sz = Len(q)
      /\ Leads(q, h.list[i].head, h.next, Conns, NULL)
  <2> HIDE DEF q
  <2>1. Leads(q, h.list[i].head, h.next, Conns, NULL)
    BY <1>2 DEF IsRow
  <2> QED BY <1>2, <2>1, RowMeans
<1>4. FindSession(h, id) = i /\ i # 0
  <2>1. Q[i] # <<>>
    BY <1>2 DEF In
  <2> QED BY <2>1, FoundRow
<1>5. popped = PutJoined(h, c, <<>>)
  BY <1>1 DEF PutJoined
<1>6. /\ SameBut(h, popped, "joined") /\ popped.joined[c] = <<>>
  <2> HIDE DEF popped
  <2>1. <<>> \in Seq(SessIds \cup {NoName})
    OBVIOUS
  <2> QED BY <1>5, <2>1, StoreJoined
<1>7. /\ popped \in Heaps /\ popped.list = h.list /\ popped.next = h.next
      /\ popped.fault = h.fault /\ popped.freed = h.freed
  BY <1>6 DEF SameBut
<1>8. k = IF h.list[i].head = c /\ h.next[c] = NULL
          THEN DestroySession(popped, c, i) ELSE Unlink(popped, c, i)
  BY <1>1, <1>4 DEF LeaveSess
<1> HIDE DEF popped, k, id
<1>9. Lists(popped, Q) /\ i \in DOMAIN popped.list
  BY <1>7, ListsSame, ListsParts
<1>10. CASE h.list[i].head = c /\ h.next[c] = NULL
  <2>1. q = <<c>> /\ Len(q) = 1
    <3>1. 1 \in 1..Len(q) /\ q[1] = c /\ Len(q) >= 1
      <4>1. 1 \in 1..Len(q)
        BY <1>2, <1>3 DEF In
      <4> QED BY <1>3, <1>10, <4>1 DEF Leads, ItemOr
    <3>2. h.next[q[1]] = ItemOr(q, 1 + 1, NULL)
      BY <1>3, <3>1 DEF Leads
    <3>3. ~(2 \in 1..Len(q))
      <4>1. 2 \in 1..Len(q) => q[2] # NULL
        BY <1>3, PointerAssumption
      <4> QED BY <1>10, <3>1, <3>2, <4>1 DEF ItemOr
    <3> HIDE DEF q
    <3>4. Len(q) = 1
      <4> DEFINE n == Len(q)
      <4>1. n \in Nat /\ n >= 1 /\ ~(2 <= n)
        BY <1>3, <3>1, <3>3
      <4> HIDE DEF n
      <4>2. n = 1
        BY <4>1
      <4> QED BY <4>2 DEF n
    <3> QED BY <1>3, <3>1, <3>4
  <2>2. /\ popped.list[i].sz = 1 /\ ~CheckClient(popped, c, NoName)
        /\ k = DestroySession(popped, c, i)
    BY <1>3, <1>6, <1>7, <1>8, <1>10, <2>1 DEF CheckClient
  <2>3. CASE c \in popped.freed
    <3>1. k = [popped EXCEPT !.fault = "abort"]
      BY <2>2, <2>3 DEF DestroySession
    <3>2. k.fault = "abort" /\ k.list = h.list /\ k.next = h.next /\ k.joined = popped.joined
      BY <1>7, <3>1 DEF Heaps
    <3>3. Lists(k, Q)
      BY <3>2, ListsSame
    <3> QED BY <1>6, <3>2, <3>3 DEF k
  <2>4. CASE c \notin popped.freed
    <3>1. k = [[popped EXCEPT !.list = Without(popped.list, i)]
                  EXCEPT !.freed = @ \cup {c}, !.clientID[c] = NoName,
                         !.joined[c] = [n \in DOMAIN @ |-> NoName]]
      BY <2>2, <2>4 DEF DestroySession, Without
    <3>2. /\ k.fault = h.fault /\ k.list = Without(h.list, i) /\ k.next = h.next
          /\ k.joined[c] = [n \in DOMAIN popped.joined[c] |-> NoName]
      BY <1>7, <3>1, HeapParts DEF Heaps
    <3>3. k.joined[c] = <<>>
      BY <1>6, <3>2
    <3>4. Lists(k, Without(Q, i))
      BY <2>1, <3>2, RowGoes
    <3> QED BY <2>1, <3>2, <3>3, <3>4 DEF k
  <2> QED BY <2>3, <2>4
<1>11. CASE ~(h.list[i].head = c /\ h.next[c] = NULL)
  <2>1. k = Unlink(popped, c, i)
    BY <1>8, <1>11
  <2>2. k.joined = popped.joined
    BY <1>7, <1>9, <2>1, UnlinkKeeps
  <2>3. PICK m \in 1..Len(q) : q[m] = c
    BY <1>2 DEF In
  <2>4. /\ Lists(k, [Q EXCEPT ![i] = Without(@, m)])
        /\ k.fault = h.fault /\ Len(k.list) = Len(h.list)
        /\ \A j \in 1..Len(Q) : k.list[j].id = h.list[j].id
    BY <1>7, <1>9, <2>1, <2>3, UnlinkLists
  <2> QED BY <1>6, <2>2, <2>3, <2>4 DEF k
<1> QED BY <1>10, <1>11

-----------------------------------------------------------------------------
(***************************************************************************)
(* The same lists with each client at home in them.                        *)
(***************************************************************************)
Listed(h) == \E Q : Lists(h, Q)
Housed(h) == \E Q : Lists(h, Q) /\ Homes(h, Q)
OpenIn(h) == {h.list[i].id : i \in DOMAIN h.list}

LEMMA EmptyHeapHoused == Housed(EmptyHeap)
<1> DEFINE Q == <<>>
<1>1. EmptyHeap.list = <<>> /\ \A c \in Conns : EmptyHeap.next[c] = NULL /\ EmptyHeap.joined[c] = <<>>
  BY DEF EmptyHeap
<1>2. Q \in Seq(Seq(Conns)) /\ Len(Q) = 0 /\ Len(EmptyHeap.list) = 0 /\ 1..Len(Q) = {}
  BY <1>1
<1>3. Lists(EmptyHeap, Q) /\ Homes(EmptyHeap, Q)
  BY <1>1, <1>2 DEF Lists, Homes
<1> QED BY <1>3 DEF Housed

LEMMA HousedSame ==
    ASSUME NEW h, NEW k, k.list = h.list, k.next = h.next
    PROVE  /\ OpenIn(k) = OpenIn(h) /\ (Listed(h) => Listed(k))
           /\ k.joined = h.joined /\ Housed(h) => Housed(k)
<1>1. ASSUME NEW Q, Lists(h, Q) PROVE Lists(k, Q)
  BY <1>1, ListsSame
<1>2. ASSUME NEW Q, Homes(h, Q), k.joined = h.joined PROVE Homes(k, Q)
  BY <1>2 DEF Homes
<1> QED BY <1>1, <1>2 DEF OpenIn, Listed, Housed

LEMMA OpenRows ==
    ASSUME NEW h \in Heaps, NEW Q, Lists(h, Q)
    PROVE  OpenIn(h) = {h.list[i].id : i \in 1..Len(Q)}
BY ListsParts DEF OpenIn

LEMMA CreateSessHouses ==
    ASSUME NEW h \in Heaps, NEW id \in SessIds, Housed(h)
    PROVE  LET k == CreateSess(h, id) IN
           Housed(k) /\ OpenIn(k) = OpenIn(h) \cup {id}
<1> DEFINE k == CreateSess(h, id)
<1>1. PICK Q : Lists(h, Q) /\ Homes(h, Q)
  BY DEF Housed
<1> DEFINE R == Append(Q, <<>>)
           n == Len(Q)
<1>2. /\ Lists(k, R) /\ Len(k.list) = n + 1 /\ k.list[n + 1].id = id
      /\ \A i \in 1..n : k.list[i] = h.list[i]
  BY <1>1, CreateSessLists
<1>3. k \in Heaps /\ k.joined = h.joined
  BY CreateSessKeeps
<1>4. /\ n \in Nat /\ Len(R) = n + 1 /\ R[n + 1] = <<>>
      /\ \A i \in 1..n : R[i] = Q[i]
      /\ \A i \in 1..Len(R) : i \in 1..n \/ i = n + 1
      /\ \A i \in 1..n : i \in 1..Len(R)
      /\ n + 1 \in 1..Len(R)
  BY <1>1 DEF Lists
<1> HIDE DEF k, R, n
<1>5. ASSUME NEW c \in Conns
      PROVE  \/ k.joined[c] = <<>> /\ \A i \in 1..Len(R) : ~In(c, R[i])
             \/ \E i \in 1..Len(R) : In(c, R[i]) /\ k.joined[c] = <<k.list[i].id>>
  <2>1. CASE h.joined[c] = <<>> /\ \A i \in 1..n : ~In(c, Q[i])
    BY <1>3, <1>4, <2>1, NothingIn
  <2>2. CASE \E i \in 1..n : In(c, Q[i]) /\ h.joined[c] = <<h.list[i].id>>
    BY <1>2, <1>3, <1>4, <2>2
  <2> QED BY <1>1, <2>1, <2>2 DEF Homes, n
<1>6. OpenIn(k) = OpenIn(h) \cup {id}
  <2>1. OpenIn(h) = {h.list[i].id : i \in 1..n} /\ OpenIn(k) = {k.list[i].id : i \in 1..Len(R)}
    BY <1>1, <1>2, <1>3, OpenRows DEF n
  <2> QED BY <1>2, <1>4, <2>1
<1> QED BY <1>2, <1>5, <1>6 DEF Housed, Homes, k

\* A client that is in no session enters one, if there is one of that name.
LEMMA JoinSessHouses ==
    ASSUME NEW h \in Heaps, NEW c \in Conns, NEW id \in SessIds, Housed(h),
           h.joined[c] = <<>>
    PROVE  LET k == JoinSess(h, c, id) IN
           /\ k.fault = h.fault /\ Housed(k) /\ OpenIn(k) = OpenIn(h)
           /\ \/ k = h
              \/ id \in OpenIn(h) /\ k.joined = [h.joined EXCEPT ![c] = <<id>>]
<1> DEFINE k == JoinSess(h, c, id)
           i == FindSession(h, id)
<1>1. PICK Q : Lists(h, Q) /\ Homes(h, Q)
  BY DEF Housed
<1> DEFINE R == [Q EXCEPT ![i] = Append(@, c)]
           n == Len(Q)
<1>2. \A j \in 1..n : ~In(c, Q[j])
  <2>1. \A s : <<s>> # <<>>
    OBVIOUS
  <2> QED BY <1>1, <2>1 DEF Homes
<1>3. \/ i = 0 /\ k = h
      \/ /\ i \in 1..n /\ h.list[i].id = id /\ Lists(k, R)
         /\ k.fault = h.fault /\ Len(k.list) = Len(h.list)
         /\ \A j \in 1..n : k.list[j].id = h.list[j].id
  <2>1. Lists(h, Q) /\ \A j \in 1..Len(Q) : ~In(c, Q[j])
    BY <1>1, <1>2
  <2> QED BY <2>1, JoinSessLists
<1>4. /\ k \in Heaps
      /\ k.joined = IF i = 0 THEN h.joined ELSE [h.joined EXCEPT ![c] = Append(@, id)]
  BY JoinSessKeeps
<1>5. CASE i = 0
  <2>1. k = h
    BY <1>3, <1>5, <1>1, ListsParts
  <2> QED BY <2>1
<1>6. ASSUME i # 0
      PROVE  /\ k.fault = h.fault /\ Housed(k) /\ OpenIn(k) = OpenIn(h)
             /\ id \in OpenIn(h) /\ k.joined = [h.joined EXCEPT ![c] = <<id>>]
  <2>1. /\ n \in Nat /\ Len(R) = n /\ 1..Len(R) = 1..n
        /\ \A j \in 1..n : j # i => R[j] = Q[j]
        /\ i \in 1..n => \A x : In(x, R[i]) <=> In(x, Q[i]) \/ x = c
    <3>1. n \in Nat /\ Q \in Seq(Seq(Conns)) /\ DOMAIN Q = 1..n
      BY <1>1 DEF Lists
    <3>2. Len(R) = n /\ \A j \in 1..n : R[j] = IF j = i THEN Append(Q[i], c) ELSE Q[j]
      BY <3>1
    <3>3. ASSUME i \in 1..n PROVE \A x : In(x, R[i]) <=> In(x, Q[i]) \/ x = c
      <4> DEFINE q == Q[i]
      <4>1. q \in Seq(Conns) /\ R[i] = Append(q, c)
        BY <3>1, <3>2, <3>3
      <4> HIDE DEF q, R
      <4>2. \A x : In(x, Append(q, c)) <=> In(x, q) \/ x = c
        BY <4>1, AppendGives
      <4> QED BY <4>1, <4>2 DEF q
    <3> QED BY <3>1, <3>2, <3>3
  <2> DEFINE to == [h.joined EXCEPT ![c] = <<id>>]
  <2>2. k.joined = to /\ to[c] = <<id>> /\ \A d \in Conns \ {c} : to[d] = h.joined[d]
    <3>1. h.joined \in [Conns -> Seq(SessIds \cup {NoName})] /\ Append(<<>>, id) = <<id>>
      BY HeapParts
    <3> QED BY <1>4, <1>6, <3>1
  <2> HIDE DEF k, i, n, R, to
  <2>3. /\ i \in 1..n /\ h.list[i].id = id /\ Lists(k, R) /\ k.fault = h.fault
        /\ \A j \in 1..n : k.list[j].id = h.list[j].id
    BY <1>3, <1>6
  <2>4. ASSUME NEW d \in Conns
        PROVE  \/ k.joined[d] = <<>> /\ \A j \in 1..Len(R) : ~In(d, R[j])
               \/ \E j \in 1..Len(R) : In(d, R[j]) /\ k.joined[d] = <<k.list[j].id>>
    <3>1. CASE d = c
      BY <2>1, <2>2, <2>3, <3>1
    <3>2. CASE d # c /\ h.joined[d] = <<>> /\ \A j \in 1..n : ~In(d, Q[j])
      BY <2>1, <2>2, <2>3, <3>2
    <3>3. CASE d # c /\ \E j \in 1..n : In(d, Q[j]) /\ h.joined[d] = <<h.list[j].id>>
      BY <2>1, <2>2, <2>3, <3>3
    <3> QED BY <1>1, <3>1, <3>2, <3>3 DEF Homes, n
  <2>5. /\ OpenIn(h) = {h.list[j].id : j \in 1..n}
        /\ OpenIn(k) = {k.list[j].id : j \in 1..n}
    BY <1>1, <1>4, <2>1, <2>3, OpenRows DEF n
  <2>6. OpenIn(k) = OpenIn(h) /\ id \in OpenIn(h)
    BY <2>3, <2>5
  <2>7. Housed(k)
    BY <2>3, <2>4 DEF Housed, Homes
  <2> QED BY <2>2, <2>3, <2>6, <2>7 DEF to
<1> QED BY <1>5, <1>6

\* A client leaves the session it is in.  If the name is gone with it, nobody
\* else was in a session of that name.
LEMMA LeaveSessHouses ==
    ASSUME NEW h \in Heaps, NEW c \in Conns, Housed(h), NEW s, h.joined[c] = <<s>>
    PROVE  LET k == LeaveSess(h, c) IN
           /\ k.joined[c] = <<>> /\ \A d \in Conns \ {c} : k.joined[d] = h.joined[d]
           /\ Listed(k)
           /\ \/ k.fault = "abort"
              \/ k.fault = h.fault /\ Housed(k)
           /\ \/ OpenIn(k) = OpenIn(h)
              \/ OpenIn(k) = OpenIn(h) \ {s} /\ \A d \in Conns \ {c} : h.joined[d] # <<s>>
<1> DEFINE k == LeaveSess(h, c)
<1>1. PICK Q : Lists(h, Q) /\ Homes(h, Q)
  BY DEF Housed
<1> DEFINE n == Len(Q)
<1>2. PICK i \in 1..n : In(c, Q[i]) /\ h.joined[c] = <<h.list[i].id>>
  <2>1. <<s>> # <<>>
    OBVIOUS
  <2> QED BY <1>1, <2>1 DEF Homes
<1>3. s = h.list[i].id
  <2>1. \A x, y : <<x>> = <<y>> => x = y
    OBVIOUS
  <2> QED BY <1>2, <2>1
<1>4. /\ k.joined[c] = <<>>
      /\ \/ k.fault = "abort" /\ k.list = h.list /\ Lists(k, Q)
         \/ /\ k.fault = h.fault /\ Q[i] = <<c>>
            /\ k.list = Without(h.list, i) /\ Lists(k, Without(Q, i))
         \/ /\ k.fault = h.fault /\ Len(k.list) = Len(h.list)
            /\ \E m \in 1..Len(Q[i]) :
                  Q[i][m] = c /\ Lists(k, [Q EXCEPT ![i] = Without(@, m)])
            /\ \A j \in 1..Len(Q) : k.list[j].id = h.list[j].id
  <2>1. Lists(h, Q) /\ i \in 1..Len(Q) /\ In(c, Q[i]) /\ h.joined[c] = <<h.list[i].id>>
    BY <1>1, <1>2
  <2> QED BY <2>1, LeaveSessLists
<1>5. k \in Heaps /\ \A d \in Conns \ {c} : k.joined[d] = h.joined[d]
  BY LeaveSessKeeps
<1>6. /\ n \in Nat /\ Q \in Seq(Seq(Conns)) /\ DOMAIN Q = 1..n
      /\ h.list \in Seq(SessionRecords) /\ Len(h.list) = n
      /\ OpenIn(h) = {h.list[j].id : j \in 1..n}
      /\ \A j \in 1..n : Q[j] \in Seq(Conns) /\ Distinct(Q[j])
  <2>1. \A j \in 1..n : IsRow(h, j, Q[j])
    BY <1>1 DEF Lists
  <2>2. \A j \in 1..n : Q[j] \in Seq(Conns) /\ Distinct(Q[j])
    BY <2>1 DEF IsRow, Leads
  <2>3. OpenIn(h) = {h.list[j].id : j \in 1..n}
    BY <1>1, OpenRows
  <2> QED BY <1>1, <2>2, <2>3, HeapParts DEF Lists
<1>7. \A j \in 1..n : In(c, Q[j]) => j = i
  BY <1>1, <1>2 DEF Lists
\* Another one of the name s is on row i with c.
<1>8. \A d \in Conns \ {c} : \/ h.joined[d] = <<>> /\ \A j \in 1..n : ~In(d, Q[j])
                             \/ \E j \in 1..n : In(d, Q[j]) /\ h.joined[d] = <<h.list[j].id>>
  BY <1>1 DEF Homes
<1> HIDE DEF k
<1>9. CASE k.fault = "abort" /\ k.list = h.list /\ Lists(k, Q)
  <2>1. OpenIn(k) = OpenIn(h)
    BY <1>9 DEF OpenIn
  <2> QED BY <1>4, <1>5, <1>9, <2>1 DEF Listed, k
<1>10. CASE /\ k.fault = h.fault /\ Q[i] = <<c>>
            /\ k.list = Without(h.list, i) /\ Lists(k, Without(Q, i))
  <2> DEFINE R == Without(Q, i)
             At(j) == IF j < i THEN j ELSE j + 1
  <2>1. /\ Len(R) = n - 1 /\ \A j \in 1..Len(R) : R[j] = IF j < i THEN Q[j] ELSE Q[j + 1]
        /\ \A j \in 1..Len(R) : k.list[j] = IF j < i THEN h.list[j] ELSE h.list[j + 1]
    <3>1. Len(R) = n - 1 /\ \A j \in 1..Len(R) : R[j] = IF j < i THEN Q[j] ELSE Q[j + 1]
      BY <1>6, RemoveGives
    <3> DEFINE l == h.list
    <3>2. l \in Seq(SessionRecords) /\ i \in 1..Len(l) /\ n = Len(l) /\ k.list = Without(l, i)
      BY <1>6, <1>10
    <3> HIDE DEF l, n
    <3>3. LET r == Without(l, i) IN
          /\ Len(r) = Len(l) - 1
          /\ \A j \in 1..Len(r) : r[j] = IF j < i THEN l[j] ELSE l[j + 1]
      BY <3>2, RemoveGives
    <3> QED BY <3>1, <3>2, <3>3 DEF l, n
  <2> HIDE DEF R, n
  <2>2. \A j \in 1..Len(R) : /\ At(j) \in 1..n /\ At(j) # i
                             /\ R[j] = Q[At(j)] /\ k.list[j] = h.list[At(j)]
    BY <1>6, <2>1
  <2>3. \A l \in 1..n : l # i => \E j \in 1..Len(R) : At(j) = l
    <3>1. ASSUME NEW l \in 1..n, l # i PROVE \E j \in 1..Len(R) : At(j) = l
      <4>1. CASE l < i
        <5>1. l \in 1..Len(R) /\ At(l) = l
          BY <1>6, <2>1, <4>1
        <5> QED BY <5>1
      <4>2. CASE ~(l < i)
        <5>1. l - 1 \in 1..Len(R) /\ At(l - 1) = l
          BY <1>6, <2>1, <3>1, <4>2
        <5> QED BY <5>1
      <4> QED BY <4>1, <4>2
    <3> QED BY <3>1
  <2> HIDE DEF At
  <2>4. ASSUME NEW d \in Conns
        PROVE  \/ k.joined[d] = <<>> /\ \A j \in 1..Len(R) : ~In(d, R[j])
               \/ \E j \in 1..Len(R) : In(d, R[j]) /\ k.joined[d] = <<k.list[j].id>>
    <3>1. CASE d = c
      BY <1>4, <1>7, <2>2, <3>1 DEF k, n
    <3>2. ASSUME d # c, NEW l \in 1..n, In(d, Q[l]), h.joined[d] = <<h.list[l].id>>
          PROVE  \E j \in 1..Len(R) : In(d, R[j]) /\ k.joined[d] = <<k.list[j].id>>
      <4>1. l # i
        BY <1>10, <3>2 DEF In
      <4>2. PICK j \in 1..Len(R) : At(j) = l
        BY <2>3, <4>1
      <4> QED BY <1>5, <2>2, <3>2, <4>2
    <3>3. CASE d # c /\ h.joined[d] = <<>> /\ \A j \in 1..n : ~In(d, Q[j])
      BY <1>5, <2>2, <3>3
    <3> QED BY <1>8, <3>1, <3>2, <3>3
  <2>5. Housed(k)
    BY <1>10, <2>4 DEF Housed, Homes, R
  <2>6. OpenIn(k) = {k.list[j].id : j \in 1..Len(R)}
    BY <1>5, <1>10, OpenRows DEF R
  <2>7. \A x \in OpenIn(k) : x \in OpenIn(h)
    BY <1>6, <2>2, <2>6
  <2>8. \A x \in OpenIn(h) : x \in OpenIn(k) \/ x = s
    <3>1. ASSUME NEW x \in OpenIn(h) PROVE x \in OpenIn(k) \/ x = s
      <4>1. PICK l \in 1..n : x = h.list[l].id
        BY <1>6
      <4>2. CASE l = i
        BY <1>3, <4>1, <4>2
      <4>3. CASE l # i
        <5>1. PICK j \in 1..Len(R) : At(j) = l
          BY <2>3, <4>3
        <5> QED BY <2>2, <2>6, <4>1, <5>1
      <4> QED BY <4>2, <4>3
    <3> QED BY <3>1
  <2>9. \A d \in Conns \ {c} : h.joined[d] # <<s>>
    <3>1. ASSUME NEW d \in Conns \ {c}, h.joined[d] = <<s>> PROVE FALSE
      <4>1. PICK l \in 1..n : In(d, Q[l]) /\ h.joined[d] = <<h.list[l].id>>
        <5>1. <<s>> # <<>>
          OBVIOUS
        <5> QED BY <1>8, <3>1, <5>1
      <4>2. h.list[l].id = s
        <5>1. \A x, y : <<x>> = <<y>> => x = y
          OBVIOUS
        <5> QED BY <3>1, <4>1, <5>1
      <4>3. l = i
        <5>1. /\ Q[l] # <<>> /\ Q[i] # <<>>
          BY <1>2, <4>1 DEF In
        <5>2. FindSession(h, h.list[l].id) = l /\ FindSession(h, h.list[i].id) = i
          BY <1>1, <5>1, FoundRow DEF n
        <5> QED BY <1>3, <4>2, <5>2
      <4> QED BY <1>10, <4>1, <4>3 DEF In
    <3> QED BY <3>1
  <2>10. OpenIn(k) = OpenIn(h) \/ OpenIn(k) = OpenIn(h) \ {s}
    BY <2>7, <2>8
  <2>11. Listed(k)
    BY <2>5 DEF Housed, Listed
  <2> QED BY <1>4, <1>5, <1>10, <2>5, <2>9, <2>10, <2>11 DEF k
<1>11. CASE /\ k.fault = h.fault /\ Len(k.list) = Len(h.list)
            /\ \E m \in 1..Len(Q[i]) :
                  Q[i][m] = c /\ Lists(k, [Q EXCEPT ![i] = Without(@, m)])
            /\ \A j \in 1..Len(Q) : k.list[j].id = h.list[j].id
  <2>1. PICK m \in 1..Len(Q[i]) :
            Q[i][m] = c /\ Lists(k, [Q EXCEPT ![i] = Without(@, m)])
    BY <1>11
  <2> DEFINE R == [Q EXCEPT ![i] = Without(@, m)]
             q == Q[i]
  <2>2. /\ Lists(k, R) /\ Len(R) = n
        /\ \A j \in 1..n : R[j] = IF j = i THEN Without(q, m) ELSE Q[j]
    BY <1>6, <2>1
  <2>3. q \in Seq(Conns) /\ Distinct(q) /\ m \in 1..Len(q) /\ q[m] = c
    BY <1>6, <2>1
  <2> HIDE DEF R, q, n
  <2>4. \A x : In(x, R[i]) <=> In(x, q) /\ x # c
    <3>1. \A x : In(x, Without(q, m)) <=> In(x, q) /\ x # q[m]
      BY <2>3, RemoveHas
    <3> QED BY <2>2, <2>3, <3>1
  <2>5. \A d \in Conns \ {c}, j \in 1..n : In(d, R[j]) <=> In(d, Q[j])
    BY <2>2, <2>4 DEF q
  <2>6. \A j \in 1..n : ~In(c, R[j])
    BY <1>7, <2>2, <2>4 DEF n
  <2>7. ASSUME NEW d \in Conns
        PROVE  \/ k.joined[d] = <<>> /\ \A j \in 1..Len(R) : ~In(d, R[j])
               \/ \E j \in 1..Len(R) : In(d, R[j]) /\ k.joined[d] = <<k.list[j].id>>
    <3>1. CASE d = c
      BY <1>4, <2>2, <2>6, <3>1 DEF k
    <3>2. CASE d # c
      BY <1>5, <1>8, <1>11, <2>2, <2>5, <3>2 DEF n
    <3> QED BY <3>1, <3>2
  <2>8. Housed(k) /\ Listed(k)
    BY <2>2, <2>7 DEF Housed, Listed, Homes
  <2>9. OpenIn(k) = {k.list[j].id : j \in 1..n}
    BY <1>5, <2>2, OpenRows
  <2>10. OpenIn(k) = OpenIn(h)
    BY <1>6, <1>11, <2>9 DEF n
  <2> QED BY <1>4, <1>5, <1>11, <2>8, <2>10 DEF k
<1> QED BY <1>4, <1>9, <1>10, <1>11 DEF k

=============================================================================
