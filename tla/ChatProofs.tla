------------------------------ MODULE ChatProofs ------------------------------
(***************************************************************************)
(* Proofs about Chat for any number of connections, users and sessions:    *)
(* the types, and what isLog means.                                        *)
(***************************************************************************)
EXTENDS Chat, SessionListProofs, FiniteSetTheorems

Packets ==
    [type : {"LOGIN"}, arg : Users \cup {NoName}]
      \cup [type : {"JOIN", "NEW_SESS"}, arg : SessIds]
      \cup [type : {"LEAVE_SESS", "MESSAGE", "QUERY", "EXIT"}, arg : {NoName}]

Links == {"none", "open", "fin", "finrst", "rst"}
Places == Between \cup {"granted", "joining", "created", "leave"}
Outcomes == {"up", "exit", "sigpipe", "segv", "abort", "undefined"}

Worlds ==
    [link : [Conns -> Links], s2c : [Conns -> Seq(ToClient)],
     fate : {"ok", "error", "sigpipe"}]

NetTypes ==
    /\ link \in [Conns -> Links]
    /\ c2s \in [Conns -> Seq(Packets)] /\ s2c \in [Conns -> Seq(ToClient)]

ServerTypes ==
    /\ thr \in [Conns -> Places]
    /\ sessionId \in [Conns -> SessIds \cup {NoName}]
    /\ source \in [Conns -> Users \cup {NoName}]
    /\ fd \in [Conns -> 0..(Cardinality(Conns) + 1)]
    /\ isLog \in [Users -> BOOLEAN]
    /\ heap \in Heaps /\ heap.fault = "none"
    /\ down \in Outcomes
    /\ \A c \in Conns : thr[c] \in {"joining", "created"} => sessionId[c] \in SessIds
    /\ \A c \in Conns : thr[c] = "granted" => heap.clientID[c] \in Users

ClientTypes ==
    /\ ui \in [Conns -> {"off", "login", "on", "out"}]
    /\ insession \in [Conns -> BOOLEAN] /\ awaiting \in [Conns -> BOOLEAN]
    /\ cmds \in [Conns -> 0..MaxCmds]

TypeInv == NetTypes /\ ServerTypes /\ ClientTypes

-----------------------------------------------------------------------------
(***************************************************************************)
(* What the operators of ChatNet and ChatServer do.                        *)
(***************************************************************************)

\* A packet read is the first of the queue, which keeps the others.
LEMMA ReadsMeans ==
    ASSUME NetTypes, NEW c \in Conns, NEW type, Reads(c, type)
    PROVE  /\ thr[c] = "recv" /\ down = "up"
           /\ c2s[c] \in Seq(Packets) /\ c2s[c] # <<>>
           /\ c2s[c][1] \in Packets /\ c2s[c][1].type = type /\ Arg(c) = c2s[c][1].arg
           /\ c2s' \in [Conns -> Seq(Packets)]
           /\ c2s'[c] = Tail(c2s[c]) /\ \A d \in Conns \ {c} : c2s'[d] = c2s[d]
<1>1. c2s \in [Conns -> Seq(Packets)] /\ c2s[c] \in Seq(Packets) /\ c2s[c] # <<>>
  BY DEF Reads, NetTypes
<1>2. Head(c2s[c]) = c2s[c][1] /\ c2s[c][1] \in Packets /\ Tail(c2s[c]) \in Seq(Packets)
  <2> DEFINE q == c2s[c]
  <2>1. q \in Seq(Packets) /\ q # <<>>
    BY <1>1
  <2> HIDE DEF q
  <2>2. Len(q) > 0
    BY <2>1
  <2>3. Head(q) = q[1] /\ q[1] \in Packets /\ Tail(q) \in Seq(Packets)
    BY <2>1, <2>2
  <2> QED BY <2>3 DEF q
<1>3. c2s' = [c2s EXCEPT ![c] = Tail(c2s[c])]
  BY DEF Reads
<1> QED BY <1>1, <1>2, <1>3 DEF Reads, Arg

LEMMA PacketArgs ==
    ASSUME NEW p \in Packets
    PROVE  /\ p.type = "LOGIN" => p.arg \in Users \cup {NoName}
           /\ p.type \in {"JOIN", "NEW_SESS"} => p.arg \in SessIds
           /\ p.type \in ToServer
BY DEF Packets, ToServer

\* One send changes its own connection only: the packet arrives if the client
\* still reads, and a closed connection may be found reset.
LEMMA SendOnMeans ==
    ASSUME NEW w \in Worlds, NEW d \in Conns, NEW m \in ToClient, NEW prompt
    PROVE  LET v == SendOn(w, d, m, prompt) IN
           /\ v \in Worlds
           /\ \A e \in Conns \ {d} : v.link[e] = w.link[e] /\ v.s2c[e] = w.s2c[e]
           /\ \/ v.link[d] = w.link[d]
              \/ w.link[d] \in {"fin", "rst"} /\ v.link[d] = "finrst"
           /\ v.s2c[d] = IF w.fate = "ok" /\ w.link[d] = "open"
                         THEN Append(w.s2c[d], m) ELSE w.s2c[d]
           /\ w.fate = "ok" /\ w.link[d] = "open" => v.fate = "ok"
<1> DEFINE v == SendOn(w, d, m, prompt)
<1>1. /\ w.link \in [Conns -> Links] /\ w.s2c \in [Conns -> Seq(ToClient)]
      /\ w.fate \in {"ok", "error", "sigpipe"} /\ w.link[d] \in Links
  BY DEF Worlds
<1>2. CASE w.fate # "ok"
  BY <1>2 DEF SendOn
<1>3. CASE w.fate = "ok" /\ w.link[d] = "open"
  <2> DEFINE s == [w.s2c EXCEPT ![d] = Append(@, m)]
  <2>1. s \in [Conns -> Seq(ToClient)]
    BY <1>1
  <2>2. s[d] = Append(w.s2c[d], m) /\ \A e \in Conns \ {d} : s[e] = w.s2c[e]
    BY <1>1
  <2>3. v = [w EXCEPT !.s2c = s]
    BY <1>1, <1>3 DEF SendOn, Worlds
  <2> HIDE DEF s, v
  <2>4. v \in Worlds /\ v.link = w.link /\ v.s2c = s /\ v.fate = "ok"
    BY <1>3, <2>1, <2>3 DEF Worlds
  <2> QED BY <1>3, <2>2, <2>4 DEF v
<1>4. CASE w.fate = "ok" /\ w.link[d] # "open"
  <2> DEFINE l == [w.link EXCEPT ![d] = "finrst"]
  <2>1. l \in [Conns -> Links] /\ l[d] = "finrst" /\ \A e \in Conns \ {d} : l[e] = w.link[e]
    BY <1>1 DEF Links
  <2>2. \/ v = w
        \/ w.link[d] \in {"fin", "rst"} /\ v = [w EXCEPT !.link = l]
        \/ w.link[d] \in {"fin", "rst"} /\ v = [w EXCEPT !.link = l, !.fate = "error"]
        \/ v = [w EXCEPT !.fate = "sigpipe"]
    BY <1>1, <1>4 DEF SendOn, Worlds
  <2> HIDE DEF l, v
  <2>3. v \in Worlds
    BY <2>1, <2>2 DEF Worlds
  <2>4. /\ v.s2c = w.s2c
        /\ \/ v.link = w.link
           \/ w.link[d] \in {"fin", "rst"} /\ v.link = l
    BY <2>2 DEF Worlds
  <2> QED BY <1>4, <2>1, <2>3, <2>4 DEF v
<1> QED BY <1>1, <1>2, <1>3, <1>4

\* What the server's sends may do to a link: it is found reset.
LinkKeeps(d) ==
    \/ link'[d] = link[d]
    \/ link[d] \in {"fin", "rst"} /\ link'[d] = "finrst"

\* What a reply comes to.
Replied(c, h, pc, m) ==
    /\ heap' = h /\ thr' = [thr EXCEPT ![c] = pc] /\ thr' \in [Conns -> Places]
    /\ down' \in {down, "sigpipe"} /\ down' \in Outcomes
    /\ link' \in [Conns -> Links] /\ s2c' \in [Conns -> Seq(ToClient)]
    /\ LinkKeeps(c)
    /\ s2c'[c] = IF link[c] = "open" THEN Append(s2c[c], m) ELSE s2c[c]
    /\ link[c] = "open" => down' = down
    /\ \A d \in Conns \ {c} : link'[d] = link[d] /\ s2c'[d] = s2c[d]

\* A reply is one send.
LEMMA RepliesMeans ==
    ASSUME NetTypes, ServerTypes, NEW c \in Conns, NEW h, NEW pc \in Places,
           NEW m \in ToClient, Replies(c, h, pc, m)
    PROVE  Replied(c, h, pc, m)
<1>1. PICK prompt \in SUBSET ({c} \cap Resettable) :
        LET w == SendOn(Unsent, c, m, prompt)
        IN  /\ heap' = h /\ thr' = [thr EXCEPT ![c] = pc]
            /\ link' = w.link /\ s2c' = w.s2c
            /\ down' = IF w.fate = "sigpipe" THEN "sigpipe" ELSE down
  BY DEF Replies
<1>2. Unsent \in Worlds /\ Unsent.link = link /\ Unsent.s2c = s2c /\ Unsent.fate = "ok"
  BY DEF Unsent, Worlds, NetTypes
<1> DEFINE w == SendOn(Unsent, c, m, prompt)
<1>3. /\ w \in Worlds
      /\ \A e \in Conns \ {c} : w.link[e] = link[e] /\ w.s2c[e] = s2c[e]
      /\ \/ w.link[c] = link[c]
         \/ link[c] \in {"fin", "rst"} /\ w.link[c] = "finrst"
      /\ w.s2c[c] = IF link[c] = "open" THEN Append(s2c[c], m) ELSE s2c[c]
      /\ link[c] = "open" => w.fate = "ok"
  BY <1>2, SendOnMeans
<1>4. /\ heap' = h /\ thr' = [thr EXCEPT ![c] = pc]
      /\ link' = w.link /\ s2c' = w.s2c
      /\ down' = IF w.fate = "sigpipe" THEN "sigpipe" ELSE down
  BY <1>1
<1> HIDE DEF w
<1>5. link' \in [Conns -> Links] /\ s2c' \in [Conns -> Seq(ToClient)]
  BY <1>3, <1>4 DEF Worlds
<1>6. thr' \in [Conns -> Places] /\ down \in Outcomes /\ "sigpipe" \in Outcomes
  BY <1>4 DEF ServerTypes, Outcomes
<1> QED BY <1>3, <1>4, <1>5, <1>6 DEF LinkKeeps, Replied

\* A step without a reply ends with the heap, or the server, in h.
LEMMA EndsMeans ==
    ASSUME ServerTypes, NEW c \in Conns, NEW h \in Heaps, NEW pc \in Places,
           Ends(c, h, pc)
    PROVE  /\ heap' \in Heaps /\ heap'.fault = "none"
           /\ heap'.list = h.list /\ heap'.next = h.next /\ heap'.joined = h.joined
           /\ heap'.clientID = h.clientID /\ heap'.freed = h.freed
           /\ thr' = [thr EXCEPT ![c] = IF h.fault = "hang" THEN Looping(pc) ELSE pc]
           /\ thr' \in [Conns -> Places]
           /\ down' = IF h.fault \in {"none", "hang"} THEN down ELSE h.fault
           /\ down' \in Outcomes
<1>1. heap' = [h EXCEPT !.fault = "none"]
  BY DEF Ends
<1>2. /\ heap' \in Heaps /\ heap'.fault = "none"
      /\ heap'.list = h.list /\ heap'.next = h.next /\ heap'.joined = h.joined
      /\ heap'.clientID = h.clientID /\ heap'.freed = h.freed
  BY <1>1 DEF Heaps, Faults
<1>3. h.fault \in Faults
  BY HeapParts
<1>4. thr \in [Conns -> Places] /\ down \in Outcomes /\ Looping(pc) \in Places
  BY DEF ServerTypes, Places, Between, Looping
<1>5. thr' = [thr EXCEPT ![c] = IF h.fault = "hang" THEN Looping(pc) ELSE pc]
      /\ thr' \in [Conns -> Places]
  BY <1>4 DEF Ends
<1>6. down' \in Outcomes
  BY <1>3, <1>4 DEF Ends, Faults, Outcomes
<1> QED BY <1>2, <1>5, <1>6 DEF Ends

LEMMA HeapNames ==
    ASSUME NEW h \in Heaps, NEW c \in Conns, NEW u \in Users \cup {NoName}
    PROVE  LET k == [h EXCEPT !.clientID[c] = u] IN
           /\ k \in Heaps /\ k.fault = h.fault /\ k.list = h.list
           /\ k.next = h.next /\ k.joined = h.joined /\ k.freed = h.freed
           /\ k.clientID = [h.clientID EXCEPT ![c] = u]
<1>1. [h.clientID EXCEPT ![c] = u] \in [Conns -> Users \cup {NoName}]
  BY HeapParts
<1>2. [h EXCEPT !.clientID[c] = u]
        = [h EXCEPT !.clientID = [h.clientID EXCEPT ![c] = u]]
  BY DEF Heaps
<1> DEFINE l == [h.clientID EXCEPT ![c] = u]
<1> HIDE DEF l
<1>3. LET k == [h EXCEPT !.clientID = l] IN
      /\ k \in Heaps /\ k.fault = h.fault /\ k.list = h.list
      /\ k.next = h.next /\ k.joined = h.joined /\ k.freed = h.freed
      /\ k.clientID = l
  BY <1>1 DEF Heaps, l
<1> QED BY <1>2, <1>3 DEF l

\* The descriptor accept returns exists, at most one per connection being in
\* use, and it is free.
LEMMA FreeFdMeans ==
    ServerTypes => /\ FreeFd \in 1..(Cardinality(Conns) + 1)
                   /\ \A e \in Conns : HasSocket(e) => fd[e] # FreeFd
<1> SUFFICES ASSUME ServerTypes
             PROVE  /\ FreeFd \in 1..(Cardinality(Conns) + 1)
                    /\ \A e \in Conns : HasSocket(e) => fd[e] # FreeFd
  OBVIOUS
<1> DEFINE owners == {e \in Conns : HasSocket(e)}
           used == {fd[d] : d \in owners}
           all == 1..(Cardinality(Conns) + 1)
           f == [d \in owners |-> fd[d]]
<1>1. IsFiniteSet(Conns) /\ Cardinality(Conns) \in Nat
  BY NamesAssumption, FS_CardinalityType
<1>2. IsFiniteSet(owners) /\ Cardinality(owners) <= Cardinality(Conns)
  <2>1. owners \in SUBSET Conns
    OBVIOUS
  <2> QED BY <1>1, <2>1, FS_Subset
<1>3. IsFiniteSet(used) /\ Cardinality(used) <= Cardinality(owners)
  <2>1. f \in Surjection(owners, used)
    BY DEF Surjection
  <2> QED BY <1>2, <2>1, FS_Surjection
<1>4. ~(all \subseteq used)
  <2>1. Cardinality(all) = Cardinality(Conns) + 1
    BY <1>1, FS_Interval
  <2>2. Cardinality(used) \in Nat /\ Cardinality(owners) \in Nat
    BY <1>2, <1>3, FS_CardinalityType
  <2>3. all \subseteq used => Cardinality(all) <= Cardinality(used)
    BY <1>3, FS_Subset
  <2> HIDE DEF all, used, owners
  <2> QED BY <1>1, <1>2, <1>3, <2>1, <2>2, <2>3
<1>5. \E n \in all \ used : \A k \in all \ used : n <= k
  <2> DEFINE T == all \ used
  <2>1. T \subseteq Nat /\ T # {}
    BY <1>1, <1>4
  <2> HIDE DEF T
  <2>2. \E n \in T : \A k \in T : n <= k
    BY <2>1, LeastNumber
  <2> QED BY <2>2 DEF T
<1>6. \E n \in all : n \notin used /\ \A m \in 1..(n - 1) : m \in used
  <2>1. PICK n \in all \ used : \A k \in all \ used : n <= k
    BY <1>5
  <2>2. ASSUME NEW m \in 1..(n - 1) PROVE m \in used
    <3>1. m \in all /\ ~(n <= m)
      BY <1>1, <2>1
    <3> QED BY <2>1, <3>1
  <2> QED BY <2>1, <2>2
<1>7. FreeFd \in all /\ FreeFd \notin used
  BY <1>6 DEF FreeFd
<1> QED BY <1>7

\* What FlattenSeq makes it makes row by row.
LEMMA FlattenSteps ==
    ASSUME NEW T, NEW q \in Seq(Seq(T)), Len(q) # 0
    PROVE  \E flat :
             /\ FlattenSeq(q) = flat[Len(q)]
             /\ \A i \in 1..Len(q) :
                   flat[i] = IF i = 1 THEN q[i] ELSE flat[i - 1] \o q[i]
<1> DEFINE N == Len(q) - 1
           Body(w) == [i \in 1..Len(q) |-> IF i = 1 THEN q[i] ELSE w[i - 1] \o q[i]]
           flat == CHOOSE w : w = Body(w)
<1>1. N \in Nat /\ Len(q) = N + 1 /\ \A i \in 1..Len(q) : q[i] \in Seq(T)
  OBVIOUS
<1>2. \E w : w = Body(w)
  <2> DEFINE f == [p \in (1..N) \X Seq(T) |-> p[2] \o q[p[1] + 1]]
  <2>1. f \in [(1..N) \X Seq(T) -> Seq(T)] /\ q[1] \in Seq(T)
    BY <1>1
  <2>2. PICK g \in [0..N -> Seq(T)] : Follows(g, N, q[1], f)
    <3> HIDE DEF f, N
    <3> QED BY <1>1, <2>1, Recursion
  <2> DEFINE w == [i \in 1..Len(q) |-> g[i - 1]]
  <2>3. ASSUME NEW i \in 1..Len(q)
        PROVE  w[i] = IF i = 1 THEN q[i] ELSE w[i - 1] \o q[i]
    <3>1. CASE i = 1
      BY <2>2, <3>1 DEF Follows
    <3>2. CASE i # 1
      <4>1. i - 1 \in 1..N /\ i - 1 \in 1..Len(q) /\ (i - 1) + 1 = i
            /\ (i - 1) - 1 \in 0..N
        BY <1>1, <3>2
      <4>2. g[i - 1] = g[(i - 1) - 1] \o q[i]
        BY <1>1, <2>2, <4>1 DEF Follows
      <4> QED BY <3>2, <4>1, <4>2
    <3> QED BY <3>1, <3>2
  <2>4. w = Body(w)
    BY <2>3
  <2> QED BY <2>4
<1>3. flat = Body(flat)
  BY <1>2
<1>4. FlattenSeq(q) = flat[Len(q)]
  BY DEF FlattenSeq
<1>5. \A i \in 1..Len(q) : flat[i] = IF i = 1 THEN q[i] ELSE flat[i - 1] \o q[i]
  BY <1>3
<1> HIDE DEF flat
<1> QED BY <1>4, <1>5

\* A sequence of sequences makes a sequence.
LEMMA FlattenSeqType ==
    ASSUME NEW T, NEW q \in Seq(Seq(T))
    PROVE  FlattenSeq(q) \in Seq(T)
<1> DEFINE N == Len(q) - 1
<1>1. CASE Len(q) = 0
  <2>1. FlattenSeq(q) = q /\ q = <<>>
    BY <1>1 DEF FlattenSeq
  <2> QED BY <2>1
<1>2. CASE Len(q) # 0
  <2>1. N \in Nat /\ Len(q) = N + 1 /\ \A i \in 1..Len(q) : q[i] \in Seq(T)
    BY <1>2
  <2>2. PICK flat : /\ FlattenSeq(q) = flat[Len(q)]
                    /\ \A i \in 1..Len(q) :
                          flat[i] = IF i = 1 THEN q[i] ELSE flat[i - 1] \o q[i]
    BY <1>2, FlattenSteps
  <2> DEFINE g == [i \in 0..N |-> flat[i + 1]]
  <2>3. g[0] \in Seq(T)
    BY <2>1, <2>2
  <2>4. ASSUME NEW i \in 1..N, g[i - 1] \in Seq(T) PROVE g[i] \in Seq(T)
    <3>1. i + 1 \in 1..Len(q) /\ i + 1 # 1 /\ (i + 1) - 1 = i
          /\ i - 1 \in 0..N /\ (i - 1) + 1 = i /\ i \in 0..N
      BY <2>1
    <3>2. flat[i + 1] = flat[i] \o q[i + 1] /\ g[i - 1] = flat[i] /\ g[i] = flat[i + 1]
      BY <2>2, <3>1
    <3>3. flat[i] \in Seq(T) /\ q[i + 1] \in Seq(T)
      BY <2>1, <2>4, <3>1, <3>2
    <3>4. flat[i] \o q[i + 1] \in Seq(T)
      BY <3>3
    <3> QED BY <3>2, <3>4
  <2>5. g[N] \in Seq(T)
    <3> HIDE DEF g, N
    <3>1. \A i \in 0..N : g[i] \in Seq(T)
      BY <2>1, <2>3, <2>4, StaysInside
    <3> QED BY <2>1, <3>1
  <2> QED BY <2>1, <2>2, <2>5
<1> QED BY <1>1, <1>2

\* A number of sends is one after the other.
LEMMA SentSteps ==
    ASSUME NEW S, NEW to \in Seq(Conns), NEW m, NEW prompt, Unsent \in S,
           \A w \in S, d \in Conns : SendOn(w, d, m, prompt) \in S
    PROVE  \E sent : /\ Sent(to, m, prompt) = sent[Len(to)] /\ sent[0] = Unsent
                     /\ \A i \in 1..Len(to) :
                           sent[i] = SendOn(sent[i - 1], to[i], m, prompt)
<1> DEFINE N == Len(to)
           Body(w) == [n \in 0..N |-> IF n = 0 THEN Unsent
                                      ELSE SendOn(w[n - 1], to[n], m, prompt)]
           sent == CHOOSE w : w = Body(w)
<1>1. N \in Nat /\ \A n \in 1..N : to[n] \in Conns
  OBVIOUS
<1>2. \E w : w = Body(w)
  <2> DEFINE f == [p \in (1..N) \X S |-> SendOn(p[2], to[p[1]], m, prompt)]
  <2>1. f \in [(1..N) \X S -> S]
    BY <1>1
  <2>2. PICK g \in [0..N -> S] : Follows(g, N, Unsent, f)
    <3> HIDE DEF f, N
    <3> QED BY <1>1, <2>1, Recursion
  <2>3. ASSUME NEW i \in 1..N PROVE g[i] = SendOn(g[i - 1], to[i], m, prompt)
    <3>1. i - 1 \in 0..N
      BY <1>1
    <3> QED BY <2>2, <3>1 DEF Follows
  <2>4. g = Body(g)
    BY <2>2, <2>3 DEF Follows
  <2> QED BY <2>4
<1>3. sent = Body(sent)
  BY <1>2
<1>4. Sent(to, m, prompt) = sent[N]
  BY DEF Sent
<1>5. sent[0] = Unsent /\ \A i \in 1..N : sent[i] = SendOn(sent[i - 1], to[i], m, prompt)
  <2>1. \A n \in 0..N : Body(sent)[n] = IF n = 0 THEN Unsent
                                        ELSE SendOn(sent[n - 1], to[n], m, prompt)
    OBVIOUS
  <2> HIDE DEF sent, Body, N
  <2>2. \A n \in 0..N : sent[n] = IF n = 0 THEN Unsent
                                  ELSE SendOn(sent[n - 1], to[n], m, prompt)
    BY <1>3, <2>1
  <2> QED BY <1>1, <2>2
<1> HIDE DEF sent
<1> QED BY <1>4, <1>5

\* Whatever every single send preserves, a number of sends preserve.
LEMMA SentStays ==
    ASSUME NEW S, NEW to \in Seq(Conns), NEW m, NEW prompt, Unsent \in S,
           \A w \in S, d \in Conns : SendOn(w, d, m, prompt) \in S
    PROVE  Sent(to, m, prompt) \in S
<1> DEFINE N == Len(to)
<1>1. N \in Nat /\ \A n \in 1..N : to[n] \in Conns
  OBVIOUS
<1>2. PICK sent : /\ Sent(to, m, prompt) = sent[N] /\ sent[0] = Unsent
                  /\ \A i \in 1..N : sent[i] = SendOn(sent[i - 1], to[i], m, prompt)
  BY SentSteps
<1> HIDE DEF N
<1>3. \A i \in 0..N : sent[i] \in S
  BY <1>1, <1>2, StaysInside
<1> QED BY <1>1, <1>2, <1>3

\* q is p with members of T behind it.
Grown(p, q, T) ==
    /\ Len(p) <= Len(q)
    /\ \A i \in 1..Len(q) : IF i <= Len(p) THEN q[i] = p[i] ELSE q[i] \in T

LEMMA GrownAppend ==
    ASSUME NEW T, NEW V, NEW p \in Seq(V), NEW q \in Seq(V), NEW v \in V,
           Grown(p, q, T), v \in T
    PROVE  Grown(p, Append(q, v), T)
<1>1. Len(Append(q, v)) = Len(q) + 1
      /\ \A i \in 1..(Len(q) + 1) : Append(q, v)[i] = IF i <= Len(q) THEN q[i] ELSE v
  OBVIOUS
<1>2. Len(p) \in Nat /\ Len(q) \in Nat /\ Len(p) <= Len(q)
  BY DEF Grown
<1>3. ASSUME NEW i \in 1..(Len(q) + 1)
      PROVE  IF i <= Len(p) THEN Append(q, v)[i] = p[i] ELSE Append(q, v)[i] \in T
  <2>1. CASE i <= Len(q)
    BY <1>1, <1>2, <2>1 DEF Grown
  <2>2. CASE ~(i <= Len(q))
    BY <1>1, <1>2, <2>2
  <2> QED BY <2>1, <2>2
<1> QED BY <1>1, <1>2, <1>3 DEF Grown

\* A broadcast delivers nothing but MESSAGEs, to connections that are open.
LEMMA BroadcastMeans ==
    ASSUME NetTypes, ServerTypes, NEW c \in Conns, Broadcast(c)
    PROVE  /\ link' \in [Conns -> Links] /\ s2c' \in [Conns -> Seq(ToClient)]
           /\ down' \in Outcomes
           /\ \A d \in Conns :
                 /\ LinkKeeps(d)
                 /\ Grown(s2c[d], s2c'[d], {"MESSAGE"})
                 /\ link[d] # "open" => s2c'[d] = s2c[d]
<1> DEFINE Bad(d) == d = NULL \/ Owner(d) = {}
           I == {i \in 1..Len(Visited) : Bad(Visited[i])}
           upto == SelectInSeq(Visited, Bad)
           reached == IF upto = 0 THEN Visited ELSE SubSeq(Visited, 1, upto - 1)
           to == [n \in DOMAIN reached |-> CHOOSE e \in Owner(reached[n]) : TRUE]
           T == {Walk(heap, heap.list[i].head, n) : i \in DOMAIN heap.list, n \in Int}
<1>1. Visited \in Seq(T)
  <2>1. heap.list \in Seq(SessionRecords)
    BY HeapParts DEF ServerTypes
  <2>2. ASSUME NEW i \in DOMAIN heap.list PROVE Nodes(heap, i) \in Seq(T)
    <3>0. heap.list[i] \in SessionRecords
      BY <2>1
    <3>1. heap.list[i].sz \in Int
      BY <3>0 DEF SessionRecords
    <3>2. CASE heap.list[i].sz < 0
      <4>1. Nodes(heap, i) = [n \in 1..0 |-> Walk(heap, heap.list[i].head, n - 1)]
        BY <3>1, <3>2 DEF Nodes
      <4>2. [n \in 1..0 |-> Walk(heap, heap.list[i].head, n - 1)] \in Seq(T)
        OBVIOUS
      <4> QED BY <4>1, <4>2
    <3>3. CASE heap.list[i].sz >= 0
      <4> DEFINE z == heap.list[i].sz
      <4>0. z \in Nat
        BY <3>1, <3>3
      <4>1. Nodes(heap, i) \in [1..z -> T]
        <5>1. ASSUME NEW n \in 1..z PROVE Walk(heap, heap.list[i].head, n - 1) \in T
          <6>1. n - 1 \in Int
            BY <4>0
          <6> QED BY <6>1
        <5> HIDE DEF T
        <5> QED BY <5>1 DEF Nodes
      <4> HIDE DEF z, T
      <4>2. \A f \in [1..z -> T] : f \in Seq(T)
        BY <4>0
      <4> QED BY <4>1, <4>2
    <3> QED BY <3>1, <3>2, <3>3
  <2> HIDE DEF T
  <2>3. [i \in DOMAIN heap.list |-> Nodes(heap, i)] \in Seq(Seq(T))
    BY <2>1, <2>2
  <2> QED BY <2>3, FlattenSeqType DEF Visited
<1>2. \/ upto = 0 /\ I = {}
      \/ upto \in I /\ \A i \in I : upto <= i
  <2>1. CASE I = {}
    BY <2>1 DEF SelectInSeq
  <2>2. CASE I # {}
    <3>1. \E i \in I : \A j \in I : i <= j
      <4>1. I \subseteq Nat
        OBVIOUS
      <4> HIDE DEF I
      <4> QED BY <2>2, <4>1, LeastNumber
    <3>2. upto = Min(I)
      BY <2>2 DEF SelectInSeq
    <3> QED BY <3>1, <3>2 DEF Min
  <2> QED BY <2>1, <2>2
<1>3. to \in Seq(Conns)
  <2> HIDE DEF T, upto
  <2>1. reached \in Seq(T) /\ \A n \in DOMAIN reached : Owner(reached[n]) # {}
    <3>1. CASE upto = 0
      BY <1>1, <1>2, <3>1
    <3>2. CASE upto # 0
      <4>1. upto \in 1..Len(Visited) /\ reached = SubSeq(Visited, 1, upto - 1)
        BY <1>2, <3>2
      <4>2. reached \in Seq(T) /\ Len(reached) = upto - 1
            /\ \A n \in 1..(upto - 1) : reached[n] = Visited[n]
        <5> HIDE DEF reached
        <5> QED BY <1>1, <4>1
      <4>3. ASSUME NEW n \in DOMAIN reached PROVE Owner(reached[n]) # {}
        <5>1. n \in 1..(upto - 1)
          BY <4>1, <4>2
        <5>2. n \in 1..Len(Visited) /\ ~(upto <= n) /\ reached[n] = Visited[n]
          BY <1>1, <4>1, <4>2, <5>1
        <5> QED BY <1>2, <3>2, <5>2
      <4> QED BY <4>2, <4>3
    <3> QED BY <3>1, <3>2
  <2>2. \A n \in DOMAIN reached : (CHOOSE e \in Owner(reached[n]) : TRUE) \in Conns
    <3> HIDE DEF reached
    <3> QED BY <2>1 DEF Owner
  <2> HIDE DEF reached
  <2> QED BY <2>1, <2>2
<1> DEFINE S == {w \in Worlds : \A d \in Conns :
                   /\ \/ w.link[d] = link[d]
                      \/ link[d] \in {"fin", "rst"} /\ w.link[d] = "finrst"
                   /\ Grown(s2c[d], w.s2c[d], {"MESSAGE"})
                   /\ link[d] # "open" => w.s2c[d] = s2c[d]}
<1>4. Unsent \in S
  <2>1. Unsent \in Worlds /\ Unsent.link = link /\ Unsent.s2c = s2c
    BY DEF Unsent, Worlds, NetTypes
  <2>2. \A d \in Conns : Grown(s2c[d], s2c[d], {"MESSAGE"})
    <3>1. \A d \in Conns : s2c[d] \in Seq(ToClient)
      BY DEF NetTypes
    <3> QED BY <3>1 DEF Grown
  <2> QED BY <2>1, <2>2
<1>5. ASSUME NEW prompt, NEW w \in S, NEW d \in Conns
      PROVE  SendOn(w, d, "MESSAGE", prompt) \in S
  <2> DEFINE v == SendOn(w, d, "MESSAGE", prompt)
  <2>1. w \in Worlds /\ "MESSAGE" \in ToClient
    BY DEF ToClient
  <2>2. /\ v \in Worlds
        /\ \A e \in Conns \ {d} : v.link[e] = w.link[e] /\ v.s2c[e] = w.s2c[e]
        /\ \/ v.link[d] = w.link[d]
           \/ w.link[d] \in {"fin", "rst"} /\ v.link[d] = "finrst"
        /\ v.s2c[d] = IF w.fate = "ok" /\ w.link[d] = "open"
                      THEN Append(w.s2c[d], "MESSAGE") ELSE w.s2c[d]
    BY <2>1, SendOnMeans
  <2>3. /\ \/ w.link[d] = link[d]
           \/ link[d] \in {"fin", "rst"} /\ w.link[d] = "finrst"
        /\ Grown(s2c[d], w.s2c[d], {"MESSAGE"})
        /\ link[d] # "open" => w.s2c[d] = s2c[d]
    OBVIOUS
  <2>4. Grown(s2c[d], Append(w.s2c[d], "MESSAGE"), {"MESSAGE"})
    <3>1. s2c[d] \in Seq(ToClient) /\ w.s2c[d] \in Seq(ToClient)
      BY <2>1 DEF NetTypes, Worlds
    <3> QED BY <2>1, <2>3, <3>1, GrownAppend
  <2> HIDE DEF v
  <2>5. /\ \/ v.link[d] = link[d]
           \/ link[d] \in {"fin", "rst"} /\ v.link[d] = "finrst"
        /\ Grown(s2c[d], v.s2c[d], {"MESSAGE"})
        /\ link[d] # "open" => v.s2c[d] = s2c[d]
    BY <2>2, <2>3, <2>4
  <2>6. ASSUME NEW e \in Conns
        PROVE  /\ \/ v.link[e] = link[e]
                  \/ link[e] \in {"fin", "rst"} /\ v.link[e] = "finrst"
               /\ Grown(s2c[e], v.s2c[e], {"MESSAGE"})
               /\ link[e] # "open" => v.s2c[e] = s2c[e]
    <3>1. CASE e = d
      BY <2>5, <3>1
    <3>2. CASE e # d
      BY <2>2, <3>2
    <3> QED BY <3>1, <3>2
  <2>7. v \in S
    BY <2>2, <2>6
  <2> QED BY <2>7 DEF v
<1>6. PICK prompt \in SUBSET Resettable :
        LET w == Sent(to, "MESSAGE", prompt)
        IN  /\ link' = w.link /\ s2c' = w.s2c
            /\ down' = CASE w.fate = "sigpipe" -> "sigpipe"
                         [] w.fate = "error" -> "exit"
                         [] w.fate = "ok" /\ upto = 0 -> down
                         [] OTHER -> IF Visited[upto] = NULL THEN "segv" ELSE "exit"
  BY DEF Broadcast
<1>7. Sent(to, "MESSAGE", prompt) \in S
  <2> HIDE DEF S, to
  <2> QED BY <1>3, <1>4, <1>5, SentStays
<1>8. down' \in Outcomes
  <2>1. down' \in {down, "sigpipe", "exit", "segv"}
    <3> DEFINE fate == Sent(to, "MESSAGE", prompt).fate
    <3> HIDE DEF to, upto
    <3>1. fate \in {"ok", "error", "sigpipe"}
      BY <1>7 DEF Worlds
    <3> QED BY <1>6, <3>1
  <2> QED BY <2>1 DEF ServerTypes, Outcomes
<1>9. \E w \in S : link' = w.link /\ s2c' = w.s2c
  <2> HIDE DEF S, to, upto
  <2> QED BY <1>6, <1>7
<1> QED BY <1>8, <1>9 DEF LinkKeeps, Worlds

-----------------------------------------------------------------------------
(***************************************************************************)
(* Types.                                                                  *)
(***************************************************************************)

\* Where a thread is keeps fitting what it holds, if c moves to pc and nothing
\* of the other connections changes.
LEMMA PlacesFit ==
    ASSUME ServerTypes, NEW c \in Conns, NEW pc \in Places,
           thr' = [thr EXCEPT ![c] = pc],
           \A d \in Conns \ {c} :
               sessionId'[d] = sessionId[d] /\ heap'.clientID[d] = heap.clientID[d],
           pc \in {"joining", "created"} => sessionId'[c] \in SessIds,
           pc = "granted" => heap'.clientID[c] \in Users
    PROVE  /\ \A d \in Conns : thr'[d] \in {"joining", "created"} => sessionId'[d] \in SessIds
           /\ \A d \in Conns : thr'[d] = "granted" => heap'.clientID[d] \in Users
<1>1. thr \in [Conns -> Places]
  BY DEF ServerTypes
<1>2. ASSUME NEW d \in Conns
      PROVE  /\ thr'[d] \in {"joining", "created"} => sessionId'[d] \in SessIds
             /\ thr'[d] = "granted" => heap'.clientID[d] \in Users
  <2>1. CASE d = c
    BY <1>1, <2>1
  <2>2. CASE d # c
    BY <1>1, <2>2 DEF ServerTypes
  <2> QED BY <2>1, <2>2
<1> QED BY <1>2

LEMMA PlaceNames ==
    /\ {"recv", "gone", "stuck", "lost", "locked", "granted", "joining", "created", "leave"}
         \subseteq Places
    /\ {"LO_ACK", "LO_NAK", "JN_ACK", "JN_NAK", "NS_ACK", "MESSAGE", "QU_ACK"}
         \subseteq ToClient
BY DEF Places, Between, ToClient

\* A packet that is answered at once, with h for a heap that differs from
\* heap in c's name at most.
LEMMA AnswerTyped ==
    ASSUME NetTypes, ServerTypes, NEW c \in Conns, NEW h \in Heaps, h.fault = "none",
           \A d \in Conns \ {c} : h.clientID[d] = heap.clientID[d],
           NEW pc \in {"recv", "gone"}, NEW m \in ToClient, Replies(c, h, pc, m),
           c2s' \in [Conns -> Seq(Packets)],
           sessionId' \in [Conns -> SessIds \cup {NoName}],
           \A d \in Conns \ {c} : sessionId'[d] = sessionId[d],
           source' \in [Conns -> Users \cup {NoName}], fd' = fd,
           isLog' \in [Users -> BOOLEAN]
    PROVE  NetTypes' /\ ServerTypes'
<1>1. pc \in Places
  BY PlaceNames
<1>2. /\ heap' = h /\ thr' = [thr EXCEPT ![c] = pc] /\ thr' \in [Conns -> Places]
      /\ down' \in Outcomes
      /\ link' \in [Conns -> Links] /\ s2c' \in [Conns -> Seq(ToClient)]
  <2>1. Replied(c, h, pc, m)
    BY <1>1, RepliesMeans
  <2> QED BY <2>1 DEF Replied
<1>3. /\ \A d \in Conns : thr'[d] \in {"joining", "created"} => sessionId'[d] \in SessIds
      /\ \A d \in Conns : thr'[d] = "granted" => heap'.clientID[d] \in Users
  BY <1>1, <1>2, PlacesFit
<1> QED BY <1>2, <1>3 DEF NetTypes, ServerTypes

\* A step that ends with h and no reply.
LEMMA SilentTyped ==
    ASSUME NetTypes, ServerTypes, NEW c \in Conns, NEW h \in Heaps,
           \A d \in Conns \ {c} : h.clientID[d] = heap.clientID[d],
           NEW pc \in Places, Silent(c, h, pc),
           c2s' \in [Conns -> Seq(Packets)],
           sessionId' \in [Conns -> SessIds \cup {NoName}],
           \A d \in Conns \ {c} : sessionId'[d] = sessionId[d],
           pc \in {"joining", "created"} => sessionId'[c] \in SessIds,
           pc = "granted" => h.clientID[c] \in Users,
           source' = source, fd' = fd, isLog' \in [Users -> BOOLEAN]
    PROVE  NetTypes' /\ ServerTypes'
<1> DEFINE to == IF h.fault = "hang" THEN Looping(pc) ELSE pc
<1>1. /\ heap' \in Heaps /\ heap'.fault = "none" /\ heap'.clientID = h.clientID
      /\ thr' = [thr EXCEPT ![c] = to] /\ thr' \in [Conns -> Places]
      /\ down' \in Outcomes
  BY EndsMeans DEF Silent
<1>2. to \in Places
  BY PlaceNames DEF Looping
<1>3. to \in {pc, "stuck", "lost"}
  BY DEF Looping
<1> HIDE DEF to
<1>4. /\ \A d \in Conns \ {c} :
            sessionId'[d] = sessionId[d] /\ heap'.clientID[d] = heap.clientID[d]
      /\ to \in {"joining", "created"} => sessionId'[c] \in SessIds
      /\ to = "granted" => heap'.clientID[c] \in Users
  BY <1>1, <1>3
<1>5. /\ \A d \in Conns : thr'[d] \in {"joining", "created"} => sessionId'[d] \in SessIds
      /\ \A d \in Conns : thr'[d] = "granted" => heap'.clientID[d] \in Users
  BY <1>1, <1>2, <1>4, PlacesFit
<1> QED BY <1>1, <1>5 DEF Silent, NetTypes, ServerTypes

LEMMA HeapNow == ServerTypes => heap \in Heaps /\ heap.fault = "none"
BY DEF ServerTypes

LEMMA LoginTyped ==
    ASSUME NetTypes, ServerTypes, NEW c \in Conns, Login(c)
    PROVE  NetTypes' /\ ServerTypes'
<1>1. Reads(c, "LOGIN")
  BY DEF Login
<1>2. PICK a \in Users \cup {NoName} : a = Arg(c)
  BY <1>1, ReadsMeans, PacketArgs
<1>3. PICK h \in Heaps : /\ h = [heap EXCEPT !.clientID[c] = a] /\ h.fault = "none"
                         /\ h.clientID = [heap.clientID EXCEPT ![c] = a]
  <2> DEFINE k == [heap EXCEPT !.clientID[c] = a]
  <2>1. k \in Heaps /\ k.fault = "none" /\ k.clientID = [heap.clientID EXCEPT ![c] = a]
    BY <1>2, HeapNow, HeapNames
  <2> HIDE DEF k
  <2>2. \E h \in Heaps : /\ h = k /\ h.fault = "none"
                         /\ h.clientID = [heap.clientID EXCEPT ![c] = a]
    BY <2>1
  <2> QED BY <2>2 DEF k
<1>4. heap.clientID \in [Conns -> Users \cup {NoName}]
  BY HeapNow, HeapParts
<1>5. /\ c2s' \in [Conns -> Seq(Packets)] /\ UNCHANGED <<sessionId, source, fd, isLog>>
      /\ \A d \in Conns \ {c} : h.clientID[d] = heap.clientID[d]
      /\ h.clientID[c] = a
  BY <1>1, <1>3, <1>4, ReadsMeans DEF Login
<1>6. CASE Registered(a) /\ Silent(c, h, "granted")
  BY <1>5, <1>6, SilentTyped, PlaceNames DEF Registered, ServerTypes
<1>7. CASE Replies(c, h, "recv", "LO_NAK")
  BY <1>3, <1>5, <1>7, AnswerTyped, PlaceNames DEF ServerTypes
<1>8. \/ Registered(a) /\ Silent(c, h, "granted")
      \/ Replies(c, h, "recv", "LO_NAK")
  BY <1>2, <1>3 DEF Login
<1> QED BY <1>6, <1>7, <1>8

LEMMA GrantTyped ==
    ASSUME NetTypes, ServerTypes, NEW c \in Conns, Grant(c)
    PROVE  NetTypes' /\ ServerTypes'
<1>1. heap.clientID[c] \in Users
  BY DEF Grant, ServerTypes
<1>2. /\ isLog' \in [Users -> BOOLEAN] /\ source' \in [Conns -> Users \cup {NoName}]
      /\ c2s' \in [Conns -> Seq(Packets)] /\ UNCHANGED <<sessionId, fd>>
      /\ Replies(c, heap, "recv", "LO_ACK")
  BY <1>1 DEF Grant, ServerTypes, NetTypes
<1> QED BY <1>2, HeapNow, AnswerTyped, PlaceNames DEF ServerTypes

LEMMA JoinTyped ==
    ASSUME NetTypes, ServerTypes, NEW c \in Conns, Join(c)
    PROVE  NetTypes' /\ ServerTypes'
<1>1. Reads(c, "JOIN")
  BY DEF Join
<1>2. Arg(c) \in SessIds /\ c2s' \in [Conns -> Seq(Packets)]
  BY <1>1, ReadsMeans, PacketArgs
<1>3. UNCHANGED <<source, fd, isLog>>
  BY DEF Join
<1>4. CASE Replies(c, heap, "recv", "JN_NAK") /\ UNCHANGED sessionId
  BY <1>2, <1>3, <1>4, HeapNow, AnswerTyped, PlaceNames DEF ServerTypes
<1>5. CASE Silent(c, heap, "joining") /\ sessionId' = [sessionId EXCEPT ![c] = Arg(c)]
  <2>1. /\ sessionId' \in [Conns -> SessIds \cup {NoName}] /\ sessionId'[c] \in SessIds
        /\ \A d \in Conns \ {c} : sessionId'[d] = sessionId[d]
    BY <1>2, <1>5 DEF ServerTypes
  <2> QED BY <1>2, <1>3, <1>5, <2>1, HeapNow, SilentTyped, PlaceNames DEF ServerTypes
<1> QED BY <1>4, <1>5 DEF Join

\* The heap JOIN resets: the client's own list is empty, its name is source.
ResetHeap(c) ==
    [heap EXCEPT !.clientID[c] = source[c], !.joined[c] = <<>>, !.next[c] = NULL]

LEMMA ResetHeapMeans ==
    ASSUME ServerTypes, NEW c \in Conns
    PROVE  /\ ResetHeap(c) \in Heaps /\ ResetHeap(c).fault = "none"
           /\ ResetHeap(c).list = heap.list /\ ResetHeap(c).freed = heap.freed
           /\ ResetHeap(c).clientID = [heap.clientID EXCEPT ![c] = source[c]]
           /\ ResetHeap(c).joined = [heap.joined EXCEPT ![c] = <<>>]
<1> DEFINE n == [heap.clientID EXCEPT ![c] = source[c]]
           j == [heap.joined EXCEPT ![c] = <<>>]
           x == [heap.next EXCEPT ![c] = NULL]
<1>1. heap \in Heaps /\ heap.fault = "none" /\ source[c] \in Users \cup {NoName}
  BY DEF ServerTypes
<1>2. n \in [Conns -> Users \cup {NoName}]
  BY <1>1, HeapParts
<1>3. j \in [Conns -> Seq(SessIds \cup {NoName})]
  BY <1>1, HeapParts
<1>4. x \in [Conns -> Pointers]
  BY <1>1, HeapParts DEF Pointers
<1>5. ResetHeap(c) = [heap EXCEPT !.clientID = n, !.joined = j, !.next = x]
  BY <1>1 DEF ResetHeap, Heaps
<1> HIDE DEF n, j, x
<1>6. /\ ResetHeap(c) \in Heaps /\ ResetHeap(c).fault = "none"
      /\ ResetHeap(c).list = heap.list /\ ResetHeap(c).freed = heap.freed
      /\ ResetHeap(c).clientID = n /\ ResetHeap(c).joined = j
  BY <1>1, <1>2, <1>3, <1>4, <1>5 DEF Heaps
<1> QED BY <1>6 DEF n, j

LEMMA JoinLockedTyped ==
    ASSUME NetTypes, ServerTypes, NEW c \in Conns, JoinLocked(c)
    PROVE  NetTypes' /\ ServerTypes'
<1> DEFINE h == JoinSess(ResetHeap(c), c, sessionId[c])
<1>1. sessionId[c] \in SessIds
  BY DEF JoinLocked, ServerTypes
<1>2. h \in Heaps /\ h.clientID = [heap.clientID EXCEPT ![c] = source[c]]
  <2>1. /\ ResetHeap(c) \in Heaps
        /\ ResetHeap(c).clientID = [heap.clientID EXCEPT ![c] = source[c]]
    BY ResetHeapMeans
  <2>2. h \in Heaps /\ h.clientID = ResetHeap(c).clientID
    BY <1>1, <2>1, JoinSessKeeps
  <2> QED BY <2>1, <2>2
<1>3. /\ IF h.fault = "none" THEN Replies(c, h, "recv", "JN_ACK")
         ELSE /\ heap' = [h EXCEPT !.fault = "none"]
              /\ thr' = [thr EXCEPT ![c] = "locked"]
              /\ UNCHANGED <<link, s2c, down>>
      /\ sessionId' = [sessionId EXCEPT ![c] = NoName]
      /\ UNCHANGED <<source, fd, isLog, c2s>>
  BY DEF JoinLocked, ResetHeap
<1> HIDE DEF h
<1>4. /\ sessionId' \in [Conns -> SessIds \cup {NoName}]
      /\ \A d \in Conns \ {c} : sessionId'[d] = sessionId[d]
      /\ c2s' \in [Conns -> Seq(Packets)]
      /\ \A d \in Conns \ {c} : h.clientID[d] = heap.clientID[d]
  <2>1. heap.clientID \in [Conns -> Users \cup {NoName}]
    BY HeapNow, HeapParts
  <2> QED BY <1>2, <1>3, <2>1 DEF ServerTypes, NetTypes
<1>5. CASE h.fault = "none"
  BY <1>2, <1>3, <1>4, <1>5, AnswerTyped, PlaceNames DEF ServerTypes
<1>6. CASE h.fault # "none"
  <2>1. heap' = [h EXCEPT !.fault = "none"] /\ thr' = [thr EXCEPT ![c] = "locked"]
    BY <1>3, <1>6
  <2>2. heap' \in Heaps /\ heap'.fault = "none" /\ heap'.clientID = h.clientID
    BY <1>2, <2>1 DEF Heaps, Faults
  <2>3. /\ \A d \in Conns : thr'[d] \in {"joining", "created"} => sessionId'[d] \in SessIds
        /\ \A d \in Conns : thr'[d] = "granted" => heap'.clientID[d] \in Users
    BY <1>4, <2>1, <2>2, PlacesFit, PlaceNames
  <2>4. thr' \in [Conns -> Places]
    BY <2>1, PlaceNames DEF ServerTypes
  <2> QED BY <1>3, <1>4, <1>6, <2>2, <2>3, <2>4 DEF ServerTypes, NetTypes
<1> QED BY <1>5, <1>6

LEMMA JoinCreatedTyped ==
    ASSUME NetTypes, ServerTypes, NEW c \in Conns, JoinCreated(c)
    PROVE  NetTypes' /\ ServerTypes'
<1> DEFINE h == JoinSess(heap, c, sessionId[c])
<1>1. sessionId[c] \in SessIds
  BY DEF JoinCreated, ServerTypes
<1>2. h \in Heaps /\ h.clientID = heap.clientID
  BY <1>1, HeapNow, JoinSessKeeps
<1>3. /\ IF h.fault = "none" THEN Replies(c, h, "recv", "NS_ACK")
         ELSE Silent(c, h, "recv")
      /\ sessionId' = [sessionId EXCEPT ![c] = NoName]
      /\ UNCHANGED <<source, fd, isLog, c2s>>
  BY DEF JoinCreated
<1> HIDE DEF h
<1>4. /\ sessionId' \in [Conns -> SessIds \cup {NoName}]
      /\ \A d \in Conns \ {c} : sessionId'[d] = sessionId[d]
      /\ c2s' \in [Conns -> Seq(Packets)]
      /\ \A d \in Conns \ {c} : h.clientID[d] = heap.clientID[d]
  BY <1>2, <1>3 DEF ServerTypes, NetTypes
<1>5. CASE h.fault = "none"
  BY <1>2, <1>3, <1>4, <1>5, AnswerTyped, PlaceNames DEF ServerTypes
<1>6. CASE h.fault # "none"
  BY <1>2, <1>3, <1>4, <1>6, SilentTyped, PlaceNames DEF ServerTypes
<1> QED BY <1>5, <1>6

LEMMA LeaveTyped ==
    ASSUME NetTypes, ServerTypes, NEW c \in Conns,
           \/ Leave(c)
           \/ ExitLeaves(c)
    PROVE  NetTypes' /\ ServerTypes'
<1> DEFINE h == LeaveSess(heap, c)
<1>1. h \in Heaps /\ \A d \in Conns \ {c} : h.clientID[d] = heap.clientID[d]
  BY HeapNow, LeaveSessKeeps
<1>2. /\ \E pc \in {"recv", "leave"} : Silent(c, h, pc)
      /\ c2s' \in [Conns -> Seq(Packets)]
      /\ UNCHANGED <<sessionId, source, fd, isLog>>
  BY ReadsMeans DEF Leave, ExitLeaves, NetTypes
<1> HIDE DEF h
<1> QED BY <1>1, <1>2, SilentTyped, PlaceNames DEF ServerTypes

LEMMA NewSessTyped ==
    ASSUME NetTypes, ServerTypes, NEW c \in Conns, NewSess(c)
    PROVE  NetTypes' /\ ServerTypes'
<1> DEFINE h == CreateSess(heap, Arg(c))
<1>1. Reads(c, "NEW_SESS")
  BY DEF NewSess
<1>2. Arg(c) \in SessIds /\ c2s' \in [Conns -> Seq(Packets)]
  BY <1>1, ReadsMeans, PacketArgs
<1>3. h \in Heaps /\ h.clientID = heap.clientID
  BY <1>2, HeapNow, CreateSessKeeps
<1>4. /\ sessionId' \in [Conns -> SessIds \cup {NoName}] /\ sessionId'[c] \in SessIds
      /\ \A d \in Conns \ {c} : sessionId'[d] = sessionId[d]
      /\ Silent(c, h, "created") /\ UNCHANGED <<source, fd, isLog>>
  BY <1>2 DEF NewSess, ServerTypes
<1> HIDE DEF h
<1> QED BY <1>2, <1>3, <1>4, SilentTyped, PlaceNames DEF ServerTypes

LEMMA BroadcastTyped ==
    ASSUME NetTypes, ServerTypes, NEW c \in Conns, Broadcast(c)
    PROVE  NetTypes' /\ ServerTypes'
<1>1. Reads(c, "MESSAGE") /\ UNCHANGED <<threads, isLog, heap>>
  BY DEF Broadcast
<1>2. c2s' \in [Conns -> Seq(Packets)]
  BY <1>1, ReadsMeans
<1>3. link' \in [Conns -> Links] /\ s2c' \in [Conns -> Seq(ToClient)] /\ down' \in Outcomes
  BY BroadcastMeans
<1> QED BY <1>1, <1>2, <1>3 DEF NetTypes, ServerTypes, threads

LEMMA QueryTyped ==
    ASSUME NetTypes, ServerTypes, NEW c \in Conns, Query(c)
    PROVE  NetTypes' /\ ServerTypes'
<1> DEFINE h == [heap EXCEPT !.fault = "segv"]
<1>1. /\ c2s' \in [Conns -> Seq(Packets)] /\ UNCHANGED <<sessionId, source, fd, isLog>>
      /\ \/ Silent(c, h, "recv")
         \/ Replies(c, heap, "recv", "QU_ACK")
  BY ReadsMeans DEF Query
<1>2. h \in Heaps /\ h.clientID = heap.clientID
  BY HeapNow DEF Heaps, Faults
<1> HIDE DEF h
<1>3. CASE Silent(c, h, "recv")
  BY <1>1, <1>2, <1>3, SilentTyped, PlaceNames DEF ServerTypes
<1>4. CASE Replies(c, heap, "recv", "QU_ACK")
  BY <1>1, <1>4, HeapNow, AnswerTyped, PlaceNames DEF ServerTypes
<1> QED BY <1>1, <1>3, <1>4

LEMMA HangupTyped ==
    ASSUME NetTypes, ServerTypes, NEW c \in Conns, Hangup(c)
    PROVE  NetTypes' /\ ServerTypes'
<1>1. PICK pc \in {"gone", "leave"} :
        /\ pc = IF source[c] = NoName THEN "gone" ELSE "leave"
        /\ \/ Reads(c, "EXIT") /\ Silent(c, heap, pc)
           \/ /\ IF source[c] = NoName
                 THEN Replies(c, [heap EXCEPT !.clientID[c] = NoName], pc, "LO_NAK")
                 ELSE Silent(c, heap, pc)
              /\ UNCHANGED c2s
        /\ UNCHANGED <<sessionId, source, fd, isLog>>
  BY DEF Hangup
<1>2. c2s' \in [Conns -> Seq(Packets)]
  BY <1>1, ReadsMeans DEF NetTypes
<1>3. CASE Silent(c, heap, pc)
  BY <1>1, <1>2, <1>3, HeapNow, SilentTyped, PlaceNames DEF ServerTypes
<1>4. CASE pc = "gone" /\ Replies(c, [heap EXCEPT !.clientID[c] = NoName], pc, "LO_NAK")
  <2> DEFINE h == [heap EXCEPT !.clientID[c] = NoName]
  <2>1. /\ h \in Heaps /\ h.fault = "none"
        /\ h.clientID = [heap.clientID EXCEPT ![c] = NoName]
    BY HeapNow, HeapNames
  <2>2. Replies(c, h, pc, "LO_NAK")
    BY <1>4
  <2> HIDE DEF h
  <2>3. \A d \in Conns \ {c} : h.clientID[d] = heap.clientID[d]
    <3>1. heap.clientID \in [Conns -> Users \cup {NoName}]
      BY HeapNow, HeapParts
    <3> QED BY <2>1, <3>1
  <2>4. pc \in {"recv", "gone"} /\ "LO_NAK" \in ToClient
    BY <1>4, PlaceNames
  <2>5. UNCHANGED <<sessionId, source, fd, isLog>>
    BY <1>1
  <2> QED BY ZenonT(40), <1>2, <2>1, <2>2, <2>3, <2>4, <2>5, AnswerTyped DEF ServerTypes
<1> QED BY <1>1, <1>3, <1>4

\* The heap ExitFrees leaves.
FreedHeap(c) ==
    IF c \in heap.freed THEN [heap EXCEPT !.fault = "abort"]
    ELSE [heap EXCEPT !.freed = @ \cup {c}, !.clientID[c] = NoName]

LEMMA FreedHeapMeans ==
    ASSUME ServerTypes, NEW c \in Conns
    PROVE  /\ FreedHeap(c) \in Heaps /\ FreedHeap(c).list = heap.list
           /\ FreedHeap(c).joined = heap.joined
           /\ \A d \in Conns \ {c} : FreedHeap(c).clientID[d] = heap.clientID[d]
           /\ FreedHeap(c).freed = heap.freed \cup {c}
           /\ FreedHeap(c).fault = IF c \in heap.freed THEN "abort" ELSE "none"
<1> DEFINE n == [heap.clientID EXCEPT ![c] = NoName]
<1>1. heap \in Heaps /\ heap.fault = "none"
  BY DEF ServerTypes
<1>2. n \in [Conns -> Users \cup {NoName}] /\ \A d \in Conns \ {c} : n[d] = heap.clientID[d]
  BY <1>1, HeapParts
<1>3. CASE c \in heap.freed
  BY <1>1, <1>3 DEF FreedHeap, Heaps, Faults
<1>4. CASE c \notin heap.freed
  <2>1. FreedHeap(c) = [heap EXCEPT !.freed = @ \cup {c}, !.clientID = n]
    BY <1>1, <1>4 DEF FreedHeap, Heaps
  <2> HIDE DEF n
  <2>2. heap.freed \cup {c} \in SUBSET Conns
    BY <1>1, HeapParts
  <2>3. /\ FreedHeap(c) \in Heaps /\ FreedHeap(c).list = heap.list
        /\ FreedHeap(c).joined = heap.joined /\ FreedHeap(c).clientID = n
        /\ FreedHeap(c).freed = heap.freed \cup {c} /\ FreedHeap(c).fault = "none"
    BY <1>1, <1>2, <2>1, <2>2 DEF Heaps
  <2> QED BY <1>2, <1>4, <2>3
<1> QED BY <1>3, <1>4

LEMMA ExitFreesTyped ==
    ASSUME NetTypes, ServerTypes, NEW c \in Conns, ExitFrees(c)
    PROVE  NetTypes' /\ ServerTypes'
<1>1. FreedHeap(c) \in Heaps
      /\ \A d \in Conns \ {c} : FreedHeap(c).clientID[d] = heap.clientID[d]
  BY FreedHeapMeans
<1>2. /\ Silent(c, FreedHeap(c), "gone") /\ UNCHANGED <<sessionId, source, fd, c2s>>
      /\ isLog' \in [Users -> BOOLEAN]
  BY DEF ExitFrees, FreedHeap, ServerTypes
<1> QED BY <1>1, <1>2, SilentTyped, PlaceNames DEF ServerTypes, NetTypes

LEMMA AcceptTyped ==
    ASSUME NetTypes, ServerTypes, NEW c \in Conns, Accept(c)
    PROVE  NetTypes' /\ ServerTypes'
<1>1. thr' = [thr EXCEPT ![c] = "recv"] /\ thr' \in [Conns -> Places]
  BY PlaceNames DEF Accept, ServerTypes
<1>2. fd' \in [Conns -> 0..(Cardinality(Conns) + 1)]
  <2>1. FreeFd \in 0..(Cardinality(Conns) + 1)
    <3>1. Cardinality(Conns) \in Nat
      BY NamesAssumption, FS_CardinalityType
    <3> QED BY <3>1, FreeFdMeans
  <2> QED BY <2>1 DEF Accept, ServerTypes
<1>3. UNCHANGED <<sessionId, source, isLog, heap, down, net>>
  BY DEF Accept
<1>4. /\ \A d \in Conns : thr'[d] \in {"joining", "created"} => sessionId'[d] \in SessIds
      /\ \A d \in Conns : thr'[d] = "granted" => heap'.clientID[d] \in Users
  BY <1>1, <1>3, PlacesFit, PlaceNames
<1> QED BY <1>1, <1>2, <1>3, <1>4 DEF NetTypes, ServerTypes, net

\* Every step of the server keeps the types.
LEMMA ServerTyped ==
    ASSUME NetTypes, ServerTypes, NEW c \in Conns,
           \/ Accept(c)
           \/ ThreadStep(c)
    PROVE  NetTypes' /\ ServerTypes'
<1>1. CASE RecvFails(c)
  BY <1>1 DEF RecvFails, NetTypes, ServerTypes, Outcomes, threads, net
<1> QED BY <1>1, AcceptTyped, LoginTyped, GrantTyped, JoinTyped, JoinLockedTyped,
           LeaveTyped, NewSessTyped, JoinCreatedTyped, BroadcastTyped, QueryTyped,
           HangupTyped, ExitFreesTyped DEF ThreadStep

\* A client's packet joins its queue; to close empties the other.
LEMMA SendsMeans ==
    ASSUME NetTypes, NEW c \in Conns, NEW type, NEW arg,
           [type |-> type, arg |-> arg] \in Packets, Sends(c, type, arg)
    PROVE  /\ c2s' \in [Conns -> Seq(Packets)]
           /\ c2s'[c] = Append(c2s[c], [type |-> type, arg |-> arg])
           /\ \A d \in Conns \ {c} : c2s'[d] = c2s[d]
<1> DEFINE p == [type |-> type, arg |-> arg]
<1>1. c2s' = [c2s EXCEPT ![c] = Append(@, p)] /\ p \in Packets
  BY DEF Sends
<1> HIDE DEF p
<1>2. c2s \in [Conns -> Seq(Packets)]
  BY DEF NetTypes
<1>3. /\ c2s' \in [Conns -> Seq(Packets)] /\ c2s'[c] = Append(c2s[c], p)
      /\ \A d \in Conns \ {c} : c2s'[d] = c2s[d]
  BY <1>1, <1>2
<1> QED BY <1>3 DEF p

LEMMA ClosesMeans ==
    ASSUME NetTypes, NEW c \in Conns, NEW unread, Closes(c, unread)
    PROVE  /\ link' \in [Conns -> Links] /\ s2c' \in [Conns -> Seq(ToClient)]
           /\ link'[c] \in {"fin", "rst"} /\ s2c'[c] = <<>>
           /\ \A d \in Conns \ {c} : link'[d] = link[d] /\ s2c'[d] = s2c[d]
<1>1. <<>> \in Seq(ToClient) /\ "fin" \in Links /\ "rst" \in Links
  BY DEF Links
<1> QED BY <1>1 DEF Closes, NetTypes

\* The client takes the first packet of its queue.
LEMMA TakesMeans ==
    ASSUME NetTypes, NEW c \in Conns, s2c[c] # <<>>,
           s2c' = [s2c EXCEPT ![c] = Tail(@)]
    PROVE  /\ s2c[c] \in Seq(ToClient) /\ Len(s2c[c]) > 0
           /\ Head(s2c[c]) = s2c[c][1] /\ Head(s2c[c]) \in ToClient
           /\ s2c' \in [Conns -> Seq(ToClient)] /\ s2c'[c] = Tail(s2c[c])
           /\ \A d \in Conns \ {c} : s2c'[d] = s2c[d]
<1>1. s2c \in [Conns -> Seq(ToClient)]
  BY DEF NetTypes
<1>2. \A q \in Seq(ToClient) : q # <<>> =>
        Len(q) > 0 /\ Head(q) = q[1] /\ Head(q) \in ToClient /\ Tail(q) \in Seq(ToClient)
  OBVIOUS
<1> QED BY <1>1, <1>2

\* What the user types is put in words the server knows.
LEMMA PacketKinds ==
    /\ \A u \in Users \cup {NoName} : [type |-> "LOGIN", arg |-> u] \in Packets
    /\ \A s \in SessIds, t \in {"JOIN", "NEW_SESS"} : [type |-> t, arg |-> s] \in Packets
    /\ \A t \in {"LEAVE_SESS", "MESSAGE", "QUERY", "EXIT"} :
          [type |-> t, arg |-> NoName] \in Packets
BY DEF Packets

LEMMA ClientTyped ==
    ASSUME TypeInv, NEW c \in Conns, ClientStep(c)
    PROVE  NetTypes' /\ ClientTypes'
<1> USE DEF TypeInv
<1>1. CASE LoginCmd(c)
  <2>1. PICK u \in Users \cup {NoName} : Sends(c, "LOGIN", u)
    BY <1>1 DEF LoginCmd
  <2>2. c2s' \in [Conns -> Seq(Packets)]
    BY <2>1, SendsMeans, PacketKinds
  <2> QED BY <1>1, <2>2 DEF LoginCmd, NetTypes, ClientTypes, Links
<1>2. CASE LoginReply(c)
  <2>1. /\ ui' \in [Conns -> {"off", "login", "on", "out"}]
        /\ UNCHANGED <<insession, awaiting, cmds, c2s>>
    BY <1>2 DEF LoginReply, ClientTypes
  <2>2. link' \in [Conns -> Links] /\ s2c' \in [Conns -> Seq(ToClient)]
    <3>1. CASE s2c' = [s2c EXCEPT ![c] = Tail(@)] /\ UNCHANGED link
      BY <1>2, <3>1, TakesMeans DEF LoginReply, NetTypes
    <3>2. CASE Closes(c, Tail(s2c[c]))
      BY <3>2, ClosesMeans
    <3> QED BY <1>2, <3>1, <3>2 DEF LoginReply
  <2> QED BY <2>1, <2>2 DEF NetTypes, ClientTypes
<1>3. ASSUME Types(c)
      PROVE  /\ UNCHANGED <<ui, link, s2c>> /\ cmds' \in [Conns -> 0..MaxCmds]
  <2>1. cmds[c] \in 0..MaxCmds /\ cmds[c] < MaxCmds
    BY <1>3 DEF Types, ClientTypes
  <2>2. cmds[c] + 1 \in 0..MaxCmds
    BY <2>1, ClientAssumption
  <2> QED BY <1>3, <2>2 DEF Types, ClientTypes
<1>4. ASSUME Types(c), c2s' \in [Conns -> Seq(Packets)],
             insession' \in [Conns -> BOOLEAN], awaiting' \in [Conns -> BOOLEAN]
      PROVE  NetTypes' /\ ClientTypes'
  BY <1>3, <1>4 DEF NetTypes, ClientTypes
<1>5. CASE JoinCmd(c)
  <2>1. PICK s \in SessIds : Sends(c, "JOIN", s)
    BY <1>5 DEF JoinCmd
  <2>2. c2s' \in [Conns -> Seq(Packets)]
    BY <2>1, SendsMeans, PacketKinds
  <2> QED BY <1>4, <1>5, <2>2 DEF JoinCmd, ClientTypes
<1>6. CASE CreateCmd(c)
  <2>1. PICK s \in SessIds : Sends(c, "NEW_SESS", s)
    BY <1>6 DEF CreateCmd
  <2>2. c2s' \in [Conns -> Seq(Packets)]
    BY <2>1, SendsMeans, PacketKinds
  <2> QED BY <1>4, <1>6, <2>2 DEF CreateCmd, ClientTypes
<1>7. CASE LeaveCmd(c)
  <2>1. c2s' \in [Conns -> Seq(Packets)]
    BY <1>7, SendsMeans, PacketKinds DEF LeaveCmd
  <2> QED BY <1>4, <1>7, <2>1 DEF LeaveCmd, ClientTypes
<1>8. CASE ListCmd(c)
  <2>1. c2s' \in [Conns -> Seq(Packets)]
    BY <1>8, SendsMeans, PacketKinds DEF ListCmd
  <2> QED BY <1>4, <1>8, <2>1 DEF ListCmd, ClientTypes
<1>9. CASE SendText(c)
  <2>1. c2s' \in [Conns -> Seq(Packets)]
    BY <1>9, SendsMeans, PacketKinds DEF SendText
  <2> QED BY <1>4, <1>9, <2>1 DEF SendText, ClientTypes
<1>10. CASE LogoutCmd(c)
  <2>1. c2s' \in [Conns -> Seq(Packets)]
    BY <1>10, SendsMeans, PacketKinds DEF LogoutCmd
  <2>2. link' \in [Conns -> Links] /\ s2c' \in [Conns -> Seq(ToClient)]
    BY <1>10, ClosesMeans DEF LogoutCmd
  <2> QED BY <1>10, <2>1, <2>2 DEF LogoutCmd, NetTypes, ClientTypes
<1>11. CASE Kill(c)
  <2>1. link' \in [Conns -> Links] /\ s2c' \in [Conns -> Seq(ToClient)]
    BY <1>11, ClosesMeans DEF Kill
  <2> QED BY <1>11, <2>1 DEF Kill, NetTypes, ClientTypes
<1>12. CASE Receive(c)
  <2>1. s2c' \in [Conns -> Seq(ToClient)]
    BY <1>12, TakesMeans DEF Receive
  <2>2. /\ insession' \in [Conns -> BOOLEAN] /\ awaiting' \in [Conns -> BOOLEAN]
        /\ UNCHANGED <<ui, cmds, link, c2s>>
    BY <1>12 DEF Receive, ClientTypes
  <2> QED BY <2>1, <2>2 DEF NetTypes, ClientTypes
<1> QED BY <1>1, <1>2, <1>5, <1>6, <1>7, <1>8, <1>9, <1>10, <1>11, <1>12 DEF ClientStep

-----------------------------------------------------------------------------
LEMMA InitTyped == Init => TypeInv
<1> SUFFICES ASSUME Init PROVE TypeInv
  OBVIOUS
<1> USE DEF Init
<1>1. NetTypes
  BY DEF NetInit, NetTypes, Links
<1>2. ServerTypes
  <2>1. Cardinality(Conns) \in Nat
    BY NamesAssumption, FS_CardinalityType
  <2>2. heap \in Heaps /\ heap.fault = "none"
    BY EmptyHeapIsHeap DEF ServerInit, EmptyHeap
  <2> QED BY <2>1, <2>2 DEF ServerInit, ServerTypes, Places, Between, Outcomes
<1>3. ClientTypes
  BY ClientAssumption DEF ClientInit, ClientTypes
<1> QED BY <1>1, <1>2, <1>3 DEF TypeInv

LEMMA NextTyped == TypeInv /\ [Next]_vars => TypeInv'
<1> SUFFICES ASSUME TypeInv, [Next]_vars PROVE TypeInv'
  OBVIOUS
<1>1. CASE UNCHANGED vars
  BY <1>1 DEF vars, net, server, threads, clients, TypeInv, NetTypes, ServerTypes,
              ClientTypes
<1>2. ASSUME NEW c \in Conns, Accept(c) \/ ThreadStep(c), UNCHANGED clients
      PROVE  TypeInv'
  <2>1. NetTypes' /\ ServerTypes'
    BY <1>2, ServerTyped DEF TypeInv
  <2>2. ClientTypes'
    BY <1>2 DEF TypeInv, ClientTypes, clients
  <2> QED BY <2>1, <2>2 DEF TypeInv
<1>3. ASSUME NEW c \in Conns, ClientStep(c), UNCHANGED server
      PROVE  TypeInv'
  <2>1. NetTypes' /\ ClientTypes'
    BY <1>3, ClientTyped
  <2>2. ServerTypes'
    BY <1>3 DEF TypeInv, ServerTypes, server, threads
  <2> QED BY <2>1, <2>2 DEF TypeInv
<1> QED BY <1>1, <1>2, <1>3 DEF Next

LEMMA TypeInvHolds == Spec => []TypeInv
BY InitTyped, NextTyped, PTL DEF Spec

RaceTypes == twins \in BOOLEAN /\ missed \subseteq Conns /\ strayed \subseteq Conns

LEMMA RaceTypesHold == Spec => []RaceTypes
<1>1. Init => RaceTypes
  BY DEF Init, RaceTypes
<1>2. RaceTypes /\ [Next]_vars => RaceTypes'
  BY DEF RaceTypes, Next, Recorded, vars, races
<1> QED BY <1>1, <1>2, PTL DEF Spec

\* Every variable has its type: every packet and reply is one the other side
\* knows, descriptors are taken from as many as can be in use at once, and the
\* lists hold connections and names only.
THEOREM TypeCorrect == Spec => []TypeOK
<1>1. TypeInv /\ RaceTypes => TypeOK
  <2> SUFFICES ASSUME TypeInv, RaceTypes PROVE TypeOK
    OBVIOUS
  <2>1. link \in [Conns -> {"none", "open", "fin", "finrst", "rst"}]
    BY DEF TypeInv, NetTypes, Links
  <2>2. ASSUME NEW c \in Conns
        PROVE  /\ \A i \in DOMAIN c2s[c] : c2s[c][i].type \in ToServer
               /\ \A i \in DOMAIN s2c[c] : s2c[c][i] \in ToClient
    <3>1. c2s[c] \in Seq(Packets) /\ s2c[c] \in Seq(ToClient)
      BY DEF TypeInv, NetTypes
    <3> QED BY <3>1, PacketArgs
  <2>3. heap \in Heaps /\ heap.fault = "none"
    BY DEF TypeInv, ServerTypes
  <2>4. ASSUME NEW i \in DOMAIN heap.list
        PROVE  /\ heap.list[i].id \in SessIds
               /\ heap.list[i].head \in Conns \cup {NULL}
               /\ heap.list[i].sz \in Int
    <3>1. heap.list[i] \in SessionRecords
      BY <2>3, HeapParts
    <3> QED BY <3>1 DEF SessionRecords, Pointers
  <2>5. /\ heap.next \in [Conns -> Conns \cup {NULL}]
        /\ heap.joined \in [Conns -> Seq(SessIds \cup {NoName})]
        /\ heap.clientID \in [Conns -> Users \cup {NoName}]
        /\ heap.freed \subseteq Conns
    BY <2>3, HeapParts DEF Pointers
  <2> QED BY <2>1, <2>2, <2>3, <2>4, <2>5
          DEF TypeInv, ServerTypes, ClientTypes, RaceTypes, TypeOK, Places, Outcomes
<1> QED BY <1>1, TypeInvHolds, RaceTypesHold, PTL

-----------------------------------------------------------------------------
(***************************************************************************)
(* What isLog means.  A flag that is set is the flag of a connection that  *)
(* is logged in: the CoClient holds the name of its connection's user, or  *)
(* it was freed, and then freeing it again ends the server.  The converse, *)
(* and that there is one such connection, holds until two LOGINs of one    *)
(* user are both past the test of isLog: what a LOGIN has found unset      *)
(* stays so until it sets it, since nobody else can.                       *)
(***************************************************************************)
Flags ==
    down = "up" =>
        /\ \A c \in Conns : thr[c] = "granted" => source[c] = NoName
        /\ \A c \in Conns : thr[c] = "leave" => source[c] # NoName
        /\ \A c \in Conns : source[c] # NoName =>
              \/ heap.clientID[c] = source[c]
              \/ c \in heap.freed
        /\ \A u \in Users : isLog[u] => \E c \in Conns : source[c] = u /\ thr[c] # "gone"

OneLogin ==
    ~twins /\ down = "up" =>
        /\ ~TwinLogins
        /\ \A c \in Conns : thr[c] = "granted" => ~isLog[heap.clientID[c]]
        /\ \A c \in Conns : source[c] # NoName /\ thr[c] # "gone" => isLog[source[c]]
        /\ \A c, d \in Conns :
              /\ source[c] # NoName /\ source[c] = source[d]
              /\ thr[c] # "gone" /\ thr[d] # "gone"
              => c = d

\* A step of c that neither logs in nor frees the client on its way out.
Calm(c, pc) ==
    /\ down = "up" /\ thr[c] # "gone"
    /\ thr' = [thr EXCEPT ![c] = pc] /\ source' = source /\ isLog' = isLog
    /\ heap.freed \subseteq heap'.freed
    /\ \A d \in Conns \ {c} : heap'.clientID[d] = heap.clientID[d]
    /\ \/ heap'.clientID[c] = heap.clientID[c]
       \/ heap'.clientID[c] = source[c]
       \/ source[c] = NoName
       \/ c \in heap'.freed
    /\ pc = "granted" => source[c] = NoName /\ ~isLog[heap'.clientID[c]]
    /\ pc = "leave" => source[c] # NoName
    /\ pc = "gone" => source[c] = NoName

LEMMA CalmKeeps ==
    ASSUME TypeInv, Flags, OneLogin, NEW c \in Conns, NEW pc \in Places, Calm(c, pc),
           twins' = (twins \/ TwinLogins')
    PROVE  Flags' /\ OneLogin'
<1>1. /\ thr \in [Conns -> Places] /\ source \in [Conns -> Users \cup {NoName}]
      /\ isLog \in [Users -> BOOLEAN]
  BY DEF TypeInv, ServerTypes
<1>2. down = "up"
  BY DEF Calm
<1>3. /\ thr'[c] = pc /\ \A d \in Conns \ {c} : thr'[d] = thr[d]
      /\ source' = source /\ isLog' = isLog
  BY <1>1 DEF Calm
<1>4. Flags'
  <2>1. ASSUME NEW d \in Conns
        PROVE  /\ thr'[d] = "granted" => source'[d] = NoName
               /\ thr'[d] = "leave" => source'[d] # NoName
               /\ source'[d] # NoName =>
                     heap'.clientID[d] = source'[d] \/ d \in heap'.freed
    <3>1. CASE d = c
      BY <1>2, <1>3, <3>1 DEF Calm, Flags
    <3>2. CASE d # c
      BY <1>2, <1>3, <3>2 DEF Calm, Flags
    <3> QED BY <3>1, <3>2
  <2>2. ASSUME NEW u \in Users, isLog'[u]
        PROVE  \E d \in Conns : source'[d] = u /\ thr'[d] # "gone"
    <3>1. PICK d \in Conns : source[d] = u /\ thr[d] # "gone"
      BY <1>2, <1>3, <2>2 DEF Flags
    <3>2. thr'[d] # "gone"
      BY <1>3, <3>1, NamesAssumption DEF Calm
    <3> QED BY <1>3, <3>1, <3>2
  <2> QED BY <2>1, <2>2 DEF Flags
<1>5. OneLogin'
  <2> SUFFICES ASSUME ~twins'
               PROVE  OneLogin'
    BY DEF OneLogin
  <2>1. ~twins /\ ~TwinLogins'
    OBVIOUS
  <2>2. ASSUME NEW d \in Conns, thr'[d] = "granted" PROVE ~isLog'[heap'.clientID[d]]
    <3>1. CASE d = c
      BY <1>3, <2>2, <3>1 DEF Calm
    <3>2. CASE d # c
      BY <1>2, <1>3, <2>1, <2>2, <3>2 DEF Calm, OneLogin
    <3> QED BY <3>1, <3>2
  <2>3. ASSUME NEW d \in Conns, source'[d] # NoName, thr'[d] # "gone"
        PROVE  thr[d] # "gone" /\ source[d] # NoName
    BY <1>3, <2>3 DEF Calm
  <2> QED BY <1>2, <1>3, <2>1, <2>2, <2>3 DEF OneLogin
<1> QED BY <1>4, <1>5

\* Every step but Grant and ExitFrees is calm, or the server's last.
LEMMA CalmSteps ==
    ASSUME TypeInv, Flags, NEW c \in Conns, down' = "up",
           \/ Accept(c)
           \/ ThreadStep(c) /\ ~Grant(c) /\ ~ExitFrees(c)
    PROVE  \E pc \in Places : Calm(c, pc)
<1>1. /\ heap \in Heaps /\ heap.fault = "none"
      /\ heap.clientID \in [Conns -> Users \cup {NoName}]
      /\ source \in [Conns -> Users \cup {NoName}]
      /\ NetTypes /\ ServerTypes
  BY HeapParts DEF TypeInv, ServerTypes
\* A reply, after which c reads on or is done, with a heap like the last one.
<1>2. ASSUME NEW h \in Heaps, NEW m \in ToClient, NEW pc \in {"recv", "gone"},
             Replies(c, h, pc, m), down = "up", thr[c] # "gone", source' = source,
             isLog' = isLog, heap.freed \subseteq h.freed,
             \A d \in Conns \ {c} : h.clientID[d] = heap.clientID[d],
             \/ h.clientID[c] = heap.clientID[c]
             \/ h.clientID[c] = source[c]
             \/ source[c] = NoName,
             pc = "gone" => source[c] = NoName
      PROVE  Calm(c, pc)
  <2>1. Replied(c, h, pc, m)
    BY <1>1, <1>2, RepliesMeans, PlaceNames
  <2> QED BY <1>2, <2>1 DEF Calm, Replied
\* No reply.
<1>3. ASSUME NEW h \in Heaps, NEW pc \in Places,
             Silent(c, h, pc), down = "up", thr[c] # "gone", source' = source,
             isLog' = isLog, heap.freed \subseteq h.freed,
             \A d \in Conns \ {c} : h.clientID[d] = heap.clientID[d],
             h.clientID[c] = heap.clientID[c] \/ source[c] = NoName \/ c \in h.freed,
             pc = "granted" => source[c] = NoName /\ ~isLog[h.clientID[c]],
             pc = "leave" => source[c] # NoName,
             pc = "gone" => source[c] = NoName
      PROVE  \E to \in Places : Calm(c, to)
  <2> DEFINE to == IF h.fault = "hang" THEN Looping(pc) ELSE pc
  <2>1. /\ thr' = [thr EXCEPT ![c] = to]
        /\ heap'.freed = h.freed /\ heap'.clientID = h.clientID
    BY <1>1, <1>3, EndsMeans DEF Silent
  <2>2. to \in Places /\ (to = pc \/ to \in {"stuck", "lost"})
    BY PlaceNames DEF Looping
  <2> HIDE DEF to
  <2>3. Calm(c, to)
    BY <1>3, <2>1, <2>2 DEF Calm
  <2> QED BY <2>2, <2>3
<1>4. CASE Accept(c)
  <2>1. Calm(c, "recv")
    BY <1>4 DEF Accept, Calm
  <2> QED BY <2>1, PlaceNames
<1>5. CASE Login(c)
  <2>1. Reads(c, "LOGIN") /\ source[c] = NoName /\ UNCHANGED <<source, isLog>>
    BY <1>5 DEF Login
  <2>2. PICK a \in Users \cup {NoName} : a = Arg(c)
    BY <1>1, <2>1, ReadsMeans, PacketArgs
  <2> DEFINE h == [heap EXCEPT !.clientID[c] = a]
  <2>3. h \in Heaps /\ h.freed = heap.freed /\ h.clientID = [heap.clientID EXCEPT ![c] = a]
    BY <1>1, HeapNames
  <2>4. \/ ~isLog[a] /\ Silent(c, h, "granted")
        \/ Replies(c, h, "recv", "LO_NAK")
    BY <1>5, <2>2 DEF Login
  <2> HIDE DEF h
  <2>5. thr[c] # "gone" /\ down = "up"
    BY <2>1 DEF Reads
  <2>6. h.clientID[c] = a /\ \A d \in Conns \ {c} : h.clientID[d] = heap.clientID[d]
    BY <1>1, <2>3
  <2>7. CASE ~isLog[a] /\ Silent(c, h, "granted")
    BY <1>3, <2>1, <2>3, <2>5, <2>6, <2>7, PlaceNames
  <2>8. CASE Replies(c, h, "recv", "LO_NAK")
    BY <1>2, <2>1, <2>3, <2>5, <2>6, <2>8, PlaceNames
  <2> QED BY <2>4, <2>7, <2>8
<1>6. CASE Join(c)
  <2>1. /\ down = "up" /\ thr[c] # "gone" /\ UNCHANGED <<source, isLog>>
        /\ \/ Replies(c, heap, "recv", "JN_NAK")
           \/ Silent(c, heap, "joining")
    BY <1>6 DEF Join, Reads
  <2> QED BY <1>1, <1>2, <1>3, <2>1, PlaceNames
<1>7. CASE JoinLocked(c)
  <2> DEFINE h == JoinSess(ResetHeap(c), c, sessionId[c])
  <2>1. sessionId[c] \in SessIds
    BY <1>1, <1>7 DEF JoinLocked, ServerTypes
  <2>2. /\ h \in Heaps /\ h.freed = heap.freed
        /\ h.clientID = [heap.clientID EXCEPT ![c] = source[c]]
    <3>1. /\ ResetHeap(c) \in Heaps /\ ResetHeap(c).freed = heap.freed
          /\ ResetHeap(c).clientID = [heap.clientID EXCEPT ![c] = source[c]]
      BY <1>1, ResetHeapMeans
    <3>2. h \in Heaps /\ h.clientID = ResetHeap(c).clientID /\ h.freed = ResetHeap(c).freed
      BY <2>1, <3>1, JoinSessKeeps
    <3> QED BY <3>1, <3>2
  <2>3. /\ down = "up" /\ thr[c] # "gone" /\ UNCHANGED <<source, isLog>>
        /\ \/ Replies(c, h, "recv", "JN_ACK")
           \/ /\ heap' = [h EXCEPT !.fault = "none"]
              /\ thr' = [thr EXCEPT ![c] = "locked"]
    BY <1>7 DEF JoinLocked, ResetHeap
  <2> HIDE DEF h
  <2>4. h.clientID[c] = source[c] /\ \A d \in Conns \ {c} : h.clientID[d] = heap.clientID[d]
    BY <1>1, <2>2
  <2>5. CASE Replies(c, h, "recv", "JN_ACK")
    BY <1>2, <2>2, <2>3, <2>4, <2>5, PlaceNames
  <2>6. CASE heap' = [h EXCEPT !.fault = "none"] /\ thr' = [thr EXCEPT ![c] = "locked"]
    <3>1. heap'.clientID = h.clientID /\ heap'.freed = h.freed
      BY <2>2, <2>6 DEF Heaps
    <3>2. Calm(c, "locked")
      BY <2>2, <2>3, <2>4, <2>6, <3>1 DEF Calm
    <3> QED BY <3>2, PlaceNames
  <2> QED BY <2>3, <2>5, <2>6
<1>8. CASE Leave(c) \/ ExitLeaves(c)
  <2> DEFINE h == LeaveSess(heap, c)
  <2>1. /\ h \in Heaps /\ heap.freed \subseteq h.freed
        /\ \A d \in Conns \ {c} : h.clientID[d] = heap.clientID[d]
        /\ h.clientID[c] = heap.clientID[c] \/ c \in h.freed
    BY <1>1, LeaveSessKeeps
  <2>2. PICK pc \in {"recv", "leave"} :
          /\ down = "up" /\ thr[c] # "gone" /\ UNCHANGED <<source, isLog>>
          /\ Silent(c, h, pc) /\ (pc = "leave" => thr[c] = "leave")
    BY <1>8 DEF Leave, ExitLeaves, Reads
  <2>3. pc = "leave" => source[c] # NoName
    BY <2>2 DEF Flags
  <2> HIDE DEF h
  <2> QED BY <1>3, <2>1, <2>2, <2>3, PlaceNames
<1>9. CASE NewSess(c)
  <2> DEFINE h == CreateSess(heap, Arg(c))
  <2>1. Reads(c, "NEW_SESS") /\ Silent(c, h, "created") /\ UNCHANGED <<source, isLog>>
    BY <1>9 DEF NewSess
  <2>2. h \in Heaps /\ h.clientID = heap.clientID /\ h.freed = heap.freed
    <3>1. Arg(c) \in SessIds
      BY <1>1, <2>1, ReadsMeans, PacketArgs
    <3> QED BY <1>1, <3>1, CreateSessKeeps
  <2>3. down = "up" /\ thr[c] # "gone"
    BY <2>1 DEF Reads
  <2> HIDE DEF h
  <2> QED BY <1>3, <2>1, <2>2, <2>3, PlaceNames
<1>10. CASE JoinCreated(c)
  <2> DEFINE h == JoinSess(heap, c, sessionId[c])
  <2>1. sessionId[c] \in SessIds
    BY <1>1, <1>10 DEF JoinCreated, ServerTypes
  <2>2. h \in Heaps /\ h.freed = heap.freed /\ h.clientID = heap.clientID
    BY <1>1, <2>1, JoinSessKeeps
  <2>3. /\ down = "up" /\ thr[c] # "gone" /\ UNCHANGED <<source, isLog>>
        /\ Replies(c, h, "recv", "NS_ACK") \/ Silent(c, h, "recv")
    BY <1>10 DEF JoinCreated
  <2> HIDE DEF h
  <2> QED BY <1>2, <1>3, <2>2, <2>3, PlaceNames
<1>11. CASE Broadcast(c)
  <2>1. Calm(c, "recv")
    BY <1>1, <1>11 DEF Broadcast, Reads, threads, Calm, ServerTypes
  <2> QED BY <2>1, PlaceNames
<1>12. CASE Query(c)
  <2> DEFINE h == [heap EXCEPT !.fault = "segv"]
  <2>1. /\ down = "up" /\ thr[c] # "gone" /\ UNCHANGED <<source, isLog>>
        /\ Silent(c, h, "recv") \/ Replies(c, heap, "recv", "QU_ACK")
    BY <1>12 DEF Query, Reads
  <2>2. h \in Heaps /\ h.clientID = heap.clientID /\ h.freed = heap.freed
    BY <1>1 DEF Heaps, Faults
  <2> HIDE DEF h
  <2> QED BY <1>1, <1>2, <1>3, <2>1, <2>2, PlaceNames
<1>13. CASE Hangup(c)
  <2> DEFINE h == [heap EXCEPT !.clientID[c] = NoName]
  <2>1. /\ down = "up" /\ thr[c] # "gone" /\ UNCHANGED <<source, isLog>>
        /\ \/ source[c] = NoName /\ Silent(c, heap, "gone")
           \/ source[c] # NoName /\ Silent(c, heap, "leave")
           \/ source[c] = NoName /\ Replies(c, h, "gone", "LO_NAK")
    BY <1>13 DEF Hangup, Reads
  <2>2. /\ h \in Heaps /\ h.freed = heap.freed
        /\ \A d \in Conns \ {c} : h.clientID[d] = heap.clientID[d]
    BY <1>1, HeapNames
  <2> HIDE DEF h
  <2> QED BY <1>1, <1>2, <1>3, <2>1, <2>2, PlaceNames
<1>14. CASE RecvFails(c)
  BY <1>14 DEF RecvFails
<1> QED BY <1>4, <1>5, <1>6, <1>7, <1>8, <1>9, <1>10, <1>11, <1>12, <1>13, <1>14
        DEF ThreadStep

LEMMA GrantKeepsFlags ==
    ASSUME TypeInv, Flags, OneLogin, NEW c \in Conns, Grant(c),
           twins' = (twins \/ TwinLogins')
    PROVE  Flags' /\ OneLogin'
<1>1. /\ thr \in [Conns -> Places] /\ source \in [Conns -> Users \cup {NoName}]
      /\ isLog \in [Users -> BOOLEAN] /\ heap.clientID[c] \in Users
      /\ NetTypes /\ ServerTypes
  BY DEF TypeInv, ServerTypes, Grant
<1>2. PICK u \in Users : u = heap.clientID[c]
  BY <1>1
<1>3. down = "up" /\ thr[c] = "granted" /\ source[c] = NoName
  BY DEF Grant, Flags
<1>4. heap' = heap /\ thr' = [thr EXCEPT ![c] = "recv"]
  <2>1. Replied(c, heap, "recv", "LO_ACK")
    BY <1>1, RepliesMeans, PlaceNames DEF Grant
  <2> QED BY <2>1 DEF Replied
<1>5. /\ thr'[c] = "recv" /\ \A d \in Conns \ {c} : thr'[d] = thr[d]
      /\ source'[c] = u /\ \A d \in Conns \ {c} : source'[d] = source[d]
      /\ isLog'[u] /\ \A v \in Users \ {u} : isLog'[v] = isLog[v]
  BY <1>1, <1>2, <1>4 DEF Grant
<1>6. u # NoName
  BY NamesAssumption
<1>7. Flags'
  <2>1. ASSUME NEW d \in Conns
        PROVE  /\ thr'[d] = "granted" => source'[d] = NoName
               /\ thr'[d] = "leave" => source'[d] # NoName
               /\ source'[d] # NoName =>
                     heap'.clientID[d] = source'[d] \/ d \in heap'.freed
    <3>1. CASE d = c
      BY <1>2, <1>4, <1>5, <3>1
    <3>2. CASE d # c
      BY <1>3, <1>4, <1>5, <3>2 DEF Flags
    <3> QED BY <3>1, <3>2
  <2>2. ASSUME NEW v \in Users, isLog'[v]
        PROVE  \E d \in Conns : source'[d] = v /\ thr'[d] # "gone"
    <3>1. CASE v = u
      BY <1>5, <3>1
    <3>2. CASE v # u
      <4>1. PICK d \in Conns : source[d] = v /\ thr[d] # "gone"
        BY <1>3, <1>5, <2>2, <3>2 DEF Flags
      <4>2. d # c
        BY <1>3, <4>1, NamesAssumption
      <4> QED BY <1>5, <4>1, <4>2
    <3> QED BY <3>1, <3>2
  <2> QED BY <2>1, <2>2 DEF Flags
<1>8. OneLogin'
  <2> SUFFICES ASSUME ~twins'
               PROVE  OneLogin'
    BY DEF OneLogin
  <2>1. ~twins /\ ~TwinLogins' /\ ~TwinLogins
    BY <1>3 DEF OneLogin
  <2>2. ~isLog[u]
    BY <1>2, <1>3, <2>1 DEF OneLogin
  <2>3. ASSUME NEW d \in Conns \ {c}, source'[d] # NoName, thr'[d] # "gone"
        PROVE  source'[d] # u /\ source[d] = source'[d] /\ thr[d] # "gone"
    BY <1>3, <1>5, <2>1, <2>2, <2>3 DEF OneLogin
  <2>4. ASSUME NEW d \in Conns, source'[d] # NoName, thr'[d] # "gone"
        PROVE  isLog'[source'[d]]
    <3>1. CASE d = c
      BY <1>5, <3>1
    <3>2. CASE d # c
      <4>1. isLog[source'[d]] /\ source'[d] # u /\ source'[d] \in Users
        BY <1>1, <1>3, <2>1, <2>3, <2>4, <3>2 DEF OneLogin
      <4> QED BY <1>5, <4>1
    <3> QED BY <3>1, <3>2
  <2>5. ASSUME NEW d \in Conns, NEW e \in Conns, source'[d] # NoName,
               source'[d] = source'[e], thr'[d] # "gone", thr'[e] # "gone"
        PROVE  d = e
    <3>1. CASE d = c
      BY <1>5, <2>3, <2>5, <3>1
    <3>2. CASE e = c
      BY <1>5, <2>3, <2>5, <3>2
    <3>3. CASE d # c /\ e # c
      BY <1>3, <2>1, <2>3, <2>5, <3>3 DEF OneLogin
    <3> QED BY <3>1, <3>2, <3>3
  <2>6. ASSUME NEW d \in Conns, thr'[d] = "granted" PROVE ~isLog'[heap'.clientID[d]]
    <3>1. d # c /\ thr[d] = "granted"
      BY <1>5, <2>6
    <3>2. heap.clientID[d] # u /\ heap.clientID[d] \in Users /\ ~isLog[heap.clientID[d]]
      BY <1>1, <1>2, <1>3, <2>1, <3>1 DEF TwinLogins, OneLogin, ServerTypes
    <3> QED BY <1>4, <1>5, <3>2
  <2> QED BY <2>1, <2>4, <2>5, <2>6 DEF OneLogin
<1> QED BY <1>7, <1>8

LEMMA ExitFreesKeepsFlags ==
    ASSUME TypeInv, Flags, OneLogin, NEW c \in Conns, ExitFrees(c), down' = "up",
           twins' = (twins \/ TwinLogins')
    PROVE  Flags' /\ OneLogin'
<1>1. /\ thr \in [Conns -> Places] /\ source \in [Conns -> Users \cup {NoName}]
      /\ isLog \in [Users -> BOOLEAN] /\ ServerTypes
  BY DEF TypeInv, ServerTypes
<1>2. down = "up" /\ thr[c] = "leave" /\ source[c] # NoName /\ source' = source
  BY DEF ExitFrees, Flags
<1>3. /\ FreedHeap(c).fault = "none" /\ c \notin heap.freed
      /\ thr' = [thr EXCEPT ![c] = "gone"] /\ heap'.freed = heap.freed \cup {c}
      /\ \A d \in Conns \ {c} : heap'.clientID[d] = heap.clientID[d]
  <2>1. /\ FreedHeap(c) \in Heaps /\ FreedHeap(c).freed = heap.freed \cup {c}
        /\ \A d \in Conns \ {c} : FreedHeap(c).clientID[d] = heap.clientID[d]
        /\ FreedHeap(c).fault = IF c \in heap.freed THEN "abort" ELSE "none"
    BY <1>1, FreedHeapMeans
  <2>2. Silent(c, FreedHeap(c), "gone")
    BY DEF ExitFrees, FreedHeap
  <2>3. /\ heap'.freed = FreedHeap(c).freed /\ heap'.clientID = FreedHeap(c).clientID
        /\ thr' = [thr EXCEPT ![c] =
                     IF FreedHeap(c).fault = "hang" THEN Looping("gone") ELSE "gone"]
        /\ down' = IF FreedHeap(c).fault \in {"none", "hang"} THEN down
                   ELSE FreedHeap(c).fault
    BY <1>1, <2>1, <2>2, EndsMeans, PlaceNames DEF Silent
  <2>4. FreedHeap(c).fault = "none" /\ c \notin heap.freed
    BY <1>2, <2>1, <2>3
  <2> QED BY <2>1, <2>3, <2>4
<1>4. PICK u \in Users : u = source[c]
  BY <1>1, <1>2
<1>5. heap.clientID[c] = u
  BY <1>2, <1>3, <1>4 DEF Flags
<1>6. /\ thr'[c] = "gone" /\ \A d \in Conns \ {c} : thr'[d] = thr[d]
      /\ isLog' = [isLog EXCEPT ![u] = FALSE]
  BY <1>1, <1>3, <1>4, <1>5 DEF ExitFrees, FoundClient
<1>7. Flags'
  <2>1. ASSUME NEW d \in Conns
        PROVE  /\ thr'[d] = "granted" => source'[d] = NoName
               /\ thr'[d] = "leave" => source'[d] # NoName
               /\ source'[d] # NoName =>
                     heap'.clientID[d] = source'[d] \/ d \in heap'.freed
    <3>1. CASE d = c
      BY <1>2, <1>3, <1>6, <3>1
    <3>2. CASE d # c
      BY <1>2, <1>3, <1>6, <3>2 DEF Flags
    <3> QED BY <3>1, <3>2
  <2>2. ASSUME NEW v \in Users, isLog'[v]
        PROVE  \E d \in Conns : source'[d] = v /\ thr'[d] # "gone"
    <3>1. v # u /\ isLog[v]
      BY <1>1, <1>6, <2>2
    <3>2. PICK d \in Conns : source[d] = v /\ thr[d] # "gone"
      BY <1>2, <3>1 DEF Flags
    <3> QED BY <1>2, <1>4, <1>6, <3>1, <3>2
  <2> QED BY <2>1, <2>2 DEF Flags
<1>8. OneLogin'
  <2> SUFFICES ASSUME ~twins'
               PROVE  OneLogin'
    BY DEF OneLogin
  <2>1. ~twins /\ ~TwinLogins'
    OBVIOUS
  <2>2. ASSUME NEW d \in Conns, source'[d] # NoName, thr'[d] # "gone"
        PROVE  isLog'[source'[d]] /\ d # c
    <3>1. d # c /\ source[d] = source'[d] /\ thr[d] # "gone"
      BY <1>2, <1>6, <2>2
    <3>2. source[d] # u /\ isLog[source[d]] /\ source[d] \in Users
      BY <1>1, <1>2, <1>4, <2>1, <2>2, <3>1 DEF OneLogin
    <3> QED BY <1>1, <1>6, <3>1, <3>2
  <2>3. ASSUME NEW d \in Conns, NEW e \in Conns, source'[d] # NoName,
               source'[d] = source'[e], thr'[d] # "gone", thr'[e] # "gone"
        PROVE  d = e
    BY <1>2, <1>6, <2>1, <2>2, <2>3 DEF OneLogin
  <2>4. ASSUME NEW d \in Conns, thr'[d] = "granted" PROVE ~isLog'[heap'.clientID[d]]
    <3>1. d # c /\ thr[d] = "granted" /\ heap'.clientID[d] = heap.clientID[d]
      BY <1>3, <1>6, <2>4
    <3>2. heap.clientID[d] \in Users /\ ~isLog[heap.clientID[d]]
      BY <1>1, <1>2, <2>1, <3>1 DEF OneLogin, ServerTypes
    <3> QED BY <1>6, <3>1, <3>2
  <2> QED BY <2>1, <2>2, <2>3, <2>4 DEF OneLogin
<1> QED BY <1>7, <1>8

-----------------------------------------------------------------------------
FlagInv == TypeInv /\ Flags /\ OneLogin

LEMMA FlagInit == Init => FlagInv
<1> SUFFICES ASSUME Init PROVE FlagInv
  OBVIOUS
<1>1. TypeInv
  BY InitTyped
<1>2. Flags /\ OneLogin
  BY DEF Init, ServerInit, Flags, OneLogin, TwinLogins
<1> QED BY <1>1, <1>2 DEF FlagInv

LEMMA FlagNext == FlagInv /\ [Next]_vars => FlagInv'
<1> SUFFICES ASSUME FlagInv, [Next]_vars PROVE FlagInv'
  OBVIOUS
<1>1. TypeInv' /\ TypeInv /\ Flags /\ OneLogin
  BY NextTyped DEF FlagInv
<1>2. ASSUME UNCHANGED server, twins' = twins \/ twins' = (twins \/ TwinLogins')
      PROVE  Flags' /\ OneLogin'
  <2>1. Flags'
    BY <1>1, <1>2 DEF server, threads, Flags
  <2>2. TwinLogins' <=> TwinLogins
    <3>1. thr' = thr /\ heap' = heap
      BY <1>2 DEF server, threads
    <3> QED BY <3>1 DEF TwinLogins
  <2>3. twins => twins'
    BY <1>2
  <2> QED BY <1>1, <1>2, <2>1, <2>2, <2>3 DEF server, threads, OneLogin
<1>3. ASSUME NEW c \in Conns, Accept(c) \/ ThreadStep(c),
             twins' = (twins \/ TwinLogins')
      PROVE  Flags' /\ OneLogin'
  <2>1. CASE down' # "up"
    BY <2>1 DEF Flags, OneLogin
  <2>2. CASE down' = "up" /\ Grant(c)
    BY <1>1, <1>3, <2>2, GrantKeepsFlags
  <2>3. CASE down' = "up" /\ ExitFrees(c)
    BY <1>1, <1>3, <2>3, ExitFreesKeepsFlags
  <2>4. CASE down' = "up" /\ ~Grant(c) /\ ~ExitFrees(c)
    <3>1. PICK pc \in Places : Calm(c, pc)
      BY <1>1, <1>3, <2>4, CalmSteps
    <3> QED BY <1>1, <1>3, <3>1, CalmKeeps
  <2> QED BY <2>1, <2>2, <2>3, <2>4
<1>4. Flags' /\ OneLogin'
  BY <1>2, <1>3 DEF Next, Recorded, vars, races
<1> QED BY <1>1, <1>4 DEF FlagInv

LEMMA FlagInvHolds == Spec => []FlagInv
BY FlagInit, FlagNext, PTL DEF Spec

\* However the threads interleave, a user whose isLog is set is logged in on
\* some connection: nobody is kept out by a flag that was left behind.
FlagHasLogin == down = "up" => \A u \in Users : isLog[u] => Logins(u) # {}

\* For any number of clients isLog is not left behind.
THEOREM FlagIsNotLeftBehind == Spec => []FlagHasLogin
<1>1. FlagInv => FlagHasLogin
  BY DEF FlagInv, Flags, FlagHasLogin, Logins
<1> QED BY <1>1, FlagInvHolds, PTL

\* For any number of clients and any interleaving of their threads: until two
\* LOGINs of one user have both passed the test, isLog says exactly whether its
\* user is logged in, and no user is logged in twice.
THEOREM IsLogCorrect == Spec => []IsLogExact
<1>1. FlagInv => IsLogExact
  <2> SUFFICES ASSUME FlagInv, down = "up", ~twins, NEW u \in Users
               PROVE  Cardinality(Logins(u)) = IF isLog[u] THEN 1 ELSE 0
    BY DEF IsLogExact
  <2>1. u # NoName
    BY NamesAssumption
  <2>2. CASE isLog[u]
    <3>1. PICK c \in Conns : source[c] = u /\ thr[c] # "gone"
      BY <2>2 DEF FlagInv, Flags
    <3>2. Logins(u) = {c}
      BY <2>1, <3>1 DEF Logins, FlagInv, OneLogin
    <3> QED BY <2>2, <3>2, FS_Singleton
  <2>3. CASE ~isLog[u]
    <3>1. Logins(u) = {}
      BY <2>1, <2>3 DEF Logins, FlagInv, OneLogin
    <3> QED BY <2>3, <3>1, FS_EmptySet
  <2> QED BY <2>2, <2>3
<1> QED BY <1>1, FlagInvHolds, PTL

=============================================================================
