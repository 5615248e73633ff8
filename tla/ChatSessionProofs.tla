-------------------------- MODULE ChatSessionProofs --------------------------
(***************************************************************************)
(* Proofs about Chat for any number of connections, users and sessions:    *)
(* what a patient user's client and the server agree on, the lists that    *)
(* the threads then keep, and who hears what.                              *)
(***************************************************************************)
EXTENDS ChatProofs

\* The requests a patient user waits for, and the replies to them.
Waits == {"JOIN", "NEW_SESS", "QUERY"}
Acks == {"JN_ACK", "JN_NAK", "NS_ACK", "QU_ACK"}

Has(q, t) == \E i \in DOMAIN q : q[i].type = t
Holds(q, m) == \E i \in DOMAIN q : q[i] = m

WaitIsLast(q) == \A i \in DOMAIN q : q[i].type \in Waits => i = Len(q)
Once(q, t) == \A i, j \in DOMAIN q : q[i].type = t /\ q[j].type = t => i = j
OneAck(q) == \A i, j \in DOMAIN q : q[i] \in Acks /\ q[j] \in Acks => i = j

-----------------------------------------------------------------------------
(***************************************************************************)
(* Queues that lose their first element or gain a last one.                *)
(***************************************************************************)

LEMMA TailFacts ==
    ASSUME NEW V, NEW q \in Seq(V), q # <<>>
    PROVE  /\ Len(q) \in Nat \ {0} /\ 1 \in DOMAIN q
           /\ Len(Tail(q)) = Len(q) - 1
           /\ \A i \in DOMAIN Tail(q) : i + 1 \in DOMAIN q /\ Tail(q)[i] = q[i + 1]
           /\ \A i \in DOMAIN q : i # 1 => i - 1 \in DOMAIN Tail(q) /\ Tail(q)[i - 1] = q[i]
<1>1. Len(q) \in Nat \ {0} /\ DOMAIN q = 1..Len(q)
  OBVIOUS
<1>2. /\ Len(Tail(q)) = Len(q) - 1 /\ DOMAIN Tail(q) = 1..(Len(q) - 1)
      /\ \A i \in 1..(Len(q) - 1) : Tail(q)[i] = q[i + 1]
  BY <1>1
<1> QED BY <1>1, <1>2

LEMMA PopPacket ==
    ASSUME NEW q \in Seq(Packets), q # <<>>
    PROVE  /\ \A t : Has(q, t) <=> (q[1].type = t \/ Has(Tail(q), t))
           /\ WaitIsLast(q) => WaitIsLast(Tail(q))
           /\ WaitIsLast(q) /\ q[1].type \in Waits => Tail(q) = <<>>
           /\ \A t : Once(q, t) => Once(Tail(q), t)
           /\ \A t : Once(q, t) /\ q[1].type = t => ~Has(Tail(q), t)
<1> DEFINE r == Tail(q)
<1>1. /\ Len(q) \in Nat \ {0} /\ 1 \in DOMAIN q /\ DOMAIN q \subseteq Nat
      /\ Len(r) = Len(q) - 1 /\ r \in Seq(Packets)
      /\ \A i \in DOMAIN r : i + 1 \in DOMAIN q /\ r[i] = q[i + 1]
      /\ \A i \in DOMAIN q : i # 1 => i - 1 \in DOMAIN r /\ r[i - 1] = q[i]
  BY TailFacts
<1>2. DOMAIN r \subseteq Nat /\ \A i \in DOMAIN r : i + 1 # 1
  BY <1>1
<1> HIDE DEF r
<1>3. 1 = Len(q) => r = <<>>
  BY <1>1
<1>4. ASSUME NEW t PROVE Has(q, t) <=> (q[1].type = t \/ Has(r, t))
  BY <1>1 DEF Has
<1>5. WaitIsLast(q) => WaitIsLast(r)
  BY <1>1, <1>2 DEF WaitIsLast
<1>6. WaitIsLast(q) /\ q[1].type \in Waits => r = <<>>
  BY <1>1, <1>3 DEF WaitIsLast
<1>7. ASSUME NEW t, Once(q, t) PROVE Once(r, t) /\ (q[1].type = t => ~Has(r, t))
  <2>1. ASSUME NEW i \in DOMAIN r, NEW j \in DOMAIN r, r[i].type = t, r[j].type = t
        PROVE  i = j
    <3>1. i + 1 = j + 1
      BY <1>1, <1>7, <2>1 DEF Once
    <3> QED BY <1>2, <3>1
  <2>2. ASSUME q[1].type = t, NEW i \in DOMAIN r, r[i].type = t PROVE FALSE
    <3>1. i + 1 = 1
      BY <1>1, <1>7, <2>2 DEF Once
    <3> QED BY <1>2, <3>1
  <2> QED BY <2>1, <2>2 DEF Once, Has
<1> QED BY <1>4, <1>5, <1>6, <1>7 DEF r

LEMMA PushPacket ==
    ASSUME NEW q \in Seq(Packets), NEW p \in Packets
    PROVE  /\ \A t : Has(Append(q, p), t) <=> (Has(q, t) \/ p.type = t)
           /\ (\A t \in Waits : ~Has(q, t)) => WaitIsLast(Append(q, p))
           /\ \A t : Once(q, t) /\ (p.type # t \/ ~Has(q, t)) => Once(Append(q, p), t)
<1> DEFINE r == Append(q, p)
<1>1. /\ Len(q) \in Nat /\ DOMAIN q = 1..Len(q) /\ DOMAIN r = 1..(Len(q) + 1)
      /\ Len(r) = Len(q) + 1 /\ r[Len(q) + 1] = p
      /\ \A i \in DOMAIN q : r[i] = q[i]
  OBVIOUS
<1> HIDE DEF r
<1>2. /\ Len(r) \in DOMAIN r /\ r[Len(r)] = p
      /\ \A i \in DOMAIN q : i \in DOMAIN r
      /\ \A i \in DOMAIN r : i = Len(r) \/ i \in DOMAIN q
  BY <1>1
<1>3. ASSUME NEW t PROVE Has(r, t) <=> (Has(q, t) \/ p.type = t)
  BY <1>1, <1>2 DEF Has
<1>4. (\A t \in Waits : ~Has(q, t)) => WaitIsLast(r)
  BY <1>1, <1>2 DEF WaitIsLast, Has
<1>5. ASSUME NEW t, Once(q, t), p.type # t \/ ~Has(q, t) PROVE Once(r, t)
  BY <1>1, <1>2, <1>5 DEF Once, Has
<1> QED BY <1>3, <1>4, <1>5 DEF r

LEMMA PopReply ==
    ASSUME NEW q \in Seq(ToClient), q # <<>>
    PROVE  /\ \A m : Holds(q, m) <=> (q[1] = m \/ Holds(Tail(q), m))
           /\ OneAck(q) => OneAck(Tail(q))
           /\ OneAck(q) /\ q[1] \in Acks => \A m \in Acks : ~Holds(Tail(q), m)
<1> DEFINE r == Tail(q)
<1>1. /\ 1 \in DOMAIN q /\ DOMAIN q \subseteq Nat /\ r \in Seq(ToClient)
      /\ \A i \in DOMAIN r : i + 1 \in DOMAIN q /\ r[i] = q[i + 1]
      /\ \A i \in DOMAIN q : i # 1 => i - 1 \in DOMAIN r /\ r[i - 1] = q[i]
  BY TailFacts
<1>2. DOMAIN r \subseteq Nat /\ \A i \in DOMAIN r : i + 1 # 1
  BY <1>1
<1> HIDE DEF r
<1>3. ASSUME NEW m PROVE Holds(q, m) <=> (q[1] = m \/ Holds(r, m))
  BY <1>1 DEF Holds
<1>4. ASSUME OneAck(q) PROVE OneAck(r) /\ (q[1] \in Acks => \A m \in Acks : ~Holds(r, m))
  <2>1. ASSUME NEW i \in DOMAIN r, NEW j \in DOMAIN r, r[i] \in Acks, r[j] \in Acks
        PROVE  i = j
    <3>1. i + 1 = j + 1
      BY <1>1, <1>4, <2>1 DEF OneAck
    <3> QED BY <1>2, <3>1
  <2>2. ASSUME q[1] \in Acks, NEW i \in DOMAIN r, r[i] \in Acks PROVE FALSE
    <3>1. i + 1 = 1
      BY <1>1, <1>4, <2>2 DEF OneAck
    <3> QED BY <1>2, <3>1
  <2> QED BY <2>1, <2>2 DEF OneAck, Holds
<1> QED BY <1>3, <1>4 DEF r

LEMMA PushReply ==
    ASSUME NEW q \in Seq(ToClient), NEW a \in ToClient
    PROVE  /\ \A m : Holds(Append(q, a), m) <=> (Holds(q, m) \/ a = m)
           /\ OneAck(q) /\ (a \notin Acks \/ \A m \in Acks : ~Holds(q, m))
                => OneAck(Append(q, a))
<1> DEFINE r == Append(q, a)
<1>1. /\ Len(q) \in Nat /\ DOMAIN q = 1..Len(q) /\ DOMAIN r = 1..(Len(q) + 1)
      /\ Len(r) = Len(q) + 1 /\ r[Len(q) + 1] = a
      /\ \A i \in DOMAIN q : r[i] = q[i]
  OBVIOUS
<1> HIDE DEF r
<1>2. /\ Len(r) \in DOMAIN r /\ r[Len(r)] = a
      /\ \A i \in DOMAIN q : i \in DOMAIN r
      /\ \A i \in DOMAIN r : i = Len(r) \/ i \in DOMAIN q
  BY <1>1
<1>3. ASSUME NEW m PROVE Holds(r, m) <=> (Holds(q, m) \/ a = m)
  BY <1>1, <1>2 DEF Holds
<1>4. ASSUME OneAck(q), a \notin Acks \/ \A m \in Acks : ~Holds(q, m) PROVE OneAck(r)
  BY <1>1, <1>2, <1>4 DEF OneAck, Holds
<1> QED BY <1>3, <1>4 DEF r

LEMMA GrowReply ==
    ASSUME NEW p \in Seq(ToClient), NEW q \in Seq(ToClient), Grown(p, q, {"MESSAGE"})
    PROVE  /\ \A m : m # "MESSAGE" => (Holds(q, m) <=> Holds(p, m))
           /\ \A m \in Acks : Holds(q, m) <=> Holds(p, m)
           /\ OneAck(p) => OneAck(q)
<1>1. /\ Len(p) \in Nat /\ Len(q) \in Nat /\ Len(p) <= Len(q)
      /\ DOMAIN p = 1..Len(p) /\ DOMAIN q = 1..Len(q)
  BY DEF Grown
<1>2. "MESSAGE" \notin Acks
  BY DEF Acks
<1>3. \A i \in DOMAIN p : i \in DOMAIN q /\ q[i] = p[i]
  BY <1>1 DEF Grown
<1>4. ASSUME NEW i \in DOMAIN q, q[i] # "MESSAGE" PROVE i \in DOMAIN p /\ q[i] = p[i]
  BY <1>1, <1>4 DEF Grown
<1> QED BY <1>2, <1>3, <1>4 DEF Holds, OneAck

-----------------------------------------------------------------------------
(***************************************************************************)
(* The invariant.  A patient user has at most one of these under way: a    *)
(* request that is queued, the thread at work on it, and its answer.  So   *)
(* when a JOIN or NEW_SESS is read the client is in no session: its        *)
(* LEAVE_SESS was read before.                                             *)
(***************************************************************************)
Active(c) == thr[c] \notin {"stuck", "lost", "locked"}
Asked(c) == \E t \in Waits : Has(c2s[c], t)
Told(c) == \E m \in Acks : Holds(s2c[c], m)
AsksRoom(c) == Has(c2s[c], "JOIN") \/ Has(c2s[c], "NEW_SESS")
Entered(c) == Holds(s2c[c], "JN_ACK") \/ Holds(s2c[c], "NS_ACK")

\* The connection and the program that opened it.
Wiring(c) ==
    /\ link[c] = "open" <=> ui[c] \in {"login", "on"}
    /\ link[c] = "none" <=> ui[c] = "off"
    /\ link[c] # "open" => s2c[c] = <<>>
    /\ link[c] = "none" => c2s[c] = <<>> /\ thr[c] = "none"
    /\ ui[c] \in {"off", "login"} =>
          ~insession[c] /\ ~awaiting[c] /\ ~Has(c2s[c], "LEAVE_SESS")
    /\ thr[c] = "leave" \/ Has(c2s[c], "EXIT") => ui[c] = "out"

\* Request, work and answer take turns.
Turns(c) ==
    /\ Asked(c) \/ Busy(c) \/ Told(c) => awaiting[c]
    /\ ~(Asked(c) /\ Busy(c)) /\ ~(Asked(c) /\ Told(c)) /\ ~(Busy(c) /\ Told(c))
    /\ WaitIsLast(c2s[c]) /\ OneAck(s2c[c])

\* A client is in one session at most, and its program learns which.
Member(c) ==
    /\ heap.joined[c] = <<>> \/ \E s \in SessIds : heap.joined[c] = <<s>>
    /\ ui[c] \in {"off", "login"} => heap.joined[c] = <<>>
    /\ Active(c) /\ AsksRoom(c) /\ heap.joined[c] # <<>> => Has(c2s[c], "LEAVE_SESS")
    /\ Busy(c) => heap.joined[c] = <<>>
    /\ Holds(s2c[c], "JN_NAK") => heap.joined[c] = <<>>
    /\ ui[c] = "on" /\ Active(c) /\ ~insession[c] /\ heap.joined[c] # <<>>
         => Has(c2s[c], "LEAVE_SESS") \/ Entered(c)

\* The session JOIN found is there, unless it went meanwhile (missed) ...
Found(c) == Busy(c) => FindSession(heap, sessionId[c]) # 0

\* ... so that what the program is told is true, and it leaves what it joined.
Truth(c) ==
    /\ Busy(c) \/ AsksRoom(c) => ~insession[c]
    /\ Has(c2s[c], "LEAVE_SESS") => ~insession[c] /\ ~Entered(c) /\ ~Busy(c)
    /\ Once(c2s[c], "LEAVE_SESS")
    /\ /\ ui[c] = "on" /\ Active(c)
       /\ Has(c2s[c], "LEAVE_SESS") \/ insession[c] \/ Entered(c)
       => heap.joined[c] # <<>>

\* All of it, of one connection.
Good(c) ==
    /\ Wiring(c)
    /\ Patient => Turns(c) /\ Member(c)
    /\ Patient /\ c \notin missed => Truth(c)

-----------------------------------------------------------------------------
\* What other connections' threads can do to this one: the server may find its
\* link reset, and broadcast to it.
Foreign(c) ==
    /\ c2s'[c] = c2s[c] /\ thr'[c] = thr[c] /\ heap'.joined[c] = heap.joined[c]
    /\ ui'[c] = ui[c] /\ insession'[c] = insession[c] /\ awaiting'[c] = awaiting[c]
    /\ LinkKeeps(c) /\ Grown(s2c[c], s2c'[c], {"MESSAGE"})
    /\ link[c] # "open" => s2c'[c] = s2c[c]

LEMMA ForeignKeeps ==
    ASSUME TypeInv, TypeInv', NEW c \in Conns, Good(c), Foreign(c),
           missed \subseteq missed'
    PROVE  Good(c)'
<1>1. s2c[c] \in Seq(ToClient) /\ s2c'[c] \in Seq(ToClient)
  BY DEF TypeInv, NetTypes
<1>2. /\ \A m \in Acks : Holds(s2c'[c], m) <=> Holds(s2c[c], m)
      /\ OneAck(s2c[c]) => OneAck(s2c'[c])
  BY <1>1, GrowReply DEF Foreign
<1>3. Wiring(c)'
  BY DEF Good, Wiring, Foreign, LinkKeeps
<1>4. /\ Told(c)' <=> Told(c)
      /\ Entered(c)' <=> Entered(c)
      /\ Holds(s2c'[c], "JN_NAK") <=> Holds(s2c[c], "JN_NAK")
  BY <1>2 DEF Told, Entered, Acks
<1>5. /\ Asked(c)' <=> Asked(c)
      /\ AsksRoom(c)' <=> AsksRoom(c)
      /\ Busy(c)' <=> Busy(c)
      /\ Active(c)' <=> Active(c)
  BY DEF Asked, AsksRoom, Busy, Active, Foreign
<1>6. Patient => Turns(c)' /\ Member(c)'
  BY <1>2, <1>4, <1>5 DEF Good, Turns, Member, Foreign
<1>7. Patient /\ c \notin missed' => Truth(c)'
  BY <1>4, <1>5 DEF Good, Truth, Foreign
<1> QED BY <1>3, <1>6, <1>7 DEF Good

-----------------------------------------------------------------------------
(***************************************************************************)
(* The connection's own thread.                                            *)
(***************************************************************************)

\* What reading a packet of type t leaves in the queue.
Popped(c, t) ==
    /\ \A x : Has(c2s[c], x) <=> (t = x \/ Has(c2s'[c], x))
    /\ WaitIsLast(c2s[c]) => WaitIsLast(c2s'[c])
    /\ WaitIsLast(c2s[c]) /\ t \in Waits => \A x : ~Has(c2s'[c], x)
    /\ \A x : Once(c2s[c], x) => Once(c2s'[c], x)
    /\ Once(c2s[c], t) => ~Has(c2s'[c], t)

LEMMA ReadPops ==
    ASSUME NetTypes, NEW c \in Conns, NEW t, Reads(c, t)
    PROVE  Popped(c, t) /\ c2s[c] # <<>> /\ thr[c] = "recv"
<1>1. /\ thr[c] = "recv" /\ c2s[c] \in Seq(Packets) /\ c2s[c] # <<>>
      /\ c2s[c][1].type = t /\ c2s'[c] = Tail(c2s[c])
  BY ReadsMeans
<1> DEFINE q == c2s[c]
<1>2. q \in Seq(Packets) /\ q # <<>>
  BY <1>1
<1> HIDE DEF q
<1>3. /\ \A x : Has(q, x) <=> (q[1].type = x \/ Has(Tail(q), x))
      /\ WaitIsLast(q) => WaitIsLast(Tail(q))
      /\ WaitIsLast(q) /\ q[1].type \in Waits => Tail(q) = <<>>
      /\ \A x : Once(q, x) => Once(Tail(q), x)
      /\ \A x : Once(q, x) /\ q[1].type = x => ~Has(Tail(q), x)
  BY <1>2, PopPacket
<1>4. \A x : ~Has(<<>>, x)
  BY DEF Has
<1> QED BY <1>1, <1>3, <1>4 DEF Popped, q

\* What a reply m adds.
Pushed(c, m) ==
    /\ LinkKeeps(c)
    /\ link[c] # "open" => s2c'[c] = s2c[c]
    /\ link[c] = "open" =>
          /\ \A x : Holds(s2c'[c], x) <=> (Holds(s2c[c], x) \/ m = x)
          /\ OneAck(s2c[c]) /\ (m \notin Acks \/ \A x \in Acks : ~Holds(s2c[c], x))
               => OneAck(s2c'[c])

LEMMA ReplyPushes ==
    ASSUME NetTypes, ServerTypes, NEW c \in Conns, NEW h, NEW pc \in Places,
           NEW m \in ToClient, Replies(c, h, pc, m)
    PROVE  Pushed(c, m) /\ heap' = h /\ thr'[c] = pc
<1>1. Replied(c, h, pc, m)
  BY RepliesMeans
<1>2. s2c[c] \in Seq(ToClient) /\ thr \in [Conns -> Places]
  BY DEF NetTypes, ServerTypes
<1>3. link[c] = "open" => s2c'[c] = Append(s2c[c], m)
  BY <1>1 DEF Replied
<1>4. /\ \A x : Holds(Append(s2c[c], m), x) <=> (Holds(s2c[c], x) \/ m = x)
      /\ OneAck(s2c[c]) /\ (m \notin Acks \/ \A x \in Acks : ~Holds(s2c[c], x))
           => OneAck(Append(s2c[c], m))
  BY <1>2, PushReply
<1> QED BY <1>1, <1>2, <1>3, <1>4 DEF Replied, Pushed

\* Nothing is on an empty queue.
LEMMA NothingWaits ==
    /\ \A t : ~Has(<<>>, t)
    /\ \A m : ~Holds(<<>>, m)
    /\ OneAck(<<>>) /\ WaitIsLast(<<>>)
BY DEF Has, Holds, OneAck, WaitIsLast

\* A packet that is answered at once: a request by the answer to it, any other
\* by a reply to LOGIN.
LEMMA AnsweredKeeps ==
    ASSUME NEW c \in Conns, Good(c), NEW t, NEW m, NEW pc \in {"recv", "gone"},
           thr[c] = "recv", c2s[c] # <<>>, Popped(c, t), Pushed(c, m), thr'[c] = pc,
           heap'.joined[c] = heap.joined[c], UNCHANGED clients,
           \/ t = "JOIN" /\ m = "JN_NAK"
           \/ t = "QUERY" /\ m = "QU_ACK"
           \/ t = "LOGIN" /\ m = "LO_NAK",
           missed \subseteq missed'
    PROVE  Good(c)'
<1> USE DEF Acks, Waits
<1>1. ui' = ui /\ insession' = insession /\ awaiting' = awaiting
  BY DEF clients
<1>2. Wiring(c)'
  BY <1>1 DEF Good, Wiring, Popped, Pushed, LinkKeeps
<1>3. CASE link[c] = "open"
  <2>1. Patient => Turns(c)'
    BY <1>1, <1>3 DEF Good, Turns, Popped, Pushed, Asked, Told, Busy
  <2>2. Patient => Member(c)'
    BY <1>1, <1>3 DEF Good, Turns, Member, Popped, Pushed, AsksRoom, Entered, Active, Busy
  <2>3. Patient /\ c \notin missed' => Truth(c)'
    BY <1>1, <1>3 DEF Good, Truth, Popped, Pushed, AsksRoom, Entered, Busy, Active
  <2> QED BY <1>2, <2>1, <2>2, <2>3 DEF Good
<1>4. CASE link[c] # "open"
  <2>1. s2c[c] = <<>> /\ s2c'[c] = <<>>
    BY <1>4 DEF Good, Wiring, Pushed
  <2>2. Patient => Turns(c)'
    BY <1>1, <2>1, NothingWaits DEF Good, Turns, Popped, Asked, Told, Busy
  <2>3. Patient => Member(c)'
    BY <1>1, <1>4, <2>1, NothingWaits
       DEF Good, Wiring, Turns, Member, Popped, AsksRoom, Entered, Active, Busy
  <2>4. Patient /\ c \notin missed' => Truth(c)'
    BY <1>1, <1>4, <2>1, NothingWaits
       DEF Good, Wiring, Truth, Popped, AsksRoom, Entered, Busy, Active
  <2> QED BY <1>2, <2>2, <2>3, <2>4 DEF Good
<1> QED BY <1>3, <1>4

\* A step that has to do with no session and no request: it may read a packet,
\* but not a LEAVE_SESS, and send, but no answer.
Idle(c) ==
    /\ link[c] # "none" /\ Active(c) /\ ~Busy(c)
    /\ \A x : Has(c2s'[c], x) => Has(c2s[c], x)
    /\ Has(c2s[c], "LEAVE_SESS") => Has(c2s'[c], "LEAVE_SESS")
    /\ WaitIsLast(c2s[c]) => WaitIsLast(c2s'[c])
    /\ \A x : Once(c2s[c], x) => Once(c2s'[c], x)
    /\ LinkKeeps(c) /\ (link[c] # "open" => s2c'[c] = s2c[c])
    /\ \A x \in Acks : Holds(s2c'[c], x) <=> Holds(s2c[c], x)
    /\ OneAck(s2c[c]) => OneAck(s2c'[c])
    /\ heap'.joined[c] = heap.joined[c]
    /\ thr'[c] \notin {"joining", "created"} /\ (thr'[c] = "leave" => ui[c] = "out")
    /\ UNCHANGED clients

LEMMA IdleKeeps ==
    ASSUME NEW c \in Conns, Good(c), Idle(c),
           missed \subseteq missed'
    PROVE  Good(c)'
<1>1. ui' = ui /\ insession' = insession /\ awaiting' = awaiting
  BY DEF Idle, clients
<1>2. Wiring(c)'
  BY <1>1 DEF Good, Wiring, Idle, LinkKeeps
<1>3. /\ Told(c)' <=> Told(c)
      /\ Entered(c)' <=> Entered(c)
      /\ Holds(s2c'[c], "JN_NAK") <=> Holds(s2c[c], "JN_NAK")
  BY DEF Idle, Told, Entered, Acks
<1>4. /\ Asked(c)' => Asked(c)
      /\ AsksRoom(c)' => AsksRoom(c)
      /\ ~Busy(c)' /\ Active(c)
  BY DEF Idle, Asked, AsksRoom, Busy
<1>5. Patient => Turns(c)'
  BY <1>1, <1>3, <1>4 DEF Good, Turns, Idle
<1>6. Patient => Member(c)'
  BY <1>1, <1>3, <1>4 DEF Good, Member, Idle
<1>7. Patient /\ c \notin missed' => Truth(c)'
  BY <1>1, <1>3, <1>4 DEF Good, Truth, Idle
<1> QED BY <1>2, <1>5, <1>6, <1>7 DEF Good

\* JOIN or NEW_SESS is taken up.
LEMMA TakenUpKeeps ==
    ASSUME NEW c \in Conns, Good(c), thr[c] = "recv", c2s[c] # <<>>,
           NEW t \in {"JOIN", "NEW_SESS"}, Popped(c, t), UNCHANGED <<link, s2c>>,
           heap'.joined[c] = heap.joined[c], thr'[c] \in {"joining", "created"},
           UNCHANGED clients,
           missed \subseteq missed'
    PROVE  Good(c)'
<1>1. ui' = ui /\ insession' = insession /\ awaiting' = awaiting
  BY DEF clients
<1>2. Wiring(c)'
  BY <1>1 DEF Good, Wiring, Popped
<1>3. Asked(c) /\ AsksRoom(c) /\ ~Busy(c) /\ Active(c) /\ Busy(c)'
  BY DEF Asked, AsksRoom, Busy, Active, Popped, Waits
<1>4. /\ Told(c)' <=> Told(c)
      /\ Entered(c)' <=> Entered(c)
  BY DEF Told, Entered
<1>5. Patient => /\ ~Asked(c)' /\ ~AsksRoom(c)'
                 /\ ~Has(c2s'[c], "LEAVE_SESS") /\ ~Has(c2s[c], "LEAVE_SESS")
  BY DEF Good, Turns, Popped, Asked, AsksRoom, Waits
<1>6. Patient => Turns(c)'
  BY <1>1, <1>3, <1>4, <1>5 DEF Good, Turns, Popped
<1>7. Patient => Member(c)'
  BY <1>1, <1>3, <1>4, <1>5 DEF Good, Member, Active
<1>8. Patient /\ c \notin missed' => Truth(c)'
  BY <1>1, <1>3, <1>4, <1>5 DEF Good, Truth, Popped, Active
<1> QED BY <1>2, <1>6, <1>7, <1>8 DEF Good

\* The join that ends the work on it is answered, or lost in a circular list.
LEMMA JoinedKeeps ==
    ASSUME NEW c \in Conns, Good(c), Busy(c), c2s'[c] = c2s[c], UNCHANGED clients,
           Patient => \/ heap'.joined[c] = <<>>
                      \/ \E s \in SessIds : heap'.joined[c] = <<s>>,
           \/ /\ thr'[c] = "recv"
              /\ \E m \in {"JN_ACK", "NS_ACK"} : Pushed(c, m)
              /\ Patient /\ c \notin missed => heap'.joined[c] # <<>>
           \/ thr'[c] \in {"stuck", "locked"} /\ UNCHANGED <<link, s2c>>,
           missed \subseteq missed'
    PROVE  Good(c)'
<1>1. ui' = ui /\ insession' = insession /\ awaiting' = awaiting
  BY DEF clients
<1>2. Wiring(c)'
  BY <1>1 DEF Good, Wiring, Busy, Pushed, LinkKeeps
<1>3. /\ Asked(c)' <=> Asked(c)
      /\ AsksRoom(c)' <=> AsksRoom(c)
      /\ AsksRoom(c) => Asked(c)
      /\ ~Busy(c)'
      /\ Patient => ui[c] \notin {"off", "login"}
  BY DEF Asked, AsksRoom, Busy, Waits, Good, Wiring, Turns
<1>4. CASE thr'[c] \in {"stuck", "locked"} /\ UNCHANGED <<link, s2c>>
  <2>1. /\ Told(c)' <=> Told(c)
        /\ Entered(c)' <=> Entered(c)
        /\ ~Active(c)'
    BY <1>4 DEF Told, Entered, Active
  <2>2. Holds(s2c[c], "JN_NAK") => Told(c)
    BY DEF Told, Acks
  <2> QED BY <1>1, <1>2, <1>3, <1>4, <2>1, <2>2 DEF Good, Turns, Member, Truth, Busy
<1>5. CASE thr'[c] = "recv" /\ link[c] # "open"
  <2>1. s2c[c] = <<>> /\ s2c'[c] = <<>>
    BY <1>5 DEF Good, Wiring, Pushed
  <2>2. ~Told(c)' /\ ~Entered(c)' /\ ~Holds(s2c'[c], "JN_NAK") /\ OneAck(s2c'[c])
    BY <2>1, NothingWaits DEF Told, Entered
  <2>3. ui[c] # "on"
    BY <1>5 DEF Good, Wiring
  <2> QED BY <1>1, <1>2, <1>3, <1>5, <2>2, <2>3 DEF Good, Turns, Member, Truth, Busy
<1>6. CASE thr'[c] = "recv" /\ link[c] = "open"
  <2>1. PICK m \in {"JN_ACK", "NS_ACK"} : Pushed(c, m)
    BY <1>6
  <2>2. Patient => ~Told(c) /\ ~Asked(c) /\ awaiting[c]
    BY DEF Good, Turns
  <2>3. /\ Entered(c)' /\ m \in Acks
        /\ Patient => OneAck(s2c'[c])
        /\ Patient => ~Holds(s2c'[c], "JN_NAK")
    BY <1>6, <2>1, <2>2 DEF Pushed, Entered, Told, Acks, Good, Turns
  <2>4. Patient => Turns(c)'
    BY <1>1, <1>3, <2>2, <2>3 DEF Good, Turns
  <2>5. Patient => Member(c)'
    BY <1>1, <1>3, <1>6, <2>2, <2>3 DEF Member
  <2>6. Patient /\ c \notin missed' => Truth(c)'
    BY <1>1, <1>3, <1>6, <2>2, <2>3 DEF Good, Truth
  <2> QED BY <1>2, <2>4, <2>5, <2>6 DEF Good
<1> QED BY <1>4, <1>5, <1>6

\* A session is left, as asked or on the way out.
LEMMA LeftKeeps ==
    ASSUME NEW c \in Conns, Good(c), link[c] # "none",
           \/ /\ thr[c] = "recv" /\ thr'[c] \in {"recv", "stuck", "lost"}
              /\ Popped(c, "LEAVE_SESS")
           \/ /\ thr[c] = "leave" /\ thr'[c] \in {"leave", "stuck", "lost"}
              /\ c2s'[c] = c2s[c],
           UNCHANGED <<link, s2c>>, UNCHANGED clients,
           Patient => heap'.joined[c] = <<>>,
           missed \subseteq missed'
    PROVE  Good(c)'
<1>1. ui' = ui /\ insession' = insession /\ awaiting' = awaiting
  BY DEF clients
<1>2. Wiring(c)'
  BY <1>1 DEF Good, Wiring, Popped
<1>3. /\ Told(c)' <=> Told(c)
      /\ Entered(c)' <=> Entered(c)
      /\ ~Busy(c)' /\ ~Busy(c)
      /\ Asked(c)' => Asked(c)
      /\ AsksRoom(c)' => AsksRoom(c)
  BY DEF Told, Entered, Busy, Asked, AsksRoom, Popped
<1>4. Patient => Turns(c)'
  BY <1>1, <1>3 DEF Good, Turns, Popped
<1>5. Patient => Member(c)'
  BY <1>1, <1>3 DEF Member
<1>6. Patient /\ c \notin missed' => Truth(c)'
  <2>1. CASE thr[c] = "leave"
    BY <1>1, <1>3, <2>1 DEF Good, Wiring, Truth
  <2>2. CASE thr[c] = "recv" /\ Popped(c, "LEAVE_SESS")
    <3>1. Has(c2s[c], "LEAVE_SESS")
      BY <2>2 DEF Popped
    <3> QED BY <1>1, <1>3, <2>2, <3>1 DEF Good, Truth, Popped
  <2> QED BY <2>1, <2>2
<1> QED BY <1>2, <1>4, <1>5, <1>6 DEF Good

\* LeaveSess empties the list of a client that is in one session or none.
LEMMA LeaveEmpties ==
    ASSUME NEW h \in Heaps, NEW c \in Conns,
           h.joined[c] = <<>> \/ \E s \in SessIds : h.joined[c] = <<s>>
    PROVE  LeaveSess(h, c).joined[c] = <<>>
<1> DEFINE k == LeaveSess(h, c)
           n == Len(h.joined[c])
<1>1. /\ k \in Heaps
      /\ \/ /\ k.joined = h.joined
            /\ \/ n = 0
               \/ n > 0 /\ h.joined[c][n] = NoName
         \/ n > 0 /\ Len(k.joined[c]) = n - 1
  BY LeaveSessKeeps
<1> HIDE DEF k
<1>2. k.joined[c] \in Seq(SessIds \cup {NoName})
  BY <1>1, HeapParts
<1>3. CASE h.joined[c] = <<>>
  BY <1>1, <1>3 DEF k
<1>4. CASE \E s \in SessIds : h.joined[c] = <<s>>
  <2>1. n = 1 /\ h.joined[c][1] # NoName
    BY <1>4, NamesAssumption
  <2>2. Len(k.joined[c]) = 0
    BY <1>1, <2>1
  <2>3. \A q \in Seq(SessIds \cup {NoName}) : Len(q) = 0 => q = <<>>
    OBVIOUS
  <2> QED BY <1>2, <2>2, <2>3 DEF k
<1> QED BY <1>3, <1>4

\* The first session in an empty list.
LEMMA FirstJoined ==
    ASSUME NEW j \in [Conns -> Seq(SessIds \cup {NoName})], NEW c \in Conns,
           j[c] = <<>>, NEW s
    PROVE  [j EXCEPT ![c] = Append(@, s)][c] = <<s>>
<1>1. Append(<<>>, s) = <<s>>
  OBVIOUS
<1> QED BY <1>1

\* Nothing happens to the other connections.
Apart(c) ==
    \A d \in Conns \ {c} :
        /\ c2s'[d] = c2s[d] /\ thr'[d] = thr[d] /\ heap'.joined[d] = heap.joined[d]
        /\ link'[d] = link[d] /\ s2c'[d] = s2c[d]

LEMMA ApartIsForeign ==
    ASSUME TypeInv, NEW c \in Conns, Apart(c), UNCHANGED clients
    PROVE  \A d \in Conns \ {c} : Foreign(d)
<1> SUFFICES ASSUME NEW d \in Conns \ {c} PROVE Foreign(d)
  OBVIOUS
<1>1. s2c[d] \in Seq(ToClient)
  BY DEF TypeInv, NetTypes
<1>2. Grown(s2c[d], s2c[d], {"MESSAGE"})
  BY <1>1 DEF Grown
<1> QED BY <1>2 DEF Apart, Foreign, LinkKeeps, clients

\* A reply reaches its own connection only, and so does what has no reply.
LEMMA AnswerApart ==
    ASSUME TypeInv, NEW c \in Conns, NEW h, NEW pc \in Places, NEW m \in ToClient,
           Replies(c, h, pc, m),
           \A d \in Conns \ {c} : c2s'[d] = c2s[d] /\ h.joined[d] = heap.joined[d]
    PROVE  Apart(c)
<1>1. Replied(c, h, pc, m)
  BY RepliesMeans DEF TypeInv
<1>2. thr \in [Conns -> Places]
  BY DEF TypeInv, ServerTypes
<1> QED BY <1>1, <1>2 DEF Replied, Apart

LEMMA SilentApart ==
    ASSUME TypeInv, NEW c \in Conns, NEW h \in Heaps, NEW pc \in Places,
           Silent(c, h, pc),
           \A d \in Conns \ {c} : c2s'[d] = c2s[d] /\ h.joined[d] = heap.joined[d]
    PROVE  /\ Apart(c) /\ heap'.joined = h.joined /\ heap'.list = h.list
           /\ UNCHANGED <<link, s2c>>
           /\ thr'[c] \in {pc, "stuck", "lost"}
           /\ h.fault # "hang" => thr'[c] = pc
           /\ h.fault = "hang" /\ pc # "leave" => thr'[c] = "stuck"
<1>1. /\ heap'.joined = h.joined /\ heap'.list = h.list
      /\ thr' = [thr EXCEPT ![c] = IF h.fault = "hang" THEN Looping(pc) ELSE pc]
  BY EndsMeans DEF Silent, TypeInv
<1>2. thr \in [Conns -> Places] /\ UNCHANGED <<link, s2c>>
  BY DEF TypeInv, ServerTypes, Silent
<1> QED BY <1>1, <1>2 DEF Apart, Looping

LEMMA ReadApart ==
    ASSUME TypeInv, NEW c \in Conns, NEW t, Reads(c, t)
    PROVE  \A d \in Conns \ {c} : c2s'[d] = c2s[d]
BY ReadsMeans DEF TypeInv

-----------------------------------------------------------------------------
\* JOIN, up to the lock.
LEMMA JoinGood ==
    ASSUME TypeInv, NEW c \in Conns, Good(c), Join(c), UNCHANGED clients,
           missed \subseteq missed'
    PROVE  /\ Good(c)' /\ Apart(c)
           /\ Found(c)'
<1>1. Reads(c, "JOIN") /\ NetTypes /\ ServerTypes /\ heap \in Heaps /\ heap.fault = "none"
  BY DEF Join, TypeInv, ServerTypes
<1>2. Popped(c, "JOIN") /\ c2s[c] # <<>> /\ thr[c] = "recv"
  BY <1>1, ReadPops
<1>3. \A d \in Conns \ {c} : c2s'[d] = c2s[d]
  BY <1>1, ReadApart
<1>4. CASE Replies(c, heap, "recv", "JN_NAK")
  <2>1. Pushed(c, "JN_NAK") /\ heap' = heap /\ thr'[c] = "recv"
    BY <1>1, <1>4, ReplyPushes, PlaceNames
  <2>2. Apart(c)
    BY <1>3, <1>4, AnswerApart, PlaceNames
  <2>3. Good(c)'
    BY <1>2, <2>1, AnsweredKeeps
  <2> QED BY <2>1, <2>2, <2>3 DEF Found, Busy
<1>5. CASE /\ Silent(c, heap, "joining") /\ FindSession(heap, Arg(c)) # 0
           /\ sessionId' = [sessionId EXCEPT ![c] = Arg(c)]
  <2>1. /\ Apart(c) /\ heap'.joined = heap.joined /\ heap'.list = heap.list
        /\ UNCHANGED <<link, s2c>> /\ thr'[c] = "joining"
    BY <1>1, <1>3, <1>5, SilentApart, PlaceNames
  <2>2. Good(c)'
    BY <1>2, <2>1, TakenUpKeeps
  <2>3. FindSession(heap', sessionId'[c]) # 0
    <3>1. sessionId'[c] = Arg(c)
      BY <1>5 DEF TypeInv, ServerTypes
    <3> QED BY <1>5, <2>1, <3>1 DEF FindSession
  <2> QED BY <2>1, <2>2, <2>3 DEF Found
<1> QED BY <1>4, <1>5 DEF Join

LEMMA NewSessGood ==
    ASSUME TypeInv, NEW c \in Conns, Good(c), NewSess(c), UNCHANGED clients,
           missed \subseteq missed'
    PROVE  /\ Good(c)' /\ Apart(c)
           /\ Found(c)'
<1> DEFINE id == Arg(c)
           h == CreateSess(heap, id)
<1>1. Reads(c, "NEW_SESS") /\ NetTypes /\ ServerTypes /\ heap \in Heaps /\ heap.fault = "none"
  BY DEF NewSess, TypeInv, ServerTypes
<1>2. Popped(c, "NEW_SESS") /\ c2s[c] # <<>> /\ thr[c] = "recv"
  BY <1>1, ReadPops
<1>3. \A d \in Conns \ {c} : c2s'[d] = c2s[d]
  BY <1>1, ReadApart
<1>4. id \in SessIds
  BY <1>1, ReadsMeans, PacketArgs
<1>5. h \in Heaps /\ h.joined = heap.joined /\ h.fault = "none"
  BY <1>1, <1>4, CreateSessKeeps
<1>6. Silent(c, h, "created") /\ sessionId' = [sessionId EXCEPT ![c] = id]
  BY DEF NewSess
<1>7. FindSession(h, id) # 0
  <2>1. h.list = Append(heap.list, [id |-> id, head |-> NULL, sz |-> 0])
    BY <1>1 DEF CreateSess, Heaps
  <2>2. heap.list \in Seq(SessionRecords)
    BY <1>1, HeapParts
  <2>3. Len(h.list) \in DOMAIN h.list /\ h.list[Len(h.list)].id = id
    <3> DEFINE r == [id |-> id, head |-> NULL, sz |-> 0]
    <3>1. r.id = id
      OBVIOUS
    <3> HIDE DEF r, h, id
    <3>2. h.list = Append(heap.list, r)
      BY <2>1 DEF r
    <3> QED BY <2>2, <3>1, <3>2
  <2> HIDE DEF h, id
  <2> QED BY <1>5, <2>3, FindSessionMeans
<1> HIDE DEF h, id
<1>8. /\ Apart(c) /\ heap'.joined = heap.joined /\ heap'.list = h.list
      /\ UNCHANGED <<link, s2c>> /\ thr'[c] = "created"
  BY <1>3, <1>5, <1>6, SilentApart, PlaceNames
<1>9. Good(c)'
  BY <1>2, <1>8, TakenUpKeeps
<1>10. FindSession(heap', sessionId'[c]) # 0
  <2>1. sessionId'[c] = id
    BY <1>6 DEF TypeInv, ServerTypes
  <2> QED BY <1>7, <1>8, <2>1 DEF FindSession
<1> QED BY <1>8, <1>9, <1>10 DEF Found

\* JOIN, under the lock.  What was joined before was left: the list is emptied.
LEMMA JoinLockedGood ==
    ASSUME TypeInv, NEW c \in Conns, Good(c), c \notin missed => Found(c), JoinLocked(c),
           UNCHANGED clients,
           missed \subseteq missed'
    PROVE  Good(c)' /\ Apart(c) /\ ~Busy(c)'
<1> DEFINE id == sessionId[c]
           R == ResetHeap(c)
           h == JoinSess(R, c, id)
<1>1. NetTypes /\ ServerTypes /\ heap \in Heaps /\ thr \in [Conns -> Places]
  BY DEF TypeInv, ServerTypes
<1>2. id \in SessIds /\ Busy(c) /\ c2s' = c2s
  BY <1>1 DEF JoinLocked, ServerTypes, Busy
<1>3. R \in Heaps /\ R.list = heap.list /\ R.joined = [heap.joined EXCEPT ![c] = <<>>]
  BY <1>1, ResetHeapMeans
<1>4. heap.joined \in [Conns -> Seq(SessIds \cup {NoName})]
  BY <1>1, HeapParts
<1>5. FindSession(R, id) = FindSession(heap, id)
  BY <1>3 DEF FindSession
<1>6. /\ h \in Heaps
      /\ h.joined = IF FindSession(R, id) = 0 THEN R.joined
                    ELSE [R.joined EXCEPT ![c] = Append(@, id)]
  <2> HIDE DEF R, id
  <2> QED BY <1>2, <1>3, JoinSessKeeps
<1>7. IF h.fault = "none" THEN Replies(c, h, "recv", "JN_ACK")
      ELSE /\ heap' = [h EXCEPT !.fault = "none"]
           /\ thr' = [thr EXCEPT ![c] = "locked"]
           /\ UNCHANGED <<link, s2c, down>>
  BY DEF JoinLocked, ResetHeap
<1> HIDE DEF R, h, id
<1>8. /\ \A d \in Conns \ {c} : h.joined[d] = heap.joined[d]
      /\ IF FindSession(heap, id) = 0 THEN h.joined[c] = <<>> ELSE h.joined[c] = <<id>>
  <2>1. R.joined \in [Conns -> Seq(SessIds \cup {NoName})] /\ R.joined[c] = <<>>
        /\ \A d \in Conns \ {c} : R.joined[d] = heap.joined[d]
    BY <1>3, <1>4
  <2>2. [R.joined EXCEPT ![c] = Append(@, id)][c] = <<id>>
    BY <2>1, FirstJoined
  <2> QED BY <1>5, <1>6, <2>1, <2>2
<1>9. /\ h.joined[c] = <<>> \/ \E s \in SessIds : h.joined[c] = <<s>>
      /\ c \notin missed => h.joined[c] # <<>>
  BY <1>2, <1>8 DEF Found, id
<1>10. CASE Replies(c, h, "recv", "JN_ACK")
  <2>1. Pushed(c, "JN_ACK") /\ heap' = h /\ thr'[c] = "recv"
    BY <1>1, <1>10, ReplyPushes, PlaceNames
  <2>2. Apart(c)
    BY <1>2, <1>8, <1>10, AnswerApart, PlaceNames
  <2>3. Good(c)'
    BY <1>2, <1>9, <2>1, JoinedKeeps
  <2> QED BY <2>1, <2>2, <2>3 DEF Busy
<1>11. CASE /\ heap' = [h EXCEPT !.fault = "none"]
            /\ thr' = [thr EXCEPT ![c] = "locked"]
            /\ UNCHANGED <<link, s2c, down>>
  <2>1. heap'.joined = h.joined
    BY <1>6, <1>11 DEF Heaps
  <2>2. thr'[c] = "locked" /\ \A d \in Conns \ {c} : thr'[d] = thr[d]
    BY <1>1, <1>11
  <2>3. Apart(c)
    BY <1>2, <1>8, <1>11, <2>1, <2>2 DEF Apart
  <2>4. Good(c)'
    BY <1>2, <1>9, <1>11, <2>1, <2>2, JoinedKeeps
  <2> QED BY <2>2, <2>3, <2>4 DEF Busy
<1> QED BY <1>7, <1>10, <1>11

\* NEW_SESS, once the session is made.
LEMMA JoinCreatedGood ==
    ASSUME TypeInv, NEW c \in Conns, Good(c), c \notin missed => Found(c), JoinCreated(c),
           UNCHANGED clients,
           missed \subseteq missed'
    PROVE  Good(c)' /\ Apart(c) /\ ~Busy(c)'
<1> DEFINE id == sessionId[c]
           h == JoinSess(heap, c, id)
<1>1. NetTypes /\ ServerTypes /\ heap \in Heaps /\ heap.fault = "none"
  BY DEF TypeInv, ServerTypes
<1>2. id \in SessIds /\ Busy(c) /\ c2s' = c2s /\ thr[c] = "created"
  BY <1>1 DEF JoinCreated, ServerTypes, Busy
<1>3. heap.joined \in [Conns -> Seq(SessIds \cup {NoName})]
  BY <1>1, HeapParts
<1>4. /\ h \in Heaps /\ h.fault \in {"none", "hang"}
      /\ h.joined = IF FindSession(heap, id) = 0 THEN heap.joined
                    ELSE [heap.joined EXCEPT ![c] = Append(@, id)]
  <2> HIDE DEF id
  <2> QED BY <1>1, <1>2, JoinSessKeeps
<1>5. IF h.fault = "none" THEN Replies(c, h, "recv", "NS_ACK") ELSE Silent(c, h, "recv")
  BY DEF JoinCreated
<1> HIDE DEF h, id
<1>6. \A d \in Conns \ {c} : h.joined[d] = heap.joined[d]
  BY <1>3, <1>4
<1>7. /\ Patient => \/ h.joined[c] = <<>>
                    \/ \E s \in SessIds : h.joined[c] = <<s>>
      /\ Patient /\ c \notin missed => h.joined[c] # <<>>
  <2>1. Patient => heap.joined[c] = <<>>
    BY <1>2 DEF Good, Member
  <2>2. CASE FindSession(heap, id) = 0
    BY <1>2, <1>4, <2>1, <2>2 DEF Found, id
  <2>3. ASSUME FindSession(heap, id) # 0, Patient PROVE h.joined[c] = <<id>>
    BY <1>3, <1>4, <2>1, <2>3, FirstJoined
  <2> QED BY <1>2, <2>2, <2>3
<1>8. CASE h.fault = "none"
  <2>1. Replies(c, h, "recv", "NS_ACK")
    BY <1>5, <1>8
  <2>2. Pushed(c, "NS_ACK") /\ heap' = h /\ thr'[c] = "recv"
    BY <1>1, <2>1, ReplyPushes, PlaceNames
  <2>3. Apart(c)
    BY <1>2, <1>6, <2>1, AnswerApart, PlaceNames
  <2>4. Good(c)'
    BY <1>2, <1>7, <2>2, JoinedKeeps
  <2> QED BY <2>2, <2>3, <2>4 DEF Busy
<1>9. CASE h.fault = "hang"
  <2>1. /\ Apart(c) /\ heap'.joined = h.joined
        /\ UNCHANGED <<link, s2c>> /\ thr'[c] = "stuck"
    BY ZenonT(40), <1>2, <1>4, <1>5, <1>6, <1>9, SilentApart, PlaceNames
  <2>2. Good(c)'
    BY <1>2, <1>7, <2>1, JoinedKeeps
  <2> QED BY <2>1, <2>2 DEF Busy
<1> QED BY <1>4, <1>8, <1>9

\* LEAVE_SESS, and the leaving of all sessions on the way out.
LEMMA LeaveGood ==
    ASSUME TypeInv, NEW c \in Conns, Good(c), UNCHANGED clients,
           \/ Leave(c)
           \/ ExitLeaves(c),
           missed \subseteq missed'
    PROVE  Good(c)' /\ Apart(c) /\ ~Busy(c)'
<1> DEFINE h == LeaveSess(heap, c)
<1>1. NetTypes /\ heap \in Heaps
  BY DEF TypeInv, ServerTypes
<1>2. h \in Heaps /\ \A d \in Conns \ {c} : h.joined[d] = heap.joined[d]
  BY <1>1, LeaveSessKeeps
<1>3. Patient => h.joined[c] = <<>>
  BY <1>1, LeaveEmpties DEF Good, Member
<1> HIDE DEF h
<1>4. CASE Leave(c)
  <2>1. Reads(c, "LEAVE_SESS") /\ Silent(c, h, "recv")
    BY <1>4 DEF Leave, h
  <2>2. Popped(c, "LEAVE_SESS") /\ c2s[c] # <<>> /\ thr[c] = "recv"
    BY <1>1, <2>1, ReadPops
  <2>3. /\ Apart(c) /\ heap'.joined = h.joined
        /\ UNCHANGED <<link, s2c>> /\ thr'[c] \in {"recv", "stuck", "lost"}
    BY <1>2, <2>1, ReadApart, SilentApart, PlaceNames
  <2>4. link[c] # "none"
    BY <2>2 DEF Good, Wiring
  <2>5. Good(c)'
    BY <1>3, <2>2, <2>3, <2>4, LeftKeeps
  <2> QED BY <2>3, <2>5 DEF Busy
<1>5. CASE ExitLeaves(c)
  <2>1. Silent(c, h, "leave") /\ thr[c] = "leave" /\ c2s' = c2s
    BY <1>5 DEF ExitLeaves, h
  <2>2. /\ Apart(c) /\ heap'.joined = h.joined
        /\ UNCHANGED <<link, s2c>> /\ thr'[c] \in {"leave", "stuck", "lost"}
    BY <1>2, <2>1, SilentApart, PlaceNames
  <2>3. link[c] # "none"
    BY <2>1 DEF Good, Wiring
  <2>4. Good(c)'
    BY <1>3, <2>1, <2>2, <2>3, LeftKeeps
  <2> QED BY <2>2, <2>4 DEF Busy
<1> QED BY <1>4, <1>5

\* Steps that read no LEAVE_SESS, change no list of sessions and send nothing ...
LEMMA SilentIdle ==
    ASSUME TypeInv, NEW c \in Conns, Good(c), UNCHANGED clients,
           NEW h \in Heaps, h.joined = heap.joined,
           NEW pc \in {"granted", "recv", "gone", "leave"},
           pc = "leave" => ui[c] = "out", Silent(c, h, pc),
           \/ c2s' = c2s /\ link[c] # "none" /\ Active(c) /\ ~Busy(c)
           \/ \E t \in ToServer \ {"LEAVE_SESS"} : Reads(c, t),
           missed \subseteq missed'
    PROVE  Good(c)' /\ Apart(c) /\ ~Busy(c)'
<1>1. NetTypes /\ pc \in Places
  BY PlaceNames DEF TypeInv
<1>2. \A d \in Conns \ {c} : c2s'[d] = c2s[d] /\ h.joined[d] = heap.joined[d]
  BY ReadApart
<1>3. /\ Apart(c) /\ heap'.joined = h.joined
      /\ UNCHANGED <<link, s2c>> /\ thr'[c] \in {pc, "stuck", "lost"}
  BY <1>1, <1>2, SilentApart
<1>4. Idle(c)
  <2>1. CASE c2s' = c2s /\ link[c] # "none" /\ Active(c) /\ ~Busy(c)
    BY <1>3, <2>1 DEF Idle, LinkKeeps
  <2>2. CASE \E t \in ToServer \ {"LEAVE_SESS"} : Reads(c, t)
    <3>1. PICK t \in ToServer \ {"LEAVE_SESS"} : Reads(c, t)
      BY <2>2
    <3>2. Popped(c, t) /\ c2s[c] # <<>> /\ thr[c] = "recv"
      BY <1>1, <3>1, ReadPops
    <3>3. link[c] # "none" /\ Active(c) /\ ~Busy(c)
      BY <3>2 DEF Good, Wiring, Active, Busy
    <3>4. Has(c2s[c], "LEAVE_SESS") => Has(c2s'[c], "LEAVE_SESS")
      BY <3>1, <3>2 DEF Popped
    <3> QED BY <1>3, <3>2, <3>3, <3>4 DEF Idle, LinkKeeps, Popped
  <2> QED BY <2>1, <2>2
<1> QED BY <1>3, <1>4, IdleKeeps DEF Busy

\* ... and such that reply to LOGIN.
LEMMA ReplyIdle ==
    ASSUME TypeInv, NEW c \in Conns, Good(c), UNCHANGED clients,
           NEW h, h.joined = heap.joined,
           NEW pc \in {"recv", "gone"}, NEW m \in {"LO_ACK", "LO_NAK"},
           Replies(c, h, pc, m),
           \/ c2s' = c2s /\ link[c] # "none" /\ Active(c) /\ ~Busy(c)
           \/ Reads(c, "LOGIN"),
           missed \subseteq missed'
    PROVE  Good(c)' /\ Apart(c) /\ ~Busy(c)'
<1>1. NetTypes /\ ServerTypes /\ pc \in Places /\ m \in ToClient /\ m \notin Acks
  BY PlaceNames DEF TypeInv, Acks
<1>2. \A d \in Conns \ {c} : c2s'[d] = c2s[d] /\ h.joined[d] = heap.joined[d]
  BY ReadApart
<1>3. Apart(c)
  BY <1>1, <1>2, AnswerApart
<1>4. Pushed(c, m) /\ heap' = h /\ thr'[c] = pc
  BY <1>1, ReplyPushes
<1>5. /\ LinkKeeps(c) /\ (link[c] # "open" => s2c'[c] = s2c[c])
      /\ \A x \in Acks : Holds(s2c'[c], x) <=> Holds(s2c[c], x)
      /\ OneAck(s2c[c]) => OneAck(s2c'[c])
  BY <1>1, <1>4 DEF Pushed
<1>6. Idle(c)
  <2>1. CASE c2s' = c2s /\ link[c] # "none" /\ Active(c) /\ ~Busy(c)
    BY <1>4, <1>5, <2>1 DEF Idle
  <2>2. CASE Reads(c, "LOGIN")
    <3>1. Popped(c, "LOGIN") /\ c2s[c] # <<>> /\ thr[c] = "recv"
      BY <1>1, <2>2, ReadPops
    <3>2. link[c] # "none" /\ Active(c) /\ ~Busy(c)
      BY <3>1 DEF Good, Wiring, Active, Busy
    <3> QED BY <1>4, <1>5, <3>1, <3>2 DEF Idle, Popped
  <2> QED BY <2>1, <2>2
<1> QED BY <1>3, <1>4, <1>6, IdleKeeps DEF Busy

LEMMA LoginGood ==
    ASSUME TypeInv, NEW c \in Conns, Good(c), UNCHANGED clients,
           \/ Login(c)
           \/ Grant(c),
           missed \subseteq missed'
    PROVE  Good(c)' /\ Apart(c) /\ ~Busy(c)'
<1>1. heap \in Heaps
  BY DEF TypeInv, ServerTypes
<1>2. CASE Login(c)
  <2>1. Reads(c, "LOGIN") /\ NetTypes
    BY <1>2 DEF Login, TypeInv
  <2>2. PICK a \in Users \cup {NoName} : a = Arg(c)
    BY <2>1, ReadsMeans, PacketArgs
  <2> DEFINE h == [heap EXCEPT !.clientID[c] = a]
  <2>3. h \in Heaps /\ h.joined = heap.joined
    BY <1>1, HeapNames
  <2>4. Silent(c, h, "granted") \/ Replies(c, h, "recv", "LO_NAK")
    BY <1>2, <2>2 DEF Login
  <2> HIDE DEF h
  <2>5. "LOGIN" \in ToServer \ {"LEAVE_SESS"}
    BY DEF ToServer
  <2> QED BY <2>1, <2>3, <2>4, <2>5, SilentIdle, ReplyIdle
<1>3. CASE Grant(c)
  <2>1. thr[c] = "granted" /\ Replies(c, heap, "recv", "LO_ACK") /\ c2s' = c2s
    BY <1>3 DEF Grant
  <2>2. link[c] # "none" /\ Active(c) /\ ~Busy(c)
    BY <2>1 DEF Good, Wiring, Active, Busy
  <2> QED BY <2>1, <2>2, ReplyIdle
<1> QED BY <1>2, <1>3

LEMMA QueryGood ==
    ASSUME TypeInv, NEW c \in Conns, Good(c), UNCHANGED clients, Query(c),
           missed \subseteq missed'
    PROVE  Good(c)' /\ Apart(c) /\ ~Busy(c)'
<1> DEFINE h == [heap EXCEPT !.fault = "segv"]
<1>1. /\ Reads(c, "QUERY") /\ NetTypes /\ ServerTypes /\ "QUERY" \in ToServer \ {"LEAVE_SESS"}
      /\ Silent(c, h, "recv") \/ Replies(c, heap, "recv", "QU_ACK")
  BY DEF Query, TypeInv, ToServer
<1>2. h \in Heaps /\ h.joined = heap.joined
  BY DEF TypeInv, ServerTypes, Heaps, Faults
<1> HIDE DEF h
<1>3. CASE Silent(c, h, "recv")
  BY <1>1, <1>2, <1>3, SilentIdle
<1>4. CASE Replies(c, heap, "recv", "QU_ACK")
  <2>1. Pushed(c, "QU_ACK") /\ heap' = heap /\ thr'[c] = "recv"
    BY <1>1, <1>4, ReplyPushes, PlaceNames
  <2>2. Popped(c, "QUERY") /\ c2s[c] # <<>> /\ thr[c] = "recv"
    BY <1>1, ReadPops
  <2>3. Apart(c)
    BY <1>1, <1>4, ReadApart, AnswerApart, PlaceNames
  <2>4. Good(c)'
    BY <2>1, <2>2, AnsweredKeeps
  <2> QED BY <2>1, <2>3, <2>4 DEF Busy
<1> QED BY <1>1, <1>3, <1>4

\* EXIT is sent, and the stream ends, when the program is over.
LEMMA HangupGood ==
    ASSUME TypeInv, NEW c \in Conns, Good(c), UNCHANGED clients, Hangup(c),
           missed \subseteq missed'
    PROVE  Good(c)' /\ Apart(c) /\ ~Busy(c)'
<1>1. NetTypes /\ ServerTypes /\ heap \in Heaps /\ "EXIT" \in ToServer \ {"LEAVE_SESS"}
  BY DEF TypeInv, ServerTypes, ToServer
<1>2. PICK pc \in {"gone", "leave"} : pc = IF source[c] = NoName THEN "gone" ELSE "leave"
  OBVIOUS
<1>3. CASE Reads(c, "EXIT") /\ Silent(c, heap, pc)
  <2>1. Popped(c, "EXIT")
    BY <1>1, <1>3, ReadPops
  <2>2. ui[c] = "out"
    BY <2>1 DEF Popped, Good, Wiring
  <2> QED BY <1>1, <1>3, <2>2, SilentIdle
<1> DEFINE h == [heap EXCEPT !.clientID[c] = NoName]
<1>4. CASE /\ thr[c] = "recv" /\ link[c] \in {"fin", "finrst"} /\ c2s' = c2s
           /\ IF source[c] = NoName THEN Replies(c, h, pc, "LO_NAK")
              ELSE Silent(c, heap, pc)
  <2>1. link[c] # "none" /\ Active(c) /\ ~Busy(c) /\ ui[c] = "out"
    <3>1. ui[c] \in {"off", "login", "on", "out"}
      BY DEF TypeInv, ClientTypes
    <3> QED BY <1>4, <3>1 DEF Good, Wiring, Active, Busy
  <2>2. h.joined = heap.joined
    BY <1>1, HeapNames
  <2> HIDE DEF h
  <2>3. CASE source[c] = NoName
    BY <1>2, <1>4, <2>1, <2>2, <2>3, ReplyIdle
  <2>4. CASE source[c] # NoName
    BY <1>1, <1>4, <2>1, <2>4, SilentIdle
  <2> QED BY <2>3, <2>4
<1> HIDE DEF h
<1>5. \/ Reads(c, "EXIT") /\ Silent(c, heap, pc)
      \/ /\ thr[c] = "recv" /\ link[c] \in {"fin", "finrst"} /\ c2s' = c2s
         /\ IF source[c] = NoName THEN Replies(c, h, pc, "LO_NAK")
            ELSE Silent(c, heap, pc)
  BY <1>2 DEF Hangup, h
<1> QED BY <1>3, <1>4, <1>5

LEMMA ExitFreesGood ==
    ASSUME TypeInv, NEW c \in Conns, Good(c), UNCHANGED clients, ExitFrees(c),
           missed \subseteq missed'
    PROVE  Good(c)' /\ Apart(c) /\ ~Busy(c)'
<1>1. Silent(c, FreedHeap(c), "gone") /\ c2s' = c2s /\ thr[c] = "leave"
  BY DEF ExitFrees, FreedHeap
<1>2. FreedHeap(c) \in Heaps /\ FreedHeap(c).joined = heap.joined
  BY FreedHeapMeans DEF TypeInv
<1>3. link[c] # "none" /\ Active(c) /\ ~Busy(c)
  BY <1>1 DEF Good, Wiring, Active, Busy
<1> QED BY <1>1, <1>2, <1>3, SilentIdle

\* Steps that change nothing but where the thread is, if anything.
LEMMA AcceptGood ==
    ASSUME TypeInv, NEW c \in Conns, Good(c), UNCHANGED clients,
           \/ Accept(c)
           \/ RecvFails(c),
           missed \subseteq missed'
    PROVE  Good(c)' /\ Apart(c) /\ ~Busy(c)'
<1>1. thr \in [Conns -> Places]
  BY DEF TypeInv, ServerTypes
<1>2. /\ UNCHANGED <<link, c2s, s2c, heap>> /\ link[c] # "none" /\ thr[c] \in {"none", "recv"}
      /\ thr'[c] = "recv" /\ \A d \in Conns \ {c} : thr'[d] = thr[d]
  BY <1>1 DEF Accept, RecvFails, net, threads
<1>3. Idle(c)
  BY <1>2 DEF Idle, LinkKeeps, Active, Busy
<1> QED BY <1>2, <1>3, IdleKeeps DEF Apart, Busy

\* A broadcast is read by one and heard by many.
LEMMA BroadcastGood ==
    ASSUME TypeInv, NEW c \in Conns, Good(c), UNCHANGED clients, Broadcast(c),
           missed \subseteq missed'
    PROVE  Good(c)' /\ ~Busy(c)' /\ \A d \in Conns \ {c} : Foreign(d)
<1>1. /\ Reads(c, "MESSAGE") /\ NetTypes /\ ServerTypes
      /\ UNCHANGED <<thr, heap>>
  BY DEF Broadcast, threads, TypeInv
<1>2. /\ s2c' \in [Conns -> Seq(ToClient)]
      /\ \A d \in Conns : /\ LinkKeeps(d) /\ Grown(s2c[d], s2c'[d], {"MESSAGE"})
                          /\ link[d] # "open" => s2c'[d] = s2c[d]
  BY <1>1, BroadcastMeans
<1>3. Popped(c, "MESSAGE") /\ c2s[c] # <<>> /\ thr[c] = "recv"
  BY <1>1, ReadPops
<1>4. \A d \in Conns \ {c} : Foreign(d)
  BY <1>1, <1>2, ReadApart DEF Foreign, clients
<1>5. /\ \A m \in Acks : Holds(s2c'[c], m) <=> Holds(s2c[c], m)
      /\ OneAck(s2c[c]) => OneAck(s2c'[c])
  <2>1. s2c[c] \in Seq(ToClient) /\ s2c'[c] \in Seq(ToClient)
    BY <1>1, <1>2 DEF NetTypes
  <2> QED BY <1>2, <2>1, GrowReply
<1>6. link[c] # "none" /\ Active(c) /\ ~Busy(c)
  BY <1>3 DEF Good, Wiring, Active, Busy
<1>7. Idle(c)
  BY <1>1, <1>2, <1>3, <1>5, <1>6 DEF Idle, Popped
<1> QED BY <1>1, <1>3, <1>4, <1>7, IdleKeeps DEF Busy

\* Every step of the server, for its own connection and for the others.
LEMMA ServerKeeps ==
    ASSUME TypeInv, NEW c \in Conns, UNCHANGED clients, Good(c), c \notin missed => Found(c),
           \/ Accept(c)
           \/ ThreadStep(c),
           missed \subseteq missed'
    PROVE  /\ Good(c)' /\ Found(c)' /\ \A d \in Conns \ {c} : Foreign(d)
           /\ Broadcast(c) \/ Apart(c)
<1>1. CASE Broadcast(c)
  BY <1>1, BroadcastGood DEF Found
<1>2. CASE Join(c) \/ NewSess(c)
  BY <1>2, JoinGood, NewSessGood, ApartIsForeign
<1>3. ASSUME ~Broadcast(c), ~(Join(c) \/ NewSess(c))
      PROVE  Good(c)' /\ Apart(c) /\ ~Busy(c)'
  BY <1>3, AcceptGood, LoginGood, JoinLockedGood, JoinCreatedGood, LeaveGood,
     QueryGood, HangupGood, ExitFreesGood DEF ThreadStep
<1>4. CASE ~Broadcast(c) /\ ~(Join(c) \/ NewSess(c))
  BY <1>3, <1>4, ApartIsForeign DEF Found
<1> QED BY <1>1, <1>2, <1>4

\* Nobody else changes what a thread at work has looked up.
LEMMA OwnSessionId ==
    ASSUME TypeInv, NEW c \in Conns, Accept(c) \/ ThreadStep(c), NEW d \in Conns \ {c}
    PROVE  sessionId'[d] = sessionId[d]
<1>1. sessionId \in [Conns -> SessIds \cup {NoName}]
  BY DEF TypeInv, ServerTypes
<1> QED BY <1>1 DEF Accept, ThreadStep, Login, Grant, Join, JoinLocked, Leave, NewSess,
       JoinCreated, Broadcast, Query, Hangup, RecvFails, ExitLeaves, ExitFrees, threads

LEMMA ServerGood ==
    ASSUME TypeInv, TypeInv', NEW c \in Conns, UNCHANGED clients,
           \A d \in Conns : Good(d) /\ (d \notin missed => Found(d)),
           \/ Accept(c)
           \/ ThreadStep(c),
           Recorded
    PROVE  \A d \in Conns : Good(d)' /\ (d \notin missed' => Found(d)')
<1>1. missed \subseteq missed'
  BY DEF Recorded
<1>2. Good(c)' /\ Found(c)' /\ \A d \in Conns \ {c} : Foreign(d)
  BY <1>1, ServerKeeps
<1>3. ASSUME NEW d \in Conns \ {c} PROVE Good(d)' /\ (d \notin missed' => Found(d)')
  <2>1. Good(d)'
    BY <1>1, <1>2, ForeignKeeps
  <2>2. Busy(d)' => Busy(d)
    BY <1>2 DEF Foreign, Busy
  <2>3. ASSUME Busy(d), d \notin missed' PROVE FindSession(heap', sessionId[d]) # 0
    BY <1>1, <2>3 DEF Recorded, Found
  <2>4. sessionId'[d] = sessionId[d]
    BY OwnSessionId
  <2> QED BY <2>1, <2>2, <2>3, <2>4 DEF Found
<1> QED BY <1>2, <1>3

-----------------------------------------------------------------------------
(***************************************************************************)
(* The connection's own program.                                           *)
(***************************************************************************)

\* What sending a packet of type t adds to the queue.
Queued(c, t) ==
    /\ \A x : Has(c2s'[c], x) <=> (Has(c2s[c], x) \/ t = x)
    /\ (\A x \in Waits : ~Has(c2s[c], x)) => WaitIsLast(c2s'[c])
    /\ \A x : Once(c2s[c], x) /\ (t # x \/ ~Has(c2s[c], x)) => Once(c2s'[c], x)

LEMMA SendQueues ==
    ASSUME NetTypes, NEW c \in Conns, NEW t, NEW a, [type |-> t, arg |-> a] \in Packets,
           Sends(c, t, a)
    PROVE  Queued(c, t) /\ \A d \in Conns \ {c} : c2s'[d] = c2s[d]
<1> DEFINE p == [type |-> t, arg |-> a]
<1>1. p.type = t
  OBVIOUS
<1>2. c2s'[c] = Append(c2s[c], p) /\ \A d \in Conns \ {c} : c2s'[d] = c2s[d]
  BY SendsMeans
<1>3. c2s[c] \in Seq(Packets) /\ p \in Packets
  BY DEF NetTypes
<1> HIDE DEF p
<1> QED BY <1>1, <1>2, <1>3, PushPacket DEF Queued

\* What the user types, without a word about what is typed.
LEMMA TypedGood ==
    ASSUME TypeInv, NEW c \in Conns, Good(c), UNCHANGED server, Types(c),
           NEW t \in ToServer, Queued(c, t),
           \/ /\ t \in {"JOIN", "NEW_SESS"} /\ ~insession[c]
              /\ awaiting'[c] = TRUE /\ insession'[c] = insession[c]
           \/ /\ t = "LEAVE_SESS" /\ insession[c]
              /\ awaiting'[c] = awaiting[c] /\ insession'[c] = FALSE
           \/ /\ t = "QUERY"
              /\ awaiting'[c] = TRUE /\ insession'[c] = insession[c]
           \/ /\ t = "MESSAGE" /\ insession[c]
              /\ awaiting'[c] = awaiting[c] /\ insession'[c] = insession[c],
           missed \subseteq missed'
    PROVE  Good(c)'
<1>1. /\ UNCHANGED <<thr, heap, ui, link, s2c>> /\ ui[c] = "on" /\ link[c] = "open"
      /\ Patient => ~awaiting[c]
  BY DEF server, threads, Types, Good, Wiring
<1>2. Wiring(c)'
  BY <1>1 DEF Good, Wiring, Queued
<1>3. Patient => ~Asked(c) /\ ~Busy(c) /\ ~Told(c)
  BY <1>1 DEF Good, Turns
<1>4. /\ Told(c)' <=> Told(c)
      /\ Entered(c)' <=> Entered(c)
      /\ Entered(c) => Told(c)
      /\ Busy(c)' <=> Busy(c)
      /\ Active(c)' <=> Active(c)
  BY <1>1 DEF Told, Entered, Busy, Active, Acks
<1>5. /\ Asked(c)' <=> Asked(c) \/ t \in Waits
      /\ AsksRoom(c)' <=> AsksRoom(c) \/ t \in {"JOIN", "NEW_SESS"}
      /\ AsksRoom(c) => Asked(c)
  BY DEF Asked, AsksRoom, Queued, Waits
<1>6. Patient => Turns(c)'
  <2>1. Patient => WaitIsLast(c2s'[c])
    BY <1>3 DEF Asked, Queued
  <2> QED BY <1>1, <1>3, <1>4, <1>5, <2>1 DEF Good, Turns, Waits
<1>7. Patient => Member(c)'
  BY <1>1, <1>3, <1>4, <1>5 DEF Good, Member, Queued
<1>8. Patient /\ c \notin missed' => Truth(c)'
  BY <1>1, <1>3, <1>4, <1>5 DEF Good, Truth, Queued
<1> QED BY <1>2, <1>6, <1>7, <1>8 DEF Good

\* The program ends.
LEMMA EndGood ==
    ASSUME TypeInv, NEW c \in Conns, Good(c), UNCHANGED server,
           ui[c] \in {"login", "on"}, ui'[c] = "out", link'[c] \in {"fin", "rst"},
           s2c'[c] = <<>>, awaiting'[c] = awaiting[c],
           \/ insession'[c] = insession[c] /\ c2s'[c] = c2s[c]
           \/ /\ insession'[c] = FALSE /\ Queued(c, "EXIT")
              /\ Patient => ~awaiting[c],
           missed \subseteq missed'
    PROVE  Good(c)'
<1>1. UNCHANGED <<thr, heap>>
  BY DEF server, threads
<1>2. Wiring(c)'
  BY <1>1 DEF Good, Wiring, Queued
<1>3. ~Told(c)' /\ ~Entered(c)' /\ ~Holds(s2c'[c], "JN_NAK") /\ OneAck(s2c'[c])
  BY NothingWaits DEF Told, Entered
<1>4. /\ Busy(c)' <=> Busy(c)
      /\ Active(c)' <=> Active(c)
      /\ Asked(c)' <=> Asked(c)
      /\ AsksRoom(c)' <=> AsksRoom(c)
      /\ \A x \in {"LEAVE_SESS"} : Has(c2s'[c], x) <=> Has(c2s[c], x)
  BY <1>1 DEF Busy, Active, Asked, AsksRoom, Queued, Waits
<1>5. Patient => Turns(c)'
  <2>1. Patient => WaitIsLast(c2s'[c])
    BY DEF Good, Turns, Asked, Queued
  <2> QED BY <1>3, <1>4, <2>1 DEF Good, Turns
<1>6. Patient => Member(c)'
  BY <1>1, <1>3, <1>4 DEF Good, Member
<1>7. Patient /\ c \notin missed' => Truth(c)'
  <2>1. Once(c2s[c], "LEAVE_SESS") => Once(c2s'[c], "LEAVE_SESS")
    BY DEF Queued
  <2> QED BY <1>1, <1>3, <1>4, <2>1 DEF Good, Truth
<1> QED BY <1>2, <1>5, <1>6, <1>7 DEF Good

\* A packet is received, or the reply to LOGIN.
LEMMA TakeGood ==
    ASSUME TypeInv, NEW c \in Conns, Good(c), UNCHANGED server, UNCHANGED <<link, c2s>>,
           s2c[c] # <<>>, s2c' = [s2c EXCEPT ![c] = Tail(@)], NEW m, m = s2c[c][1],
           ui'[c] = "on",
           \/ /\ ui[c] = "login" /\ m = "LO_ACK"
              /\ insession'[c] = insession[c] /\ awaiting'[c] = awaiting[c]
           \/ /\ ui[c] = "on"
              /\ insession'[c] = IF m \in {"JN_ACK", "NS_ACK"} THEN TRUE
                                 ELSE IF m = "JN_NAK" THEN FALSE ELSE insession[c]
              /\ awaiting'[c] = (awaiting[c] /\ m \notin Acks),
           missed \subseteq missed'
    PROVE  Good(c)'
<1>1. UNCHANGED <<thr, heap>> /\ s2c[c] \in Seq(ToClient) /\ s2c'[c] = Tail(s2c[c])
  BY TakesMeans DEF server, threads, TypeInv
<1>2. /\ \A x : Holds(s2c[c], x) <=> (m = x \/ Holds(s2c'[c], x))
      /\ OneAck(s2c[c]) => OneAck(s2c'[c])
      /\ OneAck(s2c[c]) /\ m \in Acks => \A x \in Acks : ~Holds(s2c'[c], x)
  <2> DEFINE q == s2c[c]
  <2>1. q \in Seq(ToClient) /\ q # <<>>
    BY <1>1
  <2> HIDE DEF q
  <2>2. /\ \A x : Holds(q, x) <=> (q[1] = x \/ Holds(Tail(q), x))
        /\ OneAck(q) => OneAck(Tail(q))
        /\ OneAck(q) /\ q[1] \in Acks => \A x \in Acks : ~Holds(Tail(q), x)
    BY <2>1, PopReply
  <2> QED BY <1>1, <2>2 DEF q
<1>3. Wiring(c)'
  BY <1>1 DEF Good, Wiring
<1>4. /\ Busy(c)' <=> Busy(c)
      /\ Active(c)' <=> Active(c)
      /\ Asked(c)' <=> Asked(c)
      /\ AsksRoom(c)' <=> AsksRoom(c)
      /\ AsksRoom(c) => Asked(c)
  BY <1>1 DEF Busy, Active, Asked, AsksRoom, Waits
<1>5. CASE m \in Acks
  <2>1. Told(c) /\ ui[c] = "on" /\ awaiting'[c] = FALSE
        /\ (m \in {"JN_ACK", "NS_ACK"} => Entered(c))
        /\ (m = "JN_NAK" => Holds(s2c[c], "JN_NAK"))
    BY <1>2, <1>5 DEF Told, Acks, Entered
  <2>2. Patient => ~Told(c)' /\ ~Entered(c)' /\ ~Holds(s2c'[c], "JN_NAK")
                   /\ ~Asked(c) /\ ~Busy(c)
    BY <1>2, <1>5, <2>1 DEF Good, Turns, Told, Entered, Acks
  <2>3. Patient => Turns(c)'
    BY <1>1, <1>2, <1>4, <2>2 DEF Good, Turns
  <2>4. Patient => Member(c)'
    <3>1. Entered(c) => m \in {"JN_ACK", "NS_ACK"} \/ ~Patient
      BY <1>2, <2>2 DEF Entered
    <3> QED BY <1>1, <1>4, <2>1, <2>2, <3>1 DEF Good, Member
  <2>5. Patient /\ c \notin missed' => Truth(c)'
    BY <1>1, <1>4, <2>1, <2>2 DEF Good, Truth
  <2> QED BY <1>3, <2>3, <2>4, <2>5 DEF Good
<1>6. CASE m \notin Acks
  <2>1. insession'[c] = insession[c] /\ awaiting'[c] = awaiting[c]
    <3>1. awaiting[c] \in BOOLEAN
      BY DEF TypeInv, ClientTypes
    <3> QED BY <1>6, <3>1 DEF Acks
  <2>2. /\ Told(c)' <=> Told(c)
        /\ Entered(c)' <=> Entered(c)
        /\ Holds(s2c'[c], "JN_NAK") <=> Holds(s2c[c], "JN_NAK")
        /\ Entered(c) => Told(c)
    BY <1>2, <1>6 DEF Told, Entered, Acks
  <2>3. Patient => Turns(c)'
    BY <1>1, <1>2, <1>4, <2>1, <2>2 DEF Good, Turns
  <2>4. Patient => Member(c)'
    BY <1>1, <1>4, <2>1, <2>2 DEF Good, Member
  <2>5. Patient /\ c \notin missed' => Truth(c)'
    BY <1>1, <1>4, <2>1, <2>2 DEF Good, Wiring, Turns, Truth
  <2> QED BY <1>3, <2>3, <2>4, <2>5 DEF Good
<1> QED BY <1>5, <1>6

LEMMA LoginCmdGood ==
    ASSUME TypeInv, NEW c \in Conns, Good(c), UNCHANGED server, LoginCmd(c),
           missed \subseteq missed'
    PROVE  Good(c)' /\ \A d \in Conns \ {c} : c2s'[d] = c2s[d]
<1>1. PICK u \in Users \cup {NoName} : Sends(c, "LOGIN", u)
  BY DEF LoginCmd
<1>2. Queued(c, "LOGIN") /\ \A d \in Conns \ {c} : c2s'[d] = c2s[d]
  BY <1>1, SendQueues, PacketKinds DEF TypeInv
<1>3. /\ ui[c] = "off" /\ ui'[c] = "login" /\ link'[c] = "open"
      /\ UNCHANGED <<insession, awaiting, s2c, thr, heap>>
  BY DEF LoginCmd, TypeInv, NetTypes, ClientTypes, server, threads
<1>4. /\ link[c] = "none" /\ c2s[c] = <<>> /\ s2c[c] = <<>> /\ thr[c] = "none"
      /\ ~insession[c] /\ ~awaiting[c]
  BY <1>3 DEF Good, Wiring
<1>5. /\ \A x : Has(c2s'[c], x) => x = "LOGIN"
      /\ ~Told(c)' /\ ~Entered(c)' /\ ~Holds(s2c'[c], "JN_NAK")
      /\ WaitIsLast(c2s'[c]) /\ OneAck(s2c'[c]) /\ Once(c2s'[c], "LEAVE_SESS")
  <2>1. Once(<<>>, "LEAVE_SESS")
    BY DEF Once
  <2> QED BY <1>2, <1>3, <1>4, <2>1, NothingWaits DEF Queued, Told, Entered
<1>6. Wiring(c)'
  BY <1>3, <1>4, <1>5 DEF Wiring
<1>7. ~Asked(c)' /\ ~AsksRoom(c)' /\ ~Busy(c)'
  BY <1>3, <1>4, <1>5 DEF Asked, AsksRoom, Busy, Waits
<1>8. Patient => Turns(c)'
  BY <1>5, <1>7 DEF Turns
<1>9. Patient => Member(c)'
  BY <1>3, <1>4, <1>5, <1>7 DEF Good, Member
<1>10. Patient /\ c \notin missed' => Truth(c)'
  BY <1>3, <1>4, <1>5, <1>7 DEF Truth
<1> QED BY <1>2, <1>6, <1>8, <1>9, <1>10 DEF Good

LEMMA CommandGood ==
    ASSUME TypeInv, NEW c \in Conns, Good(c), UNCHANGED server,
           \/ JoinCmd(c)
           \/ CreateCmd(c)
           \/ LeaveCmd(c)
           \/ ListCmd(c)
           \/ SendText(c),
           missed \subseteq missed'
    PROVE  /\ Good(c)'
           /\ \A d \in Conns \ {c} : c2s'[d] = c2s[d]
           /\ UNCHANGED <<ui, link, s2c>>
           /\ \A d \in Conns \ {c} :
                 insession'[d] = insession[d] /\ awaiting'[d] = awaiting[d]
<1>1. NetTypes /\ awaiting \in [Conns -> BOOLEAN] /\ insession \in [Conns -> BOOLEAN]
  BY DEF TypeInv, ClientTypes
<1>2. Types(c) /\ UNCHANGED <<ui, link, s2c>>
  BY DEF JoinCmd, CreateCmd, LeaveCmd, ListCmd, SendText, Types
<1>3. ASSUME NEW t \in {"JOIN", "NEW_SESS"}, NEW s \in SessIds, Sends(c, t, s)
      PROVE  Queued(c, t) /\ \A d \in Conns \ {c} : c2s'[d] = c2s[d]
  <2>1. [type |-> t, arg |-> s] \in Packets
    BY PacketKinds
  <2> QED BY <1>1, <1>3, <2>1, SendQueues
<1>4. ASSUME NEW t \in {"LEAVE_SESS", "QUERY", "MESSAGE"}, Sends(c, t, NoName)
      PROVE  Queued(c, t) /\ \A d \in Conns \ {c} : c2s'[d] = c2s[d]
  <2>1. [type |-> t, arg |-> NoName] \in Packets
    BY PacketKinds
  <2> QED BY <1>1, <1>4, <2>1, SendQueues
<1>5. /\ \A d \in Conns \ {c} :
            insession'[d] = insession[d] /\ awaiting'[d] = awaiting[d]
      /\ \/ awaiting'[c] = TRUE /\ insession'[c] = insession[c]
               /\ ~insession[c] /\ \E s \in SessIds : Sends(c, "JOIN", s)
         \/ awaiting'[c] = TRUE /\ insession'[c] = insession[c]
               /\ ~insession[c] /\ \E s \in SessIds : Sends(c, "NEW_SESS", s)
         \/ awaiting'[c] = awaiting[c] /\ insession'[c] = FALSE /\ insession[c]
               /\ Sends(c, "LEAVE_SESS", NoName)
         \/ awaiting'[c] = TRUE /\ insession'[c] = insession[c]
               /\ Sends(c, "QUERY", NoName)
         \/ awaiting'[c] = awaiting[c] /\ insession'[c] = insession[c] /\ insession[c]
               /\ Sends(c, "MESSAGE", NoName)
  BY <1>1 DEF JoinCmd, CreateCmd, LeaveCmd, ListCmd, SendText
<1>6. {"JOIN", "NEW_SESS", "LEAVE_SESS", "QUERY", "MESSAGE"} \subseteq ToServer
  BY DEF ToServer
<1>7. CASE awaiting'[c] = TRUE /\ insession'[c] = insession[c]
           /\ ~insession[c] /\ \E s \in SessIds : Sends(c, "JOIN", s)
  BY <1>2, <1>3, <1>5, <1>6, <1>7, TypedGood
<1>8. CASE awaiting'[c] = TRUE /\ insession'[c] = insession[c]
           /\ ~insession[c] /\ \E s \in SessIds : Sends(c, "NEW_SESS", s)
  BY <1>2, <1>3, <1>5, <1>6, <1>8, TypedGood
<1>9. CASE awaiting'[c] = awaiting[c] /\ insession'[c] = FALSE /\ insession[c]
           /\ Sends(c, "LEAVE_SESS", NoName)
  BY <1>2, <1>4, <1>5, <1>6, <1>9, TypedGood
<1>10. CASE awaiting'[c] = TRUE /\ insession'[c] = insession[c] /\ Sends(c, "QUERY", NoName)
  BY <1>2, <1>4, <1>5, <1>6, <1>10, TypedGood
<1>11. CASE awaiting'[c] = awaiting[c] /\ insession'[c] = insession[c] /\ insession[c]
            /\ Sends(c, "MESSAGE", NoName)
  BY <1>2, <1>4, <1>5, <1>6, <1>11, TypedGood
<1> QED BY <1>5, <1>7, <1>8, <1>9, <1>10, <1>11

\* Nothing of the other programs changes when one does something.
Alone(c) ==
    \A d \in Conns \ {c} :
        /\ c2s'[d] = c2s[d] /\ link'[d] = link[d] /\ s2c'[d] = s2c[d]
        /\ ui'[d] = ui[d] /\ insession'[d] = insession[d] /\ awaiting'[d] = awaiting[d]

LEMMA ProgramGood ==
    ASSUME TypeInv, NEW c \in Conns, Good(c), UNCHANGED server, ClientStep(c),
           missed \subseteq missed'
    PROVE  Good(c)' /\ Alone(c)
<1>1. /\ NetTypes /\ ui \in [Conns -> {"off", "login", "on", "out"}]
      /\ awaiting \in [Conns -> BOOLEAN] /\ insession \in [Conns -> BOOLEAN]
  BY DEF TypeInv, ClientTypes
<1>2. CASE LoginCmd(c)
  <2>1. Good(c)' /\ \A d \in Conns \ {c} : c2s'[d] = c2s[d]
    BY <1>2, LoginCmdGood
  <2>2. \A d \in Conns \ {c} : ui'[d] = ui[d] /\ link'[d] = link[d]
    BY <1>1, <1>2 DEF LoginCmd, NetTypes
  <2> QED BY <1>2, <2>1, <2>2 DEF LoginCmd, Alone
<1>3. CASE LoginReply(c)
  <2>1. /\ ui[c] = "login" /\ s2c[c] # <<>> /\ UNCHANGED <<insession, awaiting, c2s>>
        /\ \A d \in Conns \ {c} : ui'[d] = ui[d]
    BY <1>1, <1>3 DEF LoginReply
  <2>2. CASE Head(s2c[c]) = "LO_ACK"
    <3>1. /\ s2c' = [s2c EXCEPT ![c] = Tail(@)] /\ UNCHANGED link /\ ui'[c] = "on"
      BY <1>1, <1>3, <2>2 DEF LoginReply
    <3>2. s2c[c][1] = "LO_ACK" /\ \A d \in Conns \ {c} : s2c'[d] = s2c[d]
      BY <1>1, <2>1, <2>2, <3>1, TakesMeans
    <3>3. Good(c)'
      BY <2>1, <3>1, <3>2, TakeGood
    <3> QED BY <2>1, <3>1, <3>2, <3>3 DEF Alone
  <2>3. CASE Head(s2c[c]) # "LO_ACK"
    <3>1. Closes(c, Tail(s2c[c])) /\ ui'[c] = "out"
      BY <1>1, <1>3, <2>3 DEF LoginReply
    <3>2. /\ link'[c] \in {"fin", "rst"} /\ s2c'[c] = <<>>
          /\ \A d \in Conns \ {c} : link'[d] = link[d] /\ s2c'[d] = s2c[d]
      BY <1>1, <3>1, ClosesMeans
    <3>3. Good(c)'
      BY <2>1, <3>1, <3>2, EndGood
    <3> QED BY <2>1, <3>2, <3>3 DEF Alone
  <2> QED BY <2>2, <2>3
<1>4. CASE JoinCmd(c) \/ CreateCmd(c) \/ LeaveCmd(c) \/ ListCmd(c) \/ SendText(c)
  BY <1>4, CommandGood DEF Alone
<1>5. CASE LogoutCmd(c)
  <2>1. /\ ui[c] = "on" /\ ui'[c] = "out" /\ insession'[c] = FALSE /\ UNCHANGED awaiting
        /\ Patient => ~awaiting[c]
        /\ Sends(c, "EXIT", NoName) /\ Closes(c, s2c[c])
        /\ \A d \in Conns \ {c} : ui'[d] = ui[d] /\ insession'[d] = insession[d]
    BY <1>1, <1>5 DEF LogoutCmd
  <2>2. Queued(c, "EXIT") /\ \A d \in Conns \ {c} : c2s'[d] = c2s[d]
    <3>1. [type |-> "EXIT", arg |-> NoName] \in Packets
      BY PacketKinds
    <3> QED BY <1>1, <2>1, <3>1, SendQueues
  <2>3. /\ link'[c] \in {"fin", "rst"} /\ s2c'[c] = <<>>
        /\ \A d \in Conns \ {c} : link'[d] = link[d] /\ s2c'[d] = s2c[d]
    BY <1>1, <2>1, ClosesMeans
  <2>4. Good(c)'
    BY <2>1, <2>2, <2>3, EndGood
  <2> QED BY <2>1, <2>2, <2>3, <2>4 DEF Alone
<1>6. CASE Kill(c)
  <2>1. /\ ui[c] \in {"login", "on"} /\ ui'[c] = "out" /\ UNCHANGED <<insession, awaiting, c2s>>
        /\ Closes(c, s2c[c]) /\ \A d \in Conns \ {c} : ui'[d] = ui[d]
    BY <1>1, <1>6 DEF Kill
  <2>2. /\ link'[c] \in {"fin", "rst"} /\ s2c'[c] = <<>>
        /\ \A d \in Conns \ {c} : link'[d] = link[d] /\ s2c'[d] = s2c[d]
    BY <1>1, <2>1, ClosesMeans
  <2>3. Good(c)'
    BY <2>1, <2>2, EndGood
  <2> QED BY <2>1, <2>2, <2>3 DEF Alone
<1>7. CASE Receive(c)
  <2>1. /\ ui[c] = "on" /\ s2c[c] # <<>> /\ UNCHANGED <<ui, link, c2s>>
        /\ s2c' = [s2c EXCEPT ![c] = Tail(@)]
    BY <1>7 DEF Receive
  <2>2. Head(s2c[c]) = s2c[c][1] /\ \A d \in Conns \ {c} : s2c'[d] = s2c[d]
    BY <1>1, <2>1, TakesMeans
  <2> DEFINE m == Head(s2c[c])
  <2>3. /\ insession'[c] = IF m \in {"JN_ACK", "NS_ACK"} THEN TRUE
                           ELSE IF m = "JN_NAK" THEN FALSE ELSE insession[c]
        /\ awaiting'[c] = (awaiting[c] /\ m \notin Acks)
        /\ \A d \in Conns \ {c} :
              insession'[d] = insession[d] /\ awaiting'[d] = awaiting[d]
    BY <1>1, <1>7 DEF Receive, Acks
  <2> HIDE DEF m
  <2>4. Good(c)'
    BY <2>1, <2>2, <2>3, TakeGood DEF m
  <2> QED BY <2>1, <2>2, <2>3, <2>4 DEF Alone
<1> QED BY <1>2, <1>3, <1>4, <1>5, <1>6, <1>7 DEF ClientStep

LEMMA ClientGood ==
    ASSUME TypeInv, TypeInv', NEW c \in Conns, UNCHANGED server, ClientStep(c),
           \A d \in Conns : Good(d) /\ (d \notin missed => Found(d)),
           missed \subseteq missed'
    PROVE  \A d \in Conns : Good(d)' /\ (d \notin missed' => Found(d)')
<1>1. Good(c)' /\ Alone(c)
  BY ProgramGood
<1>2. UNCHANGED <<thr, sessionId, heap>>
  BY DEF server, threads
<1>3. ASSUME NEW d \in Conns \ {c} PROVE Foreign(d)
  <2>1. s2c[d] \in Seq(ToClient)
    BY DEF TypeInv, NetTypes
  <2>2. Grown(s2c[d], s2c[d], {"MESSAGE"})
    BY <2>1 DEF Grown
  <2> QED BY <1>1, <1>2, <2>2 DEF Alone, Foreign, LinkKeeps
<1>4. \A d \in Conns : Good(d)'
  BY <1>1, <1>3, ForeignKeeps
<1>5. \A d \in Conns : Found(d)' <=> Found(d)
  BY <1>2 DEF Found, Busy
<1> QED BY <1>4, <1>5

-----------------------------------------------------------------------------
\* The invariant of the proofs.
SessionInv == TypeInv /\ \A c \in Conns : Good(c) /\ (c \notin missed => Found(c))

LEMMA SessionInvInit == Init => SessionInv
<1> SUFFICES ASSUME Init, NEW c \in Conns PROVE Good(c) /\ Found(c)
  BY InitTyped DEF SessionInv
<1>1. /\ link[c] = "none" /\ c2s[c] = <<>> /\ s2c[c] = <<>> /\ thr[c] = "none"
      /\ ui[c] = "off" /\ insession[c] = FALSE /\ awaiting[c] = FALSE
      /\ heap.joined[c] = <<>>
  BY DEF Init, NetInit, ServerInit, ClientInit, EmptyHeap
<1>2. ~Asked(c) /\ ~Told(c) /\ ~AsksRoom(c) /\ ~Entered(c) /\ ~Busy(c)
  BY <1>1, NothingWaits DEF Asked, Told, AsksRoom, Entered, Busy
<1>3. Once(<<>>, "LEAVE_SESS")
  BY DEF Once
<1>4. Wiring(c)
  BY <1>1, NothingWaits DEF Wiring
<1>5. Turns(c)
  BY <1>1, <1>2, NothingWaits DEF Turns
<1>6. Member(c)
  BY <1>1, <1>2, NothingWaits DEF Member
<1>7. Truth(c)
  BY <1>1, <1>2, <1>3, NothingWaits DEF Truth
<1> QED BY <1>2, <1>4, <1>5, <1>6, <1>7 DEF Good, Found

LEMMA SessionInvStays == SessionInv /\ [Next]_vars => SessionInv'
<1> SUFFICES ASSUME SessionInv, [Next]_vars PROVE SessionInv'
  OBVIOUS
<1>1. TypeInv /\ TypeInv'
  BY NextTyped DEF SessionInv
<1>2. CASE UNCHANGED vars
  BY <1>1, <1>2 DEF SessionInv, vars, net, server, threads, clients, races, Good, Found, Wiring,
     Turns, Member, Truth, Asked, Told, Busy, Active, AsksRoom, Entered
<1>3. ASSUME NEW c \in Conns, Accept(c) \/ ThreadStep(c), UNCHANGED clients, Recorded
      PROVE  SessionInv'
  BY <1>1, <1>3, ServerGood DEF SessionInv
<1>4. ASSUME NEW c \in Conns, ClientStep(c), UNCHANGED server, Recorded
      PROVE  SessionInv'
  BY <1>1, <1>4, ClientGood DEF SessionInv, Recorded
<1> QED BY <1>2, <1>3, <1>4 DEF Next

\* Client, connection, thread and lists of each connection fit together.
THEOREM SessionInvHolds == Spec => []SessionInv
<1> QED BY SessionInvInit, SessionInvStays, PTL DEF Spec

\* SessionList.h 23, "one client, one session": true of users who wait for the
\* replies to what they type, however the server's threads interleave.
THEOREM OneClientOneSession == Spec => [](Patient => OneSession)
<1>1. SessionInv => (Patient => OneSession)
  <2> SUFFICES ASSUME SessionInv, Patient, NEW c \in Conns
               PROVE  Len(heap.joined[c]) <= 1
    BY DEF OneSession
  <2>1. heap.joined[c] = <<>> \/ \E s \in SessIds : heap.joined[c] = <<s>>
    BY DEF SessionInv, Good, Member
  <2>2. CASE heap.joined[c] = <<>>
    BY <2>2
  <2>3. ASSUME NEW s \in SessIds, heap.joined[c] = <<s>>
        PROVE  Len(heap.joined[c]) <= 1
    <3>1. Len(<<s>>) = 1
      OBVIOUS
    <3> QED BY <2>3, <3>1
  <2> QED BY <2>1, <2>2, <2>3
<1> QED BY <1>1, SessionInvHolds, PTL

\* A member's program knows that it is in a session once nothing is under way,
\* however the server's threads interleave.
THEOREM MemberIsTold == Spec => [](Patient => MemberKnows)
<1>1. SessionInv => (Patient => MemberKnows)
  <2> SUFFICES ASSUME SessionInv, Patient, NEW c \in Conns, Quiet(c),
                      heap.joined[c] # <<>>
               PROVE  insession[c]
    BY DEF MemberKnows
  <2>1. ui[c] = "on" /\ Active(c) /\ ~Entered(c) /\ ~Has(c2s[c], "LEAVE_SESS")
    BY NothingWaits DEF Quiet, Active, Entered
  <2> QED BY <2>1 DEF SessionInv, Good, Member
<1> QED BY <1>1, SessionInvHolds, PTL

\* client.c 45: a program that says "Successfully joined session" is a member,
\* so its /leavesession finds what it leaves, however the threads interleave,
\* unless the session went after its thread had found it (missed).
THEOREM AckIsTrue == Spec => [](Patient => AckedIsMember)
<1>1. SessionInv => (Patient => AckedIsMember)
  <2> SUFFICES ASSUME SessionInv, Patient, NEW c \in Conns, Quiet(c),
                      insession[c], c \notin missed
               PROVE  heap.joined[c] # <<>>
    BY DEF AckedIsMember
  <2>1. ui[c] = "on" /\ Active(c)
    BY DEF Quiet, Active
  <2> QED BY <2>1 DEF SessionInv, Good, Truth
<1> QED BY <1>1, SessionInvHolds, PTL

-----------------------------------------------------------------------------
(***************************************************************************)
(* The lists of patient users.  Nobody is on two of them, so that each is  *)
(* what its session counts and no loop over one is endless.                *)
(***************************************************************************)
ListsInv ==
    /\ Listed(heap) /\ (down = "up" => Housed(heap))
    /\ \A c \in Conns : Active(c)

\* A step of c that touches no list and does not end in one.
ListsKept(c) ==
    /\ heap'.list = heap.list /\ heap'.next = heap.next /\ heap'.joined = heap.joined
    /\ \A d \in Conns \ {c} : thr'[d] = thr[d]
    /\ thr'[c] \notin {"stuck", "lost", "locked"}

\* What the threads make of the rooms: one opens, is entered, or is left.
RoomMove(c) ==
    \/ heap'.joined = heap.joined /\ OpenIn(heap') = OpenIn(heap)
    \/ /\ heap'.joined = heap.joined
       /\ \E s \in SessIds : OpenIn(heap') = OpenIn(heap) \cup {s}
    \/ /\ OpenIn(heap') = OpenIn(heap) /\ heap.joined[c] = <<>>
       /\ \E s \in SessIds \cap OpenIn(heap) : heap'.joined[c] = <<s>>
       /\ \A d \in Conns \ {c} : heap'.joined[d] = heap.joined[d]
    \/ /\ heap'.joined[c] = <<>>
       /\ \A d \in Conns \ {c} : heap'.joined[d] = heap.joined[d]
       /\ \E s \in SessIds :
            /\ heap.joined[c] = <<s>>
            /\ \/ OpenIn(heap') = OpenIn(heap)
               \/ /\ OpenIn(heap') = OpenIn(heap) \ {s}
                  /\ \A d \in Conns \ {c} : heap.joined[d] # <<s>>

LEMMA KeptIsFine ==
    ASSUME ListsInv, down = "up", NEW c \in Conns, ListsKept(c)
    PROVE  ListsInv' /\ RoomMove(c)
<1>1. Housed(heap) /\ Listed(heap)
  BY DEF ListsInv
<1>2. Housed(heap') /\ Listed(heap') /\ OpenIn(heap') = OpenIn(heap)
  BY <1>1, HousedSame DEF ListsKept
<1>3. \A d \in Conns : Active(d)'
  BY DEF ListsInv, ListsKept, Active
<1> QED BY <1>2, <1>3 DEF ListsInv, RoomMove, ListsKept

LEMMA SilentKeepsLists ==
    ASSUME TypeInv, NEW c \in Conns, NEW h \in Heaps, NEW pc \in Places,
           h.list = heap.list, h.next = heap.next, h.joined = heap.joined,
           h.fault # "hang", pc \notin {"stuck", "lost", "locked"}, Silent(c, h, pc)
    PROVE  ListsKept(c)
<1>1. /\ heap'.list = h.list /\ heap'.next = h.next /\ heap'.joined = h.joined
      /\ thr' = [thr EXCEPT ![c] = IF h.fault = "hang" THEN Looping(pc) ELSE pc]
  BY EndsMeans DEF Silent, TypeInv
<1>2. thr \in [Conns -> Places]
  BY DEF TypeInv, ServerTypes
<1> QED BY <1>1, <1>2 DEF ListsKept

LEMMA ReplyKeepsLists ==
    ASSUME TypeInv, NEW c \in Conns, NEW h, NEW pc \in Places, NEW m \in ToClient,
           h.list = heap.list, h.next = heap.next, h.joined = heap.joined,
           pc \notin {"stuck", "lost", "locked"}, Replies(c, h, pc, m)
    PROVE  ListsKept(c)
<1>1. heap' = h /\ thr' = [thr EXCEPT ![c] = pc]
  BY DEF Replies
<1>2. thr \in [Conns -> Places]
  BY DEF TypeInv, ServerTypes
<1> QED BY <1>1, <1>2 DEF ListsKept

\* The steps that have to do with no list.
LEMMA OtherStepsKeepLists ==
    ASSUME TypeInv, NEW c \in Conns, Active(c),
           \/ Accept(c)
           \/ Login(c)
           \/ Grant(c)
           \/ Join(c)
           \/ Broadcast(c)
           \/ Query(c)
           \/ Hangup(c)
           \/ RecvFails(c)
           \/ ExitFrees(c)
    PROVE  ListsKept(c)
<1>1. NetTypes /\ ServerTypes /\ heap \in Heaps /\ heap.fault = "none" /\ thr \in [Conns -> Places]
  BY DEF TypeInv, ServerTypes
<1>2. /\ {"recv", "gone", "granted", "joining", "leave"}
             \subseteq Places \ {"stuck", "lost", "locked"}
      /\ {"LO_ACK", "LO_NAK", "JN_NAK", "QU_ACK"} \subseteq ToClient
  BY PlaceNames
<1>3. CASE Accept(c)
  BY <1>1, <1>3 DEF Accept, ListsKept
<1>4. CASE Login(c)
  <2>1. Reads(c, "LOGIN")
    BY <1>4 DEF Login
  <2>2. PICK a \in Users \cup {NoName} : a = Arg(c)
    BY <1>1, <2>1, ReadsMeans, PacketArgs
  <2> DEFINE h == [heap EXCEPT !.clientID[c] = a]
  <2>3. Silent(c, h, "granted") \/ Replies(c, h, "recv", "LO_NAK")
    BY <1>4, <2>2 DEF Login
  <2>4. /\ h \in Heaps /\ h.fault = "none" /\ h.list = heap.list
        /\ h.next = heap.next /\ h.joined = heap.joined
    BY <1>1, HeapNames
  <2> HIDE DEF h
  <2> QED BY <1>2, <2>3, <2>4, SilentKeepsLists, ReplyKeepsLists
<1>5. CASE Grant(c)
  <2>1. Replies(c, heap, "recv", "LO_ACK")
    BY <1>5 DEF Grant
  <2> QED BY <1>2, <2>1, ReplyKeepsLists
<1>6. CASE Join(c)
  <2>1. Silent(c, heap, "joining") \/ Replies(c, heap, "recv", "JN_NAK")
    BY <1>6 DEF Join
  <2> QED BY <1>1, <1>2, <2>1, SilentKeepsLists, ReplyKeepsLists
<1>7. CASE Broadcast(c)
  <2>1. UNCHANGED <<thr, heap>>
    BY <1>7 DEF Broadcast, threads
  <2> QED BY <2>1 DEF ListsKept, Active
<1>8. CASE Query(c)
  <2> DEFINE h == [heap EXCEPT !.fault = "segv"]
  <2>1. Silent(c, h, "recv") \/ Replies(c, heap, "recv", "QU_ACK")
    BY <1>8 DEF Query
  <2>2. /\ h \in Heaps /\ h.fault = "segv" /\ h.list = heap.list
        /\ h.next = heap.next /\ h.joined = heap.joined
    BY <1>1 DEF Heaps, Faults
  <2> HIDE DEF h
  <2> QED BY <1>2, <2>1, <2>2, SilentKeepsLists, ReplyKeepsLists
<1>9. CASE Hangup(c)
  <2> DEFINE h == [heap EXCEPT !.clientID[c] = NoName]
             pc == IF source[c] = NoName THEN "gone" ELSE "leave"
  <2>1. Silent(c, heap, pc) \/ Replies(c, h, pc, "LO_NAK")
    BY <1>9 DEF Hangup
  <2>2. /\ h \in Heaps /\ h.fault = "none" /\ h.list = heap.list
        /\ h.next = heap.next /\ h.joined = heap.joined
    BY <1>1, HeapNames
  <2>3. pc \in Places \ {"stuck", "lost", "locked"}
    BY <1>2
  <2> HIDE DEF h, pc
  <2> QED BY <1>1, <1>2, <2>1, <2>2, <2>3, SilentKeepsLists, ReplyKeepsLists
<1>10. CASE RecvFails(c)
  <2>1. UNCHANGED <<thr, heap>>
    BY <1>10 DEF RecvFails, threads
  <2> QED BY <2>1 DEF ListsKept, Active
<1>11. CASE ExitFrees(c)
  <2>1. Silent(c, FreedHeap(c), "gone")
    BY <1>11 DEF ExitFrees, FreedHeap
  <2>2. /\ FreedHeap(c) \in Heaps /\ FreedHeap(c).list = heap.list
        /\ FreedHeap(c).joined = heap.joined /\ FreedHeap(c).fault # "hang"
    BY <1>1, FreedHeapMeans
  <2>3. FreedHeap(c).next = heap.next
    BY <1>1 DEF FreedHeap, Heaps
  <2> QED BY <1>2, <2>1, <2>2, <2>3, SilentKeepsLists
<1> QED BY <1>3, <1>4, <1>5, <1>6, <1>7, <1>8, <1>9, <1>10, <1>11

LEMMA NewSessLists ==
    ASSUME TypeInv, NEW c \in Conns, ListsInv, down = "up", NewSess(c)
    PROVE  ListsInv' /\ RoomMove(c)
<1> DEFINE id == Arg(c)
           h == CreateSess(heap, id)
<1>1. NetTypes /\ ServerTypes /\ heap \in Heaps /\ heap.fault = "none" /\ thr \in [Conns -> Places]
  BY DEF TypeInv, ServerTypes
<1>2. id \in SessIds /\ Silent(c, h, "created")
  BY SMTT(30), <1>1, ReadsMeans, PacketArgs DEF NewSess
<1> HIDE DEF id
<1>3. h \in Heaps /\ h.joined = heap.joined /\ h.fault = "none"
  BY <1>1, <1>2, CreateSessKeeps
<1>4. Housed(h) /\ OpenIn(h) = OpenIn(heap) \cup {id}
  BY <1>1, <1>2, CreateSessHouses DEF ListsInv
<1> HIDE DEF h
<1>5. /\ heap'.list = h.list /\ heap'.next = h.next /\ heap'.joined = h.joined
      /\ thr' = [thr EXCEPT ![c] = "created"]
  BY <1>1, <1>2, <1>3, EndsMeans, PlaceNames DEF Silent
<1>6. Housed(heap') /\ Listed(heap') /\ OpenIn(heap') = OpenIn(h)
  BY <1>4, <1>5, HousedSame DEF Housed, Listed
<1>7. \A d \in Conns : Active(d)'
  BY <1>1, <1>5 DEF ListsInv, Active
<1> QED BY <1>2, <1>3, <1>4, <1>5, <1>6, <1>7 DEF ListsInv, RoomMove

\* Both ways to join, from a heap in which the client is in no session.
LEMMA JoinLists ==
    ASSUME TypeInv, NEW c \in Conns, ListsInv, down = "up", Patient, Good(c),
           JoinLocked(c) \/ JoinCreated(c)
    PROVE  ListsInv' /\ RoomMove(c)
<1>1. NetTypes /\ ServerTypes /\ heap \in Heaps /\ heap.fault = "none" /\ thr \in [Conns -> Places]
  BY DEF TypeInv, ServerTypes
<1> DEFINE id == sessionId[c]
           R == IF JoinLocked(c) THEN ResetHeap(c) ELSE heap
           h == JoinSess(R, c, id)
<1>2. id \in SessIds /\ Busy(c) /\ heap.joined[c] = <<>>
  <2>1. Busy(c)
    BY DEF JoinLocked, JoinCreated, Busy
  <2> QED BY <1>1, <2>1 DEF ServerTypes, Busy, Good, Member
<1>3. Housed(heap)
  BY DEF ListsInv
<1>4. /\ R \in Heaps /\ R.fault = "none" /\ R.list = heap.list /\ R.next = heap.next
      /\ R.joined = heap.joined
  <2>1. ResetHeap(c) \in Heaps /\ ResetHeap(c).fault = "none" /\ ResetHeap(c).list = heap.list
        /\ ResetHeap(c).joined = [heap.joined EXCEPT ![c] = <<>>]
    BY <1>1, ResetHeapMeans
  <2>2. [heap.joined EXCEPT ![c] = <<>>] = heap.joined
    BY <1>1, <1>2, HeapParts
  <2>3. heap.next[c] = NULL
    <3>1. PICK Q : Lists(heap, Q) /\ Homes(heap, Q)
      BY <1>3 DEF Housed
    <3>2. \A j \in 1..Len(Q) : ~In(c, Q[j])
      <4>1. \A s : <<s>> # <<>>
        OBVIOUS
      <4> QED BY <1>2, <3>1, <4>1 DEF Homes
    <3> QED BY <3>1, <3>2 DEF Lists
  <2>4. ResetHeap(c).next = [heap.next EXCEPT ![c] = NULL]
    BY <1>1 DEF ResetHeap, Heaps
  <2>5. [heap.next EXCEPT ![c] = NULL] = heap.next
    BY <1>1, <2>3, HeapParts
  <2> QED BY <1>1, <2>1, <2>2, <2>4, <2>5
<1>5. \E m \in ToClient : h.fault = "none" => Replies(c, h, "recv", m)
  BY PlaceNames DEF JoinLocked, JoinCreated, ResetHeap
<1> HIDE DEF id, R
<1>6. Housed(R) /\ OpenIn(R) = OpenIn(heap)
  BY <1>3, <1>4, HousedSame
<1>7. /\ h.fault = R.fault /\ Housed(h) /\ OpenIn(h) = OpenIn(R)
      /\ \/ h = R
         \/ id \in OpenIn(R) /\ h.joined = [R.joined EXCEPT ![c] = <<id>>]
  <2>1. R.joined[c] = <<>>
    BY <1>2, <1>4
  <2> QED BY <1>2, <1>4, <1>6, <2>1, JoinSessHouses
<1> HIDE DEF h
<1>8. heap' = h /\ thr' = [thr EXCEPT ![c] = "recv"]
  BY <1>4, <1>5, <1>7 DEF Replies
<1>9. ListsInv'
  BY <1>1, <1>7, <1>8 DEF ListsInv, Active, Listed, Housed
<1>10. RoomMove(c)
  <2>1. CASE h = R
    BY <1>4, <1>6, <1>8, <2>1 DEF RoomMove
  <2>2. CASE id \in OpenIn(R) /\ h.joined = [R.joined EXCEPT ![c] = <<id>>]
    <3>1. heap.joined \in [Conns -> Seq(SessIds \cup {NoName})]
      BY <1>1, HeapParts
    <3>2. h.joined[c] = <<id>> /\ \A d \in Conns \ {c} : h.joined[d] = heap.joined[d]
      BY <1>4, <2>2, <3>1
    <3> QED BY <1>2, <1>6, <1>7, <1>8, <2>2, <3>2 DEF RoomMove
  <2> QED BY <1>7, <2>1, <2>2
<1> QED BY <1>9, <1>10

\* LEAVE_SESS, and leaving on the way out.
LEMMA LeaveLists ==
    ASSUME TypeInv, NEW c \in Conns, ListsInv, down = "up", Patient, Good(c),
           Leave(c) \/ ExitLeaves(c)
    PROVE  ListsInv' /\ RoomMove(c)
<1>1. NetTypes /\ ServerTypes /\ heap \in Heaps /\ heap.fault = "none" /\ thr \in [Conns -> Places]
  BY DEF TypeInv, ServerTypes
<1> DEFINE h == LeaveSess(heap, c)
<1>2. PICK pc \in {"recv", "leave"} : Silent(c, h, pc)
  BY DEF Leave, ExitLeaves
<1>3. pc \in Places /\ h \in Heaps
  BY <1>1, PlaceNames, LeaveSessKeeps
<1>4. /\ heap'.list = h.list /\ heap'.next = h.next /\ heap'.joined = h.joined
      /\ thr' = [thr EXCEPT ![c] = IF h.fault = "hang" THEN Looping(pc) ELSE pc]
      /\ down' = IF h.fault \in {"none", "hang"} THEN down ELSE h.fault
  <2> HIDE DEF h
  <2> QED BY <1>1, <1>2, <1>3, EndsMeans DEF Silent
<1>5. Housed(heap)
  BY DEF ListsInv
<1>6. heap.joined[c] = <<>> \/ \E s \in SessIds : heap.joined[c] = <<s>>
  BY DEF Good, Member
<1>7. CASE heap.joined[c] = <<>>
  <2>1. h = [heap EXCEPT !.fault = "segv"]
    BY <1>7 DEF LeaveSess
  <2>2. h.list = heap.list /\ h.next = heap.next /\ h.joined = heap.joined /\ h.fault = "segv"
    BY <1>1, <2>1 DEF Heaps
  <2>3. ListsKept(c)
    BY <1>1, <1>4, <2>2 DEF ListsKept
  <2> QED BY <2>3, KeptIsFine
<1>8. ASSUME NEW s \in SessIds, heap.joined[c] = <<s>> PROVE ListsInv' /\ RoomMove(c)
  <2>1. /\ h.joined[c] = <<>> /\ \A d \in Conns \ {c} : h.joined[d] = heap.joined[d]
        /\ Listed(h)
        /\ \/ h.fault = "abort"
           \/ h.fault = heap.fault /\ Housed(h)
        /\ \/ OpenIn(h) = OpenIn(heap)
           \/ OpenIn(h) = OpenIn(heap) \ {s} /\ \A d \in Conns \ {c} : heap.joined[d] # <<s>>
    BY <1>1, <1>5, <1>8, LeaveSessHouses
  <2> HIDE DEF h
  <2>2. OpenIn(heap') = OpenIn(h) /\ Listed(heap') /\ (Housed(h) => Housed(heap'))
    BY <1>4, <2>1, HousedSame
  <2>3. RoomMove(c)
    BY <1>4, <1>8, <2>1, <2>2 DEF RoomMove
  <2>4. \A d \in Conns : Active(d)'
    BY <1>1, <1>4, <2>1 DEF ListsInv, Active
  <2>5. down' = "up" => Housed(heap')
    BY <1>4, <2>1, <2>2
  <2> QED BY <2>2, <2>3, <2>4, <2>5 DEF ListsInv
<1> QED BY <1>6, <1>7, <1>8

\* Every step of a thread.
LEMMA ServerLists ==
    ASSUME TypeInv, NEW c \in Conns, ListsInv, down = "up", Patient, Good(c),
           Accept(c) \/ ThreadStep(c)
    PROVE  ListsInv' /\ RoomMove(c)
<1>1. CASE NewSess(c)
  BY <1>1, NewSessLists
<1>2. CASE JoinLocked(c) \/ JoinCreated(c)
  BY <1>2, JoinLists
<1>3. CASE Leave(c) \/ ExitLeaves(c)
  BY <1>3, LeaveLists
<1>4. CASE Accept(c) \/ Login(c) \/ Grant(c) \/ Join(c) \/ Broadcast(c) \/ Query(c)
           \/ Hangup(c) \/ RecvFails(c) \/ ExitFrees(c)
  <2>1. Active(c)
    BY DEF ListsInv
  <2>2. ListsKept(c)
    BY <1>4, <2>1, OtherStepsKeepLists
  <2> QED BY <2>2, KeptIsFine
<1> QED BY <1>1, <1>2, <1>3, <1>4 DEF ThreadStep

-----------------------------------------------------------------------------
\* With the types and what client and server agree on, an invariant.
PeaceInv == SessionInv /\ (Patient => ListsInv)

LEMMA PeaceInit == Init => PeaceInv
<1> SUFFICES ASSUME Init PROVE ListsInv
  BY SessionInvInit DEF PeaceInv
<1>1. heap = EmptyHeap /\ \A c \in Conns : thr[c] = "none"
  BY DEF Init, ServerInit
<1>2. Housed(heap) /\ Listed(heap)
  BY <1>1, EmptyHeapHoused DEF Housed, Listed
<1> QED BY <1>1, <1>2 DEF ListsInv, Active

\* What a step that is no thread's leaves alone.
LEMMA StillLists ==
    ASSUME ListsInv, UNCHANGED <<heap, thr, down>>
    PROVE  ListsInv'
BY DEF ListsInv, Active

LEMMA PeaceStays == PeaceInv /\ [Next]_vars => PeaceInv'
<1> SUFFICES ASSUME PeaceInv, [Next]_vars PROVE PeaceInv'
  OBVIOUS
<1>1. SessionInv /\ SessionInv'
  BY SessionInvStays DEF PeaceInv
<1> SUFFICES ASSUME Patient PROVE ListsInv'
  BY <1>1 DEF PeaceInv
<1>2. ListsInv /\ TypeInv /\ \A c \in Conns : Good(c)
  BY <1>1 DEF PeaceInv, SessionInv
<1>3. CASE UNCHANGED vars
  BY <1>2, <1>3, StillLists DEF vars, server, threads
<1>4. ASSUME NEW c \in Conns, Accept(c) \/ ThreadStep(c), down = "up" PROVE ListsInv'
  BY <1>2, <1>4, ServerLists
<1>5. ASSUME UNCHANGED server PROVE ListsInv'
  BY <1>2, <1>5, StillLists DEF server, threads
<1> QED BY <1>3, <1>4, <1>5 DEF Next

LEMMA PeaceInvHolds == Spec => []PeaceInv
<1> QED BY PeaceInit, PeaceStays, PTL DEF Spec

\* SessionList.h 33, "the number of nodes in a session": true of patient users'
\* sessions, however the threads interleave, so no loop over one goes astray.
THEOREM CounterIsTrue == Spec => [](Patient => SizeIsNodes)
<1>1. PeaceInv => (Patient => SizeIsNodes)
  <2> SUFFICES ASSUME PeaceInv, Patient, NEW i \in DOMAIN heap.list
               PROVE  ~Cyclic(heap, i) /\ heap.list[i].sz = Cardinality(Members(heap, i))
    BY DEF SizeIsNodes, Sessions
  <2>1. heap \in Heaps
    BY DEF PeaceInv, SessionInv, TypeInv, ServerTypes
  <2>2. PICK Q : Lists(heap, Q)
    BY DEF PeaceInv, ListsInv, Listed
  <2>3. IsRow(heap, i, Q[i])
    BY <2>1, <2>2, ListsParts DEF Lists
  <2> QED BY <2>3, RowMeans
<1> QED BY <1>1, PeaceInvHolds, PTL

\* A patient user's own list of sessions says where he is, so that LeaveSess
\* finds what it is to undo.
THEOREM ListsAgree == Spec => [](Patient => MembershipAgrees)
<1>1. PeaceInv => (Patient => MembershipAgrees)
  <2> SUFFICES ASSUME PeaceInv, Patient, down = "up", NEW c \in Conns, NEW s \in SessIds
               PROVE  CheckClient(heap, c, s) <=>
                        \E i \in DOMAIN heap.list :
                            heap.list[i].id = s /\ c \in Members(heap, i)
    BY DEF MembershipAgrees, Sessions
  <2>1. heap \in Heaps
    BY DEF PeaceInv, SessionInv, TypeInv, ServerTypes
  <2>2. PICK Q : Lists(heap, Q) /\ Homes(heap, Q)
    BY DEF PeaceInv, ListsInv, Housed
  <2>3. /\ DOMAIN heap.list = 1..Len(Q)
        /\ \A i \in 1..Len(Q) : IsRow(heap, i, Q[i])
        /\ \A i, j \in 1..Len(Q) : In(c, Q[i]) /\ In(c, Q[j]) => i = j
    BY <2>1, <2>2, ListsParts DEF Lists
  <2>4. \A i \in 1..Len(Q) : c \in Members(heap, i) <=> In(c, Q[i])
    BY <2>3, RowMeans
  <2>5. CASE heap.joined[c] = <<>> /\ \A i \in 1..Len(Q) : ~In(c, Q[i])
    <3>1. ~CheckClient(heap, c, s)
      BY <2>5 DEF CheckClient
    <3> QED BY <2>3, <2>4, <2>5, <3>1
  <2>6. ASSUME NEW i \in 1..Len(Q), In(c, Q[i]), heap.joined[c] = <<heap.list[i].id>>
        PROVE  CheckClient(heap, c, s) <=>
                 \E j \in DOMAIN heap.list : heap.list[j].id = s /\ c \in Members(heap, j)
    <3>1. CheckClient(heap, c, s) <=> heap.list[i].id = s
      BY <2>6 DEF CheckClient
    <3> QED BY <2>3, <2>4, <2>6, <3>1
  <2> QED BY <2>2, <2>5, <2>6 DEF Homes
<1> QED BY <1>1, PeaceInvHolds, PTL

-----------------------------------------------------------------------------
LEMMA RoomOfMeans ==
    ASSUME NEW c \in Conns
    PROVE  /\ heap.joined[c] = <<>> => RoomOf(c) = NoName
           /\ \A s : heap.joined[c] = <<s>> => RoomOf(c) = s
<1>1. \A s : Len(<<s>>) = 1 /\ <<s>>[1] = s /\ Len(<<>>) = 0
  OBVIOUS
<1> QED BY <1>1 DEF RoomOf

\* The move of a thread is a move between rooms.
LEMMA MoveIsStep ==
    ASSUME NEW e \in Conns, RoomMove(e),
           \A d \in Conns : heap.joined[d] = <<>> \/ \E s \in SessIds : heap.joined[d] = <<s>>
    PROVE  \/ Rooms!Next
           \/ UNCHANGED Rooms!rooms
<1> DEFINE room == [c \in Conns |-> RoomOf(c)]
           open == {heap.list[i].id : i \in Sessions}
<1>1. open = OpenIn(heap) /\ open' = OpenIn(heap')
  BY DEF OpenIn, Sessions
<1>2. \A d \in Conns : heap'.joined[d] = heap.joined[d] => room'[d] = room[d]
  BY DEF RoomOf
<1>3. \A d \in Conns : \A s : heap.joined[d] = <<s>> => room[d] = s
  BY RoomOfMeans
<1>4. \A d \in Conns : heap.joined[d] = <<>> => room[d] = NoName
  BY RoomOfMeans
<1>5. \A s : heap'.joined[e] = <<s>> => room'[e] = s
  <2>1. \A s : Len(<<s>>) = 1 /\ <<s>>[1] = s
    OBVIOUS
  <2> QED BY <2>1 DEF RoomOf
<1>6. heap'.joined[e] = <<>> => room'[e] = NoName
  BY DEF RoomOf
<1>7. room = [d \in Conns |-> room[d]] /\ room' = [d \in Conns |-> room'[d]]
  OBVIOUS
<1>8. (\A d \in Conns : heap'.joined[d] = heap.joined[d]) => room' = room
  BY <1>2
<1>9. ASSUME NEW r, room'[e] = r, \A d \in Conns \ {e} : room'[d] = room[d]
      PROVE  room' = [room EXCEPT ![e] = r]
  BY <1>9
<1> HIDE DEF room, open
<1>10. CASE heap'.joined = heap.joined
  <2>1. room' = room
    BY <1>8, <1>10
  <2>2. CASE OpenIn(heap') = OpenIn(heap)
    BY <1>1, <2>1, <2>2 DEF room, open, Rooms!rooms
  <2>3. ASSUME NEW s \in SessIds, OpenIn(heap') = OpenIn(heap) \cup {s}
        PROVE  Rooms!Next
    <3>1. open' = open \cup {s}
      BY <1>1, <2>3
    <3>2. Rooms!Open(s)
      BY <2>1, <3>1 DEF Rooms!Open, room, open
    <3> QED BY <3>2 DEF Rooms!Next
  <2>4. \/ OpenIn(heap') = OpenIn(heap)
        \/ \E s \in SessIds : OpenIn(heap') = OpenIn(heap) \cup {s}
        \/ heap.joined[e] = <<>> /\ \E s \in SessIds : heap'.joined[e] = <<s>>
        \/ heap'.joined[e] = <<>> /\ \E s \in SessIds : heap.joined[e] = <<s>>
    BY DEF RoomMove
  <2>5. \A s : <<s>> # <<>>
    OBVIOUS
  <2> QED BY <1>10, <2>2, <2>3, <2>4, <2>5
<1>11. ASSUME NEW s \in SessIds, s \in OpenIn(heap), OpenIn(heap') = OpenIn(heap),
              heap.joined[e] = <<>>, heap'.joined[e] = <<s>>,
              \A d \in Conns \ {e} : heap'.joined[d] = heap.joined[d]
       PROVE  Rooms!Next
  <2>1. room[e] = NoName /\ s \in open /\ open' = open
    BY <1>1, <1>4, <1>11
  <2>2. room' = [room EXCEPT ![e] = s]
    BY <1>2, <1>5, <1>9, <1>11
  <2>3. Rooms!Enter(e, s)
    BY <2>1, <2>2 DEF Rooms!Enter, room, open
  <2> QED BY <2>3 DEF Rooms!Next
<1>12. ASSUME NEW s \in SessIds, heap.joined[e] = <<s>>, heap'.joined[e] = <<>>,
              \A d \in Conns \ {e} : heap'.joined[d] = heap.joined[d],
              \/ OpenIn(heap') = OpenIn(heap)
              \/ /\ OpenIn(heap') = OpenIn(heap) \ {s}
                 /\ \A d \in Conns \ {e} : heap.joined[d] # <<s>>
       PROVE  Rooms!Next
  <2>1. room[e] = s /\ s # NoName
    BY <1>3, <1>12, NamesAssumption
  <2>2. room' = [room EXCEPT ![e] = NoName]
    BY <1>2, <1>6, <1>9, <1>12
  <2>3. \/ open' = open
        \/ open' = open \ {s} /\ \A d \in Conns \ {e} : room[d] # s
    <3>1. ASSUME NEW d \in Conns, heap.joined[d] # <<s>> PROVE room[d] # s
      BY <1>3, <1>4, <2>1, <3>1
    <3> QED BY <1>1, <1>12, <3>1
  <2>4. Rooms!Depart(e)
    BY <2>1, <2>2, <2>3 DEF Rooms!Depart, room, open
  <2> QED BY <2>4 DEF Rooms!Next
<1> QED BY <1>10, <1>11, <1>12 DEF RoomMove, room, open

\* Patient users' sessions are rooms: entered and left one at a time, and closed
\* by nobody but the last to leave, however the threads interleave.
THEOREM ListsAreRooms ==
    ASSUME Patient PROVE Spec => ImplementsRooms
<1>1. Init => Rooms!Init
  <2> SUFFICES ASSUME Init PROVE Rooms!Init
    OBVIOUS
  <2>1. heap.list = <<>> /\ \A c \in Conns : heap.joined[c] = <<>>
    BY DEF Init, ServerInit, EmptyHeap
  <2>2. \A c \in Conns : RoomOf(c) = NoName
    BY <2>1, RoomOfMeans
  <2>3. {heap.list[i].id : i \in Sessions} = {}
    BY <2>1 DEF Sessions
  <2> QED BY <2>2, <2>3 DEF Rooms!Init
<1>2. PeaceInv /\ [Next]_vars => [Rooms!Next]_(Rooms!rooms)
  <2> SUFFICES ASSUME PeaceInv, [Next]_vars
               PROVE  Rooms!Next \/ UNCHANGED Rooms!rooms
    OBVIOUS
  <2>1. ASSUME UNCHANGED heap PROVE UNCHANGED Rooms!rooms
    BY <2>1 DEF Rooms!rooms, RoomOf, Sessions
  <2>2. ListsInv /\ TypeInv /\ \A c \in Conns : Good(c)
    BY DEF PeaceInv, SessionInv
  <2>3. \A d \in Conns : heap.joined[d] = <<>> \/ \E s \in SessIds : heap.joined[d] = <<s>>
    BY <2>2 DEF Good, Member
  <2>4. ASSUME NEW c \in Conns, Accept(c) \/ ThreadStep(c), down = "up"
        PROVE  RoomMove(c)
    BY <2>2, <2>4, ServerLists
  <2> QED BY <2>1, <2>3, <2>4, MoveIsStep DEF Next, vars, server
<1> QED BY <1>1, <1>2, PeaceInvHolds, PTL DEF Spec, ImplementsRooms, Rooms!Spec

-----------------------------------------------------------------------------
(***************************************************************************)
(* What a connection is before its user has logged in and after its thread *)
(* is gone, and the descriptors.                                           *)
(***************************************************************************)
Door(c) ==
    /\ source[c] = NoName =>
          /\ ui[c] # "on" /\ ~Holds(s2c[c], "LO_ACK")
          /\ \A t \in ToServer \ {"LOGIN"} : ~Has(c2s[c], t)
          /\ heap.joined[c] = <<>> /\ thr[c] \notin {"joining", "created", "leave"}
    /\ thr[c] = "none" => source[c] = NoName
    /\ thr[c] = "gone" => heap.joined[c] = <<>>

Fds == \A c, d \in Conns : HasSocket(c) /\ HasSocket(d) /\ fd[c] = fd[d] => c = d

\* A descriptor is new or stays whose it is.
LEMMA FdsStay ==
    ASSUME TypeInv, NEW c \in Conns, Fds, \A d \in Conns \ {c} : thr'[d] = thr[d],
           Accept(c) \/ ThreadStep(c)
    PROVE  Fds'
<1>1. ServerTypes /\ heap \in Heaps /\ thr \in [Conns -> Places]
  BY DEF TypeInv, ServerTypes
<1>2. CASE Accept(c)
  <2>1. fd' = [fd EXCEPT ![c] = FreeFd] /\ \A e \in Conns : HasSocket(e) => fd[e] # FreeFd
    BY <1>1, <1>2, FreeFdMeans DEF Accept
  <2>2. fd'[c] = FreeFd /\ \A d \in Conns \ {c} : fd'[d] = fd[d]
    BY <1>1, <2>1 DEF ServerTypes
  <2>3. \A d \in Conns \ {c} : HasSocket(d)' <=> HasSocket(d)
    BY DEF HasSocket
  <2> QED BY <2>1, <2>2, <2>3 DEF Fds
<1>3. CASE ThreadStep(c)
  <2>1. fd' = fd
    BY <1>3 DEF ThreadStep, Login, Grant, Join, JoinLocked, Leave, NewSess, JoinCreated,
       Broadcast, Query, Hangup, RecvFails, ExitLeaves, ExitFrees, threads
  <2>2. HasSocket(c)' => HasSocket(c)
    <3>1. thr[c] \in {"recv", "granted", "joining", "created"} \/ ExitLeaves(c) \/ ExitFrees(c)
      BY <1>3 DEF ThreadStep, Login, Grant, Join, JoinLocked, Leave, NewSess, JoinCreated,
         Broadcast, Query, Hangup, RecvFails, Reads
    <3>2. CASE thr[c] \in {"recv", "granted", "joining", "created"}
      BY <3>2 DEF HasSocket
    <3>3. CASE ExitLeaves(c)
      <4>1. thr' = [thr EXCEPT ![c] = IF LeaveSess(heap, c).fault = "hang" THEN Looping("leave")
                                      ELSE "leave"]
        BY <3>3 DEF ExitLeaves, Silent, Ends
      <4>2. thr'[c] \in {"lost", "leave"}
        BY <1>1, <4>1 DEF Looping
      <4> QED BY <4>2 DEF HasSocket
    <3>4. CASE ExitFrees(c)
      <4>1. Silent(c, FreedHeap(c), "gone")
        BY <3>4 DEF ExitFrees, FreedHeap
      <4>2. FreedHeap(c).fault # "hang"
        BY <1>1, FreedHeapMeans
      <4>3. thr' = [thr EXCEPT ![c] = "gone"]
        BY <4>1, <4>2 DEF Silent, Ends
      <4> QED BY <1>1, <4>3 DEF HasSocket
    <3> QED BY <3>1, <3>2, <3>3, <3>4
  <2>3. \A d \in Conns : HasSocket(d)' => HasSocket(d)
    BY <2>2 DEF HasSocket
  <2> QED BY <2>1, <2>3 DEF Fds
<1> QED BY <1>2, <1>3

\* Who is not logged in has sent LOGIN and nothing else.
LEMMA NoNameSteps ==
    ASSUME NetTypes, NEW c \in Conns, Door(c), source[c] = NoName, ThreadStep(c)
    PROVE  Login(c) \/ Grant(c) \/ Hangup(c) \/ RecvFails(c)
<1>1. ASSUME NEW t \in ToServer \ {"LOGIN"} PROVE ~Reads(c, t)
  BY <1>1, ReadPops DEF Popped, Door
<1>2. {"JOIN", "LEAVE_SESS", "NEW_SESS", "MESSAGE", "QUERY"} \subseteq ToServer \ {"LOGIN"}
  BY DEF ToServer
<1>3. ~Join(c) /\ ~Leave(c) /\ ~NewSess(c) /\ ~Broadcast(c) /\ ~Query(c)
  BY <1>1, <1>2 DEF Join, Leave, NewSess, Broadcast, Query
<1>4. ~JoinLocked(c) /\ ~JoinCreated(c) /\ ~ExitLeaves(c) /\ ~ExitFrees(c)
  BY DEF Door, JoinLocked, JoinCreated, ExitLeaves, ExitFrees
<1> QED BY <1>3, <1>4 DEF ThreadStep

\* Before login a step leads to the door, inside, or out.
LEMMA DoorOpens ==
    ASSUME TypeInv, NEW c \in Conns, Door(c), source[c] = NoName, UNCHANGED clients,
           Accept(c) \/ ThreadStep(c)
    PROVE  Door(c)'
<1>1. NetTypes /\ ServerTypes /\ heap \in Heaps /\ thr \in [Conns -> Places] /\ heap.fault = "none"
  BY DEF TypeInv, ServerTypes
<1>2. /\ {"recv", "gone", "granted"} \subseteq Places /\ {"LO_ACK", "LO_NAK"} \subseteq ToClient
  BY PlaceNames
<1>3. UNCHANGED ui
  BY DEF clients
<1>4. CASE Accept(c)
  <2>1. thr'[c] = "recv" /\ UNCHANGED <<source, s2c, c2s, heap>>
    BY <1>1, <1>4 DEF Accept, net
  <2> QED BY <1>3, <2>1 DEF Door
<1>5. CASE Login(c)
  <2>1. Reads(c, "LOGIN")
    BY <1>5 DEF Login
  <2>2. PICK a \in Users \cup {NoName} : a = Arg(c)
    BY <1>1, <2>1, ReadsMeans, PacketArgs
  <2> DEFINE h == [heap EXCEPT !.clientID[c] = a]
  <2>3. (Silent(c, h, "granted") \/ Replies(c, h, "recv", "LO_NAK")) /\ source' = source
    BY <1>5, <2>2 DEF Login
  <2>4. h \in Heaps /\ h.fault = "none" /\ h.joined = heap.joined
    BY <1>1, HeapNames
  <2> HIDE DEF h
  <2>5. Popped(c, "LOGIN")
    BY <1>1, <2>1, ReadPops
  <2>6. CASE Silent(c, h, "granted")
    <3>1. thr'[c] = "granted" /\ heap'.joined = heap.joined /\ s2c' = s2c
      BY <1>1, <1>2, <2>4, <2>6, EndsMeans DEF Silent
    <3> QED BY <1>3, <2>3, <2>5, <3>1 DEF Door, Popped
  <2>7. CASE Replies(c, h, "recv", "LO_NAK")
    <3>1. Pushed(c, "LO_NAK") /\ heap' = h /\ thr'[c] = "recv"
      BY <1>1, <1>2, <2>7, ReplyPushes
    <3>2. ~Holds(s2c'[c], "LO_ACK")
      BY <3>1 DEF Pushed, Door
    <3> QED BY <1>3, <2>3, <2>4, <2>5, <3>1, <3>2 DEF Door, Popped
  <2> QED BY <2>3, <2>6, <2>7
<1>6. CASE Grant(c)
  <2>1. thr[c] = "granted" /\ source' = [source EXCEPT ![c] = heap.clientID[c]]
        /\ Replies(c, heap, "recv", "LO_ACK")
    BY <1>6 DEF Grant
  <2>2. source'[c] # NoName /\ thr'[c] = "recv"
    BY <1>1, <1>2, <2>1, ReplyPushes, NamesAssumption DEF ServerTypes
  <2> QED BY <2>2 DEF Door
<1>7. CASE Hangup(c)
  <2> DEFINE h == [heap EXCEPT !.clientID[c] = NoName]
  <2>1. ~Reads(c, "EXIT")
    <3>1. "EXIT" \in ToServer \ {"LOGIN"}
      BY DEF ToServer
    <3> QED BY <1>1, <3>1, ReadPops DEF Popped, Door
  <2>2. Replies(c, h, "gone", "LO_NAK") /\ UNCHANGED <<c2s, source>>
    BY <1>7, <2>1 DEF Hangup
  <2>3. h.joined = heap.joined
    BY <1>1, HeapNames
  <2> HIDE DEF h
  <2>4. Pushed(c, "LO_NAK") /\ heap' = h /\ thr'[c] = "gone"
    BY <1>1, <1>2, <2>2, ReplyPushes
  <2>5. ~Holds(s2c'[c], "LO_ACK")
    BY <2>4 DEF Pushed, Door
  <2> QED BY <1>3, <2>2, <2>3, <2>4, <2>5 DEF Door
<1>8. CASE RecvFails(c)
  <2>1. UNCHANGED <<thr, source, s2c, c2s, heap>>
    BY <1>8 DEF RecvFails, threads, net
  <2> QED BY <1>3, <2>1 DEF Door
<1> QED BY <1>1, <1>4, <1>5, <1>6, <1>7, <1>8, NoNameSteps

\* After login a thread is gone once it has left its sessions.
LEMMA DoorCloses ==
    ASSUME TypeInv, NEW c \in Conns, Door(c), source[c] # NoName,
           Accept(c) \/ ThreadStep(c)
    PROVE  Door(c)'
<1>1. NetTypes /\ ServerTypes /\ heap \in Heaps /\ thr \in [Conns -> Places]
      /\ source \in [Conns -> Users \cup {NoName}]
  BY DEF TypeInv, ServerTypes
<1>2. thr[c] # "none" /\ ThreadStep(c)
  BY DEF Door, Accept
<1>3. source'[c] # NoName
  <2>1. CASE Grant(c)
    <3>1. thr[c] = "granted" /\ source' = [source EXCEPT ![c] = heap.clientID[c]]
      BY <2>1 DEF Grant
    <3> QED BY <1>1, <3>1, NamesAssumption DEF ServerTypes
  <2>2. CASE ~Grant(c)
    <3>1. source' = source
      BY <1>2, <2>2 DEF ThreadStep, Login, Join, JoinLocked, Leave, NewSess, JoinCreated,
         Broadcast, Query, Hangup, RecvFails, ExitLeaves, ExitFrees, threads
    <3> QED BY <3>1
  <2> QED BY <2>1, <2>2
<1>4. thr'[c] # "none" /\ (thr'[c] = "gone" => heap'.joined[c] = <<>>)
  <2>1. CASE ExitFrees(c)
    <3>1. Silent(c, FreedHeap(c), "gone") /\ heap.joined[c] = <<>>
      BY <2>1 DEF ExitFrees, FreedHeap
    <3>2. heap'.joined = heap.joined /\ thr'[c] = "gone"
      BY <1>1, <3>1, FreedHeapMeans, EndsMeans, PlaceNames DEF Silent
    <3> QED BY <3>1, <3>2
  <2>2. ASSUME NEW h, NEW pc \in {"recv", "leave", "granted", "joining", "created"},
               Silent(c, h, pc)
        PROVE  thr'[c] \notin {"none", "gone"}
    BY <1>1, <2>2 DEF Silent, Ends, Looping
  <2>3. ASSUME NEW h, NEW m, Replies(c, h, "recv", m) PROVE thr'[c] \notin {"none", "gone"}
    BY <1>1, <2>3 DEF Replies
  <2>4. CASE Login(c) \/ Join(c) \/ Query(c) \/ Hangup(c)
    BY <2>2, <2>3, <2>4 DEF Login, Join, Query, Hangup
  <2>5. CASE Leave(c) \/ NewSess(c) \/ ExitLeaves(c)
    BY <2>2, <2>5 DEF Leave, NewSess, ExitLeaves
  <2>6. CASE Grant(c) \/ JoinCreated(c)
    BY <2>2, <2>3, <2>6 DEF Grant, JoinCreated
  <2>7. CASE JoinLocked(c)
    <3> DEFINE h == JoinSess(ResetHeap(c), c, sessionId[c])
    <3>1. Replies(c, h, "recv", "JN_ACK") \/ thr' = [thr EXCEPT ![c] = "locked"]
      BY <2>7 DEF JoinLocked, ResetHeap
    <3> HIDE DEF h
    <3> QED BY <1>1, <2>3, <3>1
  <2>8. CASE Broadcast(c) \/ RecvFails(c)
    BY <2>8 DEF Broadcast, RecvFails, threads, Reads
  <2> QED BY <1>2, <2>1, <2>4, <2>5, <2>6, <2>7, <2>8 DEF ThreadStep
<1> QED BY <1>3, <1>4 DEF Door

-----------------------------------------------------------------------------
(***************************************************************************)
(* Who a broadcast reaches.                                                *)
(***************************************************************************)

\* Sends on connections among which d is at most once: one packet arrives there
\* if it is, and its client still reads, and nothing if it is not.
LEMMA SentOnce ==
    ASSUME NetTypes, NEW to \in Seq(Conns), NEW m \in ToClient, NEW prompt,
           NEW d \in Conns, \A i, j \in 1..Len(to) : to[i] = d /\ to[j] = d => i = j
    PROVE  LET w == Sent(to, m, prompt) IN
           /\ w.fate \in {"ok", "error", "sigpipe"}
           /\ ~In(d, to) \/ link[d] # "open" => w.s2c[d] = s2c[d]
           /\ w.fate = "ok" /\ In(d, to) /\ link[d] = "open"
                => w.s2c[d] = Append(s2c[d], m)
<1> DEFINE N == Len(to)
           Met(i) == \E j \in 1..i : to[j] = d
           Fine(i, w) ==
               /\ w \in Worlds
               /\ w.link[d] = "open" <=> link[d] = "open"
               /\ \/ w.s2c[d] = s2c[d]
                  \/ link[d] = "open" /\ Met(i) /\ w.s2c[d] = Append(s2c[d], m)
               /\ w.fate = "ok" /\ link[d] = "open" /\ Met(i)
                    => w.s2c[d] = Append(s2c[d], m)
<1>1. N \in Nat /\ \A i \in 1..N : to[i] \in Conns
  OBVIOUS
<1>2. PICK sent : /\ Sent(to, m, prompt) = sent[N] /\ sent[0] = Unsent
                  /\ \A i \in 1..N : sent[i] = SendOn(sent[i - 1], to[i], m, prompt)
  <2>1. Unsent \in Worlds
    BY DEF Unsent, Worlds, NetTypes
  <2>2. \A w \in Worlds, e \in Conns : SendOn(w, e, m, prompt) \in Worlds
    BY SendOnMeans
  <2> QED BY <2>1, <2>2, SentSteps
<1> DEFINE T == {k \in Nat : k \in 0..N => Fine(k, sent[k])}
<1>3. 0 \in T
  <2>1. Fine(0, Unsent)
    BY DEF Unsent, Worlds, NetTypes
  <2> HIDE DEF Fine
  <2> QED BY <1>2, <2>1
<1>4. ASSUME NEW k \in T PROVE k + 1 \in T
  <2> SUFFICES ASSUME k + 1 \in 0..N PROVE Fine(k + 1, sent[k + 1])
    <3> HIDE DEF Fine
    <3>1. k \in Nat /\ k + 1 \in Nat
      OBVIOUS
    <3> QED BY <3>1
  <2> DEFINE w == sent[k]
             v == sent[k + 1]
             e == to[k + 1]
  <2>1. /\ k \in 0..N /\ k + 1 \in 1..N /\ (k + 1) - 1 = k /\ k \in Nat
        /\ 1..(k + 1) = (1..k) \cup {k + 1} /\ k + 1 \notin 1..k /\ 1..k \subseteq 1..N
    BY <1>1
  <2>2. Fine(k, w)
    <3> HIDE DEF Fine
    <3> QED BY <2>1
  <2>3. v = SendOn(w, e, m, prompt) /\ e \in Conns
    BY <1>1, <1>2, <2>1
  <2> HIDE DEF w, v
  <2>4. /\ v \in Worlds
        /\ \A x \in Conns \ {e} : v.link[x] = w.link[x] /\ v.s2c[x] = w.s2c[x]
        /\ \/ v.link[e] = w.link[e]
           \/ w.link[e] \in {"fin", "rst"} /\ v.link[e] = "finrst"
        /\ v.s2c[e] = IF w.fate = "ok" /\ w.link[e] = "open"
                      THEN Append(w.s2c[e], m) ELSE w.s2c[e]
    BY <2>2, <2>3, SendOnMeans
  <2>5. v.fate = "ok" => w.fate = "ok"
    BY <2>3 DEF SendOn
  <2>6. Met(k + 1) <=> Met(k) \/ e = d
    BY <2>1
  <2>7. e = d => ~Met(k)
    BY <1>1, <2>1
  <2> HIDE DEF Met, e
  <2>8. CASE e = d
    <3>1. w.s2c[d] = s2c[d]
      BY <2>2, <2>7, <2>8
    <3> QED BY <2>2, <2>4, <2>5, <2>6, <2>8, <3>1 DEF v
  <2>9. CASE e # d
    <3>1. v.s2c[d] = w.s2c[d] /\ v.link[d] = w.link[d] /\ (Met(k + 1) <=> Met(k))
      BY <2>4, <2>6, <2>9
    <3> QED BY <2>2, <2>4, <2>5, <3>1 DEF v
  <2> QED BY <2>8, <2>9
<1>5. Fine(N, sent[N])
  <2> HIDE DEF Fine
  <2>1. T \subseteq Nat /\ \A k \in T : k + 1 \in T
    BY <1>4
  <2>2. T = Nat
    <3> HIDE DEF T
    <3> QED BY <1>3, <2>1, SetInduction
  <2> QED BY <1>1, <2>2
<1> QED BY <1>1, <1>2, <1>5 DEF In, Worlds

\* With the nodes all different, and descriptors each of one connection, a
\* broadcast that is finished reaches the nodes.  A connection that is no node,
\* and has no node's descriptor, gets nothing even of one that is cut short.
LEMMA BroadcastReaches ==
    ASSUME NetTypes, ServerTypes, NEW c \in Conns, Broadcast(c), NEW d \in Conns,
           Visited \in Seq(Conns), Distinct(Visited), Fds,
           \A n \in 1..Len(Visited) : d \in Owner(Visited[n]) => Visited[n] = d,
           In(d, Visited) /\ link[d] = "open" => HasSocket(d)
    PROVE  /\ ~In(d, Visited) \/ link[d] # "open" => s2c'[d] = s2c[d]
           /\ down' = "up" /\ In(d, Visited) /\ link[d] = "open"
                => s2c'[d] = Append(s2c[d], "MESSAGE")
<1> DEFINE Bad(e) == e = NULL \/ Owner(e) = {}
           I == {i \in 1..Len(Visited) : Bad(Visited[i])}
           upto == SelectInSeq(Visited, Bad)
           reached == IF upto = 0 THEN Visited ELSE SubSeq(Visited, 1, upto - 1)
           to == [n \in DOMAIN reached |-> CHOOSE e \in Owner(reached[n]) : TRUE]
<1>1. \/ upto = 0 /\ I = {}
      \/ upto \in I /\ \A i \in I : upto <= i
  <2>1. CASE I = {}
    BY <2>1 DEF SelectInSeq
  <2>2. CASE I # {}
    <3>1. \E i \in I : \A j \in I : i <= j
      <4>1. I \subseteq Nat
        OBVIOUS
      <4> HIDE DEF I
      <4> QED BY <2>2, <4>1, LeastNumber
    <3>2. upto = Min(I)
      BY <2>2 DEF SelectInSeq
    <3> QED BY <3>1, <3>2 DEF Min
  <2> QED BY <2>1, <2>2
<1>2. PICK prompt \in SUBSET Resettable :
        LET w == Sent(to, "MESSAGE", prompt)
        IN  /\ link' = w.link /\ s2c' = w.s2c
            /\ down' = CASE w.fate = "sigpipe" -> "sigpipe"
                         [] w.fate = "error" -> "exit"
                         [] w.fate = "ok" /\ upto = 0 -> down
                         [] OTHER -> IF Visited[upto] = NULL THEN "segv" ELSE "exit"
  BY DEF Broadcast
<1> HIDE DEF upto
<1>3. /\ reached \in Seq(Conns) /\ DOMAIN reached = 1..Len(reached) /\ Len(reached) <= Len(Visited)
      /\ upto = 0 => reached = Visited
      /\ \A n \in 1..Len(reached) : reached[n] = Visited[n] /\ n \in 1..Len(Visited) /\ n \notin I
  <2>1. CASE upto = 0
    BY <1>1, <2>1
  <2>2. CASE upto # 0
    <3>1. upto \in 1..Len(Visited) /\ Len(Visited) \in Nat /\ \A i \in I : upto <= i
      BY <1>1, <2>2
    <3>2. reached = SubSeq(Visited, 1, upto - 1) /\ upto - 1 \in 0..Len(Visited)
      BY <2>2, <3>1
    <3> HIDE DEF I, reached
    <3>3. /\ reached \in Seq(Conns) /\ Len(reached) = upto - 1
          /\ DOMAIN reached = 1..Len(reached)
          /\ \A n \in 1..Len(reached) : reached[n] = Visited[n]
      BY <3>1, <3>2
    <3> QED BY <2>2, <3>1, <3>3
  <2> QED BY <2>1, <2>2
<1> HIDE DEF reached
<1>4. \A n \in 1..Len(reached) : to[n] \in Owner(reached[n])
  BY <1>3
<1>5. /\ to \in Seq(Conns) /\ Len(to) = Len(reached)
      /\ \A n \in 1..Len(to) : to[n] \in Owner(Visited[n]) /\ n \in 1..Len(Visited)
  <2>1. /\ DOMAIN to = 1..Len(reached) /\ \A n \in 1..Len(reached) : to[n] \in Conns
        /\ Len(reached) \in Nat
    BY <1>3, <1>4 DEF Owner
  <2>2. to = [n \in 1..Len(reached) |-> to[n]]
    BY <1>3
  <2> HIDE DEF to
  <2>3. to \in Seq(Conns) /\ Len(to) = Len(reached)
    BY <2>1, <2>2
  <2> QED BY <1>3, <1>4, <2>3
<1>6. \A n \in 1..Len(to) : to[n] = d => Visited[n] = d
  BY <1>5
<1>7. \A i, j \in 1..Len(to) : to[i] = d /\ to[j] = d => i = j
  BY <1>5, <1>6 DEF Distinct
<1>8. upto = 0 /\ In(d, Visited) /\ link[d] = "open" => In(d, to)
  <2> SUFFICES ASSUME upto = 0, In(d, Visited), link[d] = "open" PROVE In(d, to)
    OBVIOUS
  <2>1. PICK n \in 1..Len(Visited) : Visited[n] = d
    BY DEF In
  <2>2. n \in 1..Len(to) /\ to[n] \in Owner(d)
    BY <1>3, <1>5, <2>1
  <2>3. to[n] = d
    BY <2>2 DEF Owner, Fds
  <2> QED BY <2>2, <2>3 DEF In
<1>9. In(d, to) => In(d, Visited)
  BY <1>5, <1>6 DEF In
<1> HIDE DEF to
<1> DEFINE w == Sent(to, "MESSAGE", prompt)
<1>10. "MESSAGE" \in ToClient
  BY DEF ToClient
<1>11. /\ w.fate \in {"ok", "error", "sigpipe"}
       /\ ~In(d, to) \/ link[d] # "open" => w.s2c[d] = s2c[d]
       /\ w.fate = "ok" /\ In(d, to) /\ link[d] = "open"
            => w.s2c[d] = Append(s2c[d], "MESSAGE")
  BY <1>5, <1>7, <1>10, SentOnce
<1>12. s2c' = w.s2c /\ (down' = "up" => w.fate = "ok" /\ upto = 0)
  BY <1>2, <1>11
<1> HIDE DEF w
<1> QED BY <1>8, <1>9, <1>11, <1>12

\* What a thread of patient users finds: members are logged in and on the lists
\* once, and no two sockets have one descriptor.
Peaceful ==
    /\ TypeInv /\ ListsInv /\ Fds /\ down = "up"
    /\ \A d \in Conns : Good(d) /\ Door(d)

LEMMA VisitedIs ==
    ASSUME Peaceful
    PROVE  /\ Visited \in Seq(Conns) /\ Distinct(Visited)
           /\ \A d \in Conns : In(d, Visited) <=> d \in InSomeSession
           /\ \A d \in Conns : In(d, Visited) => heap.joined[d] # <<>>
<1>1. heap \in Heaps /\ heap.list \in Seq(SessionRecords)
  BY HeapParts DEF Peaceful, TypeInv, ServerTypes
<1>2. PICK Q : Lists(heap, Q) /\ Homes(heap, Q)
  BY DEF Peaceful, ListsInv, Housed
<1>3. /\ Q \in Seq(Seq(Conns)) /\ Len(Q) \in Nat /\ DOMAIN Q = 1..Len(Q)
      /\ DOMAIN heap.list = 1..Len(Q) /\ \A i \in 1..Len(Q) : IsRow(heap, i, Q[i])
      /\ \A i, j \in 1..Len(Q), x \in Conns : In(x, Q[i]) /\ In(x, Q[j]) => i = j
  BY <1>1, <1>2, ListsParts DEF Lists
<1>4. \A i \in 1..Len(Q) :
        /\ Q[i] \in Seq(Conns) /\ Distinct(Q[i]) /\ Nodes(heap, i) = Q[i]
        /\ \A x : x \in Members(heap, i) <=> In(x, Q[i])
  BY <1>3, RowMeans
<1>5. Visited = FlattenSeq(Q)
  <2>1. [i \in DOMAIN heap.list |-> Nodes(heap, i)] = [i \in 1..Len(Q) |-> Q[i]]
    BY <1>3, <1>4
  <2>2. [i \in 1..Len(Q) |-> Q[i]] = Q
    BY <1>3
  <2> QED BY <2>1, <2>2 DEF Visited
<1>6. \A i, j \in 1..Len(Q) : \A x : In(x, Q[i]) /\ In(x, Q[j]) => i = j
  <2>1. \A i \in 1..Len(Q) : \A x : In(x, Q[i]) => x \in Conns
    BY <1>4 DEF In
  <2> QED BY <1>3, <2>1
<1>7. /\ Visited \in Seq(Conns) /\ Distinct(Visited)
      /\ \A x : In(x, Visited) <=> \E i \in 1..Len(Q) : In(x, Q[i])
  <2>1. CASE Len(Q) = 0
    <3>1. Visited = <<>>
      BY <1>3, <1>5, <2>1 DEF FlattenSeq
    <3>2. Len(<<>>) = 0 /\ <<>> \in Seq(Conns) /\ 1..0 = {}
      OBVIOUS
    <3> QED BY <2>1, <3>1, <3>2 DEF In, Distinct
  <2>2. CASE Len(Q) # 0
    <3>1. PICK flat : /\ FlattenSeq(Q) = flat[Len(Q)]
                      /\ \A i \in 1..Len(Q) :
                            flat[i] = IF i = 1 THEN Q[i] ELSE flat[i - 1] \o Q[i]
      BY <1>3, <2>2, FlattenSteps
    <3>2. \A i \in 1..Len(Q) : Distinct(Q[i])
      BY <1>4
    <3>3. /\ flat[Len(Q)] \in Seq(Conns) /\ Distinct(flat[Len(Q)])
          /\ \A x : In(x, flat[Len(Q)]) <=> \E i \in 1..Len(Q) : In(x, Q[i])
      BY <1>3, <1>6, <2>2, <3>1, <3>2, RowsGive
    <3> QED BY <1>5, <3>1, <3>3
  <2> QED BY <2>1, <2>2
<1>8. \A d : d \in InSomeSession <=> \E i \in 1..Len(Q) : In(d, Q[i])
  <2>1. \A d : d \in InSomeSession <=> \E i \in DOMAIN heap.list : d \in Members(heap, i)
    BY DEF InSomeSession
  <2> QED BY <1>3, <1>4, <2>1
<1>9. \A d \in Conns : In(d, Visited) => heap.joined[d] # <<>>
  <2>1. \A s : <<s>> # <<>>
    OBVIOUS
  <2> QED BY <1>2, <1>7, <2>1 DEF Homes
<1> QED BY <1>7, <1>8, <1>9

\* A member whose client still reads has not closed its socket.
LEMMA MemberHasSocket ==
    ASSUME Peaceful, NEW d \in Conns, heap.joined[d] # <<>>, link[d] = "open"
    PROVE  HasSocket(d)
<1>1. thr[d] \notin {"none", "gone", "lost"}
  <2>1. source[d] # NoName /\ thr[d] \notin {"none", "gone"}
    BY DEF Peaceful, Door
  <2> QED BY <2>1 DEF Peaceful, ListsInv, Active
<1>2. thr[d] # "leave"
  BY DEF Peaceful, Good, Wiring
<1> QED BY <1>1, <1>2 DEF HasSocket

\* What a broadcast delivers, and to whom.
LEMMA BroadcastHeard ==
    ASSUME NEW c \in Conns, Peaceful, Broadcast(c), NEW d \in Conns, ~Reissued(d)
    PROVE  /\ heap.joined[d] = <<>> => s2c'[d] = s2c[d]
           /\ down' = "up" =>
                s2c'[d] = IF d \in InSomeSession /\ link[d] = "open"
                          THEN Append(s2c[d], "MESSAGE") ELSE s2c[d]
<1>1. NetTypes /\ ServerTypes /\ Fds
  BY DEF Peaceful, TypeInv
<1>2. /\ Visited \in Seq(Conns) /\ Distinct(Visited)
      /\ \A e \in Conns : In(e, Visited) <=> e \in InSomeSession
      /\ \A e \in Conns : In(e, Visited) => heap.joined[e] # <<>>
  BY VisitedIs
<1>3. \A n \in 1..Len(Visited) : d \in Owner(Visited[n]) => Visited[n] = d
  <2> SUFFICES ASSUME NEW n \in 1..Len(Visited), d \in Owner(Visited[n])
               PROVE  Visited[n] = d
    OBVIOUS
  <2>1. Visited[n] \in Conns /\ Visited[n] \in InSomeSession
    BY <1>2 DEF In
  <2> QED BY <2>1 DEF Owner, Reissued
<1>4. In(d, Visited) /\ link[d] = "open" => HasSocket(d)
  BY <1>2, MemberHasSocket
<1>5. /\ ~In(d, Visited) \/ link[d] # "open" => s2c'[d] = s2c[d]
      /\ down' = "up" /\ In(d, Visited) /\ link[d] = "open"
           => s2c'[d] = Append(s2c[d], "MESSAGE")
  BY <1>1, <1>2, <1>3, <1>4, BroadcastReaches
<1> QED BY <1>2, <1>5

-----------------------------------------------------------------------------
\* login finds no message before the reply it waits for.
Unheard(c) == ui[c] = "login" => ~Holds(s2c[c], "MESSAGE")

DoorInv == Fds /\ \A c \in Conns : Door(c)
HearInv ==
    PeaceInv /\ DoorInv /\ (Patient => \A c \in Conns : c \notin strayed => Unheard(c))

\* What other connections' steps leave as it was.
LEMMA ForeignDoor ==
    ASSUME TypeInv, TypeInv', NEW d \in Conns, Door(d), Foreign(d), source'[d] = source[d]
    PROVE  Door(d)'
<1>1. Holds(s2c'[d], "LO_ACK") <=> Holds(s2c[d], "LO_ACK")
  <2>1. s2c[d] \in Seq(ToClient) /\ s2c'[d] \in Seq(ToClient)
    BY DEF TypeInv, NetTypes
  <2> QED BY <2>1, GrowReply DEF Foreign
<1> QED BY <1>1 DEF Door, Foreign

\* A step of the server, for every connection's login.
LEMMA ServerDoor ==
    ASSUME TypeInv, TypeInv', NEW c \in Conns, UNCHANGED clients,
           Good(c), c \notin missed => Found(c), DoorInv, Accept(c) \/ ThreadStep(c),
           missed \subseteq missed'
    PROVE  DoorInv'
<1>1. \A d \in Conns \ {c} : Foreign(d)
  BY ServerKeeps
<1>2. Door(c)'
  BY DoorOpens, DoorCloses DEF DoorInv
<1>3. \A d \in Conns \ {c} : source'[d] = source[d]
  <2>1. source \in [Conns -> Users \cup {NoName}]
    BY DEF TypeInv, ServerTypes
  <2> QED BY <2>1 DEF Accept, ThreadStep, Login, Grant, Join, JoinLocked, Leave, NewSess,
       JoinCreated, Broadcast, Query, Hangup, RecvFails, ExitLeaves, ExitFrees, threads
<1>4. \A d \in Conns \ {c} : Door(d)'
  BY <1>1, <1>3, ForeignDoor DEF DoorInv
<1>5. Fds'
  BY <1>1, FdsStay DEF DoorInv, Foreign
<1> QED BY <1>2, <1>4, <1>5 DEF DoorInv

\* What a program does before its login is answered.
LEMMA ProgramDoor ==
    ASSUME TypeInv, NEW c \in Conns, Good(c), UNCHANGED server, ClientStep(c), Door(c),
           missed \subseteq missed'
    PROVE  Door(c)'
<1>1. UNCHANGED <<thr, source, heap>> /\ NetTypes /\ ui \in [Conns -> {"off", "login", "on", "out"}]
  BY DEF server, threads, TypeInv, ClientTypes
<1>2. CASE source[c] # NoName
  BY <1>1, <1>2 DEF Door
<1>3. CASE source[c] = NoName /\ LoginCmd(c)
  <2>1. PICK u \in Users \cup {NoName} : Sends(c, "LOGIN", u)
    BY <1>3 DEF LoginCmd
  <2>2. Queued(c, "LOGIN")
    BY <1>1, <2>1, SendQueues, PacketKinds
  <2>3. ui'[c] = "login" /\ s2c' = s2c
    BY <1>1, <1>3 DEF LoginCmd
  <2> QED BY <1>1, <2>2, <2>3 DEF Door, Queued
<1>4. CASE source[c] = NoName /\ (LoginReply(c) \/ Kill(c))
  <2>1. c2s' = c2s
    BY <1>4 DEF LoginReply, Kill
  <2>2. LoginReply(c) => Head(s2c[c]) # "LO_ACK"
    <3>1. s2c[c] \in Seq(ToClient)
      BY <1>1 DEF NetTypes
    <3>2. s2c[c] # <<>> => Head(s2c[c]) = s2c[c][1] /\ 1 \in DOMAIN s2c[c]
      BY <3>1
    <3> QED BY <1>4, <3>2 DEF Door, LoginReply, Holds
  <2>3. ui'[c] = "out" /\ \E q : Closes(c, q)
    BY <1>1, <1>4, <2>2 DEF LoginReply, Kill
  <2>4. s2c'[c] = <<>>
    BY <1>1, <2>3 DEF Closes, NetTypes
  <2> QED BY <1>1, <2>1, <2>3, <2>4, NothingWaits DEF Door
<1>5. source[c] = NoName => LoginCmd(c) \/ LoginReply(c) \/ Kill(c)
  BY DEF Door, ClientStep, JoinCmd, CreateCmd, LeaveCmd, ListCmd, SendText, LogoutCmd,
     Receive, Types
<1> QED BY <1>2, <1>3, <1>4, <1>5

\* A program's step, for every connection's login.
LEMMA ClientDoor ==
    ASSUME TypeInv, TypeInv', NEW c \in Conns, Good(c), UNCHANGED server, ClientStep(c),
           DoorInv,
           missed \subseteq missed'
    PROVE  DoorInv'
<1>1. UNCHANGED <<thr, source, fd, heap>>
  BY DEF server, threads
<1>2. Alone(c)
  BY ProgramGood
<1>3. Door(c)'
  BY ProgramDoor DEF DoorInv
<1>4. \A d \in Conns \ {c} : Door(d)'
  BY <1>1, <1>2 DEF Door, DoorInv, Alone
<1>5. Fds'
  BY <1>1 DEF DoorInv, Fds, HasSocket
<1> QED BY <1>3, <1>4, <1>5 DEF DoorInv

-----------------------------------------------------------------------------
\* No reply is a message.
LEMMA RepliesAreNone ==
    ASSUME TypeInv, NEW c \in Conns, Accept(c) \/ ThreadStep(c), ~Broadcast(c),
           Holds(s2c'[c], "MESSAGE")
    PROVE  Holds(s2c[c], "MESSAGE")
<1>1. NetTypes /\ ServerTypes
  BY DEF TypeInv
<1>2. /\ {"recv", "gone"} \subseteq Places
      /\ {"LO_ACK", "LO_NAK", "JN_ACK", "JN_NAK", "NS_ACK", "QU_ACK"}
           \subseteq ToClient \ {"MESSAGE"}
  BY PlaceNames
<1>3. ASSUME NEW h, NEW pc \in {"recv", "gone"},
             NEW m \in {"LO_ACK", "LO_NAK", "JN_ACK", "JN_NAK", "NS_ACK", "QU_ACK"},
             Replies(c, h, pc, m)
      PROVE  Holds(s2c[c], "MESSAGE")
  <2>1. Pushed(c, m)
    BY <1>1, <1>2, <1>3, ReplyPushes
  <2> QED BY <1>2, <2>1 DEF Pushed
<1>4. CASE s2c' = s2c
  BY <1>4
<1>5. CASE Accept(c) \/ Leave(c) \/ NewSess(c) \/ RecvFails(c) \/ ExitLeaves(c) \/ ExitFrees(c)
  BY <1>4, <1>5 DEF Accept, Leave, NewSess, RecvFails, ExitLeaves, ExitFrees, Silent, net
<1>6. CASE Login(c) \/ Grant(c)
  BY <1>3, <1>4, <1>6 DEF Login, Grant, Silent
<1>7. CASE Join(c) \/ JoinLocked(c)
  BY <1>3, <1>4, <1>7 DEF Join, JoinLocked, Silent
<1>8. CASE JoinCreated(c) \/ Query(c)
  BY <1>3, <1>4, <1>8 DEF JoinCreated, Query, Silent
<1>9. CASE Hangup(c)
  <2>1. s2c' = s2c \/ Replies(c, [heap EXCEPT !.clientID[c] = NoName], "gone", "LO_NAK")
    BY <1>9 DEF Hangup, Silent
  <2> QED BY <1>3, <1>4, <2>1
<1> QED BY <1>5, <1>6, <1>7, <1>8, <1>9 DEF ThreadStep

\* Messages go to members, and who waits for login is none.  Only one that has
\* a member's descriptor may hear them.
LEMMA ServerUnheard ==
    ASSUME NEW c \in Conns, UNCHANGED clients, Patient, down = "up", TypeInv,
           ListsInv, DoorInv, Accept(c) \/ ThreadStep(c), Recorded,
           \A d \in Conns : /\ Good(d) /\ (d \notin missed => Found(d))
                            /\ d \notin strayed => Unheard(d)
    PROVE  \A d \in Conns : d \notin strayed' => Unheard(d)'
<1> SUFFICES ASSUME NEW d \in Conns, ui[d] = "login", d \notin strayed'
             PROVE  ~Holds(s2c'[d], "MESSAGE")
  BY DEF Unheard, clients
<1>1. ~Holds(s2c[d], "MESSAGE")
  BY DEF Unheard, Recorded
<1>2. CASE Broadcast(c)
  <2>1. Peaceful
    BY DEF Peaceful, DoorInv
  <2>2. heap.joined[d] = <<>>
    BY DEF Good, Member
  <2>3. Speaks(c)
    BY <1>2, ReadsMeans DEF TypeInv, Broadcast, Reads, Speaks
  <2>4. ~Reissued(d)
    BY <2>3 DEF Recorded
  <2> QED BY <1>1, <1>2, <2>1, <2>2, <2>4, BroadcastHeard
<1>3. CASE ~Broadcast(c)
  <2>1. Apart(c)
    BY <1>3, ServerKeeps DEF Recorded
  <2>2. CASE d = c
    BY <1>1, <1>3, <2>2, RepliesAreNone
  <2>3. CASE d # c
    BY <1>1, <2>1, <2>3 DEF Apart
  <2> QED BY <2>2, <2>3
<1> QED BY <1>2, <1>3

LEMMA ClientUnheard ==
    ASSUME NEW c \in Conns, UNCHANGED server, TypeInv, ClientStep(c),
           \A d \in Conns : Good(d) /\ (d \notin strayed => Unheard(d)),
           strayed \subseteq strayed',
           missed \subseteq missed'
    PROVE  \A d \in Conns : d \notin strayed' => Unheard(d)'
<1>1. Alone(c)
  BY ProgramGood
<1>2. \A d \in Conns \ {c} : d \notin strayed' => Unheard(d)'
  BY <1>1 DEF Unheard, Alone
<1>3. ui \in [Conns -> {"off", "login", "on", "out"}]
  BY DEF TypeInv, ClientTypes
<1>4. CASE LoginCmd(c)
  <2>1. ui[c] = "off" /\ s2c' = s2c
    BY <1>4 DEF LoginCmd
  <2>2. s2c[c] = <<>>
    BY <2>1 DEF Good, Wiring
  <2> QED BY <1>2, <2>1, <2>2, NothingWaits DEF Unheard
<1>5. CASE LoginReply(c) \/ LogoutCmd(c) \/ Kill(c) \/ Receive(c)
  <2>1. ui'[c] # "login"
    BY <1>3, <1>5 DEF LoginReply, LogoutCmd, Kill, Receive
  <2> QED BY <1>2, <2>1 DEF Unheard
<1>6. CASE JoinCmd(c) \/ CreateCmd(c) \/ LeaveCmd(c) \/ ListCmd(c) \/ SendText(c)
  <2>1. ui'[c] = "on"
    BY <1>6 DEF JoinCmd, CreateCmd, LeaveCmd, ListCmd, SendText, Types
  <2> QED BY <1>2, <2>1 DEF Unheard
<1> QED BY <1>4, <1>5, <1>6 DEF ClientStep

LEMMA HearInit == Init => HearInv
<1> SUFFICES ASSUME Init PROVE HearInv
  OBVIOUS
<1>1. PeaceInv
  BY PeaceInit
<1>2. \A c \in Conns : /\ thr[c] = "none" /\ ui[c] = "off" /\ s2c[c] = <<>>
                       /\ c2s[c] = <<>> /\ heap.joined[c] = <<>> /\ source[c] = NoName
  BY DEF Init, NetInit, ServerInit, ClientInit, EmptyHeap
<1>3. \A c \in Conns : Door(c) /\ Unheard(c)
  BY <1>2, NothingWaits DEF Door, Unheard
<1>4. Fds
  BY <1>2 DEF Fds, HasSocket
<1> QED BY <1>1, <1>3, <1>4 DEF HearInv, DoorInv

LEMMA HearStays == HearInv /\ [Next]_vars => HearInv'
<1> SUFFICES ASSUME HearInv, [Next]_vars PROVE HearInv'
  OBVIOUS
<1>1. PeaceInv /\ PeaceInv' /\ DoorInv
  BY PeaceStays DEF HearInv
<1>2. /\ TypeInv /\ TypeInv' /\ (Patient => ListsInv)
      /\ \A c \in Conns : Good(c) /\ (c \notin missed => Found(c))
  BY <1>1 DEF PeaceInv, SessionInv
<1>3. CASE UNCHANGED vars
  <2>1. DoorInv'
    BY <1>1, <1>3 DEF DoorInv, Door, Fds, HasSocket, vars, net, server, threads, clients
  <2>2. \A c \in Conns : Unheard(c)' <=> Unheard(c)
    BY <1>3 DEF Unheard, vars, net, clients
  <2>3. strayed' = strayed
    BY <1>3 DEF vars, races
  <2> QED BY <1>1, <2>1, <2>2, <2>3 DEF HearInv
<1>4. ASSUME NEW c \in Conns, Accept(c) \/ ThreadStep(c), UNCHANGED clients, down = "up",
             Recorded
      PROVE  HearInv'
  <2>1. DoorInv'
    BY <1>1, <1>2, <1>4, ServerDoor DEF Recorded
  <2>2. Patient => \A d \in Conns : d \notin strayed' => Unheard(d)'
    BY <1>1, <1>2, <1>4, ServerUnheard DEF HearInv
  <2> QED BY <1>1, <2>1, <2>2 DEF HearInv
<1>5. ASSUME NEW c \in Conns, ClientStep(c), UNCHANGED server, Recorded PROVE HearInv'
  <2>1. DoorInv'
    BY <1>1, <1>2, <1>5, ClientDoor DEF Recorded
  <2>2. Patient => \A d \in Conns : d \notin strayed' => Unheard(d)'
    BY <1>2, <1>5, ClientUnheard DEF HearInv, Recorded
  <2> QED BY <1>1, <2>1, <2>2 DEF HearInv
<1> QED BY <1>3, <1>4, <1>5 DEF Next

LEMMA HearInvHolds == Spec => []HearInv
<1> QED BY HearInit, HearStays, PTL DEF Spec

\* client.c 29-30: a program that waits for the reply to LOGIN reads one, and no
\* message or other reply, however the threads interleave, unless messages meant
\* for a member with its descriptor strayed to it.
THEOREM LoginHearsReply == Spec => [](Patient => LoginReadsReply)
<1>1. HearInv => (Patient => LoginReadsReply)
  <2> SUFFICES ASSUME HearInv, Patient, NEW c \in Conns, ui[c] = "login",
                      s2c[c] # <<>>, c \notin strayed
               PROVE  Head(s2c[c]) \in {"LO_ACK", "LO_NAK"}
    BY DEF LoginReadsReply
  <2>1. s2c[c] \in Seq(ToClient) /\ Good(c)
    BY DEF HearInv, PeaceInv, SessionInv, TypeInv, NetTypes
  <2>2. Head(s2c[c]) = s2c[c][1] /\ 1 \in DOMAIN s2c[c] /\ s2c[c][1] \in ToClient
    BY <2>1
  <2>3. ~Told(c) /\ ~Holds(s2c[c], "MESSAGE")
    BY <2>1 DEF HearInv, Unheard, Good, Wiring, Turns
  <2> QED BY <2>2, <2>3 DEF Told, Holds, Acks, ToClient
<1> QED BY <1>1, HearInvHolds, PTL

-----------------------------------------------------------------------------
\* Who takes a MESSAGE off the queue broadcasts it.
LEMMA SpeakIsBroadcast ==
    ASSUME TypeInv, NEW c \in Conns, Speaks(c), \A d \in Conns : Good(d) /\ (d \notin missed => Found(d)),
           [Next]_vars
    PROVE  Broadcast(c) /\ down = "up" /\ UNCHANGED clients
<1>1. /\ c2s \in [Conns -> Seq(Packets)] /\ c2s[c] # <<>> /\ c2s'[c] = Tail(c2s[c])
      /\ Head(c2s[c]).type = "MESSAGE" /\ NetTypes
  BY DEF TypeInv, NetTypes, Speaks
<1>2. c2s'[c] # c2s[c] /\ \A p : c2s'[c] # Append(c2s[c], p)
  <2> DEFINE q == c2s[c]
  <2>1. q \in Seq(Packets) /\ q # <<>>
    BY <1>1
  <2> HIDE DEF q
  <2>2. Len(Tail(q)) # Len(q) /\ \A p : Len(Append(q, p)) # Len(Tail(q))
    BY <2>1
  <2> QED BY <1>1, <2>2 DEF q
<1>3. ~UNCHANGED vars
  BY <1>2 DEF vars, net
<1>4. ASSUME NEW e \in Conns, Accept(e) \/ ThreadStep(e), UNCHANGED clients, Recorded
      PROVE  Broadcast(c)
  <2>1. e = c
    <3>1. \A d \in Conns \ {e} : Foreign(d)
      BY <1>4, ServerKeeps DEF Recorded
    <3> QED BY <1>2, <3>1 DEF Foreign
  <2>2. c2s' # c2s
    BY <1>2
  <2>3. \A t : Reads(c, t) => t = "MESSAGE"
    BY <1>1 DEF Reads
  <2> QED BY <1>4, <2>1, <2>2, <2>3
         DEF Accept, ThreadStep, Login, Grant, Join, JoinLocked, Leave, NewSess,
             JoinCreated, Query, Hangup, RecvFails, ExitLeaves, ExitFrees, net
<1>5. ASSUME NEW e \in Conns, ClientStep(e), UNCHANGED server, Recorded PROVE FALSE
  <2>1. e = c
    <3>1. Alone(e)
      BY <1>5, ProgramGood DEF Recorded
    <3> QED BY <1>2, <3>1 DEF Alone
  <2>2. ASSUME NEW t, NEW a PROVE ~Sends(c, t, a)
    BY <1>1, <1>2 DEF Sends
  <2>3. c2s' # c2s
    BY <1>2
  <2> QED BY <1>5, <2>1, <2>2, <2>3
         DEF ClientStep, LoginCmd, LoginReply, JoinCmd, CreateCmd, LeaveCmd, ListCmd,
             SendText, LogoutCmd, Kill, Receive
<1> QED BY <1>3, <1>4, <1>5 DEF Next

\* A message reaches every member whose connection is open, once, and nobody who
\* is in no session, however the threads interleave, but for connections that
\* have a leaver's descriptor.
THEOREM MessageReachesMembers ==
    ASSUME Patient PROVE Spec => MembersHear
<1>1. HearInv /\ [Next]_vars =>
        [\A c \in Conns : Speaks(c) /\ down' = "up" =>
           \A d \in Conns : ~Reissued(d) => s2c'[d] =
               IF d \in InSomeSession /\ link[d] = "open"
               THEN Append(s2c[d], "MESSAGE") ELSE s2c[d]]_vars
  <2> SUFFICES ASSUME HearInv, [Next]_vars, NEW c \in Conns, Speaks(c), down' = "up",
                      NEW d \in Conns, ~Reissued(d)
               PROVE  s2c'[d] = IF d \in InSomeSession /\ link[d] = "open"
                                THEN Append(s2c[d], "MESSAGE") ELSE s2c[d]
    OBVIOUS
  <2>1. /\ TypeInv /\ ListsInv /\ Fds
        /\ \A e \in Conns : Good(e) /\ (e \notin missed => Found(e)) /\ Door(e)
    BY DEF HearInv, PeaceInv, SessionInv, DoorInv
  <2>2. Broadcast(c) /\ down = "up"
    BY <2>1, SpeakIsBroadcast
  <2>3. Peaceful
    BY <2>1, <2>2 DEF Peaceful
  <2> QED BY <2>2, <2>3, BroadcastHeard
<1> QED BY <1>1, HearInvHolds, PTL DEF Spec, MembersHear

=============================================================================
