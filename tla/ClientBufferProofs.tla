-------------------------- MODULE ClientBufferProofs --------------------------
(***************************************************************************)
(* Proofs about ClientBuffer, for any number of lines typed and of other   *)
(* users' messages: what the user must do for the buffer the two threads   *)
(* share to do no harm.                                                    *)
(***************************************************************************)
EXTENDS ClientBuffer, SequenceTheorems, TLAPS

\* TypeOK, and that packetToString has left a record in buf when it is sent.
TypeInv == TypeOK /\ (at = "send" => buf \in Types)

Busy == {"strtok", "restore", "argument", "clear", "fill", "send"}

Leave == [type |-> "LEAVE_SESS", data |-> "none"]

\* The server, as long as it lives, has the client in a session, or has said
\* so, if and only if b.
Has(b) ==
    down = "no" =>
        /\ joined \in {0, 1} /\ (missed => joined = 0)
        /\ b <=> joined = 1 \/ missed

\* insession is what the server has, or will have once it has read the one
\* LEAVE_SESS that can be under way.
InStep ==
    \/ c2s = <<>> /\ Has(insession)
    \/ c2s = <<Leave>> /\ ~insession /\ Has(TRUE)

Quiet == rat = "recv" /\ s2c = <<>>

\* What SentAsTyped says of a packet.
Sound(p) ==
    /\ p.data # "other"
    /\ p.data \in {"longer", "holed"} => p.type = "MESSAGE"

\* What the main thread finds in buf, and has in its packet, as it works.
Prepared ==
    /\ at \in {"strtok", "restore", "argument"} => buf = "line"
    /\ at = "restore" => packet.type = "MESSAGE"
    /\ at = "argument" =>
          /\ packet.type \in {"JOIN", "NEW_SESS", "LOGIN", "MESSAGE"}
          /\ packet.type \in {"NEW_SESS", "LOGIN"} => typed.type = packet.type
    /\ at \in {"clear", "fill", "send"} =>
          /\ packet.type \in Requests
          /\ packet.type = "LEAVE_SESS" => packet.data = "none"
    /\ at \in {"argument", "clear", "fill", "send"} =>
          Sound(packet) /\ MaySend(packet.type)
    /\ at = "send" => buf = packet.type

(***************************************************************************)
(* As long as nothing has disturbed it, the client is at one place of a    *)
(* round: it waits for the user, works on a command, has sent a request    *)
(* or has been sent its answer m, which its thread receives, parses and    *)
(* acts on.  No two of them overlap, so that buf has one user at a time.   *)
(* When the server has ended, the thread may have returned.                *)
(***************************************************************************)
Waiting == at = "fgets" /\ Quiet /\ InStep

Working == at \in Busy /\ Prepared /\ Quiet /\ InStep

Asked(r) ==
    /\ at = "fgets" /\ Quiet
    /\ r.type \in Requests \ {"LEAVE_SESS", "EXIT"} /\ MaySend(r.type)
    /\ \/ c2s = <<r>> /\ Has(insession)
       \/ c2s = <<Leave, r>> /\ ~insession /\ Has(TRUE)

\* What an answer says is so.
Truthful(m) ==
    /\ m \in Replies
    /\ m \in {"JN_ACK", "NS_ACK"} => Has(TRUE)
    /\ m = "JN_NAK" => Has(FALSE)
    /\ m \in {"QU_ACK", "BROADCAST"} => Has(insession)

Told(m) ==
    /\ at = "fgets" /\ c2s = <<>> /\ Truthful(m)
    /\ \/ rat = "recv" /\ s2c = <<m>>
       \/ rat = "parse" /\ s2c = <<>> /\ buf = m
       \/ rat = "act" /\ s2c = <<>> /\ rpacket = m

Deaf ==
    /\ rat = "failed" /\ down # "no"
    /\ at = "fgets" \/ (at \in Busy /\ Prepared)

Left ==
    /\ ended \in {"quit", "segv", "pipe"}
    /\ ended = "segv" => typed.type \in {"NEW_SESS", "LOGIN"} /\ ~typed.more

Round ==
    \/ ended = "no" /\ (Waiting \/ Working \/ Deaf)
    \/ ended = "no" /\ \E r \in Packets : Asked(r)
    \/ ended = "no" /\ \E m \in Replies : Told(m)
    \/ Left

\* What has been sent is sound, and the server followed no NULL for it.
Harmless ==
    /\ \A i \in DOMAIN c2s : Sound(c2s[i])
    /\ down = "segv" => missed

IInv == TypeInv /\ (disturbed \/ (Round /\ Harmless))

-----------------------------------------------------------------------------
(***************************************************************************)
(* Types.                                                                  *)
(***************************************************************************)
LEMMA InitTypes == Init => TypeInv
<1> SUFFICES ASSUME Init PROVE TypeInv
  OBVIOUS
<1>1. c2s \in Seq(Packets) /\ s2c \in Seq(Replies)
  BY DEF Init
<1>2. packet \in Packets /\ typed \in Lines
  BY DEF Init, Types, Packets, Lines
<1> QED BY <1>1, <1>2 DEF Init, TypeInv, TypeOK, Types, Requests, Replies

\* A packet of the main thread with other data is still a packet.
LEMMA PacketData ==
    ASSUME NEW p \in Packets, NEW d \in {"none", "typed", "longer", "holed", "other"}
    PROVE  /\ [p EXCEPT !.data = d] \in Packets
           /\ [p EXCEPT !.data = d].type = p.type /\ [p EXCEPT !.data = d].data = d
BY DEF Packets

LEMMA MainTypes ==
    ASSUME TypeInv, Fgets \/ MainStep
    PROVE  TypeInv'
<1> USE DEF TypeInv, TypeOK, mainThread, receiver, world
<1>1. CASE Fgets
  <2>1. buf' \in {"line", "empty"} /\ typed' \in Lines /\ at' \in {"strtok", "fgets"}
    BY <1>1 DEF Fgets
  <2> QED BY <1>1, <2>1 DEF Fgets
<1>2. CASE Strtok
  <2> DEFINE type == IF buf = "line" THEN typed.type ELSE "MESSAGE"
  <2>1. type \in Types
    BY DEF Lines, Types, Requests
  <2>2. packet' = [type |-> type, data |-> "none"]
    BY <1>2 DEF Strtok
  <2>3. packet' \in Packets
    BY <2>1, <2>2 DEF Packets
  <2>4. at' \in {"restore", "fgets", "argument", "clear"}
    BY <1>2 DEF Strtok
  <2> QED BY <1>2, <2>3, <2>4 DEF Strtok
<1>3. CASE Restore
  <2>1. packet' \in Packets
    <3> DEFINE Set(d) == [packet EXCEPT !.data = d]
    <3>1. \A d \in {"none", "typed", "longer", "holed", "other"} : Set(d) \in Packets
      BY DEF Packets
    <3>2. packet' = packet \/ \E d \in {"typed", "longer", "holed"} : packet' = Set(d)
      BY <1>3 DEF Restore
    <3> HIDE DEF Set
    <3> QED BY <3>1, <3>2
  <2>2. buf' \in Types \cup {"line", "empty", "broken"}
    BY <1>3 DEF Restore, Types
  <2>3. at' \in {"argument", "fgets"}
    BY <1>3 DEF Restore
  <2> QED BY <1>3, <2>1, <2>2, <2>3 DEF Restore
<1>4. CASE Argument
  <2> DEFINE Set(d) == [packet EXCEPT !.data = d]
  <2>1. packet' = packet \/ \E d \in {"other", "typed", packet.data} : packet' = Set(d)
    BY <1>4 DEF Argument
  <2>2. \A d \in {"other", "typed", packet.data} : Set(d) \in Packets
    BY DEF Packets
  <2> HIDE DEF Set
  <2>3. packet' \in Packets
    BY <2>1, <2>2
  <2>4. at' \in {"clear", "fgets", "end"} /\ ended' \in {ended, "segv"}
    BY <1>4 DEF Argument, Ends
  <2> QED BY <1>4, <2>3, <2>4 DEF Argument
<1>5. CASE Clear BY <1>5 DEF Clear
<1>6. CASE Fill
  <2>1. packet.type \in Types
    BY DEF Packets
  <2> QED BY <1>6, <2>1 DEF Fill
<1>7. CASE Send
  <2>1. InBuf \in Packets
    BY <1>7 DEF Send, InBuf, Packets, Types, Requests
  <2>2. c2s' \in Seq(Packets)
    BY <1>7, <2>1 DEF Send
  <2>3. /\ at' \in {"fgets", "end"} /\ ended' \in {ended, "quit", "pipe"}
        /\ insession' \in BOOLEAN
    BY <1>7 DEF Send, Ends
  <2> QED BY <1>7, <2>2, <2>3 DEF Send
<1> QED BY <1>1, <1>2, <1>3, <1>4, <1>5, <1>6, <1>7 DEF MainStep

LEMMA OtherTypes ==
    ASSUME TypeInv, ReceiveStep \/ Serve \/ OtherSpeaks \/ OtherEnds
    PROVE  TypeInv'
<1> USE DEF TypeInv, TypeOK, mainThread, receiver, world
<1>1. CASE Recv
  <2>1. Head(s2c) \in Replies /\ Tail(s2c) \in Seq(Replies)
    BY <1>1 DEF Recv
  <2>2. buf' \in Types
    BY <1>1, <2>1 DEF Recv, Torn, Types, Replies
  <2> QED BY <1>1, <2>1, <2>2 DEF Recv
<1>2. CASE RecvFails BY <1>2 DEF RecvFails
<1>3. CASE Parse
  <2>1. /\ rpacket' \in Types /\ rat' \in {"parse", "act"} /\ at' \in {at, "end"}
        /\ ended' \in {ended, "exit"}
    BY <1>3 DEF Parse, Ends
  <2> QED BY <1>3, <2>1 DEF Parse
<1>4. CASE Act
  <2>1. insession' \in BOOLEAN
    <3>1. CASE rpacket = "JN_NAK"
      BY <1>4, <3>1, Zenon DEF Act
    <3>2. CASE rpacket # "JN_NAK"
      BY <1>4, <3>2, Zenon DEF Act
    <3> QED BY <3>1, <3>2
  <2>2. rat' = "recv" /\ UNCHANGED <<buf, at, typed, packet, rpacket, ended, c2s, s2c, world>>
    BY <1>4 DEF Act
  <2> QED BY <2>1, <2>2
<1>5. CASE Serve
  <2>1. Tail(c2s) \in Seq(Packets)
    BY <1>5 DEF Serve
  <2>2. {"JN_ACK", "JN_NAK", "NS_ACK", "QU_ACK", "BROADCAST"} \subseteq Replies
    BY DEF Replies
  <2>3. \A m \in Replies : Append(s2c, m) \in Seq(Replies)
    OBVIOUS
  <2>4. s2c \o [i \in 1..joined |-> "BROADCAST"] \in Seq(Replies)
    <3> DEFINE copies == [i \in 1..joined |-> "BROADCAST"]
    <3>1. copies \in Seq(Replies)
      BY <2>2
    <3> HIDE DEF copies
    <3>2. s2c \o copies \in Seq(Replies)
      BY <3>1
    <3> QED BY <3>2 DEF copies
  <2>5. s2c' \in Seq(Replies)
    <3>1. \/ s2c' = s2c
          \/ \E m \in {"JN_ACK", "JN_NAK", "NS_ACK", "QU_ACK"} : s2c' = Append(s2c, m)
          \/ s2c' = s2c \o [i \in 1..joined |-> "BROADCAST"]
      BY <1>5, ZenonT(40) DEF Serve, Joins, Leaves
    <3>2. CASE s2c' = s2c
      BY <3>2
    <3>3. CASE \E m \in {"JN_ACK", "JN_NAK", "NS_ACK", "QU_ACK"} : s2c' = Append(s2c, m)
      BY <2>2, <2>3, <3>3
    <3>4. CASE s2c' = s2c \o [i \in 1..joined |-> "BROADCAST"]
      BY <2>4, <3>4, Zenon
    <3> QED BY <3>1, <3>2, <3>3, <3>4
  <2>6. /\ joined' \in Nat /\ freed' \in BOOLEAN /\ missed' \in BOOLEAN
        /\ down' \in {"no", "segv", "abort", "other"}
    <3>1. CASE Joins("JN_ACK") \/ Joins("NS_ACK")
      <4>1. joined + 1 \in Nat
        OBVIOUS
      <4> QED BY <3>1, <4>1, Zenon DEF Joins
    <3>2. CASE Leaves
      <4>1. joined # 0 => joined - 1 \in Nat
        OBVIOUS
      <4> QED BY <3>2, <4>1, Zenon DEF Leaves
    <3>3. CASE UNCHANGED <<joined, freed, missed, down>>
      BY <3>3
    <3> QED BY <1>5, <3>1, <3>2, <3>3, Zenon DEF Serve
  <2> QED BY <1>5, <2>1, <2>5, <2>6 DEF Serve
<1>6. CASE OtherSpeaks
  <2>1. s2c' \in Seq(Replies)
    BY <1>6 DEF OtherSpeaks, Replies
  <2> QED BY <1>6, <2>1 DEF OtherSpeaks
<1>7. CASE OtherEnds BY <1>7 DEF OtherEnds
<1> QED BY <1>1, <1>2, <1>3, <1>4, <1>5, <1>6, <1>7 DEF ReceiveStep

-----------------------------------------------------------------------------
(***************************************************************************)
(* The round.                                                              *)
(***************************************************************************)
\* What the sequences of one and two packets are.
LEMMA OneOrTwo ==
    ASSUME NEW S, NEW a \in S, NEW b \in S
    PROVE  /\ Append(<<>>, b) = <<b>> /\ Append(<<a>>, b) = <<a, b>>
           /\ Head(<<a>>) = a /\ Tail(<<a>>) = <<>>
           /\ Head(<<a, b>>) = a /\ Tail(<<a, b>>) = <<b>>
           /\ Len(<<a>>) = 1 /\ Len(<<a, b>>) = 2
<1>1. <<a>> \in Seq(S) /\ <<b>> \in Seq(S) /\ <<a, b>> \in Seq(S) /\ <<>> \in Seq(S)
  OBVIOUS
<1>2. Append(<<>>, b) = <<b>>
  BY <1>1
<1>3. Append(<<a>>, b) = <<a, b>>
  <2>1. Len(Append(<<a>>, b)) = 2 /\ Append(<<a>>, b)[1] = a /\ Append(<<a>>, b)[2] = b
    BY <1>1
  <2>2. Append(<<a>>, b) \in Seq(S)
    BY <1>1
  <2>3. \A i \in 1..2 : Append(<<a>>, b)[i] = <<a, b>>[i]
    BY <2>1
  <2>4. Len(<<a, b>>) = 2
    OBVIOUS
  <2> QED BY <1>1, <2>1, <2>2, <2>3, <2>4, SeqEqual
<1>4. Head(<<a>>) = a /\ Tail(<<a>>) = <<>> /\ Head(<<a, b>>) = a
  BY <1>1
<1>5. Tail(<<a, b>>) = <<b>>
  BY <1>1
<1> QED BY <1>2, <1>3, <1>4, <1>5

\* No copy of a message, and one.
LEMMA Copies ==
    /\ <<>> \o [i \in 1..0 |-> "BROADCAST"] = <<>>
    /\ <<>> \o [i \in 1..1 |-> "BROADCAST"] = <<"BROADCAST">>
OBVIOUS

LEMMA LeaveIsPacket == Leave \in Packets
BY DEF Leave, Packets, Types, Requests

LEMMA InitRound == Init => Round /\ Harmless
BY DEF Init, Round, Waiting, Quiet, InStep, Has, Harmless

\* The user's turn: while anything else goes on, typing disturbs it.
LEMMA FgetsRound ==
    ASSUME TypeInv, disturbed \/ Round, ended = "no", Fgets
    PROVE  disturbed' \/ Round'
<1> SUFFICES ASSUME ~disturbed' PROVE Round'
  OBVIOUS
<1>1. Answered /\ ~disturbed
  BY DEF Fgets, TypeInv, TypeOK
<1>2. CASE Waiting
  <2>1. Quiet' /\ InStep' /\ ended' = "no"
    BY <1>2 DEF Fgets, Waiting, Quiet, InStep, Has, receiver, world
  <2>2. \/ at' = "fgets"
        \/ at' = "strtok" /\ buf' = "line"
    BY <1>2 DEF Fgets, Waiting
  <2> QED BY <2>1, <2>2 DEF Round, Waiting, Working, Busy, Prepared
<1>3. CASE Working
  BY <1>3 DEF Fgets, Working, Busy
<1>4. ASSUME NEW r \in Packets, Asked(r) PROVE FALSE
  <2>1. CASE c2s = <<r>>
    BY <1>1, <1>4, <2>1 DEF Answered, Asked
  <2>2. CASE c2s = <<Leave, r>>
    <3>1. 2 \in DOMAIN c2s /\ c2s[2] = r
      BY <2>2
    <3> QED BY <1>1, <1>4, <3>1 DEF Answered, Asked
  <2> QED BY <1>4, <2>1, <2>2 DEF Asked
<1>5. ASSUME NEW m \in Replies, Told(m) PROVE FALSE
  BY <1>1, <1>5 DEF Answered, Told
<1>6. CASE Deaf
  BY <1>1, <1>6 DEF Answered, Deaf
<1> QED BY <1>1, <1>2, <1>3, <1>4, <1>5, <1>6 DEF Round, Left

\* One step of work, from what is prepared to what is.
LEMMA Works ==
    ASSUME TypeInv, at \in Busy, Prepared, ended = "no",
           Strtok \/ Restore \/ Argument \/ Clear \/ Fill
    PROVE  /\ c2s' = c2s /\ insession' = insession
           /\ UNCHANGED <<receiver, s2c, world, disturbed>>
           /\ \/ ended' = "no" /\ at' = "fgets"
              \/ ended' = "no" /\ at' \in Busy /\ Prepared'
              \/ Left'
<1> USE DEF mainThread, receiver, world
<1>1. CASE Strtok
  <2>1. buf = "line" /\ typed \in Lines
    BY <1>1 DEF Strtok, Prepared, TypeInv, TypeOK
  <2>2. packet'.type = typed.type /\ packet'.data = "none"
    BY <1>1, <2>1 DEF Strtok
  <2>3. typed.type \in Requests \cup {"LOGIN"}
    BY <2>1 DEF Lines
  <2>4. \/ at' = "restore" /\ typed.type = "MESSAGE"
        \/ at' = "fgets"
        \/ at' = "argument" /\ typed.type \in {"JOIN", "NEW_SESS", "LOGIN"} /\ MaySend(typed.type)
        \/ at' = "clear" /\ typed.type \in Requests /\ MaySend(typed.type)
    BY <1>1, <2>1, <2>3 DEF Strtok
  <2>5. UNCHANGED <<buf, typed, c2s, insession, ended, receiver, s2c, world, disturbed>>
    BY <1>1 DEF Strtok
  <2>6. at' = "fgets" \/ (at' \in Busy /\ Prepared')
    BY <2>1, <2>2, <2>4, <2>5 DEF Busy, Prepared, Sound, MaySend
  <2> QED BY <2>5, <2>6
<1>2. CASE Restore
  <2>1. buf = "line" /\ packet.type = "MESSAGE" /\ packet \in Packets
    BY <1>2 DEF Restore, Prepared, TypeInv, TypeOK
  <2>2. PICK data \in {"typed", "longer", "holed"} : packet' = [packet EXCEPT !.data = data]
    BY <1>2, <2>1 DEF Restore
  <2>3. packet'.type = "MESSAGE" /\ packet'.data = data
    BY <2>1, <2>2, PacketData
  <2>4. /\ UNCHANGED <<buf, typed, c2s, insession, ended, receiver, s2c, world, disturbed>>
        /\ at' = "fgets" \/ (at' = "argument" /\ MaySend("MESSAGE"))
    BY <1>2, <2>1 DEF Restore
  <2>5. at' = "fgets" \/ (at' \in Busy /\ Prepared')
    BY <2>1, <2>3, <2>4 DEF Busy, Prepared, Sound, MaySend
  <2> QED BY <2>4, <2>5
<1>3. CASE Argument
  <2>1. /\ buf = "line" /\ at = "argument" /\ packet \in Packets
        /\ packet.type \in {"JOIN", "NEW_SESS", "LOGIN", "MESSAGE"}
        /\ packet.type \in {"NEW_SESS", "LOGIN"} => typed.type = packet.type
        /\ Sound(packet) /\ MaySend(packet.type)
    BY <1>3 DEF Argument, Prepared, TypeInv, TypeOK
  <2>2. UNCHANGED <<buf, typed, c2s, insession, receiver, s2c, world, disturbed>>
    BY <1>3 DEF Argument
  <2>3. CASE at' = "clear" /\ ended' = ended /\ packet.type # "LOGIN"
    <3>1. packet' = [packet EXCEPT !.data = IF packet.type = "MESSAGE" THEN packet.data
                                           ELSE "typed"]
      BY <1>3, <2>1, <2>3 DEF Argument, Ends
    <3>2. /\ packet'.type = packet.type
          /\ packet'.data = IF packet.type = "MESSAGE" THEN packet.data ELSE "typed"
      BY <2>1, <3>1 DEF Packets
    <3>3. Sound(packet') /\ packet'.type \in {"JOIN", "NEW_SESS", "MESSAGE"}
      BY <2>1, <2>3, <3>2 DEF Sound
    <3>4. at' \in Busy /\ Prepared'
      BY <2>1, <2>2, <2>3, <3>2, <3>3 DEF Busy, Prepared, MaySend, Requests, Sound
    <3> QED BY <2>2, <2>3, <3>4
  <2>4. CASE ended' = "segv" /\ ~typed.more /\ packet.type \in {"NEW_SESS", "LOGIN"}
    BY <2>1, <2>2, <2>4 DEF Left
  <2>5. \/ at' = "clear" /\ ended' = ended /\ packet.type # "LOGIN"
        \/ at' = "fgets" /\ ended' = ended
        \/ ended' = "segv" /\ ~typed.more /\ packet.type \in {"NEW_SESS", "LOGIN"}
    BY <1>3, <2>1 DEF Argument, Ends
  <2> QED BY <2>2, <2>3, <2>4, <2>5
<1>4. CASE Clear
  <2>1. at' \in Busy /\ Prepared'
    BY <1>4 DEF Clear, Busy, Prepared, MaySend, Sound
  <2> QED BY <1>4, <2>1 DEF Clear
<1>5. CASE Fill
  <2>1. at' \in Busy /\ Prepared'
    BY <1>5 DEF Fill, Busy, Prepared, MaySend, Sound
  <2> QED BY <1>5, <2>1 DEF Fill
<1> QED BY <1>1, <1>2, <1>3, <1>4, <1>5

\* What is sent is the packet, which is sound.
LEMMA SendsPacket ==
    ASSUME TypeInv, Prepared, at = "send"
    PROVE  /\ InBuf \in Packets /\ Sound(InBuf) /\ InBuf.type = packet.type
           /\ packet.type = "LEAVE_SESS" => InBuf = Leave
<1>1. packet.type \in Requests /\ buf = packet.type /\ Sound(packet) /\ packet \in Packets
  BY DEF Prepared, TypeInv, TypeOK
<1>2. InBuf.type = packet.type /\ InBuf.data = packet.data
  BY <1>1 DEF InBuf, Requests
<1>3. InBuf \in Packets
  BY <1>1 DEF InBuf, Packets, Types, Requests
<1>4. packet.type = "LEAVE_SESS" => InBuf = Leave
  BY <1>1 DEF InBuf, Leave, Prepared
<1> QED BY <1>1, <1>2, <1>3, <1>4 DEF Sound

\* The main thread's steps are taken while Working, or Deaf.
LEMMA MainRound ==
    ASSUME TypeInv, disturbed \/ Round, ended = "no", MainStep
    PROVE  disturbed' \/ Round'
<1> SUFFICES ASSUME ~disturbed' PROVE Round'
  OBVIOUS
<1> USE DEF mainThread, receiver, world
<1>1. ~disturbed
  BY DEF MainStep, Strtok, Restore, Argument, Clear, Fill, Send
<1>2. at \in Busy
  BY DEF MainStep, Strtok, Restore, Argument, Clear, Fill, Send, Busy
<1>3. Working \/ (Deaf /\ Prepared)
  BY <1>1, <1>2 DEF Round, Waiting, Asked, Told, Left, Busy, Deaf
<1>4. Prepared
  BY <1>3 DEF Working
<1>5. CASE Strtok \/ Restore \/ Argument \/ Clear \/ Fill
  <2>1. /\ c2s' = c2s /\ insession' = insession /\ UNCHANGED <<receiver, s2c, world>>
        /\ \/ ended' = "no" /\ at' = "fgets"
           \/ ended' = "no" /\ at' \in Busy /\ Prepared'
           \/ Left'
    BY <1>2, <1>4, <1>5, Works
  <2>2. CASE Working
    <3>1. Quiet' /\ InStep'
      BY <2>1, <2>2 DEF Working, Quiet, InStep, Has
    <3> QED BY <2>1, <3>1 DEF Round, Waiting, Working
  <2>3. CASE Deaf
    <3>1. rat' = "failed" /\ down' # "no"
      BY <2>1, <2>3 DEF Deaf
    <3> QED BY <2>1, <3>1 DEF Round, Deaf
  <2> QED BY <1>3, <2>2, <2>3
<1>6. CASE Send
  <2>1. PICK r \in Packets : /\ r = InBuf /\ r.type = packet.type
                             /\ packet.type = "LEAVE_SESS" => r = Leave
    BY <1>4, <1>6, SendsPacket DEF Send
  <2>2. packet.type \in Requests /\ MaySend(packet.type)
    BY <1>4, <1>6 DEF Send, Prepared
  <2>3. CASE ended' \in {"quit", "pipe"}
    BY <2>3 DEF Round, Left
  <2>4. CASE /\ c2s' = Append(c2s, r) /\ packet.type # "EXIT"
             /\ insession' = (insession /\ packet.type # "LEAVE_SESS")
             /\ at' = "fgets" /\ ended' = "no"
    <3>1. UNCHANGED <<rat, s2c, world>>
      BY <1>6 DEF Send
    <3>2. CASE Deaf
      BY <2>4, <3>1, <3>2 DEF Deaf, Round
    <3>3. CASE Working /\ packet.type = "LEAVE_SESS"
      <4>1. insession
        BY <2>2, <3>3 DEF MaySend
      <4>2. c2s = <<>> /\ Has(TRUE)
        BY <3>3, <4>1 DEF Working, InStep, Has
      <4>3. c2s' = <<Leave>> /\ ~insession'
        BY <2>1, <2>4, <3>3, <4>2, LeaveIsPacket, OneOrTwo
      <4>4. Waiting'
        BY <2>4, <3>1, <3>3, <4>2, <4>3 DEF Working, Quiet, InStep, Has, Waiting
      <4> QED BY <2>4, <4>4 DEF Round
    <3>4. CASE Working /\ packet.type # "LEAVE_SESS"
      <4>1. insession' = insession
        BY <2>4, <3>4 DEF TypeInv, TypeOK
      <4>2. \/ c2s' = <<r>> /\ Has(insession)
            \/ c2s' = <<Leave, r>> /\ ~insession /\ Has(TRUE)
        <5>1. CASE c2s = <<>> /\ Has(insession)
          BY <2>1, <2>4, <5>1, OneOrTwo
        <5>2. CASE c2s = <<Leave>> /\ ~insession /\ Has(TRUE)
          <6>1. Append(c2s, r) = <<Leave, r>>
            BY <5>2, LeaveIsPacket, OneOrTwo
          <6> QED BY <2>4, <5>2, <6>1
        <5> QED BY <3>4, <5>1, <5>2 DEF Working, InStep
      <4>3. Quiet' /\ MaySend(r.type)'
        BY <2>1, <2>2, <3>1, <3>4, <4>1 DEF Working, Quiet, MaySend
      <4>4. Asked(r)'
        BY <2>1, <2>2, <2>4, <3>1, <3>4, <4>1, <4>2, <4>3 DEF Asked, Has
      <4> QED BY <2>4, <4>4 DEF Round
    <3> QED BY <1>3, <3>2, <3>3, <3>4
  <2>5. \/ ended' \in {"quit", "pipe"}
        \/ /\ c2s' = Append(c2s, r) /\ packet.type # "EXIT"
           /\ insession' = (insession /\ packet.type # "LEAVE_SESS")
           /\ at' = "fgets" /\ ended' = "no"
    BY <1>6, <2>1, <2>2 DEF Send, Ends, TypeInv, TypeOK
  <2> QED BY <2>3, <2>4, <2>5
<1> QED BY <1>5, <1>6 DEF MainStep

\* The receiving thread's are taken when the client has been Told, or when the
\* server has ended.
LEMMA ReceiveRound ==
    ASSUME TypeInv, disturbed \/ Round, ended = "no", ReceiveStep
    PROVE  disturbed' \/ Round'
<1> SUFFICES ASSUME ~disturbed' PROVE Round'
  OBVIOUS
<1> USE DEF mainThread, receiver, world
<1>1. ~disturbed
  BY DEF ReceiveStep, Recv, RecvFails, Parse, Act
<1>2. CASE RecvFails
  <2>1. at = "fgets" \/ (at \in Busy /\ Prepared)
    BY <1>1 DEF Round, Waiting, Working, Asked, Told, Deaf, Left
  <2>2. Deaf'
    BY <1>2, <2>1 DEF RecvFails, Deaf, Prepared, MaySend, Sound
  <2> QED BY <1>2, <2>2 DEF RecvFails, Round
<1>3. CASE Recv \/ Parse \/ Act
  <2>1. PICK m \in Replies : Told(m)
    <3>1. rat # "failed" /\ (rat # "recv" \/ s2c # <<>>)
      BY <1>3 DEF Recv, Parse, Act
    <3> QED BY <1>1, <3>1 DEF Round, Waiting, Working, Asked, Deaf, Left, Quiet
  <2>2. CASE Recv
    <3>1. s2c = <<m>> /\ at = "fgets"
      BY <2>1, <2>2 DEF Recv, Told
    <3>2. buf' = m /\ s2c' = <<>>
      BY <2>2, <3>1 DEF Recv, Torn
    <3>3. Told(m)'
      BY <2>1, <2>2, <3>1, <3>2 DEF Recv, Told, Truthful, Has
    <3> QED BY <2>2, <3>3 DEF Recv, Round
  <2>3. CASE Parse
    <3>1. rat = "parse" /\ buf = m /\ at = "fgets"
      BY <2>1, <2>3 DEF Parse, Told
    <3>2. rpacket' = m /\ rat' = "act" /\ UNCHANGED <<at, ended>>
      BY <2>3, <3>1 DEF Parse, Replies, Types
    <3>3. Told(m)'
      BY <2>1, <2>3, <3>1, <3>2 DEF Parse, Told, Truthful, Has
    <3> QED BY <2>3, <3>2, <3>3 DEF Parse, Round
  <2>4. CASE Act
    <3>1. rat = "act" /\ rpacket = m
      BY <2>1, <2>4 DEF Act, Told
    <3>2. /\ m \in {"JN_ACK", "NS_ACK"} => insession' = TRUE
          /\ m = "JN_NAK" => insession' = FALSE
          /\ m \in {"QU_ACK", "BROADCAST"} => insession' = insession
          /\ UNCHANGED <<joined, missed, down>>
      BY <2>4, <3>1 DEF Act, TypeInv, TypeOK
    <3>3. Has(insession)'
      BY <2>1, <3>2 DEF Told, Truthful, Replies, Has
    <3>4. Waiting'
      BY <2>1, <2>4, <3>1, <3>3 DEF Act, Told, Waiting, Quiet, InStep
    <3> QED BY <2>4, <3>4 DEF Act, Round
  <2> QED BY <1>3, <2>2, <2>3, <2>4
<1> QED BY <1>2, <1>3 DEF ReceiveStep

\* The server reads a LEAVE_SESS of a client that it has in a session, or to
\* which it has said so.
LEMMA LeaveServed ==
    ASSUME TypeInv, Serve, Head(c2s).type = "LEAVE_SESS", Has(TRUE)
    PROVE  Has(FALSE)' /\ s2c' = s2c /\ (down' = "segv" => missed') /\ missed' = missed
<1>1. Leaves
  BY DEF Serve, Requests
<1>2. down = "no" /\ joined \in {0, 1} /\ (missed => joined = 0) /\ (joined = 1 \/ missed)
  BY DEF Serve, Has
<1>3. s2c' = s2c /\ missed' = missed
  BY <1>1 DEF Leaves
<1>4. CASE joined = 0
  BY <1>1, <1>2, <1>3, <1>4 DEF Leaves, Has
<1>5. CASE joined = 1
  <2>1. ~missed
    BY <1>2, <1>5
  <2>2. \/ joined' = 0 /\ down' = down
        \/ down' = "abort"
    BY <1>1, <1>5 DEF Leaves
  <2> QED BY <1>2, <1>3, <2>1, <2>2 DEF Has
<1> QED BY <1>2, <1>4, <1>5

\* The server reads any other request, and answers with the truth.
LEMMA RequestServed ==
    ASSUME TypeInv, Serve, s2c = <<>>, Has(insession), MaySend(Head(c2s).type),
           Head(c2s).type \in Requests \ {"LEAVE_SESS", "EXIT"}
    PROVE  /\ \/ s2c' = <<>> /\ Has(insession)'
              \/ \E m \in Replies : s2c' = <<m>> /\ Truthful(m)'
           /\ down' = down
<1> DEFINE type == Head(c2s).type
<1>1. /\ down = "no" /\ joined \in {0, 1} /\ (missed => joined = 0)
      /\ insession <=> joined = 1 \/ missed
  BY DEF Serve, Has
<1>2. insession' = insession
  BY DEF Serve
<1>3. \A m : Append(<<>>, m) = <<m>>
  OBVIOUS
<1>4. CASE type \in {"JOIN", "NEW_SESS"} /\ (Joins("JN_ACK") \/ Joins("NS_ACK"))
  <2>1. joined = 0 /\ ~missed
    BY <1>1, <1>4 DEF MaySend
  <2>2. PICK m \in {"JN_ACK", "NS_ACK"} : Joins(m)
    BY <1>4
  <2>3. s2c' = <<m>> /\ down' = down /\ m \in Replies
    BY <1>3, <2>2 DEF Joins, Replies
  <2>4. (joined' = 1 /\ ~missed') \/ (joined' = 0 /\ missed')
    BY <2>1, <2>2 DEF Joins
  <2>5. Truthful(m)'
    BY <2>2, <2>3, <2>4 DEF Truthful, Has
  <2> QED BY <2>3, <2>5
<1>5. CASE s2c' = Append(s2c, "JN_NAK") /\ type = "JOIN" /\ UNCHANGED <<joined, missed, down>>
  <2>1. s2c' = <<"JN_NAK">> /\ "JN_NAK" \in Replies
    BY <1>3, <1>5 DEF Replies
  <2>2. ~insession
    BY <1>5 DEF MaySend
  <2>3. Truthful("JN_NAK")'
    BY <1>1, <1>5, <2>1, <2>2 DEF Truthful, Has
  <2> QED BY <1>5, <2>1, <2>3
<1>6. CASE s2c' = Append(s2c, "QU_ACK") /\ UNCHANGED <<joined, missed, down>>
  <2>1. s2c' = <<"QU_ACK">> /\ "QU_ACK" \in Replies
    BY <1>3, <1>6 DEF Replies
  <2>2. Truthful("QU_ACK")'
    BY <1>1, <1>2, <1>6, <2>1 DEF Truthful, Has
  <2> QED BY <1>6, <2>1, <2>2
<1>7. CASE /\ s2c' = s2c \o [i \in 1..joined |-> "BROADCAST"]
           /\ UNCHANGED <<joined, missed, down>>
  <2>1. Has(insession)'
    BY <1>1, <1>2, <1>7 DEF Has
  <2>2. CASE joined = 0
    <3>1. s2c' = <<>>
      BY <1>7, <2>2, Copies
    <3> QED BY <1>7, <2>1, <3>1
  <2>3. CASE joined = 1
    <3>1. s2c' = <<"BROADCAST">> /\ "BROADCAST" \in Replies
      BY <1>7, <2>3, Copies DEF Replies
    <3>2. Truthful("BROADCAST")'
      BY <2>1, <3>1 DEF Truthful
    <3> QED BY <1>7, <3>1, <3>2
  <2> QED BY <1>1, <2>2, <2>3
<1> QED
  BY <1>4, <1>5, <1>6, <1>7 DEF Serve, Requests

\* The server reads a request, or the LEAVE_SESS before it.
LEMMA ServeRound ==
    ASSUME TypeInv, disturbed \/ (Round /\ Harmless), ended = "no", Serve
    PROVE  disturbed' \/ (Round' /\ (down' = "segv" => missed'))
<1> SUFFICES ASSUME ~disturbed' PROVE Round' /\ (down' = "segv" => missed')
  OBVIOUS
<1> USE DEF mainThread, receiver
<1>1. ~disturbed /\ c2s # <<>> /\ down = "no"
  BY DEF Serve
<1>2. /\ UNCHANGED <<buf, at, typed, packet, rat, rpacket, insession, ended>>
      /\ c2s' = Tail(c2s)
  BY DEF Serve
<1>3. CASE c2s = <<Leave>>
  <2>1. Head(c2s).type = "LEAVE_SESS" /\ c2s' = <<>>
    BY <1>2, <1>3 DEF Leave
  <2>2. /\ ~insession /\ Has(TRUE) /\ Quiet
        /\ at = "fgets" \/ (at \in Busy /\ Prepared)
    <3>1. ASSUME NEW r \in Packets, Asked(r) PROVE FALSE
      BY <1>3, <3>1 DEF Asked, Leave
    <3> QED BY <1>1, <1>3, <3>1 DEF Round, Told, Left, Deaf, Waiting, Working, InStep
  <2>3. Has(FALSE)' /\ s2c' = s2c /\ (down' = "segv" => missed')
    BY <2>1, <2>2, LeaveServed
  <2>4. Quiet' /\ InStep'
    BY <1>2, <2>1, <2>2, <2>3 DEF Quiet, InStep, Has
  <2>5. at' = "fgets" \/ (at' \in Busy /\ Prepared')
    BY <1>2, <2>2 DEF Prepared, MaySend, Sound
  <2> QED BY <1>2, <2>3, <2>4, <2>5 DEF Round, Waiting, Working
<1>4. CASE c2s # <<Leave>>
  <2>1. PICK r \in Packets : Asked(r)
    BY <1>1, <1>4 DEF Round, Waiting, Working, InStep, Told, Left, Deaf
  <2>2. CASE c2s = <<Leave, r>> /\ ~insession /\ Has(TRUE)
    <3>1. Head(c2s).type = "LEAVE_SESS" /\ c2s' = <<r>>
      BY <1>2, <2>2, OneOrTwo, LeaveIsPacket DEF Leave
    <3>2. Has(FALSE)' /\ s2c' = s2c /\ (down' = "segv" => missed')
      BY <2>2, <3>1, LeaveServed
    <3>3. Asked(r)'
      BY <1>2, <2>1, <2>2, <3>1, <3>2 DEF Asked, MaySend, Quiet, Has
    <3> QED BY <1>2, <3>2, <3>3 DEF Round
  <2>3. CASE c2s = <<r>> /\ Has(insession)
    <3>1. Head(c2s) = r /\ c2s' = <<>> /\ s2c = <<>>
      BY <1>2, <2>1, <2>3, OneOrTwo DEF Asked, Quiet
    <3>2. /\ MaySend(Head(c2s).type)
          /\ Head(c2s).type \in Requests \ {"LEAVE_SESS", "EXIT"}
      BY <2>1, <3>1 DEF Asked
    <3>3. /\ \/ s2c' = <<>> /\ Has(insession)'
             \/ \E m \in Replies : s2c' = <<m>> /\ Truthful(m)'
          /\ down' = down
      BY <2>3, <3>1, <3>2, RequestServed
    <3>4. CASE s2c' = <<>> /\ Has(insession)'
      BY <1>1, <1>2, <2>1, <3>1, <3>3, <3>4 DEF Asked, Quiet, Waiting, InStep, Round
    <3>5. CASE \E m \in Replies : s2c' = <<m>> /\ Truthful(m)'
      <4>1. PICK m \in Replies : s2c' = <<m>> /\ Truthful(m)'
        BY <3>5
      <4>2. Told(m)'
        BY <1>2, <2>1, <3>1, <4>1 DEF Asked, Quiet, Told
      <4> QED BY <1>1, <1>2, <3>3, <4>1, <4>2 DEF Round
    <3> QED BY <3>3, <3>4, <3>5
  <2> QED BY <2>1, <2>2, <2>3 DEF Asked
<1> QED BY <1>3, <1>4

\* Another client may end the server wherever the round is.
LEMMA EndsRound ==
    ASSUME TypeInv, disturbed \/ (Round /\ Harmless), ended = "no", OtherEnds
    PROVE  disturbed' \/ (Round /\ Harmless)'
<1> SUFFICES ASSUME ~disturbed' PROVE (Round /\ Harmless)'
  OBVIOUS
<1> USE DEF mainThread, receiver
<1>1. /\ ~disturbed /\ down' = "other"
      /\ UNCHANGED <<buf, at, typed, packet, rat, rpacket, insession, ended, c2s, s2c, missed>>
  BY DEF OtherEnds
<1>2. \A b \in BOOLEAN : Has(b)'
  BY <1>1 DEF Has
<1>3. Harmless'
  BY <1>1 DEF Harmless, Sound
<1>4. Round'
  <2>1. insession' \in BOOLEAN
    BY <1>1 DEF TypeInv, TypeOK
  <2>2. CASE Waiting
    BY <1>1, <1>2, <2>1, <2>2 DEF Waiting, Quiet, InStep, Round
  <2>3. CASE Working
    BY <1>1, <1>2, <2>1, <2>3 DEF Working, Quiet, InStep, Round, Prepared, MaySend, Sound
  <2>4. CASE Deaf
    BY <1>1, <2>4 DEF Deaf, Round, Prepared, MaySend, Sound
  <2>5. ASSUME NEW r \in Packets, Asked(r) PROVE Round'
    <3>1. Asked(r)'
      BY <1>1, <1>2, <2>1, <2>5 DEF Asked, Quiet, MaySend
    <3> QED BY <1>1, <3>1 DEF Round
  <2>6. ASSUME NEW m \in Replies, Told(m) PROVE Round'
    <3>1. Told(m)'
      BY <1>1, <1>2, <2>1, <2>6 DEF Told, Truthful
    <3> QED BY <1>1, <3>1 DEF Round
  <2> QED BY <1>1, <2>2, <2>3, <2>4, <2>5, <2>6 DEF Round, Left
<1> QED BY <1>3, <1>4

\* What is sent stays sound, and the thread of the server meets no NULL.
LEMMA StaysHarmless ==
    ASSUME TypeInv, disturbed \/ (Round /\ Harmless), ended = "no",
           Fgets \/ MainStep \/ ReceiveStep \/ Serve
    PROVE  disturbed' \/ Harmless'
<1> SUFFICES ASSUME ~disturbed' PROVE Harmless'
  OBVIOUS
<1> USE DEF mainThread, receiver, world
<1>1. ~disturbed
  BY DEF Fgets, MainStep, ReceiveStep, Strtok, Restore, Argument, Clear, Fill, Send,
         Recv, RecvFails, Parse, Act, Serve, TypeInv, TypeOK
<1>2. Harmless /\ Round
  BY <1>1
<1>3. CASE Fgets \/ ReceiveStep \/ Strtok \/ Restore \/ Argument \/ Clear \/ Fill
  BY <1>2, <1>3 DEF Fgets, ReceiveStep, Strtok, Restore, Argument, Clear, Fill, Recv,
                    RecvFails, Parse, Act, Harmless, Sound
<1>4. CASE Send
  <2>1. UNCHANGED <<down, missed>>
    BY <1>4 DEF Send
  <2>2. Prepared
    BY <1>2, <1>4 DEF Send, Round, Waiting, Working, Deaf, Asked, Told, Left
  <2>3. InBuf \in Packets /\ Sound(InBuf)
    BY <1>4, <2>2, SendsPacket DEF Send
  <2>4. c2s' = c2s \/ c2s' = Append(c2s, InBuf)
    BY <1>4 DEF Send
  <2>5. \A i \in DOMAIN c2s' : Sound(c2s'[i])
    BY <1>2, <2>3, <2>4 DEF Harmless, TypeInv, TypeOK
  <2>6. \A i \in DOMAIN c2s' : Sound(c2s[i])'
    BY <2>5 DEF Sound
  <2> QED BY <1>2, <2>1, <2>6 DEF Harmless
<1>5. CASE Serve
  <2>1. down' = "segv" => missed'
    BY <1>1, <1>2, <1>5, ServeRound
  <2>2. c2s' = Tail(c2s) /\ c2s # <<>>
    BY <1>5 DEF Serve
  <2>3. \A i \in DOMAIN c2s' : Sound(c2s'[i])
    BY <1>2, <2>2 DEF Harmless, TypeInv, TypeOK
  <2>4. \A i \in DOMAIN c2s' : Sound(c2s[i])'
    BY <2>3 DEF Sound
  <2> QED BY <2>1, <2>4 DEF Harmless
<1> QED BY <1>3, <1>4, <1>5 DEF MainStep

-----------------------------------------------------------------------------
\* The inductive invariant: types, and the round of an undisturbed client.
THEOREM Invariance == Spec => []IInv
<1>1. Init => IInv
  BY InitTypes, InitRound DEF IInv
<1>2. IInv /\ [Next]_vars => IInv'
  <2> SUFFICES ASSUME IInv, [Next]_vars PROVE IInv'
    OBVIOUS
  <2>1. CASE UNCHANGED vars
    BY <2>1 DEF vars, mainThread, receiver, world, IInv, TypeInv, TypeOK, Round, Harmless,
        Waiting, Working, Asked, Told, Deaf, Left, Quiet, InStep, Has, Truthful, MaySend,
        Prepared, Sound
  <2>2. ASSUME Next PROVE IInv'
    <3>1. CASE Fgets \/ MainStep
      BY <2>2, <3>1, MainTypes, FgetsRound, MainRound, StaysHarmless DEF IInv, Next
    <3>2. CASE ReceiveStep \/ Serve
      BY <2>2, <3>2, OtherTypes, ReceiveRound, ServeRound, StaysHarmless DEF IInv, Next
    <3>3. CASE OtherSpeaks
      BY <3>3, OtherTypes DEF IInv, OtherSpeaks
    <3>4. CASE OtherEnds
      BY <2>2, <3>4, OtherTypes, EndsRound DEF IInv, Next
    <3> QED BY <2>2, <3>1, <3>2, <3>3, <3>4 DEF Next
  <2> QED BY <2>1, <2>2
<1> QED BY <1>1, <1>2, PTL DEF Spec

\* The values of the variables, whatever the two threads do to each other.
THEOREM TypeCorrect == Spec => []TypeOK
<1>1. IInv => TypeOK
  BY DEF IInv, TypeInv
<1> QED BY <1>1, Invariance, PTL

\* client.c 14: a user who waits for each answer, and is the only one to speak,
\* meets no exit of the program, crashes it only by leaving out a name, and
\* takes the server down only after it had acknowledged a joining that failed.
THEOREM NoDamage == Spec => []Undamaged
<1>1. IInv => Undamaged
  BY DEF IInv, Undamaged, Round, Harmless, Left
<1> QED BY <1>1, Invariance, PTL

\* What that user has typed is what is sent, but for the blank of client.c 357.
THEOREM SentIsTyped == Spec => []SentAsTyped
<1>1. IInv => SentAsTyped
  BY DEF IInv, SentAsTyped, Harmless, Sound
<1> QED BY <1>1, Invariance, PTL

\* The flag insession and the server's lists agree whenever nothing is under
\* way, but for a joining that was acknowledged and had failed.
THEOREM FlagIsTrue == Spec => []InsessionTrue
<1>1. IInv => InsessionTrue
  BY DEF IInv, InsessionTrue, Round, Waiting, Working, Busy, Asked, Told, Deaf, Left,
         InStep, Has, TypeInv, TypeOK
<1> QED BY <1>1, Invariance, PTL

=============================================================================
