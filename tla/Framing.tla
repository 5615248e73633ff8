------------------------------- MODULE Framing -------------------------------
(***************************************************************************)
(* lab4's packets as bytes on a TCP connection.  packetToString fills a    *)
(* record of fixed length with a header, the data and NULs, and the two    *)
(* programs take what one recv returns for one record.  A recv may return  *)
(* less, and then the next one starts where it stopped.  ChatNet takes one *)
(* read as one packet; this module shows what that needs.                  *)
(*                                                                         *)
(* A record is four cells: the first bytes of the header, the rest of it,  *)
(* the data and the padding.  One logged in client, and one session.       *)
(***************************************************************************)
EXTENDS Integers, Sequences, SequencesExt, FiniteSets

CONSTANT MaxRecords     \* bound: requests the user makes

ASSUME FramingAssumption == MaxRecords \in Nat

Parts == 1..4
Kinds == {"JOIN", "LEAVE_SESS", "MESSAGE", "JN_ACK", "JN_NAK", "other"}

VARIABLES
    up, down,       \* bytes to the server and to the client, in cells
    sentUp, sentDown,   \* records sent so far
    member,         \* the server has the client in the session
    insession,      \* the client's flag
    rpacket,        \* packet.type of the client's receiving thread
    ended,          \* "no", or the program that has ended: "server", "client"
    served, seen,   \* history: the records acted on
    short,          \* history: a recv returned less than was there
    ahead           \* history: a request was made before all was read

vars == <<up, down, sentUp, sentDown, member, insession, rpacket, ended,
          served, seen, short, ahead>>

Init ==
    /\ up = <<>> /\ down = <<>> /\ sentUp = 0 /\ sentDown = 0
    /\ member = FALSE /\ insession = FALSE /\ rpacket \in Kinds
    /\ ended = "no"
    /\ served = <<>> /\ seen = <<>> /\ short = FALSE /\ ahead = FALSE

Record(kind, n) == [p \in Parts |-> [kind |-> kind, n |-> n, part |-> p]]

Cells == UNION {ToSet(Record(k, n)) : k \in Kinds, n \in 1..MaxRecords}

-----------------------------------------------------------------------------
(***************************************************************************)
(* One recv and stringToPacket.                                            *)
(***************************************************************************)
\* Mutant of Length: the whole buffer, a byte more than a record has.
LengthOneMore == Cardinality(Parts) + 1

\* recv asks for the length of a record.
Length == Cardinality(Parts)

\* What recv can return, and whether it returned all it could.
Takes(stream) == 1..(IF Len(stream) < Length THEN Len(stream) ELSE Length)
Whole(stream, k) == k + 1 \notin Takes(stream)

\* The buffer as a string: up to the first NUL.
Text(stream, k) ==
    LET pad == SelectInSeq(SubSeq(stream, 1, k), LAMBDA x : x.part = 4)
    IN  SubSeq(stream, 1, IF pad = 0 THEN k ELSE pad - 1)

Nothing == [kind |-> "nothing", n |-> 0]
Exits == [kind |-> "exit", n |-> 0]

\* Mutant of Parsed: a record is taken only with its end.
ParsedIfWhole(stream, k) ==
    LET text == Text(stream, k)
    IN  IF text = <<>> \/ stream[k].part # 4 THEN {Nothing}
        ELSE IF text[1].part = 1
        THEN {[kind |-> text[1].kind, n |-> text[1].n]}
        ELSE {Exits}

\* An empty string is no packet.  A whole header, whatever there is of the data,
\* is one.  Without its first bytes it may lack a colon, or give another type;
\* fewer than three colons end the program.
Parsed(stream, k) ==
    LET text == Text(stream, k)
    IN  IF text = <<>> THEN {Nothing}
        ELSE IF text[1].part = 1 /\ Len(text) > 1
        THEN {[kind |-> text[1].kind, n |-> text[1].n]}
        ELSE IF text[1].part = 2 THEN {Exits, [kind |-> "other", n |-> 0]}
        ELSE {Exits}

-----------------------------------------------------------------------------
\* The client's commands, with the flag they look at.
Request ==
    /\ sentUp < MaxRecords
    /\ \E kind \in {"JOIN", "LEAVE_SESS", "MESSAGE"} :
          /\ kind = "JOIN" <=> ~insession
          /\ up' = up \o Record(kind, sentUp + 1)
          /\ insession' = (insession /\ kind # "LEAVE_SESS")
    /\ sentUp' = sentUp + 1
    /\ ahead' = (ahead \/ up # <<>> \/ down # <<>>)
    /\ UNCHANGED <<down, sentDown, member, rpacket, ended, served, seen, short>>

Replies(kind) ==
    /\ down' = down \o Record(kind, sentDown + 1)
    /\ sentDown' = sentDown + 1

Silent == UNCHANGED <<down, sentDown>>

\* What the server's thread does with a packet.  LEAVE_SESS of a client in no
\* session follows a NULL; type 0, which the cleared packet has, does nothing.
Handles(kind) ==
    CASE kind = "JOIN" ->
            /\ Replies(IF member THEN "JN_NAK" ELSE "JN_ACK")
            /\ member' = TRUE /\ UNCHANGED ended
      [] kind = "LEAVE_SESS" ->
            /\ ended' = IF member THEN ended ELSE "server"
            /\ member' = FALSE /\ Silent
      [] kind = "MESSAGE" ->
            /\ IF member THEN Replies("MESSAGE") ELSE Silent
            /\ UNCHANGED <<member, ended>>
      [] kind = "exit" -> ended' = "server" /\ Silent /\ UNCHANGED member
      [] OTHER -> Silent /\ UNCHANGED <<member, ended>>

Logged(log, m) == IF m.n = 0 THEN log ELSE Append(log, m.n)

\* Mutant of ServerRecv: an empty string is taken for the end of the stream.
ServerRecvHangsUp(k) ==
    /\ k \in Takes(up)
    /\ \E m \in Parsed(up, k) :
          /\ served' = Logged(served, m)
          /\ IF m = Nothing THEN ended' = "closed" /\ Silent /\ UNCHANGED member
             ELSE Handles(m.kind)
    /\ short' = (short \/ ~Whole(up, k))
    /\ up' = SubSeq(up, k + 1, Len(up))
    /\ UNCHANGED <<sentUp, insession, rpacket, seen, ahead>>

\* Mutant of ServerRecv: packet is not cleared, and the last request is handled
\* again after an empty string (its reply left out here).
ServerRecvStale(k) ==
    /\ k \in Takes(up)
    /\ \E m \in Parsed(up, k) :
          IF m = Nothing /\ served # <<>>
          THEN served' = Append(served, Last(served)) /\ Handles("other")
          ELSE served' = Logged(served, m) /\ Handles(m.kind)
    /\ short' = (short \/ ~Whole(up, k))
    /\ up' = SubSeq(up, k + 1, Len(up))
    /\ UNCHANGED <<sentUp, insession, rpacket, seen, ahead>>

ServerRecv(k) ==
    /\ k \in Takes(up)
    /\ \E m \in Parsed(up, k) : served' = Logged(served, m) /\ Handles(m.kind)
    /\ short' = (short \/ ~Whole(up, k))
    /\ up' = SubSeq(up, k + 1, Len(up))
    /\ UNCHANGED <<sentUp, insession, rpacket, seen, ahead>>

Acts(type) ==
    insession' = IF type = "JN_NAK" THEN FALSE ELSE insession \/ type = "JN_ACK"

\* The client's packet is not cleared: after an empty string it acts again on
\* the type it had.
ClientRecv(k) ==
    /\ k \in Takes(down)
    /\ \E m \in Parsed(down, k) :
          /\ rpacket' = IF m \in {Nothing, Exits} THEN rpacket ELSE m.kind
          /\ seen' = IF m # Nothing THEN Logged(seen, m)
                     ELSE IF seen = <<>> THEN seen ELSE Append(seen, Last(seen))
          /\ IF m = Exits THEN ended' = "client" /\ UNCHANGED insession
             ELSE Acts(rpacket') /\ UNCHANGED ended
    /\ short' = (short \/ ~Whole(down, k))
    /\ down' = SubSeq(down, k + 1, Len(down))
    /\ UNCHANGED <<up, sentUp, sentDown, member, served, ahead>>

Next ==
    /\ ended = "no"
    /\ Request \/ \E k \in 1..(Length + 1) : ServerRecv(k) \/ ClientRecv(k)

Spec == Init /\ [][Next]_vars

FairSpec ==
    /\ Spec
    /\ WF_vars(ended = "no" /\ \E k \in 1..(Length + 1) : ServerRecv(k))
    /\ WF_vars(ended = "no" /\ \E k \in 1..(Length + 1) : ClientRecv(k))

-----------------------------------------------------------------------------
TypeOK ==
    /\ up \in Seq(Cells) /\ down \in Seq(Cells)
    /\ sentUp \in 0..MaxRecords /\ sentDown \in 0..MaxRecords
    /\ rpacket \in Kinds
    /\ member \in BOOLEAN /\ insession \in BOOLEAN
    /\ ended \in {"no", "server", "client"}

\* However the bytes are cut, the server never acts on a request twice nor on
\* an earlier one after a later one; nor does the client, but for repeating the
\* last reply.
OrderKept ==
    /\ \A i, j \in DOMAIN served : i < j => served[i] < served[j]
    /\ \A i, j \in DOMAIN seen : i < j => seen[i] <= seen[j]

\* server.c 55 and client.c 35, where one recv is one record: with reads as long
\* as they can be, both sides act on each record, once and in order.
WholeReadsSuffice ==
    ~short =>
        /\ ended = "no"
        /\ served = [i \in 1..(sentUp - Len(up) \div Length) |-> i]
        /\ seen = [i \in 1..(sentDown - Len(down) \div Length) |-> i]

\* With shorter reads, if the user waits until all has been read, no record is
\* passed over: either a program ends, or every record has been acted on and
\* the two sides agree.
NoneSkipped ==
    ~ahead /\ ended = "no" /\ up = <<>> /\ down = <<>> =>
        /\ ToSet(served) = 1..sentUp /\ ToSet(seen) = 1..sentDown
        /\ insession = member

\* What has been sent is read to its end, or a program ends.
StreamsDrain ==
    up # <<>> \/ down # <<>> ~>
        (up = <<>> /\ down = <<>>) \/ ended \in {"server", "client"}

=============================================================================
