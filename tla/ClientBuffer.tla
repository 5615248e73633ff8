---------------------------- MODULE ClientBuffer ----------------------------
(***************************************************************************)
(* lab4/client.c after a login: the main thread, which reads what the user *)
(* types into buf, builds its packets in buf and sends them from there,    *)
(* and the receiving thread, which receives into the same buf and parses   *)
(* what it finds there.  Nothing keeps them apart.  ChatClient takes each  *)
(* command and each reception as one step; this module shows when that is  *)
(* right.  The server is what this one client sees of it, and may end at   *)
(* any time by another client's doing.  Texts that have three colons, and  *)
(* lines that fill buf, are left out.                                      *)
(***************************************************************************)
EXTENDS Naturals, Sequences, SequencesExt

CONSTANTS
    MaxCmds,    \* bound: lines the user types
    MaxLate,    \* bound: only among so many, once disturbed
    MaxOthers   \* bound: messages other users send to this one's session

ASSUME BufferAssumption == MaxCmds \in Nat /\ MaxLate \in Nat /\ MaxOthers \in Nat

VARIABLES
    buf,        \* "line": what was typed; "empty": cleared; "broken": a record
                \* that lost a colon; else the type of the record it begins
                \* with, "BROADCAST" for a MESSAGE received
    at,         \* the main thread: "fgets", "strtok", "restore", "argument",
                \* "clear", "fill", "send", "end"
    typed,      \* what the user typed
    packet,     \* main's packet: its type, and its data beside what was typed
    rat,        \* the receiving thread: "recv", "parse", "act", "failed"
    rpacket,    \* its packet.type; uninitialised at first
    insession,
    ended,      \* how the program ended: "no", "quit", "exit", "segv", "pipe"
    c2s, s2c,   \* packets under way, and replies
    joined,     \* number of sessions the server has the client in
    freed,      \* its CoClient has been freed
    missed,     \* history: an ACK was sent though JoinSess found no session
    down,       \* how the server has ended: "no", "segv", "abort", "other"
    cmds, others,   \* used of the bounds
    disturbed   \* history: the user typed while an answer was due, or another
                \* user's message came

mainThread == <<at, typed, packet>>
receiver == <<rat, rpacket>>
world == <<joined, freed, missed, down, others>>
vars == <<buf, mainThread, receiver, insession, ended, c2s, s2c, world, cmds, disturbed>>

Requests == {"JOIN", "NEW_SESS", "LEAVE_SESS", "QUERY", "MESSAGE", "EXIT"}
Replies == {"JN_ACK", "JN_NAK", "NS_ACK", "QU_ACK", "BROADCAST"}
Types == Requests \cup Replies \cup {"LOGIN", "LO_ACK"}

\* Data of a packet: none; as typed; with a blank more at the end; what is
\* left of an indented text; something else.
Packets == [type : Types, data : {"none", "typed", "longer", "holed", "other"}]

\* A line: its command, MESSAGE if it is none; whether more words follow the
\* first; whether blanks precede it.
Lines ==
    {l \in [type : Requests \cup {"LOGIN"}, more : BOOLEAN, indented : BOOLEAN] :
        /\ l.more => l.type \in {"JOIN", "NEW_SESS", "LOGIN", "MESSAGE"}
        /\ l.indented => l.type = "MESSAGE"}

Init ==
    /\ buf = "LO_ACK" /\ at = "fgets"
    /\ typed = [type |-> "LOGIN", more |-> TRUE, indented |-> FALSE]
    /\ packet = [type |-> "LOGIN", data |-> "typed"]
    /\ rat = "recv" /\ rpacket \in {"LOGIN", "JN_ACK", "JN_NAK"}
    /\ insession = FALSE /\ ended = "no"
    /\ c2s = <<>> /\ s2c = <<>>
    /\ joined = 0 /\ freed = FALSE /\ missed = FALSE /\ down = "no"
    /\ cmds = 0 /\ others = 0 /\ disturbed = FALSE

Ends(how) == ended' = how /\ at' = "end"

\* No answer is under way; /leavesession has none.
Answered ==
    /\ rat = "recv" /\ s2c = <<>>
    /\ \A i \in DOMAIN c2s : c2s[i].type = "LEAVE_SESS"

-----------------------------------------------------------------------------
(***************************************************************************)
(* The main thread.                                                        *)
(***************************************************************************)
\* A line without words is ignored.
Fgets ==
    /\ at = "fgets" /\ cmds < (IF disturbed THEN MaxLate ELSE MaxCmds)
    /\ \/ typed' \in Lines /\ buf' = "line" /\ at' = "strtok"
       \/ buf' \in {"empty", "line"} /\ UNCHANGED <<typed, at>>
    /\ cmds' = cmds + 1
    /\ disturbed' = (disturbed \/ ~Answered)
    /\ UNCHANGED <<packet, receiver, insession, ended, c2s, s2c, world>>

\* The functions of the commands look at insession first.
MaySend(type) ==
    /\ type \in {"JOIN", "NEW_SESS"} => ~insession
    /\ type \in {"LEAVE_SESS", "MESSAGE"} => insession

\* Which command it is; anything that is none is a text.
Strtok ==
    /\ at = "strtok"
    /\ LET type == IF buf = "line" THEN typed.type ELSE "MESSAGE"
       IN  /\ at' = IF type = "MESSAGE" THEN "restore"
                    ELSE IF ~MaySend(type) THEN "fgets"
                    ELSE IF type \in {"JOIN", "NEW_SESS", "LOGIN"} THEN "argument"
                    ELSE "clear"
           /\ packet' = [type |-> type, data |-> "none"]
    /\ UNCHANGED <<buf, typed, receiver, insession, ended, c2s, s2c, world, cmds, disturbed>>

\* Mutant of Restore: the blank that strtok replaced is not put back.
RestoreNot ==
    /\ at = "restore"
    /\ packet' = [packet EXCEPT !.data = IF typed.more THEN "other" ELSE "typed"]
    /\ at' = IF MaySend("MESSAGE") THEN "argument" ELSE "fgets"
    /\ UNCHANGED <<buf, typed, receiver, insession, ended, c2s, s2c, world, cmds, disturbed>>

\* A blank is written behind as many characters as the first word has: where
\* strtok has cut the text; behind a text of one word, as a blank more; into
\* an indented text, which strtok has cut further on; or into the record that
\* has come since, where it may hit the type or a colon.
Restore ==
    /\ at = "restore"
    /\ \/ /\ buf = "line"
          /\ \E data \in {"typed", "longer", "holed"} :
                /\ data = "typed" => typed.more # typed.indented
                /\ data = "longer" => ~typed.more /\ ~typed.indented
                /\ data = "holed" => typed.indented
                /\ packet' = [packet EXCEPT !.data = data]
          /\ UNCHANGED buf
       \/ /\ buf # "line"
          /\ buf' \in {buf, "broken"} \cup
                       (IF buf \in {"BROADCAST", "QU_ACK"} THEN {"LO_ACK"} ELSE {})
          /\ UNCHANGED packet
    /\ at' = IF MaySend("MESSAGE") THEN "argument" ELSE "fgets"
    /\ UNCHANGED <<typed, receiver, insession, ended, c2s, s2c, world, cmds, disturbed>>

\* The name is the next word in buf, or the text all of buf, as it is now.
\* Without a next word /joinsession tells its usage, and the others copy from
\* NULL; with one, /login says that one is logged in.
Argument ==
    /\ at = "argument"
    /\ \/ /\ packet.type # "LOGIN"
          /\ buf = "line" => typed.more \/ packet.type = "MESSAGE"
          /\ packet' = [packet EXCEPT !.data = IF buf # "line" THEN "other"
                                    ELSE IF packet.type = "MESSAGE" THEN @ ELSE "typed"]
          /\ at' = "clear" /\ UNCHANGED ended
       \/ /\ packet.type = "LOGIN" /\ (buf = "line" => typed.more)
          /\ at' = "fgets" /\ UNCHANGED <<packet, ended>>
       \/ /\ packet.type = "JOIN" /\ (buf = "line" => ~typed.more)
          /\ at' = "fgets" /\ UNCHANGED <<packet, ended>>
       \/ /\ packet.type \in {"NEW_SESS", "LOGIN"} /\ (buf = "line" => ~typed.more)
          /\ Ends("segv") /\ UNCHANGED packet
    /\ UNCHANGED <<buf, typed, receiver, insession, c2s, s2c, world, cmds, disturbed>>

\* packetToString: memset, then the fields one by one.
Clear ==
    /\ at = "clear"
    /\ buf' = "empty" /\ at' = "fill"
    /\ UNCHANGED <<typed, packet, receiver, insession, ended, c2s, s2c, world, cmds, disturbed>>

Fill ==
    /\ at = "fill"
    /\ buf' = packet.type /\ at' = "send"
    /\ UNCHANGED <<typed, packet, receiver, insession, ended, c2s, s2c, world, cmds, disturbed>>

\* The packet that buf holds now.
InBuf == [type |-> IF buf = "BROADCAST" THEN "MESSAGE" ELSE buf,
          data |-> IF buf = packet.type THEN packet.data ELSE "other"]

\* Mutant of Send: leaving leaves insession as it is.
SendOnly ==
    /\ at = "send"
    /\ c2s' = Append(c2s, InBuf)
    /\ IF packet.type = "EXIT" THEN Ends("quit") ELSE at' = "fgets" /\ UNCHANGED ended
    /\ UNCHANGED <<buf, typed, packet, receiver, insession, s2c, world, cmds, disturbed>>

\* After EXIT the program ends, and by SIGPIPE if the server has.
Send ==
    /\ at = "send"
    /\ \/ /\ c2s' = Append(c2s, InBuf)
          /\ insession' = (insession /\ packet.type \notin {"LEAVE_SESS", "EXIT"})
          /\ IF packet.type = "EXIT" THEN Ends("quit")
             ELSE at' = "fgets" /\ UNCHANGED ended
       \/ down # "no" /\ Ends("pipe") /\ UNCHANGED <<c2s, insession>>
    /\ UNCHANGED <<buf, typed, packet, receiver, s2c, world, cmds, disturbed>>

-----------------------------------------------------------------------------
(***************************************************************************)
(* The receiving thread.                                                   *)
(***************************************************************************)
\* A record that arrives while packetToString works is written over: its type
\* may lose its second digit, 10 and 12 become 1.
Torn(t) ==
    IF at = "send" /\ t \in {"BROADCAST", "QU_ACK"} THEN {t, "LO_ACK"} ELSE {t}

Recv ==
    /\ rat = "recv" /\ s2c # <<>>
    /\ buf' \in Torn(Head(s2c))
    /\ s2c' = Tail(s2c) /\ rat' = "parse"
    /\ UNCHANGED <<mainThread, rpacket, insession, ended, c2s, world, cmds, disturbed>>

\* The connection is reset when the server ends; the thread returns.
RecvFails ==
    /\ rat = "recv" /\ down # "no"
    /\ rat' = "failed"
    /\ UNCHANGED <<buf, mainThread, rpacket, insession, ended, c2s, s2c, world, cmds, disturbed>>

\* stringToPacket leaves the type alone when buf is empty, and calls exit when
\* it does not find three colons: in what was typed, in a record that has lost
\* one, or that the main thread has only begun.
Parse ==
    /\ rat = "parse"
    /\ \/ /\ buf = "empty"
          /\ rat' = "act" /\ UNCHANGED <<rpacket, at, ended>>
       \/ /\ buf \in Types
          /\ rpacket' = buf /\ rat' = "act" /\ UNCHANGED <<at, ended>>
       \/ /\ buf \in {"line", "broken"} \/ (at = "send" /\ buf = packet.type)
          /\ Ends("exit") /\ UNCHANGED receiver
    /\ UNCHANGED <<buf, typed, packet, insession, c2s, s2c, world, cmds, disturbed>>

\* Mutants of Act: a refusal counts as joining; the thread returns after one.
ActOnRefusal ==
    /\ rat = "act" /\ rat' = "recv"
    /\ insession' = (insession \/ rpacket \in {"JN_ACK", "NS_ACK", "JN_NAK"})
    /\ UNCHANGED <<buf, mainThread, rpacket, ended, c2s, s2c, world, cmds, disturbed>>

ActOnce ==
    /\ rat = "act"
    /\ rat' = IF rpacket = "JN_NAK" THEN "end" ELSE "recv"
    /\ insession' = IF rpacket = "JN_NAK" THEN FALSE
                    ELSE insession \/ rpacket \in {"JN_ACK", "NS_ACK"}
    /\ UNCHANGED <<buf, mainThread, rpacket, ended, c2s, s2c, world, cmds, disturbed>>

Act ==
    /\ rat = "act" /\ rat' = "recv"
    /\ insession' = IF rpacket = "JN_NAK" THEN FALSE
                    ELSE insession \/ rpacket \in {"JN_ACK", "NS_ACK"}
    /\ UNCHANGED <<buf, mainThread, rpacket, ended, c2s, s2c, world, cmds, disturbed>>

-----------------------------------------------------------------------------
(***************************************************************************)
(* The server's thread for this client.  A message comes back to its       *)
(* sender, once for each session, and records that are no requests do      *)
(* nothing.                                                                *)
(***************************************************************************)
\* JoinSess may find no session, another thread having changed the list since
\* it was checked or created; the ACK is sent all the same.
Joins(ack) ==
    /\ s2c' = Append(s2c, ack)
    /\ \/ joined' = joined + 1 /\ UNCHANGED missed
       \/ missed' = TRUE /\ UNCHANGED joined
    /\ UNCHANGED <<freed, down>>

\* LEAVE_SESS of one who is in no session ends the server.  Who leaves a
\* session as its only member frees the CoClient, and the server aborts when
\* it is freed again.
Leaves ==
    /\ IF joined = 0 THEN down' = "segv" /\ UNCHANGED <<joined, freed>>
       ELSE \/ joined' = joined - 1 /\ UNCHANGED <<freed, down>>
            \/ joined' = joined - 1 /\ ~freed /\ freed' = TRUE /\ UNCHANGED down
            \/ freed /\ down' = "abort" /\ UNCHANGED <<joined, freed>>
    /\ UNCHANGED <<s2c, missed>>

Serve ==
    /\ c2s # <<>> /\ down = "no"
    /\ c2s' = Tail(c2s)
    /\ LET type == Head(c2s).type
       IN  \/ type = "JOIN" /\ Joins("JN_ACK")
           \/ type = "NEW_SESS" /\ Joins("NS_ACK")
           \/ type = "LEAVE_SESS" /\ Leaves
           \/ /\ \/ type = "JOIN" /\ s2c' = Append(s2c, "JN_NAK")
                 \/ type = "QUERY" /\ s2c' = Append(s2c, "QU_ACK")
                 \/ type = "MESSAGE" /\ s2c' = s2c \o [i \in 1..joined |-> "BROADCAST"]
                 \/ type \notin Requests \ {"EXIT"} /\ s2c' = s2c
              /\ UNCHANGED <<joined, freed, missed, down>>
    /\ UNCHANGED <<buf, mainThread, receiver, insession, ended, others, cmds, disturbed>>

\* Another member's message.
OtherSpeaks ==
    /\ joined > 0 /\ down = "no" /\ others < MaxOthers
    /\ s2c' = Append(s2c, "BROADCAST")
    /\ others' = others + 1 /\ disturbed' = TRUE
    /\ UNCHANGED <<buf, mainThread, receiver, insession, ended, c2s, joined, freed, missed,
                   down, cmds>>

\* Another client ends the server, as Chat shows it can.
OtherEnds ==
    /\ down = "no" /\ down' = "other"
    /\ UNCHANGED <<buf, mainThread, receiver, insession, ended, c2s, s2c, joined, freed,
                   missed, others, cmds, disturbed>>

MainStep == Strtok \/ Restore \/ Argument \/ Clear \/ Fill \/ Send
ReceiveStep == Recv \/ RecvFails \/ Parse \/ Act

Next ==
    /\ ended = "no"
    /\ Fgets \/ MainStep \/ ReceiveStep \/ Serve \/ OtherSpeaks \/ OtherEnds

Spec == Init /\ [][Next]_vars

FairSpec ==
    /\ Spec
    /\ WF_vars(ended = "no" /\ MainStep) /\ WF_vars(ended = "no" /\ ReceiveStep)
    /\ WF_vars(ended = "no" /\ Serve)

-----------------------------------------------------------------------------
TypeOK ==
    /\ buf \in Types \cup {"line", "empty", "broken"}
    /\ at \in {"fgets", "strtok", "restore", "argument", "clear", "fill", "send", "end"}
    /\ typed \in Lines /\ packet \in Packets
    /\ rat \in {"recv", "parse", "act", "failed"} /\ rpacket \in Types
    /\ ended \in {"no", "quit", "exit", "segv", "pipe"}
    /\ down \in {"no", "segv", "abort", "other"}
    /\ insession \in BOOLEAN /\ joined \in Nat /\ freed \in BOOLEAN /\ missed \in BOOLEAN
    /\ c2s \in Seq(Packets) /\ s2c \in Seq(Replies)

\* client.c 14: one buffer serves both threads.  A user who waits for each
\* answer and is the only one to speak never has the program exit on what it
\* parses, nor crash but on a command without its name (client.c 86, 267), nor
\* makes the server follow a NULL by leaving (SessionList.h 224), unless that
\* had acknowledged a joining that had failed.
Undamaged ==
    ~disturbed =>
        /\ ended # "exit"
        /\ ended = "segv" => typed.type \in {"NEW_SESS", "LOGIN"} /\ ~typed.more
        /\ down = "segv" => missed

\* Then names go out as they were typed, and so do texts but for the blank of
\* client.c 357, which follows a single word or spoils an indented text.
SentAsTyped ==
    ~disturbed =>
        \A i \in DOMAIN c2s :
            /\ c2s[i].data # "other"
            /\ c2s[i].data \in {"longer", "holed"} => c2s[i].type = "MESSAGE"

\* Then insession is what the server has, or has said, when nothing is under way.
InsessionTrue ==
    ~disturbed /\ ended = "no" /\ down = "no" /\ at = "fgets" /\ rat = "recv"
               /\ c2s = <<>> /\ s2c = <<>> =>
        insession = (joined = 1 \/ missed)

\* Then the answer to a request is received, and the user may go on, as long as
\* the server lives.
AnswerComes ==
    at = "send" ~>
        disturbed \/ ended # "no" \/ down # "no" \/ (at = "fgets" /\ Answered)

=============================================================================
