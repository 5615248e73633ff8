----------------------------- MODULE FileTransfer -----------------------------
(***************************************************************************)
(* The UDP file transfer of lab2 and lab3: deliver.c (the client) slices a *)
(* file and sends one fragment at a time, waiting for its ACK with a       *)
(* receive timeout; server.c appends what it has not yet received to a     *)
(* file and acknowledges every fragment.  The two labs run the same client *)
(* loop; lab3's server does not store the first fragment datagram it gets  *)
(* (DropFirst = TRUE), lab2's does.                                        *)
(*                                                                         *)
(* Datagrams may be lost, reordered and duplicated.  toServer and toClient *)
(* hold the number of copies of each fragment, or of its ACK, in flight.   *)
(***************************************************************************)
EXTENDS Fragments, Sequences

CONSTANTS
    RetransMax,     \* the client's bound on attempts
    DropFirst,      \* lab3/server.c 79-81; FALSE for lab2/server.c
    NameTerminated, \* the bytes after the malloc'ed file name of an ACK are
                    \* NUL (stringToPacket writes no terminator)
    Faults,         \* "open": the name is taken and has no '.' to put a
                    \* suffix at; "write": fwrite comes up short
    MaxTries,       \* bound: attempts for one fragment; only mismatching ACKs
                    \* take a client past RetransMax
    MaxLoss,        \* bound: fragments and ACKs the network loses
    MaxDup          \* bound: fragments and ACKs the network duplicates

ASSUME TransferAssumption ==
    /\ RetransMax \in Nat /\ RetransMax > 0
    /\ DropFirst \in BOOLEAN /\ NameTerminated \in BOOLEAN
    /\ Faults \subseteq {"open", "write"}
    /\ MaxTries \in Nat /\ MaxLoss \in Nat /\ MaxDup \in Nat

VARIABLES
    cpc,            \* where the client is in main and send_file
    packet_num,     \* the fragment send_file is working on
    timesent,       \* attempts counted for it
    ackBuf,         \* ack_packet.filedata has been "ACK" since some ACK
    hasty,          \* history: the receive timeout (1 s in lab2, 1 us in lab3)
                    \* expired once with a reply under way
    spc,            \* where the server is
    firstPacketReceived,
    pFile,          \* the output file is open and fragRecv allocated
    fragRecv,       \* the server's flags
    written,        \* the fragments in the output file, in file order
    greet,          \* the handshake datagram in flight
    toServer,       \* copies of fragment k on their way to the server
    toClient,       \* copies of the ACK of fragment k on their way back
    losses, dups,   \* spent of MaxLoss and MaxDup
    heard           \* history: highest fragment recvfrom ever returned

client == <<cpc, packet_num, timesent, ackBuf, hasty>>
server == <<spc, firstPacketReceived, pFile, fragRecv, written, heard>>
network == <<toServer, toClient, losses, dups>>
vars == <<client, server, greet, network>>

-----------------------------------------------------------------------------
Init ==
    /\ cpc = "start" /\ packet_num = 1 /\ timesent = 0 /\ ackBuf = FALSE
    /\ hasty = FALSE
    /\ spc = "hello" /\ firstPacketReceived = FALSE /\ pFile = FALSE
    /\ fragRecv = [k \in Frags |-> FALSE] /\ written = <<>> /\ heard = 0
    /\ greet = "none"
    /\ toServer = [k \in Frags |-> 0] /\ toClient = [k \in Frags |-> 0]
    /\ losses = 0 /\ dups = 0

(***************************************************************************)
(* The handshake: the client blocks in recvfrom with no timeout set yet.   *)
(***************************************************************************)
ClientGreets ==
    /\ cpc = "start"
    /\ cpc' = "hello" /\ greet' = "ftp"
    /\ UNCHANGED <<packet_num, timesent, ackBuf, hasty, server, network>>

\* Mutant of ServerGreets: the answer is not sent.
ServerGreetsMute ==
    /\ spc = "hello" /\ greet = "ftp"
    /\ spc' = "loop" /\ greet' = "none"
    /\ UNCHANGED <<client, firstPacketReceived, pFile, fragRecv, written,
                   heard, network>>

ServerGreets ==
    /\ spc = "hello" /\ greet = "ftp"
    /\ spc' = "loop" /\ greet' = "yes"
    /\ UNCHANGED <<client, firstPacketReceived, pFile, fragRecv, written,
                   heard, network>>

ClientStarts ==
    /\ cpc = "hello" /\ greet = "yes"
    /\ cpc' = "send" /\ greet' = "none"
    /\ UNCHANGED <<packet_num, timesent, ackBuf, hasty, server, network>>

(***************************************************************************)
(* send_file: one iteration is SendFrag, then Timeout or RecvAck.          *)
(***************************************************************************)
SendFrag ==
    /\ cpc = "send" /\ timesent < MaxTries
    /\ cpc' = "await" /\ timesent' = timesent + 1
    /\ toServer' = [toServer EXCEPT ![packet_num] = @ + 1]
    /\ UNCHANGED <<packet_num, ackBuf, hasty, server, greet, toClient, losses,
                   dups>>

ReplyUnderWay ==
    \/ \E k \in Frags : toClient[k] > 0
    \/ spc = "loop" /\ \E k \in Frags : toServer[k] > 0

\* Mutants of Timeout: one attempt too few; the last attempt waits on without
\* end; on to the next fragment.
TimeoutEarly ==
    /\ cpc = "await"
    /\ hasty' = (hasty \/ ReplyUnderWay)
    /\ cpc' = IF timesent + 1 < RetransMax THEN "send" ELSE "gaveup"
    /\ UNCHANGED <<packet_num, timesent, ackBuf, server, greet, network>>

TimeoutWaitsOn ==
    /\ cpc = "await"
    /\ hasty' = (hasty \/ ReplyUnderWay)
    /\ cpc' = IF timesent < RetransMax THEN "send" ELSE "await"
    /\ UNCHANGED <<packet_num, timesent, ackBuf, server, greet, network>>

TimeoutSkips ==
    /\ cpc = "await" /\ timesent = RetransMax /\ packet_num < total_frag
    /\ cpc' = "send" /\ packet_num' = packet_num + 1 /\ timesent' = 0
    /\ UNCHANGED <<ackBuf, hasty, server, greet, network>>

\* The datagram is sent again unless that was attempt RetransMax.
Timeout ==
    /\ cpc = "await"
    /\ hasty' = (hasty \/ ReplyUnderWay)
    /\ cpc' = IF timesent < RetransMax THEN "send" ELSE "gaveup"
    /\ UNCHANGED <<packet_num, timesent, ackBuf, server, greet, network>>

\* Whether the name and the text of an ACK compare equal.  The reply copies
\* only FragSize(k) bytes of "ACK" over what ack_packet.filedata held before.
AckTextMatches(k) ==
    IF NameTerminated /\ (ackBuf \/ FragSize(k) >= AckLen)
    THEN {TRUE} ELSE BOOLEAN

\* Mutants of RecvAck: no look at the fragment's number; a wrong ACK ends the
\* transfer; the loop runs once too often.
RecvAckAny(k) ==
    /\ cpc = "await" /\ toClient[k] > 0
    /\ toClient' = [toClient EXCEPT ![k] = @ - 1]
    /\ timesent' = 0 /\ packet_num' = packet_num + 1
    /\ cpc' = IF packet_num = total_frag THEN "done" ELSE "send"
    /\ UNCHANGED <<ackBuf, hasty, server, greet, toServer, losses, dups>>

RecvAckStrict(k) ==
    /\ cpc = "await" /\ toClient[k] > 0
    /\ toClient' = [toClient EXCEPT ![k] = @ - 1]
    /\ timesent' = 0
    /\ IF k = packet_num
       THEN /\ packet_num' = packet_num + 1
            /\ cpc' = IF packet_num = total_frag THEN "done" ELSE "send"
       ELSE cpc' = "gaveup" /\ UNCHANGED packet_num
    /\ UNCHANGED <<ackBuf, hasty, server, greet, toServer, losses, dups>>

RecvAckOneMore(k) ==
    /\ cpc = "await" /\ toClient[k] > 0 /\ k = packet_num
    /\ toClient' = [toClient EXCEPT ![k] = @ - 1]
    /\ timesent' = 0 /\ packet_num' = packet_num + 1
    /\ cpc' = IF packet_num > total_frag THEN "done" ELSE "send"
    /\ UNCHANGED <<ackBuf, hasty, server, greet, toServer, losses, dups>>

\* An ACK that is not the wanted one makes the client send again at once,
\* however many attempts that makes.
RecvAck(k) ==
    /\ cpc = "await" /\ toClient[k] > 0
    /\ toClient' = [toClient EXCEPT ![k] = @ - 1]
    /\ ackBuf' = (ackBuf \/ FragSize(k) >= AckLen)
    /\ \E matches \in AckTextMatches(k) :
         IF matches /\ k = packet_num
         THEN /\ timesent' = 0 /\ packet_num' = packet_num + 1
              /\ cpc' = IF packet_num = total_frag THEN "done" ELSE "send"
         ELSE /\ cpc' = "send"
              /\ UNCHANGED <<timesent, packet_num>>
    /\ UNCHANGED <<hasty, server, greet, toServer, losses, dups>>

(***************************************************************************)
(* The server's loop: one iteration per fragment datagram.                 *)
(***************************************************************************)
Skips == DropFirst /\ ~firstPacketReceived

\* Mutant of Flags: none of them is cleared.
FlagsUncleared(garbage) ==
    IF pFile THEN fragRecv ELSE [i \in Frags |-> garbage]

\* malloc leaves the flag of the last fragment uninitialised: the loop that
\* clears the flags covers indices 0 .. total_frag - 1.
Flags(garbage) ==
    IF pFile THEN fragRecv ELSE [i \in Frags |-> i = total_frag /\ garbage]

\* Mutant of Store: what was received before is appended again.
StoreAgain(k) ==
    /\ pFile' = TRUE
    /\ fragRecv' = [Flags(FALSE) EXCEPT ![k] = TRUE]
    /\ written' = Append(written, k)

Store(k) ==
    /\ pFile' = TRUE
    /\ \E garbage \in BOOLEAN :
         /\ fragRecv' = [Flags(garbage) EXCEPT ![k] = TRUE]
         /\ written' = IF Flags(garbage)[k] THEN written ELSE Append(written, k)

\* Mutant of AckAndLoop: the loop never ends.
AckAndStay(k) ==
    /\ toClient' = [toClient EXCEPT ![k] = @ + 1]
    /\ UNCHANGED spc

\* After the ACK the loop ends on the last fragment; fclose(NULL) is a crash.
AckAndLoop(k) ==
    /\ toClient' = [toClient EXCEPT ![k] = @ + 1]
    /\ spc' = IF k # total_frag THEN "loop"
              ELSE IF pFile' THEN "done" ELSE "crashed"

ServerRecv(k) ==
    /\ spc = "loop" /\ toServer[k] > 0
    /\ toServer' = [toServer EXCEPT ![k] = @ - 1]
    /\ heard' = IF k > heard THEN k ELSE heard
    /\ firstPacketReceived' = TRUE
    /\ IF Skips THEN UNCHANGED <<pFile, fragRecv, written>> ELSE Store(k)
    /\ AckAndLoop(k)
    /\ UNCHANGED <<client, greet, losses, dups>>

\* strrchr finds no '.' and strncpy reads NULL, or fwrite is short and the
\* server exits; either way nothing is acknowledged.
ServerFails(k) ==
    /\ spc = "loop" /\ toServer[k] > 0 /\ ~Skips
    /\ \/ "open" \in Faults /\ ~pFile
       \/ "write" \in Faults /\ (pFile => ~fragRecv[k])
    /\ toServer' = [toServer EXCEPT ![k] = @ - 1]
    /\ heard' = IF k > heard THEN k ELSE heard
    /\ spc' = "crashed"
    /\ UNCHANGED <<client, firstPacketReceived, pFile, fragRecv, written,
                   greet, toClient, losses, dups>>

(***************************************************************************)
(* The network.                                                            *)
(***************************************************************************)
LoseGreeting ==
    /\ greet # "none"
    /\ losses < MaxLoss
    /\ greet' = "none" /\ losses' = losses + 1
    /\ UNCHANGED <<client, server, toServer, toClient, dups>>

Lose(k) ==
    /\ losses < MaxLoss
    /\ losses' = losses + 1
    /\ \/ /\ toServer[k] > 0
          /\ toServer' = [toServer EXCEPT ![k] = @ - 1]
          /\ UNCHANGED toClient
       \/ /\ toClient[k] > 0
          /\ toClient' = [toClient EXCEPT ![k] = @ - 1]
          /\ UNCHANGED toServer
    /\ UNCHANGED <<client, server, greet, dups>>

Duplicate(k) ==
    /\ dups < MaxDup
    /\ dups' = dups + 1
    /\ \/ /\ toServer[k] > 0
          /\ toServer' = [toServer EXCEPT ![k] = @ + 1]
          /\ UNCHANGED toClient
       \/ /\ toClient[k] > 0
          /\ toClient' = [toClient EXCEPT ![k] = @ + 1]
          /\ UNCHANGED toServer
    /\ UNCHANGED <<client, server, greet, losses>>

Next ==
    \/ ClientGreets \/ ServerGreets \/ ClientStarts
    \/ SendFrag \/ Timeout
    \/ \E k \in Frags : RecvAck(k)
    \/ \E k \in Frags : ServerRecv(k)
    \/ \E k \in Frags : ServerFails(k)
    \/ LoseGreeting
    \/ \E k \in Frags : Lose(k)
    \/ \E k \in Frags : Duplicate(k)

Spec == Init /\ [][Next]_vars

\* Both programs are single loops the scheduler keeps running: a datagram in
\* flight and not lost is returned by recvfrom, and SO_RCVTIMEO expires.
Fairness ==
    /\ WF_vars(ServerGreets) /\ WF_vars(ClientStarts)
    /\ WF_vars(SendFrag)
    /\ WF_vars(Timeout)
    /\ WF_vars(\E k \in Frags : RecvAck(k))
    /\ WF_vars(\E k \in Frags : ServerRecv(k))

FairSpec == Spec /\ Fairness

-----------------------------------------------------------------------------
TypeOK ==
    /\ cpc \in {"start", "hello", "send", "await", "done", "gaveup"}
    /\ packet_num \in 1..(total_frag + 1)
    /\ cpc # "done" => packet_num \in Frags
    /\ timesent \in Nat
    /\ ackBuf \in BOOLEAN /\ hasty \in BOOLEAN
    /\ spc \in {"hello", "loop", "done", "crashed"}
    /\ firstPacketReceived \in BOOLEAN /\ pFile \in BOOLEAN
    /\ fragRecv \in [Frags -> BOOLEAN]
    /\ written \in Seq(Frags)
    /\ greet \in {"none", "ftp", "yes"}
    /\ toServer \in [Frags -> Nat] /\ toClient \in [Frags -> Nat]
    /\ losses \in Nat /\ dups \in Nat
    /\ heard \in 0..total_frag

\* The fragments in the output file.
InFile == {written[i] : i \in DOMAIN written}

\* The client counts a fragment as delivered, or the whole transfer as done,
\* only when the server really had it: late, repeated or reordered ACKs never
\* advance packet_num past what the server received (deliver.c 103-109).
ConfirmedWasReceived ==
    /\ packet_num <= heard + 1
    /\ cpc = "done" => spc \in {"done", "crashed"}

\* However often a fragment is resent or duplicated, the server appends it to
\* the file at most once (the fragRecv test of server.c).
StoredAtMostOnce ==
    \A i, j \in DOMAIN written : written[i] = written[j] => i = j

\* An acknowledged fragment is in the file, with two exceptions only: the first
\* datagram lab3's server ignores, and a last fragment whose uninitialised
\* flag read as already received.
ConfirmedIsStored ==
    \A k \in 1..(packet_num - 1) :
        k \in InFile \/ k = total_frag \/ (DropFirst /\ k = 1)

\* Without the ignored first datagram the file always is the fragments in
\* order from the first: delay, loss and resending never reorder or skip.
FileIsPrefix ==
    ~DropFirst => \A i \in DOMAIN written : written[i] = i

\* Every stored fragment carries exactly its slice of the input.  Not so if the
\* length is a multiple of DataSize: the last fragment is then all padding, and
\* is written (deliver.c 28 and 49).
NothingPadded ==
    FileLen % DataSize # 0 => \A k \in InFile : Padding(k) = 0

\* The offers, receptions and confirmations of this protocol are those of the
\* abstract hand-over: stop-and-wait keeps one fragment outstanding.
Delivery == INSTANCE FragmentDelivery WITH
    Count <- total_frag,
    offered <- IF timesent > 0 THEN packet_num ELSE packet_num - 1,
    taken <- heard,
    confirmed <- packet_num - 1

ImplementsDelivery == Delivery!Spec

\* The handshake is tried once: the transfer begins, or a datagram was lost and
\* the client waits in a recvfrom that has no timeout yet (deliver.c 167).
HandshakeAnswered == cpc = "hello" ~> cpc # "hello" \/ losses > 0

\* Once sending, the client stops: it finishes, or some fragment times out
\* RetransMax times.  A stale ACK costs a resend but no endless exchange.
ClientStops == cpc = "send" ~> cpc \in {"done", "gaveup"}

\* As long as replies beat the timer and the network loses or repeats fewer
\* datagrams than the client has attempts, a server that lives gets every
\* fragment, the last one's lost ACK notwithstanding.
ServerGetsAll ==
    cpc = "send" ~>
        \/ spc = "done" /\ heard = total_frag
        \/ hasty \/ losses + dups >= RetransMax \/ spc = "crashed"

\* deliver.c 70-71, "until all fragments are sent successfully and ACKs are
\* received": as long as replies beat the timer and nothing is lost, the client
\* finishes, however many datagrams are repeated.  With a file shorter than the
\* text "ACK", or a name the heap does not happen to end, no ACK need match.
AcksReadable == NameTerminated /\ FileLen >= AckLen

ClientFinishes ==
    AcksReadable =>
        (cpc = "send" ~>
            \/ cpc = "done" \/ hasty \/ losses > 0
            \/ spc = "crashed" /\ cpc = "gaveup")

-----------------------------------------------------------------------------
(***************************************************************************)
(* Why the safety properties hold: the inductive invariant.                *)
(***************************************************************************)
\* Where fragments and ACKs in flight can be, and how far apart the client's
\* and the server's progress are.
FlightInv ==
    /\ \A k \in Frags : toServer[k] > 0 =>
          k <= packet_num /\ (k = packet_num => timesent > 0)
    /\ \A k \in Frags : toClient[k] > 0 => k <= heard
    /\ packet_num <= heard + 1 /\ heard <= packet_num
    /\ heard = packet_num => timesent > 0
    /\ cpc = "done" => packet_num = total_frag + 1

\* The server has left its loop once it has received the last fragment, and
\* an untouched server has received nothing.
LoopInv ==
    /\ heard = total_frag => spc \in {"done", "crashed"}
    /\ spc = "hello" => heard = 0
    /\ spc \in {"hello", "loop"} /\ ~firstPacketReceived => heard = 0

\* A flag is set for every fragment in the file, and only for those, except
\* that the last fragment's may have been set from the start.
FlagInv ==
    /\ ~pFile => written = <<>>
    /\ pFile => \A k \in InFile : fragRecv[k]
    /\ pFile => \A k \in Frags : fragRecv[k] => k \in InFile \/ k = total_frag

Kept(k) == k \in InFile \/ k = total_frag \/ (DropFirst /\ k = 1)

\* Every fragment with an ACK in flight or taken was kept.
KeptInv == \A k \in Frags : (toClient[k] > 0 \/ k < packet_num) => Kept(k)

\* A server that stores its first datagram too has stored all it received, as
\* long as it is in its loop.
PrefixInv ==
    ~DropFirst =>
        /\ \A i \in DOMAIN written : written[i] = i
        /\ spc \in {"hello", "loop"} => Len(written) = heard

IInv == TypeOK /\ FlightInv /\ LoopInv /\ FlagInv /\ KeptInv
        /\ StoredAtMostOnce /\ PrefixInv

-----------------------------------------------------------------------------
\* lab3/server.c 117, "ACK:receive successfully": an acknowledged fragment has
\* been stored.  lab3's programs do not keep this; ConfirmedIsStored says what
\* they keep.
AckMeansStored == \A k \in 1..(packet_num - 1) : k \in InFile

=============================================================================
