-------------------------- MODULE FileTransferProofs --------------------------
(***************************************************************************)
(* Proofs about FileTransfer, for every file length, fragment size, retry  *)
(* bound and network: the invariant IInv is inductive, the safety          *)
(* properties follow from it, and the protocol implements the abstract     *)
(* hand-over of FragmentDelivery.                                          *)
(***************************************************************************)
EXTENDS FileTransfer, TLAPS

\* A file has at least one fragment, also when it is empty: ftell / DATA_SIZE
\* + 1 (deliver.c 28).
LEMMA FragsExist == total_frag \in Nat /\ total_frag > 0
<1>1. FileLen \in Nat /\ DataSize \in Nat /\ DataSize > 0
  BY SizesAssumption
<1>2. FileLen \div DataSize \in Nat
  BY <1>1, Z3
<1> QED BY <1>2 DEF total_frag

\* Appending a fragment to the output file keeps what was there.
LEMMA InFileAppend ==
    ASSUME NEW w \in Seq(Frags), NEW k \in Frags
    PROVE  /\ Append(w, k) \in Seq(Frags)
           /\ Len(Append(w, k)) = Len(w) + 1
           /\ DOMAIN Append(w, k) = 1 .. (Len(w) + 1)
           /\ \A i \in DOMAIN w : Append(w, k)[i] = w[i] /\ i \in 1 .. Len(w)
           /\ Append(w, k)[Len(w) + 1] = k
           /\ DOMAIN w = 1 .. Len(w) /\ Len(w) \in Nat
  BY SMT

\* The initial states satisfy the inductive invariant.
LEMMA InitInv == Init => IInv
<1> SUFFICES ASSUME Init PROVE IInv
  OBVIOUS
<1> USE FragsExist, TransferAssumption DEF Init
<1>1. TypeOK
  <2>1. /\ cpc \in {"start", "hello", "send", "await", "done", "gaveup"}
        /\ packet_num \in 1..(total_frag + 1)
        /\ cpc # "done" => packet_num \in Frags
        /\ timesent \in Nat
        /\ spc \in {"hello", "loop", "done", "crashed"}
    BY DEF Frags
  <2>2. ackBuf \in BOOLEAN /\ firstPacketReceived \in BOOLEAN /\ pFile \in BOOLEAN
    OBVIOUS
  <2>3. fragRecv \in [Frags -> BOOLEAN]
    OBVIOUS
  <2>4. written \in Seq(Frags)
    OBVIOUS
  <2>5. /\ greet \in {"none", "ftp", "yes"}
        /\ toServer \in [Frags -> Nat] /\ toClient \in [Frags -> Nat]
        /\ losses \in Nat /\ dups \in Nat
        /\ heard \in 0..total_frag
    OBVIOUS
  <2> QED BY <2>1, <2>2, <2>3, <2>4, <2>5 DEF TypeOK
<1>2. FlightInv /\ LoopInv
  BY DEF FlightInv, LoopInv, Frags
<1>3. FlagInv /\ KeptInv /\ StoredAtMostOnce /\ PrefixInv
  BY DEF FlagInv, KeptInv, StoredAtMostOnce, PrefixInv, InFile, Kept, Frags
<1> QED BY <1>1, <1>2, <1>3 DEF IInv

\* Every step keeps the variables within their types.
LEMMA TypeStep == TypeOK /\ FlightInv /\ [Next]_vars => TypeOK'
<1> SUFFICES ASSUME TypeOK, FlightInv, [Next]_vars PROVE TypeOK'
  OBVIOUS
<1> USE FragsExist DEF TypeOK
<1>1. CASE ClientGreets
  BY <1>1 DEF ClientGreets, server, network
<1>2. CASE ServerGreets
  BY <1>2 DEF ServerGreets, client, network
<1>3. CASE ClientStarts
  BY <1>3 DEF ClientStarts, server, network
<1>4. CASE SendFrag
  BY <1>4 DEF SendFrag, server
<1>5. CASE Timeout
  BY <1>5 DEF Timeout, server, network
<1>6. ASSUME NEW k \in Frags, RecvAck(k) PROVE TypeOK'
  <2>1. /\ cpc' \in {"send", "done"} /\ timesent' \in Nat
        /\ packet_num' \in 1..(total_frag + 1)
        /\ cpc' # "done" => packet_num' \in Frags
    <3>1. packet_num \in 1..total_frag /\ total_frag \in Nat /\ timesent \in Nat
      BY <1>6 DEF RecvAck, Frags
    <3>2. \/ /\ timesent' = 0 /\ packet_num' = packet_num + 1
             /\ cpc' = IF packet_num = total_frag THEN "done" ELSE "send"
          \/ cpc' = "send" /\ timesent' = timesent /\ packet_num' = packet_num
      BY <1>6 DEF RecvAck
    <3> QED BY ONLY <3>1, <3>2 DEF Frags
  <2>2. toClient' \in [Frags -> Nat]
    BY <1>6 DEF RecvAck
  <2>3. ackBuf' \in BOOLEAN
    BY <1>6 DEF RecvAck
  <2> QED BY <1>6, <2>1, <2>2, <2>3 DEF RecvAck, server
<1>7. ASSUME NEW k \in Frags, ServerRecv(k) PROVE TypeOK'
  <2>1. pFile' \in BOOLEAN
    BY <1>7 DEF ServerRecv, Store
  <2>2. fragRecv' \in [Frags -> BOOLEAN]
    <3>1. CASE Skips
      BY <1>7, <3>1 DEF ServerRecv
    <3>2. CASE ~Skips
      <4>1. PICK g \in BOOLEAN : fragRecv' = [Flags(g) EXCEPT ![k] = TRUE]
        BY <1>7, <3>2 DEF ServerRecv, Store
      <4>2. Flags(g) \in [Frags -> BOOLEAN]
        BY DEF Flags
      <4> QED BY <4>1, <4>2
    <3> QED BY <3>1, <3>2
  <2>3. written' \in Seq(Frags)
    <3>1. written' = written \/ written' = Append(written, k)
      BY <1>7 DEF ServerRecv, Store
    <3>2. written \in Seq(Frags)
      OBVIOUS
    <3>3. Append(written, k) \in Seq(Frags)
      BY ONLY <3>2, k \in Frags, InFileAppend
    <3> QED BY ONLY <3>1, <3>2, <3>3
  <2>4. /\ toServer' \in [Frags -> Nat] /\ toClient' \in [Frags -> Nat]
        /\ heard' \in 0..total_frag /\ spc' \in {"loop", "done", "crashed"}
        /\ firstPacketReceived' \in BOOLEAN
    BY <1>7 DEF ServerRecv, AckAndLoop, Frags
  <2> QED BY <1>7, <2>1, <2>2, <2>3, <2>4 DEF ServerRecv, client
<1>8. ASSUME NEW k \in Frags, ServerFails(k) PROVE TypeOK'
  BY <1>8 DEF ServerFails, client, Frags
<1>9. CASE LoseGreeting
  BY <1>9 DEF LoseGreeting, client, server
<1>10. ASSUME NEW k \in Frags, Lose(k) PROVE TypeOK'
  <2>1. toServer' \in [Frags -> Nat] /\ toClient' \in [Frags -> Nat]
    <3>1. CASE toServer[k] > 0 /\ toServer' = [toServer EXCEPT ![k] = @ - 1]
               /\ toClient' = toClient
      BY <3>1
    <3>2. CASE toClient[k] > 0 /\ toClient' = [toClient EXCEPT ![k] = @ - 1]
               /\ toServer' = toServer
      BY <3>2
    <3> QED BY <1>10, <3>1, <3>2 DEF Lose
  <2>2. losses' \in Nat /\ dups' \in Nat
    BY <1>10 DEF Lose
  <2> QED BY <1>10, <2>1, <2>2 DEF Lose, client, server
<1>11. ASSUME NEW k \in Frags, Duplicate(k) PROVE TypeOK'
  <2>1. toServer' \in [Frags -> Nat] /\ toClient' \in [Frags -> Nat]
    <3>1. CASE toServer' = [toServer EXCEPT ![k] = @ + 1] /\ toClient' = toClient
      BY <3>1
    <3>2. CASE toClient' = [toClient EXCEPT ![k] = @ + 1] /\ toServer' = toServer
      BY <3>2
    <3> QED BY <1>11, <3>1, <3>2 DEF Duplicate
  <2>2. losses' \in Nat /\ dups' \in Nat
    BY <1>11 DEF Duplicate
  <2> QED BY <1>11, <2>1, <2>2 DEF Duplicate, client, server
<1>12. CASE UNCHANGED vars
  BY <1>12 DEF vars, client, server, network
<1> QED
  BY <1>1, <1>2, <1>3, <1>4, <1>5, <1>6, <1>7, <1>8, <1>9, <1>10, <1>11, <1>12
  DEF Next

\* Every step keeps the two programs' progress and the datagrams between them
\* within one fragment of each other.
LEMMA FlightStep == TypeOK /\ FlightInv /\ [Next]_vars => FlightInv'
<1> SUFFICES ASSUME TypeOK, FlightInv, [Next]_vars PROVE FlightInv'
  OBVIOUS
<1> USE FragsExist DEF TypeOK, FlightInv, Frags
<1>1. CASE ClientGreets \/ ServerGreets \/ ClientStarts \/ LoseGreeting
  BY <1>1 DEF ClientGreets, ServerGreets, ClientStarts, LoseGreeting, client,
              server, network
<1>2. CASE SendFrag
  BY <1>2 DEF SendFrag, server
<1>3. CASE Timeout
  BY <1>3 DEF Timeout, server, network
<1>4. ASSUME NEW k \in Frags, RecvAck(k) PROVE FlightInv'
  <2>1. /\ heard' = heard /\ toServer' = toServer
        /\ toClient' = [toClient EXCEPT ![k] = @ - 1]
        /\ k <= heard
    BY <1>4 DEF RecvAck, server
  <2>2. CASE k = packet_num /\ timesent' = 0 /\ packet_num' = packet_num + 1
             /\ cpc' = IF packet_num = total_frag THEN "done" ELSE "send"
    BY <2>1, <2>2
  <2>3. CASE cpc' = "send" /\ timesent' = timesent /\ packet_num' = packet_num
    BY <2>1, <2>3
  <2> QED BY <1>4, <2>2, <2>3 DEF RecvAck
<1>5. ASSUME NEW k \in Frags, ServerRecv(k) PROVE FlightInv'
  BY <1>5 DEF ServerRecv, AckAndLoop, client
<1>6. ASSUME NEW k \in Frags, ServerFails(k) PROVE FlightInv'
  BY <1>6 DEF ServerFails, client
<1>7. ASSUME NEW k \in Frags, Lose(k) PROVE FlightInv'
  BY <1>7 DEF Lose, client, server
<1>8. ASSUME NEW k \in Frags, Duplicate(k) PROVE FlightInv'
  BY <1>8 DEF Duplicate, client, server
<1>9. CASE UNCHANGED vars
  BY <1>9 DEF vars, client, server, network
<1> QED
  BY <1>1, <1>2, <1>3, <1>4, <1>5, <1>6, <1>7, <1>8, <1>9 DEF Next

\* Every step keeps the server's place in its loop in line with what it heard.
LEMMA LoopStep == TypeOK /\ LoopInv /\ [Next]_vars => LoopInv'
<1> SUFFICES ASSUME TypeOK, LoopInv, [Next]_vars PROVE LoopInv'
  OBVIOUS
<1> USE FragsExist DEF TypeOK, LoopInv, Frags
<1>1. ASSUME NEW k \in Frags, ServerRecv(k) PROVE LoopInv'
  BY <1>1 DEF ServerRecv, AckAndLoop
<1>2. ASSUME NEW k \in Frags, ServerFails(k) PROVE LoopInv'
  BY <1>2 DEF ServerFails
<1>3. CASE ServerGreets
  BY <1>3 DEF ServerGreets
<1>4. ASSUME UNCHANGED server PROVE LoopInv'
  BY <1>4 DEF server
<1> QED
  BY <1>1, <1>2, <1>3, <1>4
  DEF Next, vars, ClientGreets, ClientStarts, SendFrag, Timeout, RecvAck,
      LoseGreeting, Lose, Duplicate

\* What ServerRecv does to the file when it does not skip the datagram.
LEMMA StoreCases ==
    ASSUME TypeOK, NEW k \in Frags, ServerRecv(k), ~Skips
    PROVE  \E flags \in [Frags -> BOOLEAN] :
             /\ pFile => flags = fragRecv
             /\ ~pFile => \A i \in Frags : flags[i] => i = total_frag
             /\ pFile' = TRUE
             /\ fragRecv' = [flags EXCEPT ![k] = TRUE]
             /\ written' = IF flags[k] THEN written ELSE Append(written, k)
<1>1. PICK g \in BOOLEAN :
         /\ fragRecv' = [Flags(g) EXCEPT ![k] = TRUE]
         /\ written' = IF Flags(g)[k] THEN written ELSE Append(written, k)
  BY DEF ServerRecv, Store
<1>2. pFile' = TRUE
  BY DEF ServerRecv, Store
<1>3. /\ Flags(g) \in [Frags -> BOOLEAN]
      /\ pFile => Flags(g) = fragRecv
      /\ ~pFile => \A i \in Frags : Flags(g)[i] => i = total_frag
  BY DEF Flags, TypeOK
<1> QED BY <1>1, <1>2, <1>3

\* What appending does to the set of stored fragments.
LEMMA InFileGrows ==
    ASSUME TypeOK, NEW k \in Frags, written' = Append(written, k)
    PROVE  InFile' = InFile \cup {k}
<1>1. written \in Seq(Frags)
  BY DEF TypeOK
<1> DEFINE w == Append(written, k)
<1>2. /\ DOMAIN w = 1 .. (Len(written) + 1) /\ DOMAIN written = 1 .. Len(written)
      /\ \A i \in DOMAIN written : w[i] = written[i]
      /\ w[Len(written) + 1] = k /\ Len(written) \in Nat
  BY <1>1, InFileAppend
<1>3. InFile' = {w[i] : i \in DOMAIN w}
  BY DEF InFile
<1> HIDE DEF w
<1>4. {w[i] : i \in DOMAIN w} = {written[i] : i \in DOMAIN written} \cup {k}
  BY <1>2
<1> QED BY <1>3, <1>4 DEF InFile

\* Every step keeps flags, file and acknowledged fragments in agreement.
LEMMA FileStep ==
    TypeOK /\ FlightInv /\ LoopInv /\ FlagInv /\ StoredAtMostOnce
      /\ KeptInv /\ [Next]_vars
    => FlagInv' /\ StoredAtMostOnce' /\ KeptInv'
<1> SUFFICES ASSUME TypeOK, FlightInv, LoopInv, FlagInv, StoredAtMostOnce,
                    KeptInv, [Next]_vars
             PROVE  FlagInv' /\ StoredAtMostOnce' /\ KeptInv'
  OBVIOUS
<1> USE FragsExist
<1>1. ASSUME UNCHANGED server PROVE FlagInv' /\ StoredAtMostOnce' /\ InFile' = InFile
  BY <1>1 DEF server, FlagInv, StoredAtMostOnce, InFile
<1>2. ASSUME UNCHANGED <<server, packet_num>>,
             \A k \in Frags : toClient'[k] > 0 => toClient[k] > 0
      PROVE  FlagInv' /\ StoredAtMostOnce' /\ KeptInv'
  BY <1>1, <1>2 DEF KeptInv, Kept, server
<1>3. CASE ClientGreets \/ ClientStarts \/ SendFrag \/ Timeout \/ LoseGreeting
           \/ UNCHANGED vars
  BY <1>2, <1>3 DEF ClientGreets, ClientStarts, SendFrag, Timeout,
     LoseGreeting, vars, client, network
<1>4. CASE ServerGreets
  BY <1>4 DEF ServerGreets, client, network, FlagInv, StoredAtMostOnce, InFile,
              KeptInv, Kept
<1>5. ASSUME NEW k \in Frags, RecvAck(k)
      PROVE  FlagInv' /\ StoredAtMostOnce' /\ KeptInv'
  <2>1. FlagInv' /\ StoredAtMostOnce' /\ InFile' = InFile
    BY <1>1, <1>5 DEF RecvAck
  <2>2. toClient[k] > 0 /\ toClient' = [toClient EXCEPT ![k] = @ - 1]
    BY <1>5 DEF RecvAck
  <2>3. packet_num' = packet_num \/ (k = packet_num /\ packet_num' = packet_num + 1)
    BY <1>5 DEF RecvAck
  <2>4. KeptInv'
    BY <2>1, <2>2, <2>3 DEF KeptInv, Kept, TypeOK, Frags
  <2> QED BY <2>1, <2>4
<1>6. ASSUME NEW j \in Frags, Lose(j) \/ Duplicate(j)
      PROVE  FlagInv' /\ StoredAtMostOnce' /\ KeptInv'
  <2>1. UNCHANGED <<server, packet_num>>
    BY <1>6 DEF Lose, Duplicate, client
  <2>2. \A k \in Frags : toClient'[k] > 0 => toClient[k] > 0
    BY <1>6 DEF Lose, Duplicate, TypeOK
  <2> QED BY <1>2, <2>1, <2>2
<1>7. ASSUME NEW k \in Frags, ServerFails(k)
      PROVE  FlagInv' /\ StoredAtMostOnce' /\ KeptInv'
  BY <1>7 DEF ServerFails, client, FlagInv, StoredAtMostOnce, InFile, KeptInv, Kept
<1>8. ASSUME NEW k \in Frags, ServerRecv(k), Skips
      PROVE  FlagInv' /\ StoredAtMostOnce' /\ KeptInv'
  <2>1. UNCHANGED <<pFile, fragRecv, written, packet_num>>
    BY <1>8 DEF ServerRecv, client
  <2>2. DropFirst /\ k = 1
    BY <1>8 DEF Skips, ServerRecv, LoopInv, FlightInv, TypeOK, Frags
  <2>3. toClient' = [toClient EXCEPT ![k] = @ + 1]
    BY <1>8 DEF ServerRecv, AckAndLoop
  <2>4. KeptInv'
    BY <2>1, <2>2, <2>3 DEF KeptInv, Kept, InFile, TypeOK
  <2> QED BY <2>1, <2>4 DEF FlagInv, StoredAtMostOnce, InFile
<1>9. ASSUME NEW k \in Frags, ServerRecv(k), ~Skips
      PROVE  FlagInv' /\ StoredAtMostOnce' /\ KeptInv'
  <2>1. PICK flags \in [Frags -> BOOLEAN] :
           /\ pFile => flags = fragRecv
           /\ ~pFile => \A i \in Frags : flags[i] => i = total_frag
           /\ pFile' = TRUE
           /\ fragRecv' = [flags EXCEPT ![k] = TRUE]
           /\ written' = IF flags[k] THEN written ELSE Append(written, k)
    BY <1>9, StoreCases
  <2>2. InFile \subseteq Frags /\ written \in Seq(Frags)
    BY DEF InFile, TypeOK
  <2>3. \A i \in InFile : flags[i]
    BY <2>1 DEF FlagInv, InFile
  <2>4. \A i \in Frags : flags[i] => i \in InFile \/ i = total_frag
    BY <2>1 DEF FlagInv
  <2>5. InFile' = IF flags[k] THEN InFile ELSE InFile \cup {k}
    BY <2>1, InFileGrows DEF InFile
  <2>6. FlagInv'
    BY <2>1, <2>2, <2>3, <2>4, <2>5 DEF FlagInv
  <2>7. StoredAtMostOnce'
    <3>1. CASE flags[k]
      BY <2>1, <3>1 DEF StoredAtMostOnce
    <3>2. CASE ~flags[k]
      <4>1. k \notin InFile
        BY <2>3, <3>2
      <4>2. written' = Append(written, k)
        BY <2>1, <3>2
      <4>3. /\ DOMAIN written' = 1 .. (Len(written) + 1)
            /\ DOMAIN written = 1 .. Len(written)
            /\ \A i \in DOMAIN written : written'[i] = written[i]
            /\ written'[Len(written) + 1] = k /\ Len(written) \in Nat
        BY <2>2, <4>2, InFileAppend
      <4> QED BY <4>1, <4>3 DEF StoredAtMostOnce, InFile
    <3> QED BY <3>1, <3>2
  <2>8. KeptInv'
    <3>1. packet_num' = packet_num /\ toClient' = [toClient EXCEPT ![k] = @ + 1]
      BY <1>9 DEF ServerRecv, AckAndLoop, client
    <3>2. k \in InFile' \/ k = total_frag
      BY <2>4, <2>5
    <3> QED BY <2>5, <3>1, <3>2 DEF KeptInv, Kept, TypeOK
  <2> QED BY <2>6, <2>7, <2>8
<1> QED
  BY <1>3, <1>4, <1>5, <1>6, <1>7, <1>8, <1>9 DEF Next

\* Every step of a server that stores its first datagram keeps the file the
\* fragments in order.
LEMMA PrefixStep ==
    TypeOK /\ FlightInv /\ LoopInv /\ FlagInv /\ PrefixInv /\ [Next]_vars
    => PrefixInv'
<1> SUFFICES ASSUME TypeOK, FlightInv, LoopInv, FlagInv, PrefixInv,
                    [Next]_vars, ~DropFirst
             PROVE  /\ \A i \in DOMAIN written' : written'[i] = i
                    /\ spc' \in {"hello", "loop"} => Len(written') = heard'
  BY DEF PrefixInv
<1> USE FragsExist
<1>1. ASSUME UNCHANGED <<written, heard, spc>>
      PROVE  /\ \A i \in DOMAIN written' : written'[i] = i
             /\ spc' \in {"hello", "loop"} => Len(written') = heard'
  BY <1>1 DEF PrefixInv
<1>2. CASE ServerGreets
  BY <1>2 DEF ServerGreets, PrefixInv
<1>3. ASSUME NEW k \in Frags, ServerFails(k)
      PROVE  /\ \A i \in DOMAIN written' : written'[i] = i
             /\ spc' \in {"hello", "loop"} => Len(written') = heard'
  BY <1>3 DEF ServerFails, PrefixInv
<1>4. ASSUME NEW k \in Frags, ServerRecv(k)
      PROVE  /\ \A i \in DOMAIN written' : written'[i] = i
             /\ spc' \in {"hello", "loop"} => Len(written') = heard'
  <2>1. PICK flags \in [Frags -> BOOLEAN] :
           /\ pFile => flags = fragRecv
           /\ ~pFile => \A i \in Frags : flags[i] => i = total_frag
           /\ pFile' = TRUE
           /\ fragRecv' = [flags EXCEPT ![k] = TRUE]
           /\ written' = IF flags[k] THEN written ELSE Append(written, k)
    BY <1>4, StoreCases DEF Skips
  <2>2. /\ spc = "loop" /\ k <= heard + 1 /\ Len(written) = heard
        /\ k \in Nat /\ 0 < k /\ k <= total_frag /\ heard \in Nat
    <3>1. spc = "loop" /\ toServer[k] > 0
      BY <1>4 DEF ServerRecv
    <3>2. Len(written) = heard
      BY <3>1 DEF PrefixInv
    <3>3. /\ heard \in Nat /\ packet_num \in Nat
          /\ k \in Nat /\ 0 < k /\ k <= total_frag
      BY DEF TypeOK, Frags
    <3>4. k <= heard + 1
      BY <3>1, <3>3 DEF FlightInv
    <3> QED BY <3>1, <3>2, <3>3, <3>4
  <2>3. written \in Seq(Frags) /\ DOMAIN written = 1 .. heard
        /\ \A i \in DOMAIN written : written[i] = i
    BY <2>2 DEF TypeOK, PrefixInv
  <2>4. InFile = 1 .. heard
    BY <2>3 DEF InFile
  <2>5. heard' = IF k > heard THEN k ELSE heard
    BY <1>4 DEF ServerRecv
  <2>6. k = total_frag => spc' \notin {"hello", "loop"}
    BY <1>4 DEF ServerRecv, AckAndLoop
  <2>7. CASE k <= heard
    <3>1. flags[k]
      BY <2>1, <2>2, <2>4, <2>7 DEF FlagInv
    <3> QED BY <2>1, <2>2, <2>3, <2>5, <2>7, <3>1
  <2>8. CASE k > heard
    <3>1. k = heard + 1 /\ heard' = k /\ k \notin InFile
      BY <2>2, <2>4, <2>5, <2>8
    <3>2. CASE flags[k]
      <4>1. k = total_frag
        BY <2>1, <3>1, <3>2 DEF FlagInv
      <4> QED BY <2>1, <2>3, <2>6, <3>2, <4>1
    <3>3. CASE ~flags[k]
      <4>1. written' = Append(written, k)
        BY <2>1, <3>3
      <4>2. /\ DOMAIN written' = 1 .. (heard + 1) /\ Len(written') = heard + 1
            /\ \A i \in DOMAIN written : written'[i] = written[i]
            /\ written'[heard + 1] = k
        BY <2>2, <2>3, <4>1, InFileAppend
      <4> QED BY <2>2, <2>3, <3>1, <4>2
    <3> QED BY <3>2, <3>3
  <2> QED BY <2>2, <2>7, <2>8
<1> QED
  BY <1>1, <1>2, <1>3, <1>4 DEF Next, vars, client, server, network, ClientGreets,
     ClientStarts, SendFrag, Timeout, RecvAck, LoseGreeting, Lose, Duplicate

\* The inductive invariant holds throughout.
THEOREM Invariance == Spec => []IInv
<1>1. Init => IInv
  BY InitInv
<1>2. IInv /\ [Next]_vars => IInv'
  BY TypeStep, FlightStep, LoopStep, FileStep, PrefixStep DEF IInv
<1> QED BY <1>1, <1>2, PTL DEF Spec

\* All variables stay within their types, whatever the file and the network.
THEOREM TypeCorrect == Spec => []TypeOK
<1>1. IInv => TypeOK
  BY DEF IInv
<1> QED BY <1>1, Invariance, PTL

\* No late, repeated or reordered ACK takes the client past what the server
\* received, and a client that finished left a server that finished.
THEOREM Confirmed == Spec => []ConfirmedWasReceived
<1>1. IInv => ConfirmedWasReceived
  BY FragsExist DEF IInv, FlightInv, LoopInv, TypeOK, ConfirmedWasReceived
<1> QED BY <1>1, Invariance, PTL

\* The server appends each fragment at most once.
THEOREM StoredOnce == Spec => []StoredAtMostOnce
<1>1. IInv => StoredAtMostOnce
  BY DEF IInv
<1> QED BY <1>1, Invariance, PTL

\* Acknowledged fragments are in the file but for the two the server is known
\* to miss.
THEOREM ConfirmedStored == Spec => []ConfirmedIsStored
<1>1. IInv => ConfirmedIsStored
  BY FragsExist DEF IInv, KeptInv, Kept, TypeOK, ConfirmedIsStored, Frags
<1> QED BY <1>1, Invariance, PTL

\* Without the ignored first datagram the file is the fragments in order.
THEOREM InOrder == Spec => []FileIsPrefix
<1>1. IInv => FileIsPrefix
  BY DEF IInv, PrefixInv, FileIsPrefix
<1> QED BY <1>1, Invariance, PTL

\* The transfer implements the abstract hand-over, fragment by fragment.
THEOREM Refinement == Spec => ImplementsDelivery
<1> USE FragsExist
<1>1. Init => Delivery!Init
  BY DEF Init, Delivery!Init
<1>2. IInv /\ [Next]_vars => [Delivery!Next]_Delivery!dvars
  <2> SUFFICES ASSUME IInv, [Next]_vars
               PROVE  Delivery!Next \/ UNCHANGED Delivery!dvars
    OBVIOUS
  <2> USE DEF IInv, TypeOK, FlightInv, Frags
  <2>1. CASE SendFrag
    BY <2>1 DEF SendFrag, server, Delivery!Next, Delivery!Offer, Delivery!dvars
  <2>2. ASSUME NEW k \in Frags, RecvAck(k)
        PROVE  Delivery!Next \/ UNCHANGED Delivery!dvars
    <3>1. heard' = heard /\ k <= heard
      BY <2>2 DEF RecvAck, server
    <3>2. CASE timesent' = timesent /\ packet_num' = packet_num
      BY <3>1, <3>2 DEF Delivery!dvars
    <3>3. CASE k = packet_num /\ timesent' = 0 /\ packet_num' = packet_num + 1
      BY <3>1, <3>3 DEF Delivery!Next, Delivery!Confirm
    <3> QED BY <2>2, <3>2, <3>3 DEF RecvAck
  <2>3. ASSUME NEW k \in Frags, ServerRecv(k) \/ ServerFails(k)
        PROVE  Delivery!Next \/ UNCHANGED Delivery!dvars
    BY SMTT(30), <2>3 DEF ServerRecv, ServerFails, client, Delivery!Next, Delivery!Take,
                Delivery!dvars
  <2>4. ASSUME UNCHANGED <<timesent, packet_num, heard>>
        PROVE  UNCHANGED Delivery!dvars
    BY <2>4 DEF Delivery!dvars
  <2> QED
    BY <2>1, <2>2, <2>3, <2>4 DEF Next, vars, client, server, network,
       ClientGreets, ServerGreets, ClientStarts, Timeout, LoseGreeting, Lose,
       Duplicate
<1> QED
  BY <1>1, <1>2, Invariance, PTL DEF Spec, ImplementsDelivery, Delivery!Spec

\* Quotient and remainder of the file length, as the slicing uses them.
LEMMA LastSlice ==
    ASSUME FileLen % DataSize # 0
    PROVE  \E q, r \in Nat :
             /\ FileLen = q * DataSize + r /\ 0 < r /\ r < DataSize
             /\ total_frag = q + 1
             /\ (FileLen - 1) % DataSize = r - 1
<1>1. FileLen \in Nat /\ DataSize \in Nat /\ DataSize > 0
  BY SizesAssumption
<1> DEFINE q == FileLen \div DataSize
           r == FileLen % DataSize
<1>2. q \in Nat /\ r \in Nat /\ r < DataSize /\ FileLen = q * DataSize + r
  BY <1>1, Z3
<1>3. FileLen - 1 = q * DataSize + (r - 1) /\ 0 <= r - 1 /\ r - 1 < DataSize
  BY <1>1, <1>2
<1>4. (FileLen - 1) % DataSize = r - 1
  <2> HIDE DEF q, r
  <2> QED BY <1>1, <1>2, <1>3, Z3
<1>5. total_frag = q + 1 /\ 0 < r
  BY <1>2 DEF total_frag
<1> HIDE DEF q, r
<1> QED BY <1>2, <1>4, <1>5

\* Unless its length is a multiple of DATA_SIZE, a file is sliced with no
\* padding: the written bytes are the bytes read (deliver.c 36-50).
THEOREM Unpadded == Spec => []NothingPadded
<1>1. FileLen % DataSize # 0 => \A k \in Frags : Padding(k) = 0
  <2> SUFFICES ASSUME FileLen % DataSize # 0, NEW k \in Frags
               PROVE  Padding(k) = 0
    OBVIOUS
  <2>1. PICK q, r \in Nat :
           /\ FileLen = q * DataSize + r /\ 0 < r /\ r < DataSize
           /\ total_frag = q + 1
           /\ (FileLen - 1) % DataSize = r - 1
    BY LastSlice
  <2>2. FileLen \in Nat /\ DataSize \in Nat /\ DataSize > 0
    BY SizesAssumption
  <2>3. CASE k = total_frag
    <3>1. FileLen - (k - 1) * DataSize = r
      BY <2>1, <2>2, <2>3, Z3
    <3>2. FileLen # 0
      BY <2>1, <2>2, Z3
    <3>3. BytesRead(k) = r
      BY <2>1, <3>1 DEF BytesRead
    <3>4. FragSize(k) = r
      BY <2>1, <2>3, <3>2 DEF FragSize
    <3> QED BY <3>3, <3>4 DEF Padding
  <2>4. CASE k # total_frag
    <3>1. k \in Nat /\ 1 <= k /\ k <= q
      BY <2>1, <2>4, FragsExist DEF Frags
    <3>2. PICK d \in Nat : q = (k - 1) + (d + 1)
      <4>1. q - k \in Nat
        BY <2>1, <3>1
      <4> QED BY <2>1, <3>1, <4>1
    <3>3. FileLen - (k - 1) * DataSize = (d + 1) * DataSize + r
      BY <2>1, <2>2, <3>1, <3>2, Z3
    <3>4. (d + 1) * DataSize = d * DataSize + DataSize /\ d * DataSize \in Nat
      BY <2>2, <3>2, Z3
    <3>5. ~(FileLen - (k - 1) * DataSize < DataSize)
      BY <2>1, <2>2, <3>3, <3>4
    <3>6. BytesRead(k) = DataSize
      BY <3>5 DEF BytesRead
    <3> QED BY <2>2, <2>4, <3>6 DEF FragSize, Padding
  <2> QED BY <2>3, <2>4
<1>2. IInv => NothingPadded
  BY <1>1 DEF IInv, TypeOK, NothingPadded, InFile
<1> QED BY <1>2, Invariance, PTL
=============================================================================
