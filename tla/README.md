# Verification of the ECE361 labs: UDP file transfer and TCP chat

TLA+ models of the four labs' programs, checked with TLC, with proofs checked by
TLAPS. Every definition is translated from the C sources; the repository has no
documentation but a two-line README, so what the programs promise is taken from
their comments and messages.

## 1. Inventory

| part | source | state it keeps | operations |
|---|---|---|---|
| handshake | `lab1/*.c` | none beyond a buffer | client sends `ftp`, server answers `yes`/`no`, both end |
| file transfer client | `lab2,lab3/deliver.c` | `packet_num`, `timesent`, `ack_packet` | handshake; per fragment: send, wait for an ACK with `SO_RCVTIMEO`, resend up to `RetransMax` |
| file transfer server | `lab2,lab3/server.c` | `pFile`, `fragRecv`, `firstPacketReceived` (lab3) | handshake; per datagram: open the file, write an unseen fragment, ACK, stop on the last |
| fragment codec | `lab2,lab3/packet.h` | | `packetToString`, `stringToPacket` |
| client list | `lab4/ClientList.h` | users, passwords, `isLog` | `FindClient`, `CheckPassword`, `insertClient` |
| session list | `lab4/SessionList.h` | list of sessions, each with a list of CoClients and `session_sz`; per CoClient a private `joinedSession` list | `CreateSess`, `FindSession`, `JoinSess`, `LeaveSess`, `DestroySession`, `DestroyCoclient`, `CheckClient` |
| chat server | `lab4/server.c` | the two lists, a thread and a CoClient per connection | accept; LOGIN, JOIN, LEAVE_SESS, NEW_SESS, MESSAGE, QUERY, EXIT, end of stream |
| chat client | `lab4/client.c` | `socketfd`, `insession`, `buf` | the commands, and a thread receiving replies |
| chat codec | `lab4/packet.h` | | `packetToString`, `stringToPacket` |

**Interaction.** `deliver.c` and `server.c` of labs 1-3 exchange UDP datagrams:
they may be lost, repeated, reordered, and late. The chat client talks to its
server thread over one TCP connection; the server threads share the client list,
the session list and every CoClient (one thread broadcasts through the pointers
and descriptors of the others), with a mutex around one of the four operations
that change lists. The client's two threads share `insession` and `buf`.

**What is hard.** For the transfer: stale ACKs, retries racing late answers, the
end of the server while the client still resends, the boundary lengths of a
file. For the chat: handlers that test, then act; an unlocked list discipline
where one `nextCoClient` serves all sessions; descriptors reused while stale
nodes refer to them; memory freed by one operation and used by the next; clients
that die with replies unread; a client flag that lags the server's answers.
`PROJECT.json` lists each hazard at its line with the properties about it.

**What makes the parts correct.** Transfer: nothing counts as delivered that was
not received; the file is the fragments, once each, in order; the client comes
to an end, and in good conditions to a successful one. Session list: counters,
chains and private lists agree, a client is in one session, a session lives as
long as it has members. Server: one login per user, requests are answered,
messages reach exactly the members, ended clients are forgotten. Client:
`insession` agrees with the server once nothing is under way.

## 2. Modules

    Fragments            FragmentDelivery (abstract)
        |                       :
    FileTransfer . . . . . . . .:  refines
        |
    FileTransferProofs

    ChatNames
      |      \
    SessionList  ChatNet
         \       /     \
        ChatServer   ChatClient       ChatRooms (abstract)
              \       /                   :
                Chat . . . . . . . . . . .:  refines
               /    \
          ChatMC    ChatProofs (and SessionListProofs)
                        |
                    ChatSessionProofs

    SharedLists . . . Rosters (abstract)      what Chat takes as one step,
          refines                             looked at by itself:
    ClientBuffer                              the list functions, the client's
    Framing                                   commands, one read one packet
       |
    SharedListsProofs  ClientBufferProofs  FramingProofs  (RecursionLemmas)

### File transfer

* `Fragments`: the number of fragments, their size fields, how many bytes
  `fread` found for each (`deliver.c`, first half of `send_file`). Contents are
  reduced to "from the file" or "padding".
* `FileTransfer`: client, server and network. `SendFrag`, `Timeout`,
  `RecvAck(k)` are one turn of the client's loop; `ServerRecv(k)` is one turn of
  the server's, composed of `Skips` (lab3's ignored first datagram), `Flags`
  (what `fragRecv` holds, its last entry uninitialised), `Store` and
  `AckAndLoop`; `ServerFails(k)` its exits. `DropFirst` selects lab3 or lab2.
  The network holds a number of copies per fragment and per ACK, so any order of
  arrival is possible. lab2's `packet.h` does not compile (line 22), so lab2's
  loops are modelled over lab3's codec. `heard` and `hasty` are
  history variables: the highest fragment the server ever received, and whether a
  timer expired with the reply under way.
* `FragmentDelivery`: fragments are offered, taken and confirmed, in order, one
  outstanding at a time.
* `FileTransferProofs`: the proofs, section 5.

The comparison of an ACK (`AckTextMatches`) is where the codec matters: the name
has no terminator after `malloc` (`NameTerminated` says whether the heap happened
to supply one) and the text is cut to `packet.size` bytes.

### Chat

* `SessionList`: every function of `SessionList.h` as a function on a heap
  record, faithful to the pointers: `nextCoClient` is one field per client,
  sessions have `head` and `session_sz`, names are not unique, freed CoClients
  stay where they were. A function that goes wrong says how in `fault`: `segv`,
  `abort` (a second `free`), `hang` (a circular list), `undefined` (use of a freed
  `joinedSession` node, not followed further).
* `ChatNet`: the connections. A send to a closed peer is lost, and answered with
  a reset; a later one raises SIGPIPE; a peer closed with replies unread resets
  at once. One read is one packet.
* `ChatServer`: `ReceiveClient` of each connection (`thr` is its place in the
  code) and `main`'s accept. LOGIN, JOIN and NEW_SESS are two steps each (test,
  act), the exit path one per loop turn; the reply belongs to the step that ends
  the handler. The steps of different threads fall in any order. A thread that
  follows a circular list for ever is `stuck`, or `lost` if it was on its way out
  and has closed its socket.
* `ChatClient`: one run of `client.c` per connection. `Patient` users wait for a
  reply before typing again; nothing in the program makes them.
* `Chat`: composition, fairness and properties. The model ends when the server
  process does (`down`), so each property speaks of the time before. Three history
  variables record the races that threads get into (`Recorded`): `twins`, two LOGINs
  of one user past the test of `isLog`; `missed`, the threads whose session went
  while they were on the way into it; `strayed`, the connections that had messages
  because they have a descriptor whose last owner is still on a session's list. No
  action reads them.
* `ChatRooms`: what the lists promise: one room per client, enter only what is
  open, only the last to leave closes a room.
* `ChatMC`: symmetry of the connections, for runs without liveness.
* `SessionListProofs`, `ChatProofs`, `ChatSessionProofs`: what each function of
  `SessionList` keeps and changes, of any heap and of one that sequences describe;
  types and `isLog`; sessions, the lists, and who hears what.

### Chat, in smaller steps

`Chat` takes a list function, a command of the client and the reception of a
packet as one step each. None of the three is one in the code. Three modules
model what `Chat` makes one step, and say when that is right.

* `SharedLists`: the functions of `SessionList.h` with one step per turn of a loop
  and per store to shared memory, by threads that take the one lock where the
  code does (around `JoinSess` in JOIN, `Lock` to `Unlock`) and otherwise run as they
  like. The session list and
  a session's client list have the same shape and the same code, so that one set
  of actions (`AppendTo` ... `Store`) is both `CreateSess` and `JoinSess`; the
  counter's `++` is a load and a store. `BeginRead` starts a MESSAGE or a QUERY.
  A NULL or freed node that is followed ends the server (`fault`). Two history
  variables, which no action but the bound reads, record what the missing locks cost:
  `clashed`, once a NEW_SESS or LEAVE_SESS is inside the lists together with any
  other change; `stale`, the readers (JOIN's `FindSession`, MESSAGE, QUERY) that are
  inside together with one. A client's
  packets fit its own program's flag: it joins or creates when in no session,
  leaves when in one. Unlike `SessionList`, it leaves out the second `free` of EXIT,
  which ends the server at once (run `exits`).
* `Rosters`: the members of each session in order of arrival; joining and leaving
  at once. `SharedLists` refines it (`roster` is what the pointers lead to), which is
  what the one-step functions of `SessionList` rely on.
* `ClientBuffer`: `client.c` after a login, one step per access to `buf`: `Fgets`,
  `Strtok`, `Restore`, `Argument`, `Clear`, `Fill`, `Send` of the main thread, `Recv`,
  `RecvFails`, `Parse`, `Act` of the receiving one. A line (`Lines`) is its command,
  whether a name or more words follow, and whether blanks precede a text; a packet's
  data is as typed, with a blank more at its end, what is left of an indented text,
  or something else. `Restore` is line 357, which writes a blank where strtok may have
  put none. `Argument` is the command's name, with what comes of none: a usage line,
  or a copy from NULL. The server is what one client sees of it: `Joins`, which answers
  JN_ACK or NS_ACK whether or not `JoinSess` finds the session (`missed`); `Leaves`, which
  follows NULL if the client is in no session, may free the CoClient of an only
  member, and aborts when one is freed again; and `OtherEnds`, the server ended by
  another client.
* `Framing`: records as cells on the two byte streams of a connection; a `recv`
  returns any part of what is there, and the parser is given what came. The
  client's `packet` keeps its type when nothing is parsed, the server's is cleared.

* `ClientBufferProofs`, `FramingProofs`, `SharedListsProofs`: their proofs.
* `RecursionLemmas`: induction on the numbers with the property given as a set,
  that a function defined by recursion exists and where its values stay, and what
  follows of finite paths through pointers and of sequences put end to end. Both
  accounts of lists, `SharedListsProofs` and `SessionListProofs`, use it.

Definitions marked "Mutant of" (for example `RecvAckAny`) are plausible bugs. They
stand before what they would replace and no specification uses them;
`PROJECT.json` says which property each of them breaks.

## 3. Runs

Deadlock checking is off everywhere: both systems really stop (both programs of a
transfer end; users stop typing, or the server ends).

| run | shows | bounds and why they are enough |
|---|---|---|
| `transfer_safety` | lab2's server: types, confirmed => received, no fragment twice, the file is a prefix of the input and holds no padding, refinement of `FragmentDelivery`, the inductive invariant of the proofs | 3 fragments: a first, a middle and a short last one; `RetransMax` 3, 4 tries, 2 losses, 2 duplicates: stale ACKs of two fragments, a fragment resent and duplicated |
| `transfer_live` | lab3's server: confirmed => stored with two exceptions; the handshake is answered, the client ends, the server receives everything, the client finishes | as above; the tries are bounded far above what 2 losses and 2 duplicates cause |
| `lists` | list structure, one session per client, a member's program knows, `ChatRooms` | 2 clients, 2 session names, 3 commands each: create, leave, join or create again, duplicate names; threads interleaved |
| `races` | `isLog` exact, acknowledged => member, login reads only replies, a broadcast reaches the members exactly, each but for what one recorded race does | 2 connections, for one user or two, 3 commands each; threads interleaved at every step; clients may die at any point. All three races occur; a broadcast that strays to a connection still in login takes a third one, and is left to the theorem `LoginHearsReply` |
| `live` | requests answered, ends noticed | fairness below; clients may die |
| `list_race` | counters, broadcasts, `Rosters` and termination while threads are inside the list functions together, until two changes clash; what can go wrong before is a reader | 3 threads, 4 packets, 2 session cells: create and two who join beside a reader, a leaver beside a reader, a list that empties and fills again. No packet is read after a clash (`MaxLate = 0`) |
| `both_threads` | what the shared buffer costs, and what it does not when the user waits | 5 lines (create, leave, create, leave, another: a CoClient freed twice), 2 once disturbed, and one message of somebody else |
| `short_reads` | order under any cutting of the streams; nothing passed over with whole reads, or with a user who waits | 5 requests: two joins, with everything between them |
| `acked` `twologins` `exits` `unlocked` | findings | the least number of clients and commands that shows each |

**Findings.** Each quotes the line it contradicts in `PROJECT.json`:

* `acked`: lab3's server acknowledges its first fragment datagram without storing
  it, so the file begins with the second fragment unless the first was sent twice.
* `twologins`: LOGIN tests `isLog` and sets it without a lock.
* `exits`: one client creates a session and logs out; the server aborts.
* `unlocked`: the lock is around `JoinSess` in JOIN only. The first JOIN takes the
  head of a list that is still empty, the first session is created and counted,
  and JOIN's `FindSession` follows the NULL.

`acked` and `exits` were also seen by running the compiled programs: a 1500-byte
file arrives as its last 500 bytes, and `/createsession s`, `/logout` ends the chat
server with `free(): double free detected`. A one-fragment file makes lab3's
server crash in `fclose` while the client reports success, which
`ConfirmedWasReceived` allows for (`spc = "crashed"`).

What holds in `lists` and `races` holds without a lock because list functions are
single steps there; `SharedLists` says what that takes. In `races` threads interleave
freely, and each property sets apart what one race does and nothing more:

* `IsLogExact` holds until two LOGINs of one user are between the test and the setting
  of `isLog` (`twins`; `twologins` shows what follows). Whatever happens between
  one LOGIN's two halves, or while a thread leaves, does no harm.
* `AckedIsMember` sets apart the client itself if its session went between its thread's
  check (or its `CreateSess`) and its `JoinSess` (`missed`): JN_ACK was made up before.
* `MembersHear` and `LoginReadsReply` set apart a connection that was given a
  descriptor which a leaver has closed and which still is on a session's list
  (`Reissued`, `strayed`). A broadcast in between goes there; everybody else hears what
  they should. A broadcast that finds the descriptor closed ends the server.

A message goes to the members of every session, not the sender's only (`Visited`),
and `MembersHear` says so.

`lists` needs `Patient`: a user who types `/createsession` twice before the first
answer is counted twice in `session_sz`, since `CreateSess` and `JoinSess` append a
client that is in a list already.

### Side conditions

Some properties hold only with a condition, which they state:

* Transfer: `NothingPadded`, that the length is no multiple of the fragment size (such
  a file gets a last fragment of NULs); `ClientFinishes`, that the file is no shorter
  than the text "ACK" and the heap ends the file name (`AcksReadable`), for otherwise
  no ACK need ever compare equal; `ServerGetsAll` and `ClientFinishes`, that no timer
  expired with the reply under way (`hasty`), which lab3's 1 us timer does not ensure.
* `SharedLists`: that no two changes have clashed, which two users can bring about at
  any time: NEW_SESS and LEAVE_SESS take no lock. After that a pointer may be lost, a
  counter wrong, a node freed under a walk, and nothing is claimed.
* `ClientBuffer`: a user who waits for each answer while nobody else speaks
  (`~disturbed`). The properties name what goes wrong even then: a command without
  its name (client.c 86, 267), the blank of line 357 ("hello" is sent as "hello "), and
  what follows from a JN_ACK for a joining that failed. `AnswerComes` lets the server
  end, for it does when that user, alone, creates and leaves twice.

### Bounds

`MaxTries`, `MaxLoss`, `MaxDup` (FileTransfer) bound attempts past `RetransMax`,
losses and repetitions. `MaxCmds` bounds what a user types after login. Fragment
and ACK text sizes are 4 instead of 1000 bytes and 4: what matters is whether a
fragment is full, and whether it is shorter than the ACK text.

`MaxOps`, and with it `Sessions` (cells are not used again after `free`), bound
`SharedLists`; one session name is enough for what `FindSession` can mistake. A
CoClient freed with its session does nothing more: what its thread would read is
undefined. The walks to an index that `FindSession` returned (`Enter`, `Look`, `Drop`)
and the frees of `DestroySession` are one step; until a clash nobody changes what
they walk over. `MaxLate` bounds the packets read once two changes have clashed.
`MaxCmds` (`MaxLate` once disturbed) and `MaxOthers` bound `ClientBuffer`, whose texts
hold no three colons; `MaxRecords` bounds `Framing`, whose records have four cells (the
start and the rest of the header, data without a colon, padding): where a cut
falls within one of them makes no difference to the parser.

## 4. Fairness

* FileTransfer: weak fairness of the client's send, timeout and reception, of
  the server's loop, and of each side's turn in the handshake. Both are loops the
  scheduler runs; `SO_RCVTIMEO` expires; a datagram that is in flight and never
  lost arrives. Nothing is assumed of
  losses (bounded): a greeting that is lost is not sent again, and
  `HandshakeAnswered` excludes it.
* Chat: weak fairness of each server thread, of accept, and of the client's
  receptions: they wait only for input and the mutex. Users need not type.
* SharedLists: weak fairness of each thread's steps inside a function. It suffices
  for the mutex, which is asked for at most `MaxOps` times by each.
* ClientBuffer: weak fairness of the main thread's steps after `fgets`, of the
  receiving thread, and of the server; nobody needs to type or speak.
* Framing: weak fairness of the two `recv`s; how much each returns is left open.

## 5. Proofs

All theorems hold for every value of the constants the modules' assumptions allow.
None of the safety properties is inductive alone; each proof has an inductive
invariant, one lemma per operation, and under it one step per conjunct the
operation can disturb.

| module | theorem | states |
|---|---|---|
| `FileTransferProofs` | `TypeCorrect`, `Confirmed`, `StoredOnce`, `ConfirmedStored`, `InOrder`, `Unpadded`, `Refinement` | `TypeOK`, `ConfirmedWasReceived`, `StoredAtMostOnce`, `ConfirmedIsStored`, `FileIsPrefix`, `NothingPadded`, `ImplementsDelivery` |
| `ChatProofs` | `TypeCorrect`, `IsLogCorrect`, `FlagIsNotLeftBehind` | `TypeOK`, `IsLogExact`, `isLog` only of a user somebody is logged in as |
| `ChatSessionProofs` | `OneClientOneSession`, `MemberIsTold`, `AckIsTrue` | `OneSession`, `MemberKnows`, `AckedIsMember`, all if `Patient` |
| | `CounterIsTrue`, `ListsAgree`, `ListsAreRooms` | `SizeIsNodes`, `MembershipAgrees`, `ImplementsRooms`, all if `Patient` |
| | `LoginHearsReply`, `MessageReachesMembers` | `LoginReadsReply`, `MembersHear`, both if `Patient` |
| `ClientBufferProofs` | `TypeCorrect`, `NoDamage`, `SentIsTyped`, `FlagIsTrue` | `TypeOK`, `Undamaged`, `SentAsTyped`, `InsessionTrue` |
| `FramingProofs` | `TypeCorrect`, `NothingOutOfOrder`, `WholeReadsAreEnough`, `NothingSkipped` | `TypeOK`, `OrderKept`, `WholeReadsSuffice`, `NoneSkipped` |
| `SharedListsProofs` | `TypeCorrect`, `CountersRight`, `OverrunsAreReaders`, `MembersAreSeen`, `JoinsAndLeavesAreAtomic` | `TypeOK`, `CountersAgree`, `OnlyReadersOverrun`, `EveryMemberSeen`, `ImplementsRosters`; types until two changes clash |

`Patient` is the only hypothesis, a user's habit that the `lists` run shows to be met;
section 3 says what happens without it. No theorem restricts how threads are
scheduled: the races are in the behaviours, and the properties say what holds beside
them.

**File transfer** (`SizesAssumption`, `TransferAssumption`). `FlightInv` ties the
datagrams in flight to the two sides' progress (an ACK in flight is of something
received; a fragment in flight is not past the one being sent; client and server
are at most one fragment apart); `LoopInv` says what the server's place implies;
`FlagInv` that flags and file agree up to the uninitialised last flag; `KeptInv`
that everything with an ACK was kept or is one of the exceptions; `PrefixInv` that
a server that keeps everything has stored exactly what it received.

**Chat** (`NamesAssumption`, `PointerAssumption`, `ServerAssumption`,
`ClientAssumption`).

* *Types.* `TypeOK` says little of what passes between the programs, so
  `TypeInv` adds what is in the queues (a LOGIN carries a user or a name the
  server does not know, a JOIN a session), the descriptors, and that the heap's
  pointers lead to connections. `SessionListProofs` shows of every list function
  that it stays within this, whatever the heap looks like.
* *isLog.* `Flags`: a flag is set only for the `source` of a thread that has not
  ended, and the CoClient of a thread with a `source` has that name unless it was
  freed. `OneLogin`, until `twins`: what a LOGIN has found unset stays unset until it
  sets it, every thread with a `source` has its flag set, and no two have the same
  `source`. A CoClient's name is another's only if it was freed, and then the
  second `free` of its exit ends the server before a wrong flag could be seen.
* *Sessions.* `Good(c)` is `Wiring`, `Turns`, `Member` and `Truth`. `Turns`: of a
  patient user's request, its handling and its answer there is one at a time, and
  while there is one the user waits. `Member`: a client is on one private list at
  most, one that asks to enter a session is in none or has a LEAVE_SESS on the way, and
  a member's program says so unless that or an acknowledgement is under way. `Truth`, unless
  c is `missed`: what makes the program believe it is in a session (an acknowledgement,
  or `insession`), or a LEAVE_SESS it has sent, is there only while its
  `joinedSession` list is not empty. `Found(c)`: the session a thread has
  checked for is there when it joins, or c is `missed`. Most of the work is that the steps of *other*
  threads keep all this: they add broadcasts to c's queue and may reset its
  connection, no more (`Foreign`).
* *Lists* (`ListsInv`, for patient users). `Listed` and `Housed` say that the heap's
  pointers are those of some sequences: one of clients for each session, one of
  sessions for each client, nobody on two, and of several sessions of one name only
  the first has members. This has to be carried
  along: `LeaveSess` looks for a name, and takes the client out of the session
  it is in only because no other one before it has the name. `SessionListProofs`
  shows what `CreateSess`, `JoinSess`, `LeaveSess` and `DestroyCoclient` do to the
  sequences. It follows that no list becomes circular, so every thread stays `Active`,
  and that `session_sz`, which ends every loop, is right. For the refinement each
  step that touches the lists is one move of a room (`RoomMove`): with the one just
  created, with the first of the name, or out of the one the client is in, which
  closes if it was the last.
* *Who hears what* (`HearInv`). `Fds`: no two open connections have the same
  descriptor. `Door(c)`: whose LOGIN is not answered has sent nothing else, and is in
  no session. So a broadcast, which goes to the descriptors of members, goes to
  connections past their login (`Unheard`), but for one that has the number of a
  leaver who still is on a list: that one is `Reissued`, and `strayed` once it was sent to. The broadcast itself is a fold over the sessions
  and, in each, over its members; it is shown to send once on each descriptor,
  since the sequences repeat no client.

**ClientBuffer** (`BufferAssumption`). Until something has disturbed it (somebody
else's message, an unwaited answer), the client is at one place of a round:
waiting, working on a command, having asked, having been told, having left, or left
alone by a server that has ended (`Deaf`). `InStep` says what the server has the client
in whenever a round is over. The properties follow from there being no overlap.

**Framing** (`FramingAssumption`). `OrderInv`: the place of a cell in a stream tells
its record and part, so that what has been acted on is known from what is unread.
`WholeInv` and `SkipInv` add, for whole reads and for a user who waits, what the
streams can hold at all. `SkipInv` needs the client's stale `packet`: what a
remainder of one or two cells makes it do a second time changes nothing.

**SharedLists** (`SharedAssumption`). The invariant is `clashed \/ IInv`: nothing is
claimed once two changes have clashed, and until then `IInv` is `AllInv` and `Races`.
`Races` is what the histories are for: beside a thread in NEW_SESS or LEAVE_SESS there
is no other that changes anything, and who reads is `stale`. `AllInv` describes the
pointers by the sequences they lead to (`Chains`, `Path`):

* `ListInv`: sessions on the one, threads on the others, nobody twice, no client in two
  sessions; of several sessions of one name only the first has members. This last
  is why `LeaveSess`, which looks for the name, finds the session the client is in.
* `CountInv`: `CountersAgree` itself.
* `Turn`: the lock is held in JOIN, and nowhere else.
* `Home`: a client's own list names the session it is in, but on the way in or out.
* `Place`: what each statement knows: how far a search has come and that it has
  passed no such name, which node a walk is at, which list is one longer than its
  counter, where a reader is that is not `stale`. Of a stale reader it keeps only that
  its locals are nodes or NULL, and of JOIN's `FindSession`, whose result is not used,
  that it returns. A reader at the NULL behind a last client may find
  another linked there; the members it owes a visit are before that place.

`Reads` (a NULL or a freed node ends the server) is then never taken but by a
reader, a stale one or one at the NULL behind a list that has grown. For the refinement, each step leaves `Chains` alone, or links one
thread at an end, or unlinks one; for `EveryMemberSeen`, `SeenInv` says that a
reader has visited, once each, the owed members of the sessions before the one it
is at and of that one up to its place.

`Nth`, which follows pointers, is recursive. Of it is proved only what the above
needs: along a finite path it gives the nodes of the path and after them NULL. The library's
induction theorems take an operator as a parameter and cannot be instantiated
here; those that take a set or a relation can, and `RecursionLemmas` derives from
them what is needed.

**Only model-checked.** Liveness (`HandshakeAnswered`, `ClientStops`,
`ServerGetsAll`, `ClientFinishes`, `Answered`, `EndsNoticed`, `HandlersEnd`,
`AnswerComes`, `StreamsDrain`), which is out of the prover's reach. Every other
property of a run that passes is stated by a theorem (`TypeOK` of `SharedLists` after
a clash is not); what `lists` and `races` add to it is that `Patient` is met, and that
what is said beside the races is of behaviours in which they happen.

## 6. Not modelled

* lab1's programs: one datagram each way and both end. The same handshake, where
  something depends on it, is part of FileTransfer. The Makefiles; `GetList`
  (never called); lab2's codec (does not compile).
* The text form of packets and its lengths: numbers parsed from unterminated
  copies, names that overflow a buffer, the 512 bytes of QU_ACK.
* Full socket buffers, a refused connection, the end of the client's standard
  input, and the end of the server as a client sees it.
* The search for a free output file name, but for its failure; a repeated greeting
  that the server of lab2 or lab3 would take for a fragment.
* The login in `ClientBuffer`, which begins after it (it is in `ChatClient`), and
  reads cut short in `Chat` itself.

## 7. Plan

1. (done) FileTransfer, its refinement and proofs; the chat with handler-grained
   interleaving.
2. (done) The chat in smaller steps: SharedLists and Rosters, ClientBuffer, Framing;
   the handshake's liveness.
3. (done) Proofs about ClientBuffer, Framing and SharedLists; of Chat the types, the
   flag `isLog`, and what client and server agree on.
4. (done) Chat's lists described by sequences, and what follows: counters, agreement,
   the refinement of `ChatRooms`, and who hears a message.
5. `FileName`: the "(2)" loop of the file transfer server.
6. (done) The races in the open: the chat's and the lists' properties under any
   scheduling, with histories instead of restrictions on threads.
7. The chat with users who do not wait: which of the lists' properties remain.

Proving `Fds` corrected the model: a thread that loops for ever in the `LeaveSess`
of its exit has closed its socket, and had kept its descriptor in an earlier
`ChatServer`. Without `Patient` that happens, and the number is given out again.
