------------------------------ MODULE ChatClient ------------------------------
(***************************************************************************)
(* lab4/client.c: one run of the program from /login on, per connection.   *)
(* The main thread turns what the user types into packets; a second thread *)
(* receives the replies and keeps the flag insession.  A user whose login  *)
(* was refused may try again: that is another connection.                  *)
(***************************************************************************)
EXTENDS ChatNet, Naturals

CONSTANTS
    Patient,    \* the user waits for the reply to /joinsession,
                \* /createsession and /list before typing again
    Kills,      \* clients may die without /logout
    MaxCmds     \* bound: what one user types after /login

ASSUME ClientAssumption ==
    Patient \in BOOLEAN /\ Kills \in BOOLEAN /\ MaxCmds \in Nat

VARIABLES
    ui,         \* "off", "login" (waiting in login's recv), "on", "out"
    insession,
    awaiting,   \* a reply is due (only a patient user looks at it)
    cmds        \* what was typed of MaxCmds

clients == <<ui, insession, awaiting, cmds>>

ClientInit ==
    /\ ui = [c \in Conns |-> "off"]
    /\ insession = [c \in Conns |-> FALSE]
    /\ awaiting = [c \in Conns |-> FALSE]
    /\ cmds = [c \in Conns |-> 0]

-----------------------------------------------------------------------------
Sends(c, type, arg) ==
    c2s' = [c2s EXCEPT ![c] = Append(@, [type |-> type, arg |-> arg])]

\* close() with unread packets resets the connection.
Closes(c, unread) ==
    /\ link' = [link EXCEPT ![c] = IF unread = <<>> THEN "fin" ELSE "rst"]
    /\ s2c' = [s2c EXCEPT ![c] = <<>>]

Types(c) ==
    /\ ui[c] = "on" /\ cmds[c] < MaxCmds /\ (Patient => ~awaiting[c])
    /\ cmds' = [cmds EXCEPT ![c] = @ + 1]
    /\ UNCHANGED <<ui, link, s2c>>

\* login: connect and send; u is NoName for a name and password not on file.
LoginCmd(c) ==
    /\ ui[c] = "off"
    /\ ui' = [ui EXCEPT ![c] = "login"]
    /\ link' = [link EXCEPT ![c] = "open"]
    /\ \E u \in Users \cup {NoName} : Sends(c, "LOGIN", u)
    /\ UNCHANGED <<insession, awaiting, cmds, s2c>>

\* Anything but LO_ACK ends the attempt, whatever it is.
LoginReply(c) ==
    /\ ui[c] = "login" /\ s2c[c] # <<>>
    /\ IF Head(s2c[c]) = "LO_ACK"
       THEN /\ ui' = [ui EXCEPT ![c] = "on"]
            /\ s2c' = [s2c EXCEPT ![c] = Tail(@)]
            /\ UNCHANGED link
       ELSE ui' = [ui EXCEPT ![c] = "out"] /\ Closes(c, Tail(s2c[c]))
    /\ UNCHANGED <<insession, awaiting, cmds, c2s>>

JoinCmd(c) ==
    /\ Types(c) /\ ~insession[c]
    /\ \E s \in SessIds : Sends(c, "JOIN", s)
    /\ awaiting' = [awaiting EXCEPT ![c] = TRUE]
    /\ UNCHANGED insession

\* Mutant of CreateCmd: insession is not looked at.
CreateAnother(c) ==
    /\ Types(c)
    /\ \E s \in SessIds : Sends(c, "NEW_SESS", s)
    /\ awaiting' = [awaiting EXCEPT ![c] = TRUE]
    /\ UNCHANGED insession

CreateCmd(c) ==
    /\ Types(c) /\ ~insession[c]
    /\ \E s \in SessIds : Sends(c, "NEW_SESS", s)
    /\ awaiting' = [awaiting EXCEPT ![c] = TRUE]
    /\ UNCHANGED insession

LeaveCmd(c) ==
    /\ Types(c) /\ insession[c]
    /\ Sends(c, "LEAVE_SESS", NoName)
    /\ insession' = [insession EXCEPT ![c] = FALSE]
    /\ UNCHANGED awaiting

ListCmd(c) ==
    /\ Types(c)
    /\ Sends(c, "QUERY", NoName)
    /\ awaiting' = [awaiting EXCEPT ![c] = TRUE]
    /\ UNCHANGED insession

SendText(c) ==
    /\ Types(c) /\ insession[c]
    /\ Sends(c, "MESSAGE", NoName)
    /\ UNCHANGED <<awaiting, insession>>

\* /logout and /quit: no waiting, and the program ends.
LogoutCmd(c) ==
    /\ ui[c] = "on" /\ (Patient => ~awaiting[c])
    /\ ui' = [ui EXCEPT ![c] = "out"]
    /\ insession' = [insession EXCEPT ![c] = FALSE]
    /\ Sends(c, "EXIT", NoName) /\ Closes(c, s2c[c])
    /\ UNCHANGED <<awaiting, cmds>>

Kill(c) ==
    /\ Kills /\ ui[c] \in {"login", "on"}
    /\ ui' = [ui EXCEPT ![c] = "out"]
    /\ Closes(c, s2c[c])
    /\ UNCHANGED <<insession, awaiting, cmds, c2s>>

\* Mutant of Receive: NS_ACK does not set insession.
ReceiveNoCreate(c) ==
    LET type == Head(s2c[c])
    IN  /\ ui[c] = "on" /\ s2c[c] # <<>>
        /\ s2c' = [s2c EXCEPT ![c] = Tail(@)]
        /\ insession' = [insession EXCEPT ![c] =
               type # "JN_NAK" /\ (@ \/ type = "JN_ACK")]
        /\ awaiting' = [awaiting EXCEPT ![c] =
               @ /\ type \notin {"JN_ACK", "JN_NAK", "NS_ACK", "QU_ACK"}]
        /\ UNCHANGED <<ui, cmds, link, c2s>>

\* The receiving thread.
Receive(c) ==
    LET type == Head(s2c[c])
    IN  /\ ui[c] = "on" /\ s2c[c] # <<>>
        /\ s2c' = [s2c EXCEPT ![c] = Tail(@)]
        /\ insession' = [insession EXCEPT ![c] =
               IF type \in {"JN_ACK", "NS_ACK"} THEN TRUE
               ELSE IF type = "JN_NAK" THEN FALSE ELSE @]
        /\ awaiting' = [awaiting EXCEPT ![c] =
               @ /\ type \notin {"JN_ACK", "JN_NAK", "NS_ACK", "QU_ACK"}]
        /\ UNCHANGED <<ui, cmds, link, c2s>>

ClientStep(c) ==
    \/ LoginCmd(c) \/ LoginReply(c) \/ JoinCmd(c) \/ CreateCmd(c)
    \/ LeaveCmd(c) \/ ListCmd(c) \/ SendText(c) \/ LogoutCmd(c)
    \/ Kill(c) \/ Receive(c)

=============================================================================
