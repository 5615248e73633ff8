------------------------------- MODULE ChatNet -------------------------------
(***************************************************************************)
(* The TCP connections between lab4's client programs and its server, as   *)
(* the two see them: a queue of packets each way and how far the client's  *)
(* end has been closed.  A read returns one whole packet.                  *)
(***************************************************************************)
EXTENDS ChatNames, Sequences, SequencesExt

VARIABLES
    link,   \* "none", "open"; "fin": the client closed; "finrst": and a later
            \* send of the server was answered with a reset; "rst": it closed
            \* with replies unread, which resets the connection at once
    c2s,    \* packets the server has not read
    s2c     \* packets the client has not read

net == <<link, c2s, s2c>>

NetInit ==
    /\ link = [c \in Conns |-> "none"]
    /\ c2s = [c \in Conns |-> <<>>] /\ s2c = [c \in Conns |-> <<>>]

\* send() of m by the server on one connection, in a record of link, s2c and
\* the fate of the sender so far.  A reset takes a round trip: prompt holds the
\* connections whose reset has arrived.
SendOn(w, d, m, prompt) ==
    IF w.fate # "ok" THEN w
    ELSE CASE w.link[d] = "open" -> [w EXCEPT !.s2c[d] = Append(@, m)]
           [] w.link[d] = "fin" ->
                IF d \in prompt THEN [w EXCEPT !.link[d] = "finrst"] ELSE w
           [] w.link[d] = "rst" ->
                IF d \in prompt
                THEN [w EXCEPT !.link[d] = "finrst", !.fate = "error"] ELSE w
           [] OTHER -> [w EXCEPT !.fate = "sigpipe"]

Unsent == [link |-> link, s2c |-> s2c, fate |-> "ok"]

\* The same on a sequence of connections, as far as the sender gets.
Sent(to, m, prompt) ==
    LET w[n \in 0..Len(to)] ==
            IF n = 0 THEN Unsent ELSE SendOn(w[n - 1], to[n], m, prompt)
    IN  w[Len(to)]

Resettable == {d \in Conns : link[d] \in {"fin", "rst"}}

=============================================================================
