------------------------------- MODULE Rosters -------------------------------
(***************************************************************************)
(* What lab4's session list is to those who use it: each session has its   *)
(* members in the order in which they came, a client is on one roster, and *)
(* joining and leaving happen at once.                                     *)
(***************************************************************************)
EXTENDS Sequences, SequencesExt

CONSTANTS Sessions, Clients

VARIABLE roster     \* the members of each session

Init == roster = [s \in Sessions |-> <<>>]

Enter(s, c) ==
    /\ \A t \in Sessions : ~Contains(roster[t], c)
    /\ roster' = [roster EXCEPT ![s] = Append(@, c)]

Depart(s, c) ==
    \E i \in DOMAIN roster[s] :
        /\ roster[s][i] = c
        /\ roster' = [roster EXCEPT ![s] = RemoveAt(@, i)]

\* The first conjunct follows from the rest; it lets TLC skip the search in the
\* many steps of an implementation that change no roster.
Next ==
    /\ roster' # roster
    /\ \E s \in Sessions, c \in Clients : Enter(s, c) \/ Depart(s, c)

Spec == Init /\ [][Next]_roster

=============================================================================
