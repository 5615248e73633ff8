------------------------------ MODULE ChatRooms ------------------------------
(***************************************************************************)
(* What lab4's session list promises, without lists: each client is in one *)
(* room or in none, a room can be entered only while it is open, and it is *)
(* closed by nobody but the last one to leave it.                          *)
(***************************************************************************)
CONSTANTS Clients, Rooms, Nowhere

VARIABLES
    room,   \* the room each client is in
    open    \* the rooms that can be entered

rooms == <<room, open>>

Init == room = [c \in Clients |-> Nowhere] /\ open = {}

Open(s) == open' = open \cup {s} /\ UNCHANGED room

Enter(c, s) ==
    /\ room[c] = Nowhere /\ s \in open
    /\ room' = [room EXCEPT ![c] = s]
    /\ UNCHANGED open

\* A room that was opened twice is open still after it was closed once.
Depart(c) ==
    /\ room[c] # Nowhere
    /\ room' = [room EXCEPT ![c] = Nowhere]
    /\ \/ UNCHANGED open
       \/ open' = open \ {room[c]} /\ \A d \in Clients \ {c} : room[d] # room[c]

Next ==
    \/ \E s \in Rooms : Open(s)
    \/ \E c \in Clients, s \in Rooms : Enter(c, s)
    \/ \E c \in Clients : Depart(c)

Spec == Init /\ [][Next]_rooms

=============================================================================
