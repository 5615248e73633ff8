--------------------------- MODULE FragmentDelivery ---------------------------
(***************************************************************************)
(* What stop-and-wait promises, with no datagrams, timers or retries: the  *)
(* fragments 1..Count are offered, taken and confirmed one at a time, each *)
(* confirmed only after it was taken and offered only after the previous   *)
(* one was confirmed.                                                      *)
(***************************************************************************)
EXTENDS Naturals

CONSTANT Count          \* number of fragments of the transfer

VARIABLES
    offered,            \* fragments 1..offered have been put on the wire
    taken,              \* fragments 1..taken have reached the receiver
    confirmed           \* fragments 1..confirmed are acknowledged

dvars == <<offered, taken, confirmed>>

Init == offered = 0 /\ taken = 0 /\ confirmed = 0

Offer ==
    /\ offered = confirmed
    /\ offered < Count
    /\ offered' = offered + 1
    /\ UNCHANGED <<taken, confirmed>>

Take ==
    /\ taken < offered
    /\ taken' = taken + 1
    /\ UNCHANGED <<offered, confirmed>>

Confirm ==
    /\ confirmed < taken
    /\ confirmed' = confirmed + 1
    /\ UNCHANGED <<offered, taken>>

Next == Offer \/ Take \/ Confirm

Spec == Init /\ [][Next]_dvars
=============================================================================
