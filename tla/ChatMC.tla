-------------------------------- MODULE ChatMC --------------------------------
(***************************************************************************)
(* Chat for TLC: connections are interchangeable in the runs without       *)
(* liveness properties.                                                    *)
(***************************************************************************)
EXTENDS Chat, TLC

ConnSymmetry == Permutations(Conns)

=============================================================================
