------------------------------ MODULE ChatNames ------------------------------
(***************************************************************************)
(* The names lab4's chat is about.                                         *)
(***************************************************************************)
EXTENDS FiniteSets

CONSTANTS
    Conns,      \* the connections that may be made, each with its CoClient
    SessIds,    \* session names
    Users,      \* the names in UserData.txt, each with its right password
    NoName      \* any other text where a name is expected

ASSUME NamesAssumption ==
    IsFiniteSet(Conns) /\ NoName \notin Users /\ NoName \notin SessIds

=============================================================================
