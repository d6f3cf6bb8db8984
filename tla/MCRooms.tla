------------------------------ MODULE MCRooms ------------------------------
(***************************************************************************)
(* A room for TLC.                                                         *)
(***************************************************************************)
EXTENDS Rooms

\* Every kind of poll but the one that has the most states.
MostKinds == {<<FALSE, FALSE>>, <<FALSE, TRUE>>, <<TRUE, FALSE>>}

\* All screens are one voter's, who may leave.
OneVoter(s) == CHOOSE u \in Voters : TRUE
=============================================================================
