------------------------------ MODULE MCPasses ------------------------------
(***************************************************************************)
(* Instances of Passes: one person whose posts and rooms are all for the   *)
(* same car+city.                                                          *)
(***************************************************************************)
EXTENDS Passes

\* One person who may close a post and write the same car+city again.
SameScopeOwner == [i \in Posts |-> "asha"]
SameScopeScope == [x \in Posts \cup Collectives |-> "creta"]
=============================================================================
