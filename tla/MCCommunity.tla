---------------------------- MODULE MCCommunity ----------------------------
(* Everything around the rooms, for TLC. *)
EXTENDS Community, TLC

\* Two months that can be planned in, and one more, which begins while people are at it.
Days == <<30, 28, 31>>

\* The two of Pair differ in nothing, wherever they are used, and neither do the two ids.
Symm == Permutations(Pair) \cup Permutations(Things)
=============================================================================
