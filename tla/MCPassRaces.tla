---------------------------- MODULE MCPassRaces ----------------------------
(***************************************************************************)
(* Instances of PassRaces: one person (the handlers of two people touch    *)
(* disjoint rows) and two overlapping handlers.                            *)
(***************************************************************************)
EXTENDS PassRaces, TLC

OnePersonOwner == [i \in Posts |-> "asha"]

\* A post and a collective for each of two car+cities.
TwoScopesScope == [x \in Posts \cup Collectives |->
                     IF x \in {"post1", "room1"} THEN "creta" ELSE "nexon"]

\* Everything for the same car+city: the person closes a post and writes it again.
SameScopeScope == [x \in Posts \cup Collectives |-> "creta"]

WorkerSymmetry == Permutations(Workers)
=============================================================================
