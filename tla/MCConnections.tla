--------------------------- MODULE MCConnections ---------------------------
(***************************************************************************)
(* Instances of Connections: one person and the others that person meets.  *)
(***************************************************************************)
EXTENDS Connections, TLC

CONSTANTS hub, Others

Everyone == Others \cup {hub}
HubPairs == {{hub, v} : v \in Others}

\* The hub holds a Free Pass; the passes of the others have just run out, so that
\* only the hub's acceptances are counted.
HubFree == [u \in Everyone |-> IF u = hub THEN "FREE" ELSE "NONE"]
HubChanges == {hub}

\* Both plans may have one connection open; Elite may accept two in all.
TightOpen == [p \in Plans |-> 1]
TightAccepted == [p \in Plans |-> IF p = "FREE" THEN 1 ELSE 2]

Interchangeable == Permutations(Others) \cup Permutations(Workers)
=============================================================================
