-------------------------- MODULE MCSnapshotStore --------------------------
(***************************************************************************)
(* SnapshotStore with two nodes that both believe they run the actors.     *)
(***************************************************************************)
EXTENDS SnapshotStore

CONSTANTS a1, a2, n1, n2

TwoActors == {a1, a2}
OneNode == {n1}
TwoNodes == {n1, n2}
(* One actor may run on both nodes at once, the other shares its batches.   *)
OneIsMoved == [a \in TwoActors |-> IF a = a1 THEN TwoNodes ELSE OneNode]
TwoAndOne == [a \in TwoActors |-> IF a = a1 THEN 2 ELSE 1]

BothBackends == {"mongo", "postgres"}
=============================================================================
