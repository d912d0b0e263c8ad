----------------------------- MODULE MCInflight -----------------------------
(***************************************************************************)
(* Inflight on a small log with a hole in it, two actors and a window that *)
(* is shorter than the log.                                                *)
(***************************************************************************)
EXTENDS Inflight, TLC

CONSTANTS a1, a2

MCActors == {a1, a2}

MCOffsets == {1, 2, 3, 5, 6}

(* Records of both actors, interleaved, on both sides of the hole.         *)
MCOwner == (1 :> a1 @@ 2 :> a2 @@ 3 :> a1 @@ 5 :> a1 @@ 6 :> a2)
=============================================================================
