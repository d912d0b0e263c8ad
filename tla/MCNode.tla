------------------------------- MODULE MCNode -------------------------------
(***************************************************************************)
(* Node with one or two actors and partitions of up to six records.        *)
(***************************************************************************)
EXTENDS Node

CONSTANTS a1, a2

OneActor == {a1}
TwoActors == {a1, a2}

To(a, o, kind) == [actor |-> a, id |-> o, kind |-> kind]

(* All records for one actor.                                              *)
OneByOne == [o \in Offsets |-> To(a1, o, "handled")]

(* The actors' records alternate.                                          *)
Alternating == [o \in Offsets |-> To(IF o % 2 = 1 THEN a1 ELSE a2, o, "handled")]

(* Records that meet the branches a handled record does not.               *)
Mixed == 1 :> To(a1, 1, "unstartable") @@ 2 :> To(a1, 2, "handled")
         @@ 3 :> To(a1, 3, "unknown") @@ 4 :> To(a1, 4, "panics")
         @@ 5 :> To(a1, 5, "undecodable")
=============================================================================
