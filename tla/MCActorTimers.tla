--------------------------- MODULE MCActorTimers ---------------------------
(***************************************************************************)
(* ActorTimers with a few keys, and the heap alone with more entries than  *)
(* the actor has there.                                                    *)
(***************************************************************************)
EXTENDS ActorTimers, Functions

CONSTANTS k1, k2, k3

ThreeKeys == {k1, k2, k3}

(***************************************************************************)
(* The heap with the code's four children and ten entries, the least that  *)
(* has an entry that moves up when it fills the gap another one left: for  *)
(* every choice of two deadlines it is a heap, and stays one when any      *)
(* entry is removed or gets another deadline.                              *)
(***************************************************************************)
Quad == INSTANCE QuadHeap WITH Arity <- 4, MaxSequence <- 12

Filled(whens) ==
  FoldFunction(LAMBDA w, h : Quad!Insert(h, Len(h.items) + 1, w),
               EmptyHeap, whens)

ASSUME HeapOfTen ==
  \A whens \in [1 .. 10 -> {0, 2}] :
    LET h == Filled(whens)
    IN  /\ Quad!HeapOK(h)
        /\ \A key \in 1 .. 10 : /\ Quad!HeapOK(Quad!Remove(h, key))
                                /\ \A w \in {0, 1, 2} : Quad!HeapOK(Quad!Upsert(h, key, w))
=============================================================================
