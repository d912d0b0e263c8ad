----------------------------- MODULE FencedStore -----------------------------
(***************************************************************************)
(* What the snapshot store promises: one content per actor, guarded by a   *)
(* fence.  Only an activation of the actor that holds the present fence    *)
(* replaces the content, and whoever moves the fence is its only holder.   *)
(* (The first fence, of an actor that has no content yet, may have several *)
(* holders: that is the gap of this promise.)                              *)
(***************************************************************************)
EXTENDS Integers

CONSTANTS Actors

VARIABLES fence,    \* the fence of each actor
          holders,  \* the activations that hold it
          content   \* what is stored; author is the activation that wrote it

vars == <<fence, holders, content>>

Init ==
  /\ fence = [a \in Actors |-> 0]
  /\ holders = [a \in Actors |-> {}]
  /\ content = [a \in Actors |-> [author |-> 0, state |-> {}]]

Empty(a) == content[a].author = 0

(* An activation of an actor that has no content shares the first fence.   *)
Join(a) ==
  /\ Empty(a)
  /\ fence[a] = 0
  /\ holders[a] \subseteq holders'[a]
  /\ \A b \in Actors \ {a} : holders'[b] = holders[b]
  /\ UNCHANGED <<fence, content>>

(* Moving the fence shuts out all who held it; the new holder may be lost. *)
Advance(a) ==
  /\ ~ Empty(a)
  /\ fence' = [fence EXCEPT ![a] = @ + 1]
  /\ holders'[a] \intersect holders[a] = {}
  /\ \A e, f \in holders'[a] : e = f
  /\ \A b \in Actors \ {a} : holders'[b] = holders[b]
  /\ UNCHANGED content

Replace(S) ==
  /\ \A a \in S : content'[a].author \in holders[a]
  /\ \A a \in Actors \ S : content'[a] = content[a]
  /\ UNCHANGED <<fence, holders>>

Next == \/ \E a \in Actors : Join(a) \/ Advance(a)
        \/ \E S \in SUBSET Actors : Replace(S)

Spec == Init /\ [][Next]_vars
=============================================================================
