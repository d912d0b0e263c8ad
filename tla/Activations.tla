----------------------------- MODULE Activations -----------------------------
(***************************************************************************)
(* What a node promises about the lives of its actors.  An actor has one   *)
(* life at a time.  What it did in it is stored before the node forgets    *)
(* it, unless something fails at that very moment, or the process dies;    *)
(* and nothing is stored that no living actor has done.  A node that was   *)
(* asked to stop starts no life, and ends when none is left or it has      *)
(* given up waiting.                                                       *)
(***************************************************************************)
EXTENDS Integers

CONSTANTS Actors,
          Records

VARIABLES living,   \* the actors that have a life
          done,     \* the records each of them has handled in it
          stored,   \* the records whose effects are stored
          phase,    \* "serving", "stopping" or "ended"
          gaveUp,   \* whether the node no longer waits for its actors
          mishaps   \* how many things failed

vars == <<living, done, stored, phase, gaveUp, mishaps>>

Init ==
  /\ living = {}
  /\ done = [a \in Actors |-> {}]
  /\ stored = {}
  /\ phase = "serving"
  /\ gaveUp = FALSE
  /\ mishaps = 0

(* Saving, which may fail, stores what living actors did.                  *)
Save ==
  /\ stored \subseteq stored'
  /\ stored' \subseteq stored \union UNION {done[a] : a \in living}
  /\ mishaps' \in {mishaps, mishaps + 1}

Activate(a) ==
  /\ phase = "serving"
  /\ a \notin living
  /\ living' = living \union {a}
  /\ UNCHANGED <<done, stored, phase, gaveUp, mishaps>>

Handle(a, r) ==
  /\ a \in living
  /\ done' = [done EXCEPT ![a] = @ \union {r}]
  /\ UNCHANGED <<living, stored, phase, gaveUp, mishaps>>

SaveSome ==
  /\ UNCHANGED <<living, phase, gaveUp, done>>
  /\ Save

Forget(a) ==
  /\ a \in living
  /\ Save
  /\ done[a] \subseteq stored' \/ mishaps' > mishaps
  /\ living' = living \ {a}
  /\ done' = [done EXCEPT ![a] = {}]
  /\ UNCHANGED <<phase, gaveUp>>

Stop ==
  /\ phase = "serving"
  /\ phase' = "stopping"
  /\ UNCHANGED <<living, done, stored, gaveUp, mishaps>>

GiveUp ==
  /\ phase = "stopping"
  /\ gaveUp' = TRUE
  /\ mishaps' = mishaps + 1
  /\ UNCHANGED <<living, done, stored, phase>>

End ==
  /\ phase = "stopping"
  /\ living = {} \/ gaveUp
  /\ Save
  /\ phase' = "ended"
  /\ UNCHANGED <<living, done, gaveUp>>

(* The process dies, or has ended, and another takes its place: what is    *)
(* stored is all that survives.                                            *)
Die ==
  /\ living' = {}
  /\ done' = [a \in Actors |-> {}]
  /\ phase' = "serving"
  /\ gaveUp' = FALSE
  /\ mishaps' = mishaps + 1
  /\ UNCHANGED stored

Next ==
  \/ SaveSome
  \/ \E a \in Actors : Activate(a) \/ Forget(a)
  \/ \E a \in Actors, r \in Records : Handle(a, r)
  \/ Stop
  \/ GiveUp
  \/ End
  \/ Die

Spec == Init /\ [][Next]_vars
=============================================================================
