------------------------------ MODULE Inflight ------------------------------
(***************************************************************************)
(* The in-flight window of one shard as the node uses it: Dispatcher adds  *)
(* the offset of a record before it hands the record to an actor, and      *)
(* completeOffset removes what a batch of stored snapshots covers and      *)
(* commits the offset Complete returns.  A commit may fail or its answer   *)
(* may be lost; the window has changed by then all the same.               *)
(*                                                                         *)
(* Two specifications: Spec lets offsets arrive in any order, OrderedSpec  *)
(* only in log order, with redelivery of anything that arrived before.     *)
(***************************************************************************)
EXTENDS InflightWindow

CONSTANTS Offsets,      \* offsets of the records of the partition
          Owner         \* the actor each record is addressed to

ASSUME LogAssumption == Offsets \subseteq Nat /\ Owner \in [Offsets -> Actors]

VARIABLES window,       \* NodeShard.inflight
          checkpoint,   \* the offset the consumer group holds
          finished      \* history: offsets that were removed at least once

vars == <<window, checkpoint, finished>>

(* A snapshot carries the offset of a record, or 0 from a fresh actor.     *)
SnapshotOffsets == Offsets \union {0}

Snapshots == UNION {[done -> SnapshotOffsets] : done \in SUBSET Actors}

Init ==
  /\ window = EmptyWindow
  /\ checkpoint = 0
  /\ finished = {}

Dispatch(o) ==
  /\ ~ Full(window, o)
  /\ window' = Add(window, o, Owner[o])
  /\ UNCHANGED <<checkpoint, finished>>

CompleteOffset(upTo) ==
  LET result == Complete(window, upTo)
  IN  /\ window' = result.window
      /\ finished' = finished \union (window.offsetActor \ result.window.offsetActor)
      /\ \/ result.advanced /\ checkpoint' = result.next
         \/ UNCHANGED checkpoint

Next ==
  \/ \E o \in Offsets : Dispatch(o)
  \/ \E upTo \in Snapshots : CompleteOffset(upTo)

Spec == Init /\ [][Next]_vars

(***************************************************************************)
(* The order a Kafka partition is read in: an offset arrives for the first *)
(* time only after all smaller ones did.                                   *)
(***************************************************************************)
InOrder(o) ==
  \A d \in Offsets : d < o => d \in window.offsetActor \union finished

OrderedNext ==
  \/ \E o \in Offsets : InOrder(o) /\ Dispatch(o)
  \/ \E upTo \in Snapshots : CompleteOffset(upTo)

OrderedSpec == Init /\ [][OrderedNext]_vars

-----------------------------------------------------------------------------
(* The types of the window's fields, the checkpoint and the history.       *)
TypeOK ==
  /\ window \in [ minOffset    : Offsets \union {NoOffset},
                  maxOffset    : Offsets \union {NoOffset},
                  offsetActor  : SUBSET Offsets,
                  actorOffsets : [Actors -> Seq(Offsets)] ]
  /\ checkpoint \in Nat
  /\ finished \in SUBSET Offsets

(***************************************************************************)
(* The two maps of the Go struct describe the same offsets: every tracked  *)
(* offset is in the list of its own actor exactly once, and no list holds  *)
(* anything else.  remove updates the maps separately, offset by offset    *)
(* and then by slicing the list, and an offset that stayed in one of them  *)
(* only would hold the checkpoint back for ever or let it pass.            *)
(***************************************************************************)
OwnedOnce(list, a) ==
  /\ \A i \in DOMAIN list : Owner[list[i]] = a
  /\ \A i, j \in DOMAIN list : list[i] = list[j] => i = j

IndexesAgree ==
  /\ \A a \in Actors : OwnedOnce(window.actorOffsets[a], a)
  /\ window.offsetActor = UNION {Range(window.actorOffsets[a]) : a \in Actors}

(***************************************************************************)
(* The bounds follow the maps: both are unset exactly when nothing is      *)
(* tracked, minOffset is always a tracked offset (remove recognises the    *)
(* need to advance by meeting it) and maxOffset is above all of them.      *)
(* minOffset need not be the least tracked offset: Add never lowers it.    *)
(***************************************************************************)
BoundsAgree ==
  IF window.offsetActor = {}
  THEN window.minOffset = NoOffset /\ window.maxOffset = NoOffset
  ELSE /\ window.minOffset \in window.offsetActor
       /\ \A o \in window.offsetActor : o <= window.maxOffset
       /\ window.maxOffset \in Offsets

(***************************************************************************)
(* What is committed is never above an offset that is still tracked, even  *)
(* when offsets arrived out of order and minOffset is not the least.       *)
(***************************************************************************)
CommitBelowTracked ==
  [][checkpoint' # checkpoint =>
       \A o \in window'.offsetActor : checkpoint' <= o]_vars

(***************************************************************************)
(* With delivery in log order a restart loses nothing: each offset below   *)
(* the checkpoint has been covered by a stored snapshot.                   *)
(***************************************************************************)
CheckpointCovered == \A o \in Offsets : o < checkpoint => o \in finished

(***************************************************************************)
(* With delivery in log order the window implements OffsetCommit.          *)
(***************************************************************************)
Promise == INSTANCE OffsetCommit WITH open <- window.offsetActor

PromiseKept == Promise!Spec
=============================================================================
