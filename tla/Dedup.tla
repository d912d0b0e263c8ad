-------------------------------- MODULE Dedup -------------------------------
(***************************************************************************)
(* What an actor knows of the messages it handled (core/dedup.go): a ring  *)
(* of their identifiers, for the order and the limit, and a set of them,   *)
(* for the lookup.  Add, Restore and Reset change both in several steps.   *)
(***************************************************************************)
EXTENDS Ring, SequencesExt

CONSTANTS Ids,          \* message identifiers
          MaxRestored   \* bound: how many identifiers a snapshot holds

ASSUME ZeroAssumption == Zero \notin Ids /\ MaxRestored \in Nat

VARIABLE dedup          \* Actor.dedup: [queue, queued]

NewDedup == [queue |-> NewRing, queued |-> {}]

Init == dedup = NewDedup

(* Mutant: the identifier that leaves the ring stays in the set.           *)
AddedStale(d, id) ==
  IF id \in d.queued THEN d
  ELSE [ queue  |-> Push(IF RingFull(d.queue) THEN Pop(d.queue) ELSE d.queue, id),
         queued |-> d.queued \union {id} ]

Added(d, id) ==
  IF id \in d.queued THEN d
  ELSE LET oldest == IF RingFull(d.queue) THEN {Peek(d.queue)} ELSE {}
           room   == IF RingFull(d.queue) THEN Pop(d.queue) ELSE d.queue
       IN  [ queue  |-> Push(room, id),
             queued |-> (d.queued \ oldest) \union {id} ]

Add(id) == dedup' = Added(dedup, id)

Emptied(d) == [queue |-> Clear(d.queue), queued |-> {}]

Reset == dedup' = Emptied(dedup)

(* The loop of Restore: what is known after the first k identifiers.       *)
Restored(d, ids) ==
  LET after[k \in 0 .. Len(ids)] ==
        IF k = 0 THEN Emptied(d) ELSE Added(after[k - 1], ids[k])
  IN  after[Len(ids)]

(* The identifiers come from a ring too, perhaps one with another limit.   *)
Restore(ids) == dedup' = Restored(dedup, ids)

(* What Ids gives: no identifier twice.                                    *)
Saved == {ids \in BoundedSeq(Ids, MaxRestored) : IsInjective(ids)}

Next == \/ \E id \in Ids : Add(id)
        \/ Reset
        \/ \E ids \in Saved : Restore(ids)

Spec == Init /\ [][Next]_dedup

-----------------------------------------------------------------------------
(* The shape of the ring: the values lie in size slots from head on, every *)
(* other slot is zero (a value left there would keep its memory).          *)
Occupied == {Slot(dedup.queue, k) : k \in 0 .. dedup.queue.size - 1}

TypeOK ==
  /\ dedup.queue \in [ items : [Slots -> Ids \union {Zero}],
                       head  : Slots,
                       size  : 0 .. Capacity ]
  /\ dedup.queued \subseteq Ids
  /\ \A i \in Slots : dedup.queue.items[i] = Zero <=> i \notin Occupied

(***************************************************************************)
(* The set used for the lookup has exactly the identifiers in the ring,    *)
(* and the ring has none of them twice.  One that stayed in the set only   *)
(* would make the actor drop a message it never handled, and would never   *)
(* leave.                                                                  *)
(***************************************************************************)
SetIsQueue ==
  /\ dedup.queued = Range(Contents(dedup.queue))
  /\ Cardinality(dedup.queued) = dedup.queue.size

(* The ring remembers what it promises: Recent, through any sequence of    *)
(* additions, evictions, resets and restores.                              *)
Promise == INSTANCE Recent WITH recent <- Contents(dedup.queue), Limit <- Capacity

RemembersRecent == Promise!Spec
=============================================================================
