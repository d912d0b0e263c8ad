--------------------------- MODULE InflightWindow ---------------------------
(***************************************************************************)
(* The bookkeeping of core/inflight.go: which log offsets of one shard     *)
(* were handed to an actor and are not yet covered by a stored snapshot,   *)
(* and what may be committed to the consumer group when some of them are.  *)
(*                                                                         *)
(* A window is a record with the four fields of the Go struct.  The values *)
(* of the offsetActor map are never read, so the model keeps its key set;  *)
(* an actor that is absent from the actorOffsets map has an empty list.    *)
(***************************************************************************)
EXTENDS Integers, Sequences, FiniteSetsExt

CONSTANTS Actors,       \* identifiers of the actors of the shard
          WindowLimit   \* core/inflight.go: InflightWindowLimit

ASSUME WindowLimitAssumption == WindowLimit \in Nat \ {0}

NoOffset == -1          \* the initial minOffset and maxOffset

(* Mutant: minOffset starts as Go's zero value.                            *)
ZeroWindow ==
  [ minOffset    |-> 0,
    maxOffset    |-> NoOffset,
    offsetActor  |-> {},
    actorOffsets |-> [a \in Actors |-> <<>>] ]

EmptyWindow ==
  [ minOffset    |-> NoOffset,
    maxOffset    |-> NoOffset,
    offsetActor  |-> {},
    actorOffsets |-> [a \in Actors |-> <<>>] ]

(***************************************************************************)
(* Full: an offset that is not tracked must wait, either because the       *)
(* window spans WindowLimit offsets or because it would.                   *)
(***************************************************************************)
Full(w, o) ==
  /\ o \notin w.offsetActor
  /\ \/ w.maxOffset - w.minOffset >= WindowLimit
     \/ w.minOffset # NoOffset /\ o - w.minOffset >= WindowLimit

(***************************************************************************)
(* Add: minOffset moves only when the window is empty, even if a smaller   *)
(* offset arrives later; each list keeps the order of arrival.             *)
(***************************************************************************)
(* Mutant: no slices.Contains before the append.                           *)
TrackAgain(list, o) == Append(list, o)

Track(list, o) == IF o \in Range(list) THEN list ELSE Append(list, o)

Add(w, o, a) ==
  [ minOffset    |-> IF w.minOffset = NoOffset THEN o ELSE w.minOffset,
    maxOffset    |-> IF w.maxOffset = NoOffset \/ o > w.maxOffset
                       THEN o ELSE w.maxOffset,
    offsetActor  |-> w.offsetActor \union {o},
    actorOffsets |-> [w.actorOffsets EXCEPT ![a] = Track(@, o)] ]

(* GetMinOffset: the least offset an actor still holds, NoOffset if none.  *)
GetMinOffset(w, a) ==
  IF w.actorOffsets[a] = <<>> THEN NoOffset ELSE Min(Range(w.actorOffsets[a]))

(***************************************************************************)
(* remove: the loop deletes offsets of the list in arrival order and       *)
(* breaks at the first one above maxOffset.  DoneCount is how many it      *)
(* deletes.                                                                *)
(***************************************************************************)
DoneCount(list, maxOffset) ==
  CHOOSE n \in 0 .. Len(list) :
    /\ \A i \in 1 .. n : list[i] <= maxOffset
    /\ n < Len(list) => list[n + 1] > maxOffset

Done(list, maxOffset) == {list[i] : i \in 1 .. DoneCount(list, maxOffset)}

Kept(list, maxOffset) ==
  SubSeq(list, DoneCount(list, maxOffset) + 1, Len(list))

(***************************************************************************)
(* Complete: upTo maps each actor whose snapshot was stored to the offset  *)
(* of that snapshot (the variadic []InflightComplete has one entry per     *)
(* actor).  The result carries the new window, the offset to commit next   *)
(* and whether the caller is to commit it.                                 *)
(***************************************************************************)
RemovedBy(w, upTo) == UNION {Done(w.actorOffsets[a], upTo[a]) : a \in DOMAIN upTo}

KeptBy(w, upTo) ==
  [a \in Actors |-> IF a \in DOMAIN upTo
                      THEN Kept(w.actorOffsets[a], upTo[a])
                      ELSE w.actorOffsets[a]]

(* Mutant: the minimum is not computed again after a removal.              *)
CompleteStaleMin(w, upTo) ==
  LET left == w.offsetActor \ RemovedBy(w, upTo)
  IN  [ window   |-> [ minOffset    |-> IF left = {} THEN NoOffset ELSE w.minOffset,
                       maxOffset    |-> IF left = {} THEN NoOffset ELSE w.maxOffset,
                       offsetActor  |-> left,
                       actorOffsets |-> KeptBy(w, upTo) ],
        next     |-> w.maxOffset + 1,
        advanced |-> left = {} /\ w.maxOffset >= 0 ]

(* Mutant: the largest completed offset is committed, not the least open.  *)
CompleteToLargest(w, upTo) ==
  LET removed == RemovedBy(w, upTo)
      left    == w.offsetActor \ removed
  IN  [ window   |-> [ minOffset    |-> IF left = {} THEN NoOffset ELSE Min(left),
                       maxOffset    |-> IF left = {} THEN NoOffset ELSE w.maxOffset,
                       offsetActor  |-> left,
                       actorOffsets |-> KeptBy(w, upTo) ],
        next     |-> IF removed = {} THEN 0 ELSE Max(removed) + 1,
        advanced |-> removed # {} ]

Complete(w, upTo) ==
  LET removed == RemovedBy(w, upTo)
      left    == w.offsetActor \ removed
      least   == IF w.minOffset \in removed THEN Min(left) ELSE w.minOffset
  IN  IF left # {}
      THEN [ window   |-> [ minOffset    |-> least,
                            maxOffset    |-> w.maxOffset,
                            offsetActor  |-> left,
                            actorOffsets |-> KeptBy(w, upTo) ],
             next     |-> least,
             advanced |-> least > w.minOffset ]
      ELSE IF w.maxOffset < 0
      THEN [ window |-> w, next |-> 0, advanced |-> FALSE ]
      ELSE [ window   |-> [ minOffset    |-> NoOffset,
                            maxOffset    |-> NoOffset,
                            offsetActor  |-> {},
                            actorOffsets |-> KeptBy(w, upTo) ],
             next     |-> w.maxOffset + 1,
             advanced |-> TRUE ]
=============================================================================
