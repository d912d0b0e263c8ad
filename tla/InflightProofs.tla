--------------------------- MODULE InflightProofs ---------------------------
(***************************************************************************)
(* Theorems about the in-flight window, for every set of actors, every     *)
(* log and every window limit.                                             *)
(***************************************************************************)
EXTENDS Inflight, InflightWindowProofs

-----------------------------------------------------------------------------
(* The inductive invariant: the two maps and the two bounds depend on each *)
(* other, so none of the three is inductive without the others.            *)
IInv == TypeOK /\ IndexesAgree /\ BoundsAgree

LEMMA SnapshotsType ==
  ASSUME NEW upTo \in Snapshots
  PROVE  DOMAIN upTo \subseteq Actors /\ \A a \in DOMAIN upTo : upTo[a] \in Nat
<1>1. PICK done \in SUBSET Actors : upTo \in [done -> SnapshotOffsets]
  BY DEF Snapshots
<1>2. DOMAIN upTo = done /\ \A a \in done : upTo[a] \in SnapshotOffsets
  BY <1>1
<1>3. SnapshotOffsets \subseteq Nat
  BY LogAssumption DEF SnapshotOffsets
<1> QED
  BY <1>2, <1>3

(* It says of the window what the lemmas about Add and Complete are about. *)
LEMMA WindowIsOK == IInv => WindowOK(window, Offsets, Owner)
BY DEF IInv, TypeOK, IndexesAgree, BoundsAgree, OwnedOnce,
         WindowOK, WindowType, Agrees, OwnList, Bounded

-----------------------------------------------------------------------------
(* Arrival in any order.                                                   *)

LEMMA InitIInv == Init => IInv
<1> SUFFICES ASSUME Init PROVE IInv
  OBVIOUS
<1>1. window = EmptyWindow /\ checkpoint = 0 /\ finished = {}
  BY DEF Init
<1>2. /\ window.minOffset = NoOffset
      /\ window.maxOffset = NoOffset
      /\ window.offsetActor = {}
      /\ \A a \in Actors : window.actorOffsets[a] = <<>>
  BY <1>1 DEF EmptyWindow
<1>3. TypeOK
  BY <1>1 DEF TypeOK, EmptyWindow
<1>4. /\ DOMAIN <<>> = {}
      /\ Range(<<>>) = {}
  BY DEF Range
<1>5. \A a \in Actors : OwnedOnce(window.actorOffsets[a], a)
  BY <1>2, <1>4 DEF OwnedOnce
<1>6. IndexesAgree
  BY <1>2, <1>4, <1>5 DEF IndexesAgree
<1> QED
  BY <1>2, <1>3, <1>6 DEF IInv, BoundsAgree

LEMMA DispatchIInv ==
  ASSUME IInv, NEW o \in Offsets, Dispatch(o)
  PROVE  IInv'
<1> DEFINE w == Add(window, o, Owner[o])
<1>1. window' = w /\ UNCHANGED <<checkpoint, finished>>
  BY DEF Dispatch
<1>2. WindowOK(w, Offsets, Owner)
  BY LogAssumption, WindowIsOK, AddKeeps
<1> HIDE DEF w
<1>3. WindowOK(window', Offsets, Owner)
  BY <1>1, <1>2
<1>4. checkpoint' \in Nat /\ finished' \in SUBSET Offsets
  BY <1>1 DEF IInv, TypeOK
<1> QED
  BY <1>3, <1>4 DEF IInv, TypeOK, IndexesAgree, BoundsAgree, OwnedOnce,
                   WindowOK, WindowType, Agrees, OwnList, Bounded

(* What CompleteOffset does, in terms of the tracked offsets.              *)
LEMMA CompleteStep ==
  ASSUME IInv, NEW upTo \in Snapshots, CompleteOffset(upTo)
  PROVE  /\ IInv'
         /\ window'.offsetActor \subseteq window.offsetActor
         /\ finished' = finished \union (window.offsetActor \ window'.offsetActor)
         /\ window'.maxOffset \in Offsets => window'.offsetActor # {}
         /\ checkpoint' # checkpoint =>
              /\ \A o \in window'.offsetActor : checkpoint' <= o
              /\ IF window'.offsetActor = {}
                 THEN checkpoint' = window.maxOffset + 1 /\ window.maxOffset \in Offsets
                 ELSE checkpoint' \in window'.offsetActor
<1> DEFINE result == Complete(window, upTo)
           left == result.window.offsetActor
<1>1. /\ WindowOK(result.window, Offsets, Owner)
      /\ left \subseteq window.offsetActor
      /\ result.advanced =>
           /\ result.next \in Nat
           /\ \A o \in left : result.next <= o
           /\ IF left = {} THEN result.next = window.maxOffset + 1
                                /\ window.maxOffset \in Offsets
              ELSE result.next \in left
  BY LogAssumption, WindowIsOK, SnapshotsType, CompleteKeeps
<1>2. /\ window' = result.window
      /\ finished' = finished \union (window.offsetActor \ left)
      /\ \/ result.advanced /\ checkpoint' = result.next
         \/ checkpoint' = checkpoint
  BY DEF CompleteOffset
<1>3. left = window'.offsetActor
  BY <1>2
<1> HIDE DEF result, left
<1>4. /\ window \in WindowType(Offsets)
      /\ checkpoint \in Nat /\ finished \in SUBSET Offsets
      /\ Offsets \subseteq Nat /\ NoOffset = -1
  BY LogAssumption DEF IInv, TypeOK, WindowType, NoOffset
<1>5. checkpoint' \in Nat /\ finished' \in SUBSET Offsets
  BY <1>1, <1>2, <1>4 DEF WindowType
<1>6. WindowOK(window', Offsets, Owner)
  BY <1>1, <1>2
<1>7. IInv'
  BY <1>5, <1>6 DEF IInv, TypeOK, IndexesAgree, BoundsAgree, OwnedOnce,
                   WindowOK, WindowType, Agrees, OwnList, Bounded
<1>8. window'.maxOffset \in Offsets => window'.offsetActor # {}
  BY <1>4, <1>6 DEF WindowOK, Bounded
<1> QED
  BY <1>1, <1>2, <1>3, <1>7, <1>8

LEMMA NextIInv == IInv /\ [Next]_vars => IInv'
<1> SUFFICES ASSUME IInv, [Next]_vars PROVE IInv'
  OBVIOUS
<1>1. ASSUME NEW o \in Offsets, Dispatch(o) PROVE IInv'
  BY <1>1, DispatchIInv
<1>2. ASSUME NEW upTo \in Snapshots, CompleteOffset(upTo) PROVE IInv'
  BY <1>2, CompleteStep
<1>3. CASE UNCHANGED vars
  BY <1>3 DEF vars, IInv, TypeOK, IndexesAgree, BoundsAgree
<1> QED
  BY <1>1, <1>2, <1>3 DEF Next

(* The inductive invariant holds of every behaviour.                       *)
THEOREM Consistent == Spec => []IInv
BY InitIInv, NextIInv, PTL DEF Spec

(* The fields of the window keep their types, whatever order offsets       *)
(* arrive and actors complete in.                                          *)
THEOREM TypeCorrect == Spec => []TypeOK
<1>1. IInv => TypeOK
  BY DEF IInv
<1> QED
  BY <1>1, Consistent, PTL

(* The two maps of the window always describe the same offsets.            *)
THEOREM MapsAgree == Spec => []IndexesAgree
<1>1. IInv => IndexesAgree
  BY DEF IInv
<1> QED
  BY <1>1, Consistent, PTL

(* minOffset is always tracked and maxOffset bounds what is tracked.       *)
THEOREM BoundsFollow == Spec => []BoundsAgree
<1>1. IInv => BoundsAgree
  BY DEF IInv
<1> QED
  BY <1>1, Consistent, PTL

(* Even when offsets arrive out of order no commit passes a tracked one.   *)
THEOREM CommitsStayBelow == Spec => CommitBelowTracked
<1> DEFINE A == checkpoint' # checkpoint =>
                  \A o \in window'.offsetActor : checkpoint' <= o
<1>1. IInv /\ [Next]_vars => [A]_vars
  <2> SUFFICES ASSUME IInv, Next PROVE A
    OBVIOUS
  <2>1. ASSUME NEW o \in Offsets, Dispatch(o) PROVE A
    BY <2>1 DEF Dispatch
  <2>2. ASSUME NEW upTo \in Snapshots, CompleteOffset(upTo) PROVE A
    BY <2>2, CompleteStep
  <2> QED
    BY <2>1, <2>2 DEF Next
<1> QED
  BY <1>1, Consistent, PTL DEF Spec, CommitBelowTracked

-----------------------------------------------------------------------------
(* Arrival in log order.                                                   *)

(* Whatever arrived is a prefix of the log, and maxOffset has arrived.     *)
Arrived == window.offsetActor \union finished

PrefixArrived ==
  /\ \A o \in Arrived, d \in Offsets : d < o => d \in Arrived
  /\ window.maxOffset \in Offsets => window.maxOffset \in Arrived

OInv == IInv /\ PrefixArrived /\ CheckpointCovered

LEMMA InitOInv == Init => OInv
<1>1. Init => PrefixArrived /\ CheckpointCovered
  BY LogAssumption
     DEF Init, EmptyWindow, PrefixArrived, Arrived, CheckpointCovered, NoOffset
<1> QED
  BY <1>1, InitIInv DEF OInv

LEMMA DispatchInOrder ==
  ASSUME OInv, NEW o \in Offsets, InOrder(o), Dispatch(o)
  PROVE  /\ OInv'
         /\ Promise!Accept(o)
<1>0. WindowOK(window, Offsets, Owner)
  BY WindowIsOK DEF OInv
<1>1. IInv'
  BY DispatchIInv DEF OInv
<1>2. /\ window' = Add(window, o, Owner[o])
      /\ UNCHANGED <<checkpoint, finished>>
  BY DEF Dispatch
<1>3. /\ window'.offsetActor = window.offsetActor \union {o}
      /\ window'.maxOffset \in {window.maxOffset, o}
  <2> DEFINE v == Add(window, o, Owner[o])
  <2>1. /\ v.offsetActor = window.offsetActor \union {o}
        /\ v.maxOffset \in {window.maxOffset, o}
    BY <1>0, LogAssumption, AddKeeps
  <2> HIDE DEF v
  <2>2. window' = v
    BY <1>2 DEF v
  <2> QED
    BY <2>1, <2>2
<1>4. \A d \in Offsets : d < o => d \in window.offsetActor \union finished
  BY DEF InOrder
<1>5. PrefixArrived'
  BY <1>2, <1>3, <1>4 DEF OInv, PrefixArrived, Arrived
<1>6. CheckpointCovered'
  BY <1>2 DEF OInv, CheckpointCovered
<1>7. Promise!Accept(o)
  BY <1>2, <1>3, <1>4 DEF Promise!Accept
<1> QED
  BY <1>1, <1>5, <1>6, <1>7 DEF OInv

LEMMA CompleteInOrder ==
  ASSUME OInv, NEW upTo \in Snapshots, CompleteOffset(upTo)
  PROVE  /\ OInv'
         /\ Promise!Finish(window.offsetActor \ window'.offsetActor)
<1> DEFINE open == window'.offsetActor
<1>1. /\ IInv'
      /\ open \subseteq window.offsetActor
      /\ finished' = finished \union (window.offsetActor \ open)
      /\ window'.maxOffset \in Offsets => open # {}
      /\ checkpoint' # checkpoint =>
           /\ \A o \in open : checkpoint' <= o
           /\ IF open = {}
              THEN checkpoint' = window.maxOffset + 1 /\ window.maxOffset \in Offsets
              ELSE checkpoint' \in open
  BY CompleteStep DEF OInv
<1>2. /\ PrefixArrived /\ CheckpointCovered
      /\ Offsets \subseteq Nat
      /\ window.offsetActor \subseteq Offsets
      /\ checkpoint' \in Nat
  BY <1>1, LogAssumption DEF OInv, IInv, TypeOK
<1>3. Arrived' = Arrived
  BY <1>1 DEF Arrived
<1>4. window'.maxOffset \in Offsets => window'.maxOffset = window.maxOffset
  BY LogAssumption DEF CompleteOffset, Complete, NoOffset
<1>5. PrefixArrived'
  BY <1>2, <1>3, <1>4 DEF PrefixArrived
<1>6. ASSUME checkpoint' # checkpoint
      PROVE  \A d \in Offsets : d < checkpoint' => d \in finished' \ open
  <2> SUFFICES ASSUME NEW d \in Offsets, d < checkpoint'
               PROVE  d \in finished' \ open
    OBVIOUS
  <2>1. d \notin open
    BY <1>1, <1>2, <1>6
  <2>2. d \in Arrived
    <3>1. CASE open = {}
      <4>1. window.maxOffset \in Arrived /\ checkpoint' = window.maxOffset + 1
            /\ window.maxOffset \in Nat /\ d \in Nat
        BY <1>1, <1>2, <1>6, <3>1 DEF PrefixArrived
      <4>2. d < window.maxOffset \/ d = window.maxOffset
        BY <4>1
      <4> QED
        BY <1>2, <4>1, <4>2 DEF PrefixArrived
    <3>2. CASE open # {}
      BY <1>1, <1>2, <1>6, <3>2 DEF PrefixArrived, Arrived
    <3> QED
      BY <3>1, <3>2
  <2> QED
    BY <1>1, <2>1, <2>2 DEF Arrived
<1>7. CheckpointCovered'
  BY <1>1, <1>2, <1>6 DEF CheckpointCovered
<1>8. Promise!Finish(window.offsetActor \ open)
  BY <1>1, <1>6 DEF Promise!Finish, Promise!Contiguous
<1> QED
  BY <1>1, <1>5, <1>7, <1>8 DEF OInv

LEMMA NextOInv ==
  OInv /\ [OrderedNext]_vars => OInv' /\ [Promise!Next]_(Promise!vars)
<1> SUFFICES ASSUME OInv, [OrderedNext]_vars
             PROVE  OInv' /\ [Promise!Next]_(Promise!vars)
  OBVIOUS
<1>1. ASSUME NEW o \in Offsets, InOrder(o), Dispatch(o)
      PROVE  OInv' /\ Promise!Next
  BY <1>1, DispatchInOrder DEF Promise!Next
<1>2. ASSUME NEW upTo \in Snapshots, CompleteOffset(upTo)
      PROVE  OInv' /\ Promise!Next
  BY <1>2, CompleteInOrder DEF Promise!Next
<1>3. CASE UNCHANGED vars
  BY <1>3 DEF vars, OInv, IInv, TypeOK, IndexesAgree, BoundsAgree, PrefixArrived,
              Arrived, CheckpointCovered, Promise!vars
<1> QED
  BY <1>1, <1>2, <1>3 DEF OrderedNext

(* When offsets arrive in log order, everything below the checkpoint has   *)
(* been covered by a stored snapshot: a restart skips nothing.             *)
THEOREM RestartSkipsNothing == OrderedSpec => []CheckpointCovered
<1>1. OInv => CheckpointCovered
  BY DEF OInv
<1> QED
  BY <1>1, InitOInv, NextOInv, PTL DEF OrderedSpec

(* When offsets arrive in log order, the window implements OffsetCommit.   *)
THEOREM ImplementsPromise == OrderedSpec => PromiseKept
<1>1. Init => Promise!Init
  BY DEF Init, EmptyWindow, Promise!Init
<1> QED
  BY <1>1, InitOInv, NextOInv, PTL DEF OrderedSpec, PromiseKept, Promise!Spec
=============================================================================
