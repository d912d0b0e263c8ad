------------------------- MODULE InflightWindowProofs -------------------------
(***************************************************************************)
(* Lemmas about the operators of InflightWindow, for every set of actors,  *)
(* every window limit and every window of a log with offsets T: what Min,  *)
(* Track and remove's loop return, and that Add and Complete keep the two  *)
(* maps and the two bounds of a window in step.                            *)
(***************************************************************************)
EXTENDS InflightWindow, WellFoundedInduction, TLAPS

-----------------------------------------------------------------------------
(* Lemmas about the operators of InflightWindow.                           *)

(* Min is what its name says.                                              *)
LEMMA MinIsLeast ==
  ASSUME NEW S \in SUBSET Nat, S # {}
  PROVE  /\ Min(S) \in S
         /\ \A n \in S : Min(S) <= n
<1>1. PICK m \in S : \A n \in S : ~ (<<n, m>> \in OpToRel(<, Nat))
  BY WFMin, NatLessThanWellFounded
<1>2. \A n \in Nat : n < m => <<n, m>> \in OpToRel(<, Nat)
  <2>1. SUFFICES ASSUME NEW n \in Nat, n < m
                 PROVE  <<n, m>> \in OpToRel(<, Nat)
    OBVIOUS
  <2>2. <<n, m>> \in Nat \X Nat /\ <<n, m>>[1] < <<n, m>>[2]
    BY <2>1
  <2> QED
    BY <2>2, Zenon DEF OpToRel
<1>3. \A n \in S : ~ (n < m)
  BY <1>1, <1>2, Zenon
<1>4. \A n \in S : m <= n
  BY <1>3
<1> QED
  BY <1>4 DEF Min

(* DoneCount exists: the loop of remove stops somewhere.                   *)
LEMMA DoneCountStops ==
  ASSUME NEW T \in SUBSET Nat, NEW list \in Seq(T), NEW maxOffset \in Nat
  PROVE  LET n == DoneCount(list, maxOffset)
         IN  /\ n \in 0 .. Len(list)
             /\ \A i \in 1 .. n : list[i] <= maxOffset
             /\ n < Len(list) => list[n + 1] > maxOffset
<1> DEFINE Above == {i \in 1 .. Len(list) : list[i] > maxOffset}
           Stop(n) == /\ \A i \in 1 .. n : list[i] <= maxOffset
                      /\ n < Len(list) => list[n + 1] > maxOffset
<1>1. \A i \in 1 .. Len(list) : list[i] \in Nat
  <2>1. \A i \in 1 .. Len(list) : list[i] \in T
    OBVIOUS
  <2> QED
    BY <2>1
<1>2. \E n \in 0 .. Len(list) : Stop(n)
  <2>1. CASE Above = {}
    <3>1. Stop(Len(list))
      BY <1>1, <2>1
    <3> QED
      BY <3>1
  <2>2. CASE Above # {}
    <3>1. Above \in SUBSET Nat
      OBVIOUS
    <3>2. PICK m \in Above : \A n \in Above : m <= n
      BY <3>1, <2>2, MinIsLeast
    <3>3. \A i \in 1 .. m - 1 : list[i] <= maxOffset
      BY <1>1, <3>2
    <3>4. Stop(m - 1) /\ m - 1 \in 0 .. Len(list)
      BY <3>2, <3>3
    <3> HIDE DEF Stop
    <3> QED
      BY <3>4
  <2> QED
    BY <2>1, <2>2
<1> QED
  BY <1>2 DEF DoneCount

(* remove splits a list: what it deletes is at most maxOffset, what it     *)
(* keeps is a list of the same kind, and together they are the list.       *)
LEMMA RemoveSplits ==
  ASSUME NEW T \in SUBSET Nat, NEW list \in Seq(T), NEW maxOffset \in Nat
  PROVE  /\ Kept(list, maxOffset) \in Seq(T)
         /\ Range(list) = Done(list, maxOffset) \union Range(Kept(list, maxOffset))
         /\ (\A i, j \in DOMAIN list : list[i] = list[j] => i = j) =>
              /\ Done(list, maxOffset) \intersect Range(Kept(list, maxOffset)) = {}
              /\ \A i, j \in DOMAIN Kept(list, maxOffset) :
                   Kept(list, maxOffset)[i] = Kept(list, maxOffset)[j] => i = j
<1> DEFINE n == DoneCount(list, maxOffset)
           rest == Kept(list, maxOffset)
           done == Done(list, maxOffset)
<1>1. n \in 0 .. Len(list)
  BY DoneCountStops
<1> HIDE DEF n
<1>2. /\ rest = SubSeq(list, n + 1, Len(list))
      /\ done = {list[i] : i \in 1 .. n}
  BY DEF Kept, Done, n
<1> HIDE DEF rest, done
<1>3. /\ rest \in Seq(T)
      /\ Len(rest) = Len(list) - n
      /\ \A i \in 1 .. Len(list) - n : rest[i] = list[n + i]
  BY <1>1, <1>2
<1>4. /\ DOMAIN rest = 1 .. Len(list) - n
      /\ DOMAIN list = 1 .. Len(list)
  BY <1>3
<1>5. Range(rest) = {list[i] : i \in n + 1 .. Len(list)}
  <2>1. Range(rest) = {list[n + i] : i \in 1 .. Len(list) - n}
    BY <1>3, <1>4 DEF Range
  <2>2. \A i \in 1 .. Len(list) - n : n + i \in n + 1 .. Len(list)
    BY <1>1
  <2>3. \A i \in n + 1 .. Len(list) :
          i - n \in 1 .. Len(list) - n /\ n + (i - n) = i
    BY <1>1
  <2> QED
    BY <2>1, <2>2, <2>3
<1>6. Range(list) = done \union Range(rest)
  <2>1. Range(list) = {list[i] : i \in 1 .. Len(list)}
    BY <1>4 DEF Range
  <2>2. 1 .. Len(list) = (1 .. n) \union (n + 1 .. Len(list))
    BY <1>1
  <2> QED
    BY <2>1, <2>2, <1>2, <1>5
<1>7. ASSUME \A i, j \in DOMAIN list : list[i] = list[j] => i = j
      PROVE  /\ done \intersect Range(rest) = {}
             /\ \A i, j \in DOMAIN rest : rest[i] = rest[j] => i = j
  <2>1. ASSUME NEW o \in done, o \in Range(rest)
        PROVE  FALSE
    <3>1. PICK i \in 1 .. n : o = list[i]
      BY <1>2
    <3>2. PICK j \in n + 1 .. Len(list) : o = list[j]
      BY <1>5, <2>1
    <3>3. i \in DOMAIN list /\ j \in DOMAIN list /\ i # j
      BY <1>1, <1>4
    <3> QED
      BY <1>7, <3>1, <3>2, <3>3
  <2>2. \A i, j \in DOMAIN rest : rest[i] = rest[j] => i = j
    <3> SUFFICES ASSUME NEW i \in DOMAIN rest, NEW j \in DOMAIN rest, rest[i] = rest[j]
                 PROVE  i = j
      OBVIOUS
    <3>1. i \in 1 .. Len(list) - n /\ j \in 1 .. Len(list) - n
      BY <1>4
    <3>2. n + i \in 1 .. Len(list) /\ n + j \in 1 .. Len(list)
      BY <1>1, <3>1
    <3>3. list[n + i] = list[n + j]
      BY <1>3, <3>1
    <3>4. n + i = n + j
      BY <1>4, <1>7, <3>2, <3>3, Zenon
    <3> QED
      BY <1>1, <3>1, <3>4
  <2> QED
    BY <2>1, <2>2
<1> QED
  BY <1>3, <1>6, <1>7 DEF rest, done

(* Track adds one offset to a list, at most once.                          *)
LEMMA TrackAdds ==
  ASSUME NEW T, NEW list \in Seq(T), NEW o \in T
  PROVE  /\ Track(list, o) \in Seq(T)
         /\ Range(Track(list, o)) = Range(list) \union {o}
         /\ (\A i, j \in DOMAIN list : list[i] = list[j] => i = j) =>
              \A i, j \in DOMAIN Track(list, o) :
                Track(list, o)[i] = Track(list, o)[j] => i = j
<1>1. CASE o \in Range(list)
  BY <1>1 DEF Track
<1>2. CASE o \notin Range(list)
  <2>1. Track(list, o) = Append(list, o)
    BY <1>2 DEF Track
  <2>2. /\ Append(list, o) \in Seq(T)
        /\ DOMAIN list = 1 .. Len(list)
        /\ DOMAIN Append(list, o) = 1 .. Len(list) + 1
        /\ \A i \in 1 .. Len(list) : Append(list, o)[i] = list[i]
        /\ Append(list, o)[Len(list) + 1] = o
    OBVIOUS
  <2>3. Range(Append(list, o)) = Range(list) \union {o}
    BY <2>2 DEF Range
  <2>4. \A i \in 1 .. Len(list) : list[i] # o
    BY <1>2, <2>2 DEF Range
  <2> QED
    BY <2>1, <2>2, <2>3, <2>4
<1> QED
  BY <1>1, <1>2

-----------------------------------------------------------------------------
(* What holds of the window of a shard whose records have the offsets T    *)
(* and the actors owner gives: WindowOK is kept by Add and Complete, and   *)
(* none of its three parts is kept without the others.                     *)
WindowType(T) == [ minOffset    : T \union {NoOffset},
                   maxOffset    : T \union {NoOffset},
                   offsetActor  : SUBSET T,
                   actorOffsets : [Actors -> Seq(T)] ]

OwnList(list, a, owner) ==
  /\ \A i \in DOMAIN list : owner[list[i]] = a
  /\ \A i, j \in DOMAIN list : list[i] = list[j] => i = j

Agrees(w, owner) ==
  /\ \A a \in Actors : OwnList(w.actorOffsets[a], a, owner)
  /\ w.offsetActor = UNION {Range(w.actorOffsets[a]) : a \in Actors}

Bounded(w, T) ==
  IF w.offsetActor = {}
  THEN w.minOffset = NoOffset /\ w.maxOffset = NoOffset
  ELSE /\ w.minOffset \in w.offsetActor
       /\ \A o \in w.offsetActor : o <= w.maxOffset
       /\ w.maxOffset \in T

WindowOK(w, T, owner) == w \in WindowType(T) /\ Agrees(w, owner) /\ Bounded(w, T)

LEMMA EmptyIsOK ==
  ASSUME NEW T, NEW owner
  PROVE  WindowOK(EmptyWindow, T, owner)
<1>1. /\ \A a \in Actors : EmptyWindow.actorOffsets[a] = <<>>
      /\ EmptyWindow.offsetActor = {}
  BY DEF EmptyWindow
<1>2. <<>> \in Seq(T) /\ DOMAIN <<>> = {}
  OBVIOUS
<1>3. Range(<<>>) = {}
  BY <1>2 DEF Range
<1>4. EmptyWindow \in WindowType(T)
  BY <1>2 DEF EmptyWindow, WindowType
<1>5. \A a \in Actors : OwnList(EmptyWindow.actorOffsets[a], a, owner)
  BY <1>1, <1>2 DEF OwnList
<1>6. UNION {Range(EmptyWindow.actorOffsets[a]) : a \in Actors} = {}
  <2>1. \A a \in Actors : Range(EmptyWindow.actorOffsets[a]) = {}
    BY <1>1, <1>3
  <2> QED
    BY <2>1, Zenon
<1>7. Bounded(EmptyWindow, T)
  BY DEF Bounded, EmptyWindow
<1> QED
  BY <1>1, <1>4, <1>5, <1>6, <1>7 DEF WindowOK, Agrees

(* Complete removes the same offsets from both maps.                       *)
LEMMA KeptAgrees ==
  ASSUME NEW T \in SUBSET Nat, NEW owner \in [T -> Actors],
         NEW w, WindowOK(w, T, owner),
         NEW upTo, DOMAIN upTo \subseteq Actors, \A a \in DOMAIN upTo : upTo[a] \in Nat
  PROVE  LET kept == KeptBy(w, upTo)
         IN  /\ kept \in [Actors -> Seq(T)]
             /\ \A a \in Actors : OwnList(kept[a], a, owner)
             /\ w.offsetActor \ RemovedBy(w, upTo)
                  = UNION {Range(kept[a]) : a \in Actors}
<1> DEFINE kept == KeptBy(w, upTo)
           list(a) == w.actorOffsets[a]
           done(a) == Done(list(a), upTo[a])
<1>1. /\ \A a \in Actors : list(a) \in Seq(T)
      /\ T \in SUBSET Nat
  BY DEF WindowOK, WindowType
<1>2. /\ DOMAIN upTo \subseteq Actors
      /\ \A a \in DOMAIN upTo : upTo[a] \in Nat
  OBVIOUS
<1>3. \A a \in Actors : OwnList(list(a), a, owner)
  BY DEF WindowOK, Agrees
<1>4. \A a \in Actors :
        kept[a] = IF a \in DOMAIN upTo THEN Kept(list(a), upTo[a]) ELSE list(a)
  BY DEF KeptBy
<1>5. ASSUME NEW a \in DOMAIN upTo
      PROVE  /\ kept[a] \in Seq(T)
             /\ Range(list(a)) = done(a) \union Range(kept[a])
             /\ done(a) \intersect Range(kept[a]) = {}
             /\ \A i, j \in DOMAIN kept[a] : kept[a][i] = kept[a][j] => i = j
  <2>1. \A i, j \in DOMAIN list(a) : list(a)[i] = list(a)[j] => i = j
    BY <1>2, <1>3 DEF OwnList
  <2>2. list(a) \in Seq(T) /\ upTo[a] \in Nat
    BY <1>1, <1>2
  <2>3. kept[a] = Kept(list(a), upTo[a]) /\ done(a) = Done(list(a), upTo[a])
    BY <1>2, <1>4
  <2> HIDE DEF list, kept, done
  <2>4. /\ Kept(list(a), upTo[a]) \in Seq(T)
        /\ Range(list(a)) = Done(list(a), upTo[a]) \union Range(Kept(list(a), upTo[a]))
        /\ Done(list(a), upTo[a]) \intersect Range(Kept(list(a), upTo[a])) = {}
        /\ \A i, j \in DOMAIN Kept(list(a), upTo[a]) :
             Kept(list(a), upTo[a])[i] = Kept(list(a), upTo[a])[j] => i = j
    BY <1>1, <2>1, <2>2, RemoveSplits
  <2> QED
    BY <2>3, <2>4
<1>6. kept \in [Actors -> Seq(T)]
  <2>1. \A a \in Actors : kept[a] \in Seq(T)
    BY <1>1, <1>4, <1>5
  <2>2. kept = [a \in Actors |-> kept[a]]
    BY DEF KeptBy
  <2> HIDE DEF kept
  <2> QED
    BY <2>1, <2>2
<1> HIDE DEF list, kept, done
<1>7. ASSUME NEW a \in Actors
      PROVE  Range(kept[a]) \subseteq Range(list(a))
  BY <1>4, <1>5
<1>8. ASSUME NEW a \in Actors
      PROVE  \A o \in Range(list(a)) : owner[o] = a
  BY <1>3 DEF OwnList, Range
<1>9. ASSUME NEW a \in Actors
      PROVE  OwnList(kept[a], a, owner)
  <2>1. \A i \in DOMAIN kept[a] : kept[a][i] \in Range(list(a))
    BY <1>7 DEF Range
  <2>2. \A i, j \in DOMAIN kept[a] : kept[a][i] = kept[a][j] => i = j
    BY <1>3, <1>4, <1>5 DEF OwnList
  <2> QED
    BY <1>8, <2>1, <2>2 DEF OwnList
<1>10. w.offsetActor = UNION {Range(list(a)) : a \in Actors}
  BY DEF WindowOK, Agrees, list
<1>11. RemovedBy(w, upTo) = UNION {done(a) : a \in DOMAIN upTo}
  BY DEF RemovedBy, done, list
<1>12. ASSUME NEW o \in w.offsetActor, o \notin RemovedBy(w, upTo)
       PROVE  \E a \in Actors : o \in Range(kept[a])
  <2>1. PICK a \in Actors : o \in Range(list(a))
    BY <1>10
  <2>2. CASE a \in DOMAIN upTo
    BY <1>5, <1>11, <1>12, <2>1, <2>2
  <2>3. CASE a \notin DOMAIN upTo
    BY <1>4, <2>1, <2>3
  <2> QED
    BY <2>2, <2>3
<1>13. ASSUME NEW a \in Actors, NEW o \in Range(kept[a])
       PROVE  o \in w.offsetActor /\ o \notin RemovedBy(w, upTo)
  <2>1. o \in Range(list(a)) /\ owner[o] = a
    BY <1>7, <1>8
  <2>2. ASSUME NEW b \in DOMAIN upTo, o \in done(b)
        PROVE  FALSE
    <3>1. o \in Range(list(b)) /\ b \in Actors
      BY <1>2, <1>5, <2>2
    <3>2. b = a
      BY <1>8, <2>1, <3>1
    <3> QED
      BY <1>5, <2>2, <3>2
  <2> QED
    BY <1>10, <1>11, <2>1, <2>2
<1>14. w.offsetActor \ RemovedBy(w, upTo)
         = UNION {Range(kept[a]) : a \in Actors}
  BY <1>12, <1>13
<1> QED
  BY <1>6, <1>9, <1>14 DEF kept

(* What Complete returns: it keeps the invariants, and it asks for a       *)
(* commit only of a value that no tracked offset is below.                 *)
LEMMA CompleteKeeps ==
  ASSUME NEW T \in SUBSET Nat, NEW owner \in [T -> Actors],
         NEW w, WindowOK(w, T, owner),
         NEW upTo, DOMAIN upTo \subseteq Actors, \A a \in DOMAIN upTo : upTo[a] \in Nat
  PROVE  LET result == Complete(w, upTo)
             left   == result.window.offsetActor
         IN  /\ WindowOK(result.window, T, owner)
             /\ left \subseteq w.offsetActor
             /\ result.advanced =>
                  /\ result.next \in Nat
                  /\ \A o \in left : result.next <= o
                  /\ IF left = {} THEN result.next = w.maxOffset + 1
                                       /\ w.maxOffset \in T
                     ELSE result.next \in left
<1> DEFINE removed == RemovedBy(w, upTo)
           left == w.offsetActor \ removed
           kept == KeptBy(w, upTo)
           least == IF w.minOffset \in removed THEN Min(left)
                    ELSE w.minOffset
<1>1. /\ kept \in [Actors -> Seq(T)]
      /\ \A a \in Actors : OwnList(kept[a], a, owner)
      /\ left = UNION {Range(kept[a]) : a \in Actors}
  BY KeptAgrees
<1>2. /\ w \in WindowType(T)
      /\ Bounded(w, T)
      /\ T \in SUBSET Nat
      /\ NoOffset = -1
  BY DEF WindowOK, NoOffset
<1>3. w.offsetActor \subseteq T
  BY <1>2 DEF WindowType
<1> HIDE DEF kept, removed
<1>4. CASE left # {}
  <2>1. Complete(w, upTo) =
          [ window   |-> [ minOffset    |-> least,
                           maxOffset    |-> w.maxOffset,
                           offsetActor  |-> left,
                           actorOffsets |-> kept ],
            next     |-> least,
            advanced |-> least > w.minOffset ]
    BY <1>4 DEF Complete, removed, kept
  <2>2. /\ w.minOffset \in w.offsetActor
        /\ \A o \in w.offsetActor : o <= w.maxOffset
        /\ w.maxOffset \in T
    BY <1>2, <1>4 DEF Bounded
  <2>3. left \in SUBSET Nat
    BY <1>2, <1>3
  <2>4. Min(left) \in left /\ \A o \in left : Min(left) <= o
    BY <1>4, <2>3, MinIsLeast
  <2>5. least \in left
    BY <2>2, <2>4
  <2>6. least > w.minOffset => \A o \in left : least <= o
    <3>1. CASE w.minOffset \in removed
      BY <2>4, <3>1
    <3>2. CASE w.minOffset \notin removed
      <4>1. least = w.minOffset /\ w.minOffset \in Nat
        BY <1>2, <1>3, <2>2, <3>2
      <4> QED
        BY <4>1
    <3> QED
      BY <3>1, <3>2
  <2>7. Complete(w, upTo).window \in WindowType(T)
    BY <1>1, <1>3, <2>1, <2>2, <2>5 DEF WindowType
  <2> HIDE DEF left, least
  <2>8. Agrees(Complete(w, upTo).window, owner)
    BY <1>1, <2>1 DEF Agrees
  <2>9. Bounded(Complete(w, upTo).window, T)
    <3>1. left \subseteq w.offsetActor
      BY DEF left
    <3> QED
      BY <1>4, <2>1, <2>2, <2>5, <3>1 DEF Bounded
  <2>10. /\ Complete(w, upTo).window.offsetActor = left
         /\ Complete(w, upTo).next = least
         /\ Complete(w, upTo).advanced = (least > w.minOffset)
         /\ left \subseteq w.offsetActor
    BY <2>1 DEF left
  <2> QED
    BY <1>4, <2>3, <2>5, <2>6, <2>7, <2>8, <2>9, <2>10 DEF WindowOK
<1>5. CASE left = {} /\ w.maxOffset < 0
  <2>1. Complete(w, upTo) = [window |-> w, next |-> 0, advanced |-> FALSE]
    BY <1>5 DEF Complete, removed
  <2> QED
    BY <1>2, <2>1 DEF WindowOK
<1>6. CASE left = {} /\ ~ (w.maxOffset < 0)
  <2>1. Complete(w, upTo) =
          [ window   |-> [ minOffset    |-> NoOffset,
                           maxOffset    |-> NoOffset,
                           offsetActor  |-> {},
                           actorOffsets |-> kept ],
            next     |-> w.maxOffset + 1,
            advanced |-> TRUE ]
    BY <1>6 DEF Complete, removed, kept
  <2>2. w.maxOffset \in T
    BY <1>2, <1>6 DEF WindowType
  <2> HIDE DEF left, least
  <2>3. Complete(w, upTo).window \in WindowType(T)
    BY <1>1, <2>1 DEF WindowType
  <2>4. Agrees(Complete(w, upTo).window, owner)
    <3>1. /\ Complete(w, upTo).window.offsetActor = {}
          /\ Complete(w, upTo).window.actorOffsets = kept
      BY <2>1
    <3>2. {} = UNION {Range(kept[a]) : a \in Actors}
      BY <1>1, <1>6
    <3> DEFINE v == Complete(w, upTo).window
    <3> HIDE DEF v
    <3>3. v.offsetActor = {} /\ v.actorOffsets = kept
      BY <3>1 DEF v
    <3>4. \A a \in Actors : OwnList(v.actorOffsets[a], a, owner)
      BY <1>1, <3>3
    <3>5. v.offsetActor = UNION {Range(v.actorOffsets[a]) : a \in Actors}
      BY <3>2, <3>3, Zenon
    <3> QED
      BY <3>4, <3>5 DEF Agrees, v
  <2>5. Bounded(Complete(w, upTo).window, T)
    BY <2>1 DEF Bounded
  <2>6. /\ Complete(w, upTo).window.offsetActor = {}
        /\ Complete(w, upTo).next = w.maxOffset + 1
    BY <2>1
  <2>7. w.maxOffset + 1 \in Nat
    <3>1. w.maxOffset \in Nat
      BY <1>2, <2>2
    <3> QED
      BY <3>1
  <2> DEFINE result == Complete(w, upTo)
  <2>8. /\ result.window \in WindowType(T)
        /\ Agrees(result.window, owner)
        /\ Bounded(result.window, T)
        /\ result.window.offsetActor = {}
        /\ result.next = w.maxOffset + 1
    BY <2>3, <2>4, <2>5, <2>6
  <2> HIDE DEF result
  <2>9. /\ result.window.offsetActor \subseteq w.offsetActor
        /\ \A o \in result.window.offsetActor : result.next <= o
        /\ result.next \in Nat
    BY <2>7, <2>8
  <2> QED
    BY <2>2, <2>8, <2>9 DEF WindowOK, result
<1> QED
  BY <1>4, <1>5, <1>6

(* Add keeps the invariants.                                               *)
LEMMA AddKeeps ==
  ASSUME NEW T \in SUBSET Nat, NEW owner \in [T -> Actors],
         NEW w, WindowOK(w, T, owner), NEW o \in T
  PROVE  LET v == Add(w, o, owner[o])
         IN  /\ WindowOK(v, T, owner)
             /\ v.offsetActor = w.offsetActor \union {o}
             /\ v.maxOffset \in {w.maxOffset, o}
<1> DEFINE a0 == owner[o]
           lists == w.actorOffsets
           v == Add(w, o, a0)
<1>1. /\ a0 \in Actors
      /\ lists \in [Actors -> Seq(T)]
      /\ T \in SUBSET Nat
      /\ w \in WindowType(T)
  BY DEF WindowOK, WindowType
<1>2. /\ Agrees(w, owner)
      /\ Bounded(w, T)
  BY DEF WindowOK
<1>3. /\ v.offsetActor = w.offsetActor \union {o}
      /\ v.actorOffsets = [lists EXCEPT ![a0] = Track(lists[a0], o)]
      /\ v.minOffset = IF w.minOffset = NoOffset THEN o ELSE w.minOffset
      /\ v.maxOffset = IF w.maxOffset = NoOffset \/ o > w.maxOffset
                         THEN o ELSE w.maxOffset
  BY DEF Add
<1>4. /\ Track(lists[a0], o) \in Seq(T)
      /\ Range(Track(lists[a0], o)) = Range(lists[a0]) \union {o}
      /\ OwnList(Track(lists[a0], o), a0, owner)
  <2>1. OwnList(lists[a0], a0, owner) /\ lists[a0] \in Seq(T)
    BY <1>1, <1>2 DEF Agrees
  <2>2. /\ Track(lists[a0], o) \in Seq(T)
        /\ Range(Track(lists[a0], o)) = Range(lists[a0]) \union {o}
        /\ \A i, j \in DOMAIN Track(lists[a0], o) :
              Track(lists[a0], o)[i] = Track(lists[a0], o)[j] => i = j
    <3>1. \A i, j \in DOMAIN lists[a0] : lists[a0][i] = lists[a0][j] => i = j
      BY <2>1 DEF OwnList
    <3> DEFINE list == lists[a0]
    <3>2. list \in Seq(T) /\ \A i, j \in DOMAIN list : list[i] = list[j] => i = j
      BY <2>1, <3>1
    <3> HIDE DEF list
    <3>3. /\ Track(list, o) \in Seq(T)
          /\ Range(Track(list, o)) = Range(list) \union {o}
          /\ \A i, j \in DOMAIN Track(list, o) :
                Track(list, o)[i] = Track(list, o)[j] => i = j
      <4>1. /\ Track(list, o) \in Seq(T)
            /\ Range(Track(list, o)) = Range(list) \union {o}
            /\ (\A i, j \in DOMAIN list : list[i] = list[j] => i = j) =>
                 \A i, j \in DOMAIN Track(list, o) :
                   Track(list, o)[i] = Track(list, o)[j] => i = j
        BY <3>2, TrackAdds
      <4> QED
        BY <3>2, <4>1
    <3> QED
      BY <3>3 DEF list
  <2>3. \A d \in Range(lists[a0]) : owner[d] = a0
    BY <2>1 DEF OwnList, Range
  <2>4. \A i \in DOMAIN Track(lists[a0], o) :
          Track(lists[a0], o)[i] \in Range(lists[a0]) \union {o}
    BY <2>2 DEF Range
  <2> QED
    BY <2>2, <2>3, <2>4 DEF OwnList
<1>5. v \in WindowType(T)
  <2>1. v.actorOffsets \in [Actors -> Seq(T)]
    BY <1>1, <1>3, <1>4
  <2>2. v = [ minOffset    |-> v.minOffset,
              maxOffset    |-> v.maxOffset,
              offsetActor  |-> v.offsetActor,
              actorOffsets |-> v.actorOffsets ]
    BY DEF Add
  <2>3. /\ v.minOffset \in T \union {NoOffset}
        /\ v.maxOffset \in T \union {NoOffset}
        /\ v.offsetActor \in SUBSET T
    BY <1>1, <1>3 DEF WindowType
  <2> HIDE DEF v
  <2> QED
    BY <2>1, <2>2, <2>3 DEF WindowType
<1> HIDE DEF v, lists, a0
<1>6. Agrees(v, owner)
  <2>1. \A a \in Actors :
          v.actorOffsets[a] = IF a = a0 THEN Track(lists[a0], o) ELSE lists[a]
    BY <1>1, <1>3
  <2>2. \A a \in Actors : OwnList(v.actorOffsets[a], a, owner)
    BY <1>2, <1>4, <2>1 DEF Agrees, lists
  <2>3. \A a \in Actors :
          Range(v.actorOffsets[a]) = Range(lists[a]) \union (IF a = a0 THEN {o} ELSE {})
    BY <1>4, <2>1
  <2>4. w.offsetActor = UNION {Range(lists[a]) : a \in Actors}
    BY <1>2 DEF Agrees, lists
  <2>5. v.offsetActor = UNION {Range(v.actorOffsets[a]) : a \in Actors}
    <3>1. ASSUME NEW d \in v.offsetActor
          PROVE  \E a \in Actors : d \in Range(v.actorOffsets[a])
      <4>1. CASE d = o
        BY <1>1, <2>3, <4>1
      <4>2. CASE d # o
        BY <1>3, <2>3, <2>4, <4>2
      <4> QED
        BY <4>1, <4>2
    <3>2. ASSUME NEW a \in Actors, NEW d \in Range(v.actorOffsets[a])
          PROVE  d \in v.offsetActor
      BY <1>3, <2>3, <2>4
    <3> QED
      BY <3>1, <3>2
  <2> QED
    BY <2>2, <2>5 DEF Agrees
<1>7. Bounded(v, T)
  <2>1. CASE w.offsetActor = {}
    BY <1>2, <1>3, <1>1, <2>1 DEF Bounded
  <2>2. CASE w.offsetActor # {}
    <3>1. /\ w.minOffset \in w.offsetActor
          /\ \A d \in w.offsetActor : d <= w.maxOffset
          /\ w.maxOffset \in T
          /\ w.offsetActor \subseteq Nat
          /\ w.maxOffset \in Nat /\ o \in Nat
      BY <1>1, <1>2, <2>2 DEF Bounded, WindowType
    <3>2. v.minOffset \in v.offsetActor
      BY <1>3, <3>1
    <3>3. v.maxOffset \in T /\ o <= v.maxOffset /\ w.maxOffset <= v.maxOffset
      BY <1>3, <3>1 DEF NoOffset
    <3>4. \A d \in v.offsetActor : d <= v.maxOffset
      <4> SUFFICES ASSUME NEW d \in v.offsetActor PROVE d <= v.maxOffset
        OBVIOUS
      <4>1. v.maxOffset \in Nat
        BY <1>1, <3>3
      <4>2. CASE d = o
        BY <3>3, <4>2
      <4>3. CASE d \in w.offsetActor
        BY <3>1, <3>3, <4>1, <4>3
      <4> QED
        BY <1>3, <4>2, <4>3
    <3> QED
      BY <3>2, <3>3, <3>4 DEF Bounded
  <2> QED
    BY <2>1, <2>2
<1> QED
  BY <1>3, <1>5, <1>6, <1>7 DEF WindowOK, v, a0

-----------------------------------------------------------------------------
(* What an offset that is neither stored nor tracked does to a commit.     *)

(* A completion takes away what a stored snapshot covers, nothing else,    *)
(* and leaves the greatest offset alone.                                   *)
LEMMA CompleteTakes ==
  ASSUME NEW T \in SUBSET Nat, NEW owner \in [T -> Actors],
         NEW w, WindowOK(w, T, owner),
         NEW upTo, DOMAIN upTo \subseteq Actors, \A a \in DOMAIN upTo : upTo[a] \in Nat
  PROVE  LET v == Complete(w, upTo).window
         IN  /\ \A o \in w.offsetActor \ v.offsetActor :
                  owner[o] \in DOMAIN upTo /\ o <= upTo[owner[o]]
             /\ v.offsetActor # {} => v.maxOffset = w.maxOffset
<1> DEFINE removed == RemovedBy(w, upTo)
           left == w.offsetActor \ removed
           v == Complete(w, upTo).window
<1>1. /\ \A a \in Actors : w.actorOffsets[a] \in Seq(T)
      /\ \A a \in Actors : OwnList(w.actorOffsets[a], a, owner)
      /\ Bounded(w, T)
  BY DEF WindowOK, WindowType, Agrees
<1>2. ASSUME NEW o \in removed
      PROVE  owner[o] \in DOMAIN upTo /\ o <= upTo[owner[o]]
  <2>1. PICK a \in DOMAIN upTo : o \in Done(w.actorOffsets[a], upTo[a])
    BY DEF RemovedBy
  <2> DEFINE list == w.actorOffsets[a]
             n == DoneCount(list, upTo[a])
  <2>2. a \in Actors /\ list \in Seq(T) /\ upTo[a] \in Nat
    BY <1>1
  <2>3. n \in 0 .. Len(list) /\ \A i \in 1 .. n : list[i] <= upTo[a]
    <3> HIDE DEF list
    <3> QED
      BY <2>2, DoneCountStops
  <2>4. PICK i \in 1 .. n : o = list[i]
    BY <2>1 DEF Done
  <2>5. OwnList(list, a, owner)
    BY <1>1, <2>2
  <2> HIDE DEF n, list
  <2>6. i \in DOMAIN list
    BY <2>2, <2>3
  <2>7. owner[o] = a
    BY <2>4, <2>5, <2>6 DEF OwnList
  <2> QED
    BY <2>3, <2>4, <2>7
<1>3. CASE left # {}
  <2>1. v.offsetActor = left /\ v.maxOffset = w.maxOffset
    BY <1>3 DEF Complete
  <2> HIDE DEF v, removed
  <2> QED
    BY <1>2, <2>1 DEF v
<1>4. CASE left = {}
  <2>1. v.offsetActor = {} \/ v = w
    BY <1>4 DEF Complete
  <2>2. w.offsetActor \subseteq removed
    BY <1>4
  <2> HIDE DEF v, removed
  <2> QED
    BY <1>2, <2>1, <2>2 DEF v
<1> QED
  BY <1>3, <1>4

(* The window tracks every missing offset up to its greatest one.          *)
NoGap(w, missing) ==
  w.offsetActor # {} => \A d \in missing : d <= w.maxOffset => d \in w.offsetActor

LEMMA AddLeavesNoGap ==
  ASSUME NEW T \in SUBSET Nat, NEW owner \in [T -> Actors],
         NEW w, WindowOK(w, T, owner), NEW o \in T,
         NEW missing \in SUBSET T, NoGap(w, missing),
         \A d \in missing : d < o => d \in w.offsetActor
  PROVE  NoGap(Add(w, o, owner[o]), missing)
<1> DEFINE v == Add(w, o, owner[o])
<1>1. v.offsetActor = w.offsetActor \union {o}
  BY DEF Add
<1>2. v.maxOffset = IF w.maxOffset = NoOffset \/ o > w.maxOffset THEN o ELSE w.maxOffset
  BY DEF Add
<1>3. Bounded(w, T) /\ NoOffset = -1
  BY DEF WindowOK, NoOffset
<1> HIDE DEF v
<1>4. ASSUME NEW d \in missing, d <= v.maxOffset
      PROVE  d \in v.offsetActor
  <2>1. d \in Nat /\ o \in Nat
    OBVIOUS
  <2>2. CASE d <= o
    BY <1>1, <2>1, <2>2
  <2>3. CASE ~ (d <= o)
    <3>1. v.maxOffset = w.maxOffset /\ w.maxOffset # NoOffset
      BY <1>2, <1>4, <2>1, <2>3
    <3>2. w.offsetActor # {}
      BY <1>3, <3>1 DEF Bounded
    <3> QED
      BY <1>1, <1>4, <3>1, <3>2 DEF NoGap
  <2> QED
    BY <2>2, <2>3
<1> QED
  BY <1>4 DEF NoGap, v

(***************************************************************************)
(* When the snapshots that are completed leave nothing missing below their *)
(* offsets, and the window has no gap, no commit passes a missing offset:  *)
(* later is what is missing once they are stored.                          *)
(***************************************************************************)
LEMMA CommitPassesNothing ==
  ASSUME NEW T \in SUBSET Nat, NEW owner \in [T -> Actors],
         NEW w, WindowOK(w, T, owner),
         NEW upTo, DOMAIN upTo \subseteq Actors, \A a \in DOMAIN upTo : upTo[a] \in Nat,
         NEW missing \in SUBSET T, NoGap(w, missing),
         NEW later \in SUBSET missing,
         \A d \in later : owner[d] \in DOMAIN upTo => ~ (d <= upTo[owner[d]])
  PROVE  LET r == Complete(w, upTo)
         IN  /\ NoGap(r.window, later)
             /\ r.advanced => \A d \in later : d >= r.next
<1> DEFINE r == Complete(w, upTo)
           left == r.window.offsetActor
<1>1. /\ \A o \in w.offsetActor \ left : owner[o] \in DOMAIN upTo /\ o <= upTo[owner[o]]
      /\ left # {} => r.window.maxOffset = w.maxOffset
  BY CompleteTakes
<1>2. /\ left \subseteq w.offsetActor
      /\ r.advanced =>
           /\ r.next \in Nat
           /\ \A o \in left : r.next <= o
           /\ IF left = {} THEN r.next = w.maxOffset + 1 /\ w.maxOffset \in T
              ELSE r.next \in left
  BY CompleteKeeps
<1>3. Bounded(w, T) /\ NoOffset \notin T /\ w.offsetActor \subseteq T
  BY DEF WindowOK, NoOffset, WindowType
<1> HIDE DEF r, left
<1>4. \A d \in later : d \in w.offsetActor => d \in left
  BY <1>1
<1>5. NoGap(r.window, later)
  BY <1>1, <1>2, <1>4 DEF NoGap, left
<1>6. ASSUME r.advanced, NEW d \in later
      PROVE  d >= r.next
  <2>1. d \in Nat /\ r.next \in Nat
    BY <1>2, <1>6
  <2>2. CASE left = {}
    <3>1. r.next = w.maxOffset + 1 /\ w.maxOffset \in T /\ w.maxOffset \in Nat
      BY <1>2, <1>6, <2>2
    <3>2. w.offsetActor # {}
      BY <1>3, <3>1 DEF Bounded
    <3>3. ~ (d <= w.maxOffset)
      BY <1>4, <2>2, <3>2 DEF NoGap
    <3> QED
      BY <2>1, <3>1, <3>3
  <2>3. CASE left # {}
    <3>1. r.next \in left /\ r.next \in w.offsetActor
      BY <1>2, <1>6, <2>3
    <3>2. r.next <= w.maxOffset /\ w.maxOffset \in Nat
      BY <1>3, <3>1 DEF Bounded
    <3>3. CASE d <= w.maxOffset
      <4>1. d \in left
        BY <1>4, <3>1, <3>3 DEF NoGap
      <4> QED
        BY <1>2, <1>6, <2>1, <4>1
    <3> QED
      BY <2>1, <3>2, <3>3
  <2> QED
    BY <2>2, <2>3
<1> QED
  BY <1>5, <1>6 DEF r
=============================================================================
