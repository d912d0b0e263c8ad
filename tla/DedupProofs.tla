----------------------------- MODULE DedupProofs -----------------------------
(***************************************************************************)
(* Theorems about the dedup ring, for every set of identifiers, every      *)
(* capacity and restored lists of any length: the ring and the lookup set  *)
(* stay the same set, and the ring remembers what Recent promises.         *)
(***************************************************************************)
EXTENDS Dedup, FiniteSetTheorems, WellFoundedInduction, TLAPS

-----------------------------------------------------------------------------
(* The ring.                                                               *)

Rings == [items : [Slots -> Ids \union {Zero}], head : Slots, size : 0 .. Capacity]

Taking(r) == {Slot(r, k) : k \in 0 .. r.size - 1}

(* A slot holds a value when it is one of the size slots from head on.     *)
Ring(r) ==
  /\ r \in Rings
  /\ \A i \in Slots : r.items[i] = Zero <=> i \notin Taking(r)

(* Slots run from head on, and start again at 0.                           *)
LEMMA SlotIs ==
  ASSUME NEW r \in Rings
  PROVE  /\ \A k \in 0 .. Capacity - 1 :
              Slot(r, k) = IF r.head + k < Capacity THEN r.head + k ELSE r.head + k - Capacity
         /\ \A k \in 0 .. Capacity - 1 : Slot(r, k) \in Slots
         /\ \A j, k \in 0 .. Capacity - 1 : Slot(r, j) = Slot(r, k) => j = k
         /\ Slot(r, 0) = r.head
<1>1. r.head \in Slots /\ Capacity \in Nat \ {0}
  BY CapacityAssumption DEF Rings
<1>2. ASSUME NEW k \in 0 .. Capacity - 1
      PROVE  Slot(r, k) = IF r.head + k < Capacity THEN r.head + k ELSE r.head + k - Capacity
  BY <1>1 DEF Slot, Slots
<1>3. 0 \in 0 .. Capacity - 1
  BY <1>1
<1> QED
  BY <1>1, <1>2, <1>3 DEF Slots

(* The values of a ring.                                                   *)
LEMMA ContentsTyped ==
  ASSUME NEW r, Ring(r)
  PROVE  /\ Contents(r) \in Seq(Ids)
         /\ Len(Contents(r)) = r.size
         /\ r.size \in 0 .. Capacity
         /\ \A k \in 1 .. r.size : Contents(r)[k] = r.items[Slot(r, k - 1)]
<1>1. r \in Rings /\ r.size \in 0 .. Capacity /\ Capacity \in Nat \ {0}
  BY CapacityAssumption DEF Ring, Rings
<1>2. ASSUME NEW k \in 1 .. r.size
      PROVE  r.items[Slot(r, k - 1)] \in Ids
  <2>1. k - 1 \in 0 .. r.size - 1 /\ k - 1 \in 0 .. Capacity - 1
    BY <1>1
  <2>2. Slot(r, k - 1) \in Slots /\ Slot(r, k - 1) \in Taking(r)
    BY <1>1, <2>1, SlotIs DEF Taking
  <2> QED
    BY <1>1, <2>2 DEF Ring, Rings
<1> QED
  BY <1>1, <1>2 DEF Contents

LEMMA NewRingIsRing ==
  /\ Ring(NewRing)
  /\ Contents(NewRing) = <<>>
<1>1. NewRing \in Rings
  BY CapacityAssumption DEF NewRing, Rings, Slots
<1>2. Taking(NewRing) = {}
  BY DEF Taking, NewRing
<1>3. Ring(NewRing)
  BY <1>1, <1>2 DEF Ring, NewRing
<1>4. Contents(NewRing) \in Seq(Ids) /\ Len(Contents(NewRing)) = 0
  BY <1>3, ContentsTyped DEF NewRing
<1> QED
  BY <1>3, <1>4

(* Push appends, as long as there is room.                                 *)
LEMMA PushAppends ==
  ASSUME NEW r, Ring(r), ~ RingFull(r), NEW id \in Ids
  PROVE  /\ Ring(Push(r, id))
         /\ Contents(Push(r, id)) = Append(Contents(r), id)
<1> DEFINE at == Slot(r, r.size)
           p == Push(r, id)
<1>1. /\ r \in Rings /\ r.size \in 0 .. Capacity - 1 /\ Capacity \in Nat \ {0}
      /\ r.head \in Slots
  BY CapacityAssumption DEF Ring, Rings, RingFull
<1>2. at \in Slots
  BY <1>1, SlotIs
<1>3. p = [r EXCEPT !.items[at] = id, !.size = r.size + 1]
  BY DEF Push
<1> HIDE DEF at, p
<1>4. /\ p \in Rings
      /\ p.head = r.head /\ p.size = r.size + 1
      /\ p.items = [r.items EXCEPT ![at] = id]
  <2> DEFINE items == [r.items EXCEPT ![at] = id]
             size == r.size + 1
  <2>1. items \in [Slots -> Ids \union {Zero}] /\ size \in 0 .. Capacity
    BY <1>1, <1>2 DEF Rings
  <2>2. p = [r EXCEPT !.items = items, !.size = size]
    BY <1>3
  <2> HIDE DEF items, size
  <2>3. p \in Rings /\ p.head = r.head /\ p.size = size /\ p.items = items
    BY <1>1, <2>1, <2>2 DEF Rings
  <2> QED
    BY <2>3 DEF items, size
<1>5. \A k : Slot(p, k) = Slot(r, k)
  BY <1>4 DEF Slot
<1>6. \A k \in 0 .. r.size - 1 : Slot(r, k) # at /\ Slot(r, k) \in Slots
  BY <1>1, SlotIs DEF at
<1>7. Taking(p) = Taking(r) \union {at}
  <2>1. \A k : k \in 0 .. p.size - 1 <=> k \in 0 .. r.size - 1 \/ k = r.size
    BY <1>1, <1>4
  <2> QED
    BY <1>5, <2>1 DEF Taking, at
<1>8. Ring(p)
  <2> SUFFICES ASSUME NEW i \in Slots
               PROVE  p.items[i] = Zero <=> i \notin Taking(p)
    BY <1>4 DEF Ring
  <2>1. CASE i = at
    BY <1>2, <1>4, <1>7, <2>1, ZeroAssumption DEF Rings
  <2>2. CASE i # at
    BY <1>1, <1>2, <1>4, <1>7, <2>2 DEF Ring, Rings
  <2> QED
    BY <2>1, <2>2
<1>9. Contents(p) = Append(Contents(r), id)
  <2>1. /\ Contents(p) \in Seq(Ids) /\ Len(Contents(p)) = r.size + 1
        /\ \A k \in 1 .. r.size + 1 : Contents(p)[k] = p.items[Slot(r, k - 1)]
    <3>1. /\ Contents(p) \in Seq(Ids) /\ Len(Contents(p)) = p.size
          /\ \A k \in 1 .. p.size : Contents(p)[k] = p.items[Slot(p, k - 1)]
      BY <1>8, ContentsTyped
    <3> QED
      BY <1>4, <1>5, <3>1
  <2>2. /\ Contents(r) \in Seq(Ids) /\ Len(Contents(r)) = r.size
        /\ \A k \in 1 .. r.size : Contents(r)[k] = r.items[Slot(r, k - 1)]
    BY ContentsTyped
  <2>3. \A k \in 1 .. r.size : Contents(p)[k] = Contents(r)[k]
    <3> SUFFICES ASSUME NEW k \in 1 .. r.size
                 PROVE  p.items[Slot(r, k - 1)] = r.items[Slot(r, k - 1)]
      BY <1>1, <2>1, <2>2
    <3>1. k - 1 \in 0 .. r.size - 1
      BY <1>1
    <3> QED
      BY <1>1, <1>4, <1>6, <3>1 DEF Rings
  <2>4. Contents(p)[r.size + 1] = id
    <3>1. p.items[at] = id
      BY <1>1, <1>2, <1>4 DEF Rings
    <3>2. r.size + 1 \in 1 .. r.size + 1 /\ (r.size + 1) - 1 = r.size
      BY <1>1
    <3> QED
      BY <2>1, <3>1, <3>2 DEF at
  <2> QED
    BY <1>1, <2>1, <2>2, <2>3, <2>4
<1> QED
  BY <1>8, <1>9 DEF p

(* Pop takes the oldest value, which is what Peek shows.                   *)
LEMMA PopTakesOldest ==
  ASSUME NEW r, Ring(r), r.size # 0
  PROVE  /\ Ring(Pop(r))
         /\ ~ RingFull(Pop(r))
         /\ Contents(Pop(r)) = Tail(Contents(r))
         /\ Contents(r) # <<>>
         /\ Peek(r) = Contents(r)[1]
<1> DEFINE p == Pop(r)
           head == IF r.size = 1 THEN 0 ELSE Slot(r, 1)
<1>1. /\ r \in Rings /\ r.size \in 1 .. Capacity /\ Capacity \in Nat \ {0}
      /\ r.head \in Slots
  BY CapacityAssumption DEF Ring, Rings
<1>2. head \in Slots
  BY <1>1, SlotIs DEF Slots
<1>3. p = [items |-> [r.items EXCEPT ![r.head] = Zero], head |-> head, size |-> r.size - 1]
  BY DEF Pop
<1>4. head = IF r.size = 1 THEN 0 ELSE Slot(r, 1)
  OBVIOUS
<1> HIDE DEF p, head
<1>5. /\ p \in Rings
      /\ p.head = head /\ p.size = r.size - 1
      /\ p.items = [r.items EXCEPT ![r.head] = Zero]
  BY <1>1, <1>2, <1>3 DEF Rings
<1>6. \A k \in 0 .. p.size - 1 : Slot(p, k) = Slot(r, k + 1)
  <2> SUFFICES ASSUME NEW k \in 0 .. p.size - 1
               PROVE  Slot(p, k) = Slot(r, k + 1)
    OBVIOUS
  <2>1. /\ r.size # 1 /\ 1 \in 0 .. Capacity - 1
        /\ k \in 0 .. Capacity - 1 /\ k + 1 \in 0 .. Capacity - 1
    BY <1>1, <1>5
  <2>2. /\ p.head = IF r.head + 1 < Capacity THEN r.head + 1 ELSE r.head + 1 - Capacity
    BY <1>1, <1>4, <1>5, <2>1, SlotIs
  <2>3. /\ Slot(p, k) = IF p.head + k < Capacity THEN p.head + k ELSE p.head + k - Capacity
        /\ Slot(r, k + 1) = IF r.head + (k + 1) < Capacity THEN r.head + (k + 1)
                            ELSE r.head + (k + 1) - Capacity
    BY <1>1, <1>5, <2>1, SlotIs
  <2> QED
    BY <1>1, <2>1, <2>2, <2>3 DEF Slots
<1>7. /\ Slot(r, 0) = r.head
      /\ \A k \in 1 .. r.size - 1 : Slot(r, k) # r.head /\ Slot(r, k) \in Slots
  BY <1>1, SlotIs
<1>8. Taking(p) = Taking(r) \ {r.head}
  <2>1. \A k \in 0 .. p.size - 1 : k + 1 \in 1 .. r.size - 1 /\ k + 1 \in 0 .. r.size - 1
    BY <1>1, <1>5
  <2>2. \A k \in 0 .. r.size - 1 : k = 0 \/ (k \in 1 .. r.size - 1 /\ k - 1 \in 0 .. p.size - 1)
    BY <1>1, <1>5
  <2>3. ASSUME NEW i \in Taking(p)
        PROVE  i \in Taking(r) \ {r.head}
    <3>1. PICK k \in 0 .. p.size - 1 : i = Slot(p, k)
      BY DEF Taking
    <3> QED
      BY <1>6, <1>7, <2>1, <3>1 DEF Taking
  <2>4. ASSUME NEW i \in Taking(r), i # r.head
        PROVE  i \in Taking(p)
    <3>1. PICK k \in 0 .. r.size - 1 : i = Slot(r, k)
      BY DEF Taking
    <3>2. k - 1 \in 0 .. p.size - 1 /\ (k - 1) + 1 = k
      BY <1>7, <2>2, <2>4, <3>1
    <3>3. Slot(p, k - 1) = i
      BY <1>6, <3>1, <3>2
    <3> QED
      BY <3>2, <3>3 DEF Taking
  <2> QED
    BY <2>3, <2>4
<1>9. Ring(p)
  <2> SUFFICES ASSUME NEW i \in Slots
               PROVE  p.items[i] = Zero <=> i \notin Taking(p)
    BY <1>5 DEF Ring
  <2>1. CASE i = r.head
    BY <1>1, <1>5, <1>8, <2>1 DEF Rings
  <2>2. CASE i # r.head
    BY <1>1, <1>5, <1>8, <2>2 DEF Ring, Rings
  <2> QED
    BY <2>1, <2>2
<1>10. /\ Contents(r) \in Seq(Ids) /\ Len(Contents(r)) = r.size
       /\ \A k \in 1 .. r.size : Contents(r)[k] = r.items[Slot(r, k - 1)]
  BY ContentsTyped
<1>11. Contents(p) = Tail(Contents(r))
  <2>1. /\ Contents(p) \in Seq(Ids) /\ Len(Contents(p)) = r.size - 1
        /\ \A k \in 1 .. r.size - 1 : Contents(p)[k] = p.items[Slot(p, k - 1)]
    BY <1>5, <1>9, ContentsTyped
  <2>2. \A k \in 1 .. r.size - 1 : Contents(p)[k] = Contents(r)[k + 1]
    <3> SUFFICES ASSUME NEW k \in 1 .. r.size - 1
                 PROVE  Contents(p)[k] = Contents(r)[k + 1]
      OBVIOUS
    <3>1. k - 1 \in 0 .. p.size - 1 /\ (k - 1) + 1 = k /\ k + 1 \in 1 .. r.size /\ (k + 1) - 1 = k
      BY <1>1, <1>5
    <3>2. Slot(p, k - 1) = Slot(r, k)
      BY <1>6, <3>1
    <3>3. Slot(r, k) # r.head /\ Slot(r, k) \in Slots
      BY <1>7
    <3> QED
      BY <1>1, <1>5, <1>10, <2>1, <3>1, <3>2, <3>3 DEF Rings
  <2> QED
    BY <1>1, <1>10, <2>1, <2>2
<1>12. /\ Contents(r) # <<>>
       /\ Peek(r) = Contents(r)[1]
  <2>1. 1 \in 1 .. r.size /\ 1 - 1 = 0
    BY <1>1
  <2> QED
    BY <1>1, <1>7, <1>10, <2>1 DEF Peek
<1>13. ~ RingFull(p)
  BY <1>1, <1>5 DEF RingFull
<1> QED
  BY <1>9, <1>11, <1>12, <1>13 DEF p

-----------------------------------------------------------------------------
(* The ring and the set together.                                          *)

LEMMA RangeIs == \A f : Range(f) = {f[x] : x \in DOMAIN f}
  BY DEF Range

LEMMA SameRange == \A f : Promise!Range(f) = Range(f)
  BY DEF Promise!Range, Range

Consistent(d) ==
  /\ d = [queue |-> d.queue, queued |-> d.queued]
  /\ Ring(d.queue)
  /\ IsInjective(Contents(d.queue))
  /\ d.queued = Range(Contents(d.queue))

(* A list without repetitions loses its first value from its range when it *)
(* loses it.                                                               *)
LEMMA TailForgets ==
  ASSUME NEW s \in Seq(Ids), s # <<>>, IsInjective(s)
  PROVE  /\ Tail(s) \in Seq(Ids)
         /\ IsInjective(Tail(s))
         /\ Range(Tail(s)) = Range(s) \ {s[1]}
<1>1. /\ Tail(s) \in Seq(Ids) /\ Len(Tail(s)) = Len(s) - 1
      /\ Len(s) \in Nat \ {0}
      /\ \A k \in 1 .. Len(s) - 1 : Tail(s)[k] = s[k + 1]
      /\ DOMAIN Tail(s) = 1 .. Len(s) - 1 /\ DOMAIN s = 1 .. Len(s)
  OBVIOUS
<1>2. IsInjective(Tail(s))
  <2> SUFFICES ASSUME NEW j \in 1 .. Len(s) - 1, NEW k \in 1 .. Len(s) - 1,
                      s[j + 1] = s[k + 1]
               PROVE  j = k
    BY <1>1 DEF IsInjective
  <2>1. j + 1 \in DOMAIN s /\ k + 1 \in DOMAIN s
    BY <1>1
  <2>2. j + 1 = k + 1
    BY <2>1 DEF IsInjective
  <2> QED
    BY <1>1, <2>2
<1>3. ASSUME NEW x \in Range(Tail(s))
      PROVE  x \in Range(s) \ {s[1]}
  <2>1. PICK k \in 1 .. Len(s) - 1 : x = s[k + 1]
    BY <1>1, RangeIs
  <2>2. k + 1 \in DOMAIN s /\ 1 \in DOMAIN s /\ k + 1 # 1
    BY <1>1
  <2> QED
    BY <2>1, <2>2, RangeIs DEF IsInjective
<1>4. ASSUME NEW x \in Range(s), x # s[1]
      PROVE  x \in Range(Tail(s))
  <2>1. PICK k \in DOMAIN s : x = s[k]
    BY RangeIs
  <2>2. k - 1 \in 1 .. Len(s) - 1 /\ (k - 1) + 1 = k
    BY <1>1, <1>4, <2>1
  <2>3. Tail(s)[k - 1] = x
    BY <1>1, <2>1, <2>2
  <2> QED
    BY <1>1, <2>2, <2>3, RangeIs
<1> QED
  BY <1>1, <1>2, <1>3, <1>4

LEMMA AppendRemembers ==
  ASSUME NEW s \in Seq(Ids), IsInjective(s), NEW id \in Ids, id \notin Range(s)
  PROVE  /\ IsInjective(Append(s, id))
         /\ Range(Append(s, id)) = Range(s) \union {id}
<1>1. /\ Len(s) \in Nat /\ DOMAIN s = 1 .. Len(s)
      /\ DOMAIN Append(s, id) = 1 .. Len(s) + 1
      /\ Append(s, id)[Len(s) + 1] = id
      /\ \A k \in 1 .. Len(s) : Append(s, id)[k] = s[k]
  OBVIOUS
<1>2. \A k \in 1 .. Len(s) + 1 : k \in 1 .. Len(s) \/ k = Len(s) + 1
  BY <1>1
<1>3. \A k \in 1 .. Len(s) : s[k] # id /\ k \in 1 .. Len(s) + 1
  BY <1>1, RangeIs
<1>4. Len(s) + 1 \in 1 .. Len(s) + 1
  BY <1>1
<1>5. IsInjective(Append(s, id))
  BY <1>1, <1>2, <1>3 DEF IsInjective
<1>6. Range(Append(s, id)) = Range(s) \union {id}
  BY <1>1, <1>2, <1>3, <1>4, RangeIs
<1> QED
  BY <1>5, <1>6

(* Add keeps ring and set the same, and remembers as Recent says.          *)
LEMMA AddedRemembers ==
  ASSUME NEW d, Consistent(d), NEW id \in Ids
  PROVE  /\ Consistent(Added(d, id))
         /\ Contents(Added(d, id).queue) = Promise!Remembering(Contents(d.queue), id)
<1> DEFINE q == d.queue
           c == Contents(q)
<1>1. /\ Ring(q) /\ IsInjective(c) /\ d.queued = Range(c)
      /\ c \in Seq(Ids) /\ Len(c) = q.size /\ q.size \in 0 .. Capacity
      /\ Capacity \in Nat \ {0}
  BY ContentsTyped, CapacityAssumption DEF Consistent
<1>2. CASE id \in Range(c)
  BY <1>1, <1>2, SameRange DEF Added, Promise!Remembering
<1>3. CASE id \notin Range(c) /\ ~ RingFull(q)
  <2>1. Added(d, id) = [queue |-> Push(q, id), queued |-> d.queued \union {id}]
    <3>1. (d.queued \ {}) \union {id} = d.queued \union {id}
      OBVIOUS
    <3> QED
      BY <1>1, <1>3, <3>1 DEF Added
  <2>2. Ring(Push(q, id)) /\ Contents(Push(q, id)) = Append(c, id)
    BY <1>1, <1>3, PushAppends
  <2>3. Promise!Remembering(c, id) = Append(c, id)
    BY <1>1, <1>3, SameRange DEF Promise!Remembering, RingFull
  <2>4. IsInjective(Append(c, id)) /\ Range(Append(c, id)) = Range(c) \union {id}
    BY <1>1, <1>3, AppendRemembers
  <2> HIDE DEF c, q
  <2>5. Added(d, id).queue = Push(q, id) /\ Added(d, id).queued = Range(c) \union {id}
    BY <1>1, <2>1
  <2> QED
    BY <2>1, <2>2, <2>3, <2>4, <2>5 DEF Consistent, c, q
<1>4. CASE id \notin Range(c) /\ RingFull(q)
  <2> DEFINE p == Pop(q)
             t == Tail(c)
  <2>1. Added(d, id) = [queue |-> Push(p, id), queued |-> (d.queued \ {Peek(q)}) \union {id}]
    BY <1>1, <1>4 DEF Added
  <2>2. q.size # 0
    BY <1>1, <1>4 DEF RingFull
  <2>3. /\ Ring(p) /\ ~ RingFull(p) /\ Contents(p) = t
        /\ c # <<>> /\ Peek(q) = c[1]
    BY <1>1, <2>2, PopTakesOldest
  <2>4. t \in Seq(Ids) /\ IsInjective(t) /\ Range(t) = Range(c) \ {c[1]}
    BY <1>1, <2>3, TailForgets
  <2>5. Ring(Push(p, id)) /\ Contents(Push(p, id)) = Append(t, id)
    BY <2>3, PushAppends
  <2>6. Promise!Remembering(c, id) = Append(t, id)
    BY <1>1, <1>4, SameRange DEF Promise!Remembering, RingFull
  <2>7. IsInjective(Append(t, id)) /\ Range(Append(t, id)) = Range(t) \union {id}
    BY <1>4, <2>4, AppendRemembers
  <2> HIDE DEF c, q, p, t
  <2>8. /\ Added(d, id).queue = Push(p, id)
        /\ Added(d, id).queued = Range(t) \union {id}
    BY <1>1, <2>1, <2>3, <2>4
  <2> QED
    BY <2>1, <2>5, <2>6, <2>7, <2>8 DEF Consistent, c, q
<1> QED
  BY <1>2, <1>3, <1>4

LEMMA EmptiedIsEmpty ==
  ASSUME NEW d
  PROVE  /\ Consistent(Emptied(d))
         /\ Contents(Emptied(d).queue) = <<>>
<1>1. Emptied(d).queue = NewRing /\ Emptied(d).queued = {}
  BY DEF Emptied, Clear
<1>2. IsInjective(<<>>) /\ Range(<<>>) = {}
  BY RangeIs DEF IsInjective
<1> QED
  BY <1>1, <1>2, NewRingIsRing DEF Consistent, Emptied

-----------------------------------------------------------------------------
(* The loop of Restore, by induction on the number of identifiers taken.   *)

LEMMA UpTo ==
  ASSUME NEW n \in Nat, NEW P \in SUBSET (0 .. n),
         0 \in P, \A k \in P : k < n => k + 1 \in P
  PROVE  P = 0 .. n
<1> SUFFICES ASSUME (0 .. n) \ P # {} PROVE FALSE
  OBVIOUS
<1> DEFINE Q == (0 .. n) \ P
<1>1. Q \in SUBSET Nat /\ Q # {}
  OBVIOUS
<1>2. PICK m \in Q : \A k \in Q : ~ (<<k, m>> \in OpToRel(<, Nat))
  BY <1>1, WFMin, NatLessThanWellFounded
<1>3. \A k \in Nat : k < m => <<k, m>> \in OpToRel(<, Nat)
  <2> SUFFICES ASSUME NEW k \in Nat, k < m
               PROVE  <<k, m>> \in OpToRel(<, Nat)
    OBVIOUS
  <2>1. <<k, m>> \in Nat \X Nat /\ <<k, m>>[1] < <<k, m>>[2]
    OBVIOUS
  <2> QED
    BY <2>1, Zenon DEF OpToRel
<1>4. m # 0 /\ m - 1 \in 0 .. n /\ m - 1 < m /\ m - 1 \in Nat /\ m - 1 < n /\ (m - 1) + 1 = m
  OBVIOUS
<1>5. m - 1 \notin Q
  BY <1>2, <1>3, <1>4
<1> QED
  BY <1>4, <1>5

(* f holds what is known after each of the first n identifiers.            *)
Loop(f, d, ids, n) ==
  f = [k \in 0 .. n |-> IF k = 0 THEN Emptied(d) ELSE Added(f[k - 1], ids[k])]

PromisedLoop(f, ids, n) ==
  f = [k \in 0 .. n |-> IF k = 0 THEN <<>> ELSE Promise!Remembering(f[k - 1], ids[k])]

LEMMA LoopRuns ==
  ASSUME NEW d, NEW ids, NEW n \in Nat
  PROVE  \E f : Loop(f, d, ids, n)
<1> DEFINE P == {m \in 0 .. n : \E f : Loop(f, d, ids, m)}
<1>1. 0 \in P
  <2>1. Loop([k \in 0 .. 0 |-> Emptied(d)], d, ids, 0)
    BY DEF Loop
  <2> QED
    BY <2>1
<1>2. ASSUME NEW m \in P, m < n
      PROVE  m + 1 \in P
  <2>1. PICK f : Loop(f, d, ids, m)
    OBVIOUS
  <2>2. /\ m \in Nat /\ m + 1 \in 0 .. n
        /\ f[0] = Emptied(d)
        /\ \A k \in 1 .. m : f[k] = Added(f[k - 1], ids[k])
    <3>1. m \in 0 .. n /\ m \in Nat /\ m + 1 \in 0 .. n /\ 0 \in 0 .. m
      BY <1>2
    <3>2. \A k \in 1 .. m : k \in 0 .. m /\ k # 0
      BY <3>1
    <3> HIDE DEF P
    <3> QED
      BY <2>1, <3>1, <3>2 DEF Loop
  <2> DEFINE g == [k \in 0 .. m + 1 |-> IF k = m + 1 THEN Added(f[m], ids[k]) ELSE f[k]]
             h == [k \in 0 .. m + 1 |-> IF k = 0 THEN Emptied(d) ELSE Added(g[k - 1], ids[k])]
  <2>3. ASSUME NEW k \in 0 .. m + 1
        PROVE  g[k] = h[k]
    <3>1. CASE k = 0
      BY <2>2, <3>1
    <3>2. CASE k \in 1 .. m
      <4>1. k - 1 \in 0 .. m + 1 /\ k - 1 # m + 1 /\ k # m + 1 /\ k # 0
        BY <2>2, <3>2
      <4>2. g[k] = f[k] /\ g[k - 1] = f[k - 1]
        BY <4>1
      <4>3. h[k] = Added(g[k - 1], ids[k])
        BY <4>1
      <4> HIDE DEF g, h
      <4> QED
        BY <2>2, <3>2, <4>2, <4>3
    <3>3. CASE k = m + 1
      <4>1. m \in 0 .. m + 1 /\ m # m + 1 /\ k # 0 /\ k - 1 = m
        BY <2>2, <3>3
      <4>2. g[k] = Added(f[m], ids[k]) /\ g[m] = f[m]
        BY <3>3, <4>1
      <4>3. h[k] = Added(g[k - 1], ids[k])
        BY <4>1
      <4> HIDE DEF g, h
      <4> QED
        BY <4>1, <4>2, <4>3
    <3> QED
      BY <2>2, <3>1, <3>2, <3>3
  <2>4. g = h
    BY <2>3
  <2>5. Loop(g, d, ids, m + 1)
    <3> HIDE DEF g
    <3> QED
      BY <2>4 DEF Loop
  <2> HIDE DEF g, h
  <2> QED
    BY <2>2, <2>5
<1>3. P = 0 .. n
  BY <1>1, <1>2, UpTo
<1>4. n \in P
  BY <1>3
<1> QED
  BY <1>4

LEMMA PromisedLoopRuns ==
  ASSUME NEW ids, NEW n \in Nat
  PROVE  \E f : PromisedLoop(f, ids, n)
<1> DEFINE P == {m \in 0 .. n : \E f : PromisedLoop(f, ids, m)}
<1>1. 0 \in P
  <2>1. PromisedLoop([k \in 0 .. 0 |-> <<>>], ids, 0)
    BY DEF PromisedLoop
  <2> QED
    BY <2>1
<1>2. ASSUME NEW m \in P, m < n
      PROVE  m + 1 \in P
  <2>1. PICK f : PromisedLoop(f, ids, m)
    OBVIOUS
  <2>2. /\ m \in Nat /\ m + 1 \in 0 .. n
        /\ f[0] = <<>>
        /\ \A k \in 1 .. m : f[k] = Promise!Remembering(f[k - 1], ids[k])
    <3>1. m \in 0 .. n /\ m \in Nat /\ m + 1 \in 0 .. n /\ 0 \in 0 .. m
      BY <1>2
    <3>2. \A k \in 1 .. m : k \in 0 .. m /\ k # 0
      BY <3>1
    <3> HIDE DEF P
    <3> QED
      BY <2>1, <3>1, <3>2 DEF PromisedLoop
  <2> DEFINE g == [k \in 0 .. m + 1 |-> IF k = m + 1 THEN Promise!Remembering(f[m], ids[k])
                                       ELSE f[k]]
             h == [k \in 0 .. m + 1 |-> IF k = 0 THEN <<>>
                                       ELSE Promise!Remembering(g[k - 1], ids[k])]
  <2>3. ASSUME NEW k \in 0 .. m + 1
        PROVE  g[k] = h[k]
    <3>1. CASE k = 0
      BY <2>2, <3>1
    <3>2. CASE k \in 1 .. m
      <4>1. k - 1 \in 0 .. m + 1 /\ k - 1 # m + 1 /\ k # m + 1 /\ k # 0
        BY <2>2, <3>2
      <4>2. g[k] = f[k] /\ g[k - 1] = f[k - 1]
        BY <4>1
      <4>3. h[k] = Promise!Remembering(g[k - 1], ids[k])
        BY <4>1
      <4> HIDE DEF g, h
      <4> QED
        BY <2>2, <3>2, <4>2, <4>3
    <3>3. CASE k = m + 1
      <4>1. m \in 0 .. m + 1 /\ m # m + 1 /\ k # 0 /\ k - 1 = m
        BY <2>2, <3>3
      <4>2. g[k] = Promise!Remembering(f[m], ids[k]) /\ g[m] = f[m]
        BY <3>3, <4>1
      <4>3. h[k] = Promise!Remembering(g[k - 1], ids[k])
        BY <4>1
      <4> HIDE DEF g, h
      <4> QED
        BY <4>1, <4>2, <4>3
    <3> QED
      BY <2>2, <3>1, <3>2, <3>3
  <2>4. g = h
    BY <2>3
  <2>5. PromisedLoop(g, ids, m + 1)
    <3> HIDE DEF g
    <3> QED
      BY <2>4 DEF PromisedLoop
  <2> HIDE DEF g, h
  <2> QED
    BY <2>2, <2>5
<1>3. P = 0 .. n
  BY <1>1, <1>2, UpTo
<1>4. n \in P
  BY <1>3
<1> QED
  BY <1>4

(* Restore goes through the same lists as the promise.                     *)
LEMMA RestoredTakesOver ==
  ASSUME NEW d, NEW ids \in Seq(Ids)
  PROVE  /\ Consistent(Restored(d, ids))
         /\ Contents(Restored(d, ids).queue) = Promise!Taken(ids)
<1> DEFINE n == Len(ids)
           f == CHOOSE x : Loop(x, d, ids, n)
           g == CHOOSE x : PromisedLoop(x, ids, n)
<1>1. n \in Nat /\ \A k \in 1 .. n : ids[k] \in Ids
  OBVIOUS
<1>2. Restored(d, ids) = f[n]
  BY DEF Restored, Loop
<1>3. Promise!Taken(ids) = g[n]
  BY DEF Promise!Taken, PromisedLoop
<1>4. Loop(f, d, ids, n)
  BY <1>1, LoopRuns
<1>5. PromisedLoop(g, ids, n)
  BY <1>1, PromisedLoopRuns
<1> HIDE DEF n, f, g
<1>6. /\ f[0] = Emptied(d) /\ \A k \in 1 .. n : f[k] = Added(f[k - 1], ids[k])
      /\ g[0] = <<>> /\ \A k \in 1 .. n : g[k] = Promise!Remembering(g[k - 1], ids[k])
  BY <1>1, <1>4, <1>5 DEF Loop, PromisedLoop
<1> DEFINE P == {k \in 0 .. n : Consistent(f[k]) /\ Contents(f[k].queue) = g[k]}
<1>7. 0 \in P
  BY <1>1, <1>6, EmptiedIsEmpty
<1>8. ASSUME NEW k \in P, k < n
      PROVE  k + 1 \in P
  <2>1. k + 1 \in 1 .. n /\ (k + 1) - 1 = k
    BY <1>1, <1>8
  <2>2. f[k + 1] = Added(f[k], ids[k + 1]) /\ g[k + 1] = Promise!Remembering(g[k], ids[k + 1])
    BY <1>6, <2>1
  <2>3. Consistent(Added(f[k], ids[k + 1]))
        /\ Contents(Added(f[k], ids[k + 1]).queue) = Promise!Remembering(g[k], ids[k + 1])
    BY <1>1, <2>1, AddedRemembers
  <2> QED
    BY <2>1, <2>2, <2>3
<1>9. P = 0 .. n
  BY <1>1, <1>7, <1>8, UpTo
<1>10. n \in P
  BY <1>1, <1>9
<1> QED
  BY <1>2, <1>3, <1>10

-----------------------------------------------------------------------------
(* The theorems.                                                           *)

LEMMA DedupInit == Init => Consistent(dedup) /\ Promise!Init
  BY NewRingIsRing, RangeIs, EmptiedIsEmpty DEF Init, NewDedup, Consistent, Promise!Init,
     Emptied, Clear

LEMMA DedupStep ==
  Consistent(dedup) /\ [Next]_dedup
    => Consistent(dedup)' /\ [Promise!Next]_(Contents(dedup.queue))
<1> SUFFICES ASSUME Consistent(dedup), [Next]_dedup
             PROVE  Consistent(dedup') /\ [Promise!Next]_(Contents(dedup.queue))
  BY DEF Consistent, Ring, Taking, Contents, Slot
<1>1. ASSUME NEW id \in Ids, Add(id)
      PROVE  Consistent(dedup') /\ Promise!Next
  <2>1. dedup' = Added(dedup, id)
    BY <1>1 DEF Add
  <2>2. Consistent(dedup') /\ Promise!Remember(id)
    BY <2>1, AddedRemembers DEF Promise!Remember
  <2> QED
    BY <2>2 DEF Promise!Next
<1>2. ASSUME Reset
      PROVE  Consistent(dedup') /\ Promise!Next
  <2>1. dedup' = Emptied(dedup)
    BY <1>2 DEF Reset
  <2>2. Consistent(dedup') /\ Promise!Forget
    BY <2>1, EmptiedIsEmpty DEF Promise!Forget
  <2> QED
    BY <2>2 DEF Promise!Next
<1>3. ASSUME NEW ids \in Saved, Restore(ids)
      PROVE  Consistent(dedup') /\ Promise!Next
  <2>1. dedup' = Restored(dedup, ids)
    BY <1>3 DEF Restore
  <2>2. ids \in Seq(Ids)
    BY DEF Saved, BoundedSeq, SeqOf
  <2>3. Consistent(dedup') /\ Promise!TakeOver(ids)
    BY <2>1, <2>2, RestoredTakesOver DEF Promise!TakeOver
  <2>4. ids \in Promise!Remembered
    BY DEF Saved, BoundedSeq, SeqOf, IsInjective, Promise!Remembered, Promise!BoundedSeq,
           Promise!SeqOf, Promise!IsInjective
  <2> QED
    BY <2>3, <2>4 DEF Promise!Next
<1>4. CASE UNCHANGED dedup
  BY <1>4
<1> QED
  BY <1>1, <1>2, <1>3, <1>4 DEF Next

(* The ring keeps its shape: a slot holds a value exactly when it is one   *)
(* of those in use, so no value is kept alive that left the ring.          *)
THEOREM RingKeepsShape == Spec => []TypeOK
<1>1. Consistent(dedup) => TypeOK
  <2> SUFFICES ASSUME Consistent(dedup) PROVE TypeOK
    OBVIOUS
  <2>1. Ring(dedup.queue) /\ Contents(dedup.queue) \in Seq(Ids)
        /\ dedup.queued = Range(Contents(dedup.queue))
    BY ContentsTyped DEF Consistent
  <2>2. dedup.queued \subseteq Ids
    BY <2>1, RangeIs
  <2>3. Taking(dedup.queue) = Occupied
    BY DEF Taking, Occupied
  <2> QED
    BY <2>1, <2>2, <2>3 DEF TypeOK, Ring, Rings
<1> QED
  BY <1>1, DedupInit, DedupStep, PTL DEF Spec

(* An identifier is looked up in the set exactly when the ring has it, and *)
(* the ring has none twice: none stays in the set that would never leave.  *)
THEOREM SetAndRingAgree == Spec => []SetIsQueue
<1>1. Consistent(dedup) => SetIsQueue
  <2> SUFFICES ASSUME Consistent(dedup) PROVE SetIsQueue
    OBVIOUS
  <2> DEFINE c == Contents(dedup.queue)
             n == dedup.queue.size
  <2>1. c \in Seq(Ids) /\ Len(c) = n /\ n \in Nat /\ IsInjective(c)
        /\ dedup.queued = Range(c)
    BY ContentsTyped, CapacityAssumption DEF Consistent
  <2> HIDE DEF c, n
  <2>2. c \in Bijection(1 .. n, Range(c))
    <3>1. DOMAIN c = 1 .. n /\ c \in [1 .. n -> Range(c)]
      BY <2>1, RangeIs
    <3>2. \A x \in Range(c) : \E k \in 1 .. n : c[k] = x
      BY <3>1, RangeIs
    <3> QED
      BY <2>1, <3>1, <3>2 DEF Bijection, Injection, Surjection
  <2>3. IsFiniteSet(1 .. n) /\ Cardinality(1 .. n) = n
    BY <2>1, FS_Interval
  <2>4. Cardinality(Range(c)) = n
    BY <2>2, <2>3, FS_Bijection, Zenon DEF ExistsBijection
  <2> QED
    BY <2>1, <2>4 DEF SetIsQueue, c, n
<1> QED
  BY <1>1, DedupInit, DedupStep, PTL DEF Spec

(* Through any sequence of additions, evictions, resets and restores of    *)
(* lists of any length, the ring remembers the latest identifiers: it      *)
(* implements Recent.                                                      *)
THEOREM RingRemembers == Spec => RemembersRecent
BY DedupInit, DedupStep, PTL DEF Spec, RemembersRecent, Promise!Spec
=============================================================================
