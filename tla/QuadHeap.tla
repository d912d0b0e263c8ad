------------------------------ MODULE QuadHeap ------------------------------
(***************************************************************************)
(* structs/quadheap.go: a heap of keys ordered by deadline, with the place *)
(* of each key in a map.  Every entry carries the number it was inserted   *)
(* with, which decides between equal deadlines.  Positions start at one.   *)
(***************************************************************************)
EXTENDS Integers, FiniteSets, Sequences

CONSTANTS Arity,       \* children of an entry; four in the code
          MaxSequence  \* the largest sequence number; all ones in the code

ASSUME HeapAssumption == Arity \in Nat \ {0} /\ MaxSequence \in Nat

EmptyHeap == [items |-> <<>>, indexes |-> <<>>, nextSeq |-> 0]

(* An entry as the heap's users see it.                                    *)
Item(h, i) == [key |-> h.items[i].key, when |-> h.items[i].when]

Has(h, key) == key \in DOMAIN h.indexes

IsEmpty(h) == h.items = <<>>

Top(h) == Item(h, 1)

Less(h, i, j) ==
  \/ h.items[i].when < h.items[j].when
  \/ h.items[i].when = h.items[j].when /\ h.items[i].sequence < h.items[j].sequence

Swap(h, i, j) ==
  [h EXCEPT !.items = [@ EXCEPT ![i] = h.items[j], ![j] = h.items[i]],
            !.indexes = [@ EXCEPT ![h.items[j].key] = i, ![h.items[i].key] = j]]

Parent(i) == (i - 2) \div Arity + 1

Children(h, i) == {c \in Arity * (i - 1) + 2 .. Arity * i + 1 : c <= Len(h.items)}

(***************************************************************************)
(* The two loops, as functions of the number of rounds.  A round leaves    *)
(* the heap as it is when the loop has ended; the place goes up or down in *)
(* every other one, so there are no more of these than the bounds below.   *)
(* A round goes through a set of one so that TLC evaluates it once.        *)
(***************************************************************************)
The(S) == CHOOSE s \in S : TRUE

Rise(s) ==
  IF s.place = 1 \/ ~ Less(s.heap, s.place, Parent(s.place)) THEN s
  ELSE [heap |-> Swap(s.heap, s.place, Parent(s.place)), place |-> Parent(s.place)]

SiftUp(h, i) ==
  LET after[k \in 0 .. i] ==
        IF k = 0 THEN [heap |-> h, place |-> i] ELSE The({Rise(s) : s \in {after[k - 1]}})
  IN  after[i].heap

Least(h, i) ==
  LET family == Children(h, i) \union {i}
  IN  CHOOSE c \in family : \A d \in family \ {c} : Less(h, c, d)

Sink(s) ==
  LET least == Least(s.heap, s.place)
  IN  IF least = s.place THEN s
      ELSE [heap |-> Swap(s.heap, s.place, least), place |-> least]

SiftDown(h, i) ==
  LET after[k \in 0 .. Len(h.items)] ==
        IF k = 0 THEN [heap |-> h, place |-> i] ELSE The({Sink(s) : s \in {after[k - 1]}})
  IN  after[Len(h.items)].heap

Fix(h, i) ==
  IF i > 1 /\ Less(h, i, Parent(i)) THEN SiftUp(h, i) ELSE SiftDown(h, i)

(* The entries, and how many of them were inserted before one.             *)
Held(h) == {h.items[i] : i \in DOMAIN h.items}

Rank(E, e) == Cardinality({n \in {d.sequence : d \in E} : n < e.sequence})

(* Mutants: the numbers follow the places; counting starts at zero again.  *)
RenumberByPlace(h) ==
  [h EXCEPT !.items = [i \in DOMAIN @ |-> [@[i] EXCEPT !.sequence = i - 1]],
            !.nextSeq = Len(h.items)]
RenumberFromZero(h) ==
  [h EXCEPT !.items = [i \in DOMAIN @ |-> [@[i] EXCEPT !.sequence = Rank(Held(h), h.items[i])]],
            !.nextSeq = 0]

(* The entries are numbered anew in the same order.                        *)
RenumberSequences(h) ==
  [h EXCEPT !.items = [i \in DOMAIN @ |-> [@[i] EXCEPT !.sequence = Rank(Held(h), h.items[i])]],
            !.nextSeq = Len(h.items)]

Indexed(h, key, i) ==
  [k \in DOMAIN h.indexes \union {key} |-> IF k = key THEN i ELSE h.indexes[k]]

Insert(h, key, when) ==
  LET g == IF h.nextSeq = MaxSequence THEN RenumberSequences(h) ELSE h
      n == Len(g.items) + 1
  IN  SiftUp([ items   |-> Append(g.items, [key |-> key, when |-> when,
                                            sequence |-> g.nextSeq]),
               indexes |-> Indexed(g, key, n),
               nextSeq |-> g.nextSeq + 1 ], n)

Update(h, key, when) ==
  Fix([h EXCEPT !.items[h.indexes[key]].when = when], h.indexes[key])

Upsert(h, key, when) ==
  IF Has(h, key) THEN Update(h, key, when) ELSE Insert(h, key, when)

Unindexed(h, key) == [k \in DOMAIN h.indexes \ {key} |-> h.indexes[k]]

RemoveAt(h, i) ==
  LET key   == h.items[i].key
      last  == Len(h.items)
      moved == h.items[last]
      rest  == [h EXCEPT !.items = SubSeq([@ EXCEPT ![i] = moved], 1, last - 1),
                         !.indexes = Unindexed(h, key)]
  IN  IF i = last
      THEN [rest EXCEPT !.nextSeq = IF last = 1 THEN 0 ELSE @]
      ELSE Fix([rest EXCEPT !.indexes[moved.key] = i], i)

Remove(h, key) == IF Has(h, key) THEN RemoveAt(h, h.indexes[key]) ELSE h

(* What every operation relies on and keeps.                               *)
HeapOK(h) ==
  /\ \A i \in DOMAIN h.items : i > 1 => ~ Less(h, i, Parent(i))
  /\ DOMAIN h.indexes = {h.items[i].key : i \in DOMAIN h.items}
  /\ \A i \in DOMAIN h.items : h.indexes[h.items[i].key] = i
  /\ \A i, j \in DOMAIN h.items :
       /\ h.items[i].sequence < h.nextSeq
       /\ h.items[i].sequence = h.items[j].sequence => i = j

(* The entries in the order in which they were inserted.                   *)
ByAge(h) ==
  LET held == Held(h)
  IN  [r \in 1 .. Len(h.items) |-> CHOOSE e \in held : Rank(held, e) = r - 1]
=============================================================================
