-------------------------- MODULE ActorTimersProofs --------------------------
(***************************************************************************)
(* Theorems about an actor's timers, for any set of keys, arity of the     *)
(* heap, number of sequence numbers, capacity and bound on time: the heap  *)
(* stays a heap, the trigger wakes the goroutine in time, and what is due  *)
(* is sent as DueQueue promises.                                           *)
(***************************************************************************)
EXTENDS ActorTimers, FiniteSetTheorems, WellFoundedInduction, TLAPS

(* Arithmetic of the places in the tree.                                   *)
LEMMA Division ==
  ASSUME NEW n \in Nat, NEW a \in Nat \ {0}
  PROVE  n \div a \in Nat /\ a * (n \div a) <= n /\ n < a * (n \div a) + a
OBVIOUS

LEMMA Remainder ==
  ASSUME NEW n \in Nat, NEW a \in Nat \ {0}
  PROVE  n % a \in Nat /\ n % a <= n /\ n % a < a
OBVIOUS

(* A product grows with its second factor.                                 *)
LEMMA Multiples ==
  ASSUME NEW a \in Nat, NEW n \in Nat, NEW m \in Nat, n <= m
  PROVE  a * n <= a * m
<1> DEFINE d == m - n
<1>1. d \in Nat /\ m = n + d
  OBVIOUS
<1> HIDE DEF d
<1>2. a * (n + d) = a * n + a * d
  BY <1>1
<1>3. a * d \in Nat /\ a * n \in Nat
  BY <1>1
<1> QED
  BY <1>1, <1>2, <1>3

(* The children of a place follow one another, behind it.                  *)
LEMMA ParentIs ==
  ASSUME NEW i \in Nat, i >= 2
  PROVE  Parent(i) \in Nat /\ 1 <= Parent(i) /\ Parent(i) < i
         /\ Arity * (Parent(i) - 1) + 2 <= i
         /\ i <= Arity * Parent(i) + 1
<1>1. Arity \in Nat \ {0}
  BY HeapAssumption
<1> DEFINE q == (i - 2) \div Arity
<1>2. q \in Nat /\ Arity * q <= i - 2 /\ i - 2 < Arity * q + Arity
  BY <1>1, Division
<1>3. Parent(i) = q + 1
  BY DEF Parent
<1> HIDE DEF q
<1>4. q <= Arity * q
  BY <1>1, <1>2
<1>5. Arity * (q + 1) = Arity * q + Arity
  BY <1>1, <1>2
<1>6. Arity * ((q + 1) - 1) = Arity * q
  BY <1>1, <1>2
<1> QED
  BY <1>1, <1>2, <1>3, <1>4, <1>5, <1>6

(* What Children counts are the places whose parent this is.               *)
LEMMA ChildIs ==
  ASSUME NEW i \in Nat, i >= 1, NEW c \in Arity * (i - 1) + 2 .. Arity * i + 1
  PROVE  c \in Nat /\ c >= 2 /\ Parent(c) = i
<1>1. Arity \in Nat \ {0}
  BY HeapAssumption
<1>2. c \in Int /\ Arity * (i - 1) + 2 <= c /\ c <= Arity * i + 1
      /\ Arity * (i - 1) \in Nat /\ Arity * i \in Nat
  BY <1>1
<1>3. c \in Nat /\ c >= 2
  BY <1>2
<1> DEFINE p == Parent(c)
<1>4. p \in Nat /\ 1 <= p /\ Arity * (p - 1) + 2 <= c /\ c <= Arity * p + 1
  BY <1>3, ParentIs
<1> HIDE DEF p
<1>5. ~ (p < i)
  <2> SUFFICES ASSUME p <= i - 1 PROVE FALSE
    BY <1>4
  <2> DEFINE j == i - 1
  <2>1. j \in Nat /\ p <= j /\ Arity \in Nat
    BY <1>1, <1>4
  <2> HIDE DEF j
  <2>2. Arity * p <= Arity * j
    BY <1>4, <2>1, Multiples, Zenon
  <2>3. Arity * j + 2 <= c /\ c <= Arity * p + 1
    BY <1>2, <1>4 DEF j
  <2> DEFINE x == Arity * p
             y == Arity * j
  <2>4. x \in Int /\ y \in Int
    BY <1>4, <2>1
  <2>5. x <= y /\ y + 2 <= c /\ c <= x + 1
    BY <2>2, <2>3
  <2> HIDE DEF x, y
  <2> QED
    BY <2>4, <2>5, <1>2
<1>6. ~ (i < p)
  <2> SUFFICES ASSUME i <= p - 1 PROVE FALSE
    BY <1>4
  <2> DEFINE j == p - 1
  <2>1. j \in Nat /\ i <= j /\ Arity \in Nat
    BY <1>1, <1>4
  <2> HIDE DEF j
  <2>2. Arity * i <= Arity * j
    BY <1>4, <2>1, Multiples, Zenon
  <2>3. Arity * j + 2 <= c /\ c <= Arity * i + 1
    BY <1>2, <1>4 DEF j
  <2> DEFINE x == Arity * i
             y == Arity * j
  <2>4. x \in Int /\ y \in Int
    BY <1>4, <2>1
  <2>5. x <= y /\ y + 2 <= c /\ c <= x + 1
    BY <2>2, <2>3
  <2> HIDE DEF x, y
  <2> QED
    BY <2>4, <2>5, <1>2
<1> QED
  BY <1>3, <1>4, <1>5, <1>6 DEF p

-----------------------------------------------------------------------------
(* The order of the entries.                                               *)

Before(e, d) ==
  \/ e.when < d.when
  \/ e.when = d.when /\ e.sequence < d.sequence

(* Entries of which no two have one key or one number.                     *)
Apart(E) ==
  /\ E \subseteq Entries
  /\ \A e, d \in E : e.key = d.key \/ e.sequence = d.sequence => e = d

(* The fields of an entry.                                                 *)
LEMMA EntryTypes ==
  \A e \in Entries : e.key \in Keys /\ e.when \in Nat /\ e.sequence \in Nat
<1>1. Deadlines \subseteq Nat /\ 0 .. MaxSequence \subseteq Nat
  BY TimerAssumption, HeapAssumption DEF Deadlines
<1>2. \A e \in Entries : e.key \in Keys /\ e.when \in Deadlines /\ e.sequence \in 0 .. MaxSequence
  BY DEF Entries
<1> QED
  BY <1>1, <1>2

(* Entries are in a strict, total order, whose complement is transitive.   *)
LEMMA BeforeOrders ==
  ASSUME NEW E, Apart(E)
  PROVE  /\ \A e \in E : ~ Before(e, e)
         /\ \A e, d \in E : e # d => (Before(e, d) <=> ~ Before(d, e))
         /\ \A e, d, g \in E : ~ Before(d, e) /\ ~ Before(g, d) => ~ Before(g, e)
<1>1. \A e \in E : e.when \in Nat /\ e.sequence \in Nat
  BY EntryTypes DEF Apart
<1>2. \A e, d \in E : e.sequence = d.sequence => e = d
  BY DEF Apart
<1> QED
  BY <1>1, <1>2 DEF Before

(* A set of numbers has a least one.                                       *)
LEMMA LeastNumber ==
  ASSUME NEW S \in SUBSET Nat, S # {}
  PROVE  \E m \in S : \A n \in S : m <= n
<1>1. PICK m \in S : \A n \in S : ~ (<<n, m>> \in OpToRel(<, Nat))
  BY WFMin, NatLessThanWellFounded
<1>2. \A n \in Nat : n < m => <<n, m>> \in OpToRel(<, Nat)
  <2> SUFFICES ASSUME NEW n \in Nat, n < m
               PROVE  <<n, m>> \in OpToRel(<, Nat)
    OBVIOUS
  <2>1. <<n, m>> \in Nat \X Nat /\ <<n, m>>[1] < <<n, m>>[2]
    OBVIOUS
  <2> QED
    BY <2>1, Zenon DEF OpToRel
<1>3. \A n \in S : ~ (n < m)
  BY <1>1, <1>2
<1> QED
  BY <1>3

(* Of every set of entries one is before the others.                       *)
LEMMA FirstOf ==
  ASSUME NEW E, Apart(E), NEW F \in SUBSET E, F # {}
  PROVE  \E e \in F : \A d \in F \ {e} : Before(e, d)
<1>1. \A e \in E : e.when \in Nat /\ e.sequence \in Nat
  BY EntryTypes DEF Apart
<1> DEFINE W == {e.when : e \in F}
<1>2. PICK w \in W : \A v \in W : w <= v
  <2>1. W \in SUBSET Nat /\ W # {}
    BY <1>1
  <2> QED
    BY <2>1, LeastNumber
<1> DEFINE S == {e.sequence : e \in {d \in F : d.when = w}}
<1>3. PICK s \in S : \A n \in S : s <= n
  <2>1. S \in SUBSET Nat /\ S # {}
    BY <1>1, <1>2
  <2> HIDE DEF W
  <2> QED
    BY <2>1, LeastNumber
<1>4. PICK e \in F : e.when = w /\ e.sequence = s
  BY <1>3
<1>5. ASSUME NEW d \in F, d # e
      PROVE  Before(e, d)
  <2>1. w <= d.when
    BY <1>2
  <2>2. d.when = w => s <= d.sequence
    BY <1>3
  <2>3. d.sequence # e.sequence
    BY <1>5 DEF Apart
  <2> QED
    BY <1>1, <1>4, <2>1, <2>2, <2>3 DEF Before
<1> QED
  BY <1>5

(* What holds at the start and goes on holding does so to the end.         *)
LEMMA UpTo ==
  ASSUME NEW n \in Nat, NEW P \in SUBSET (0 .. n),
         0 \in P, \A k \in P : k < n => k + 1 \in P
  PROVE  P = 0 .. n
<1> SUFFICES ASSUME (0 .. n) \ P # {} PROVE FALSE
  OBVIOUS
<1>1. PICK m \in (0 .. n) \ P : \A k \in (0 .. n) \ P : m <= k
  <2>1. (0 .. n) \ P \in SUBSET Nat
    OBVIOUS
  <2> QED
    BY <2>1, LeastNumber
<1>2. m # 0 /\ m - 1 \in 0 .. n /\ m - 1 < m /\ m - 1 < n /\ (m - 1) + 1 = m
  OBVIOUS
<1> QED
  BY <1>1, <1>2

-----------------------------------------------------------------------------
(* A heap as a record, and its fields.                                     *)
Heap(a, b, s) == [items |-> a, indexes |-> b, nextSeq |-> s]

(* The fields of a heap, and what it is with another value of one.         *)
LEMMA HeapFields ==
  ASSUME NEW a, NEW b, NEW s, NEW h, h = Heap(a, b, s)
  PROVE  /\ h.items = a /\ h.indexes = b /\ h.nextSeq = s
         /\ \A v : [h EXCEPT !.items = v] = Heap(v, b, s)
         /\ \A v : [h EXCEPT !.indexes = v] = Heap(a, v, s)
         /\ \A v : [h EXCEPT !.nextSeq = v] = Heap(a, b, v)
  BY DEF Heap

IsHeap(h) == h = Heap(h.items, h.indexes, h.nextSeq)

(* A heap of the n entries in E: each is at one place, where the map says. *)
Contains(h, E, n) ==
  /\ n \in Nat
  /\ IsHeap(h)
  /\ h.items \in [1 .. n -> E]
  /\ h.indexes \in [{e.key : e \in E} -> 1 .. n]
  /\ \A e \in E : h.items[h.indexes[e.key]] = e
  /\ \A i \in 1 .. n : h.indexes[h.items[i].key] = i

(* What else a heap of the entries in E is.                                *)
LEMMA ContainsFacts ==
  ASSUME NEW h, NEW E, NEW n, Contains(h, E, n)
  PROVE  /\ h.items \in Seq(E) /\ Len(h.items) = n /\ DOMAIN h.items = 1 .. n
         /\ Held(h) = E
         /\ DOMAIN h.indexes = {e.key : e \in E}
         /\ \A i, j \in 1 .. n : h.items[i] = h.items[j] => i = j
<1>1. h.items \in Seq(E) /\ Len(h.items) = n /\ DOMAIN h.items = 1 .. n
  BY DEF Contains
<1>2. \A e \in E : h.indexes[e.key] \in 1 .. n /\ h.items[h.indexes[e.key]] = e
  BY DEF Contains
<1>3. Held(h) = E
  BY <1>1, <1>2 DEF Held, Contains
<1>4. \A i \in 1 .. n : h.indexes[h.items[i].key] = i
  BY DEF Contains
<1>5. DOMAIN h.indexes = {e.key : e \in E}
  BY DEF Contains
<1> QED
  BY <1>1, <1>3, <1>4, <1>5

(* Swapping two entries keeps the map right and moves no third one.        *)
LEMMA SwapContains ==
  ASSUME NEW h, NEW E, Apart(E), NEW n, Contains(h, E, n),
         NEW i \in 1 .. n, NEW j \in 1 .. n, i # j
  PROVE  LET g == Swap(h, i, j)
         IN  /\ Contains(g, E, n) /\ g.nextSeq = h.nextSeq
             /\ g.items[i] = h.items[j] /\ g.items[j] = h.items[i]
             /\ \A k \in 1 .. n : k # i /\ k # j => g.items[k] = h.items[k]
<1> DEFINE g == Swap(h, i, j)
           a == h.items[i]
           b == h.items[j]
<1>1. /\ g.items = [h.items EXCEPT ![i] = b, ![j] = a]
      /\ g.indexes = [h.indexes EXCEPT ![b.key] = i, ![a.key] = j]
      /\ g.nextSeq = h.nextSeq
      /\ IsHeap(g)
  <2> DEFINE x == [h.items EXCEPT ![i] = b, ![j] = a]
             y == [h.indexes EXCEPT ![b.key] = i, ![a.key] = j]
  <2>1. g = [h EXCEPT !.items = x, !.indexes = y]
    BY DEF Swap
  <2> HIDE DEF g, x, y
  <2>2. g = Heap(x, y, h.nextSeq)
    <3>1. h = Heap(h.items, h.indexes, h.nextSeq)
      BY DEF Contains, IsHeap
    <3> DEFINE z == [h EXCEPT !.items = x]
    <3>2. z = Heap(x, h.indexes, h.nextSeq)
      BY <3>1, HeapFields
    <3>3. g = [z EXCEPT !.indexes = y]
      BY <2>1
    <3> HIDE DEF z
    <3> QED
      BY <3>2, <3>3, HeapFields
  <2>3. g.items = x /\ g.indexes = y /\ g.nextSeq = h.nextSeq /\ IsHeap(g)
    BY <2>2, HeapFields DEF IsHeap
  <2> QED
    BY <2>3 DEF x, y
<1>2. /\ n \in Nat /\ h.items \in [1 .. n -> E]
      /\ h.indexes \in [{e.key : e \in E} -> 1 .. n]
      /\ \A e \in E : h.items[h.indexes[e.key]] = e
      /\ \A k \in 1 .. n : h.indexes[h.items[k].key] = k
  BY DEF Contains
<1>3. /\ a \in E /\ b \in E /\ a # b /\ a.key # b.key
      /\ h.indexes[a.key] = i /\ h.indexes[b.key] = j
  BY <1>2 DEF Apart
<1> HIDE DEF g
<1>4. /\ g.items \in [1 .. n -> E]
      /\ g.items[i] = b /\ g.items[j] = a
      /\ \A k \in 1 .. n : k # i /\ k # j => g.items[k] = h.items[k]
  <2> DEFINE s == h.items
  <2>1. s \in [1 .. n -> E] /\ i \in 1 .. n /\ j \in 1 .. n /\ a \in E /\ b \in E
    BY <1>2, <1>3
  <2>2. g.items = [s EXCEPT ![i] = b, ![j] = a]
    BY <1>1
  <2>3. a # b => i # j
    OBVIOUS
  <2> HIDE DEF s, a, b
  <2> DEFINE t == g.items
  <2>4. t = [s EXCEPT ![i] = b, ![j] = a] /\ i # j
    BY <2>2, <2>3, <1>3
  <2> HIDE DEF t
  <2>5. t \in [1 .. n -> E]
    BY <2>1, <2>4
  <2>6. t[i] = b /\ t[j] = a
    BY <2>1, <2>4
  <2>7. \A k \in 1 .. n : k # i /\ k # j => t[k] = s[k]
    BY <2>1, <2>4
  <2> QED
    BY <2>5, <2>6, <2>7 DEF t, s
<1>5. /\ g.indexes \in [{e.key : e \in E} -> 1 .. n]
      /\ g.indexes[b.key] = i /\ g.indexes[a.key] = j
      /\ \A e \in E : e # a /\ e # b => g.indexes[e.key] = h.indexes[e.key]
  <2>1. a.key \in {e.key : e \in E} /\ b.key \in {e.key : e \in E}
    BY <1>3
  <2>2. \A e \in E : e # a /\ e # b => e.key # a.key /\ e.key # b.key
    BY <1>3 DEF Apart
  <2>3. \A e \in E : e.key \in {d.key : d \in E}
    OBVIOUS
  <2> DEFINE keys == {e.key : e \in E}
  <2>4. /\ h.indexes \in [keys -> 1 .. n] /\ a.key \in keys /\ b.key \in keys
        /\ \A e \in E : e.key \in keys
    BY <1>2, <2>1, <2>3
  <2> HIDE DEF a, b, keys
  <2>5. g.indexes \in [keys -> 1 .. n]
    BY <1>1, <2>4
  <2>6. g.indexes[b.key] = i /\ g.indexes[a.key] = j
    BY <1>1, <1>3, <2>4
  <2>7. \A e \in E : e # a /\ e # b => g.indexes[e.key] = h.indexes[e.key]
    BY <1>1, <2>2, <2>4
  <2> QED
    BY <2>5, <2>6, <2>7 DEF keys
<1> HIDE DEF a, b
<1>6. ASSUME NEW e \in E
      PROVE  g.items[g.indexes[e.key]] = e
  <2>1. CASE e = a
    BY <1>4, <1>5, <2>1
  <2>2. CASE e = b
    BY <1>4, <1>5, <2>2
  <2>3. CASE e # a /\ e # b
    <3>1. h.indexes[e.key] \in 1 .. n /\ h.items[h.indexes[e.key]] = e
      BY <1>2
    <3>2. h.indexes[e.key] # i /\ h.indexes[e.key] # j
      BY <2>3, <3>1 DEF a, b
    <3> QED
      BY <1>4, <1>5, <2>3, <3>1, <3>2
  <2> QED
    BY <2>1, <2>2, <2>3
<1>7. ASSUME NEW k \in 1 .. n
      PROVE  g.indexes[g.items[k].key] = k
  <2>1. CASE k = i \/ k = j
    BY <1>4, <1>5, <2>1
  <2>2. CASE k # i /\ k # j
    <3>1. h.items[k] \in E /\ h.indexes[h.items[k].key] = k
      BY <1>2
    <3>2. h.items[k] # a /\ h.items[k] # b
      BY <1>3, <2>2, <3>1
    <3> QED
      BY <1>4, <1>5, <2>2, <3>1, <3>2
  <2> QED
    BY <2>1, <2>2
<1>8. Contains(g, E, n)
  BY <1>1, <1>2, <1>4, <1>5, <1>6, <1>7 DEF Contains
<1> QED
  BY <1>1, <1>4, <1>8 DEF a, b, g

-----------------------------------------------------------------------------
(* Moving an entry to its place.                                           *)

(* Every entry is behind its parent.                                       *)
Ordered(h, n) ==
  \A i \in 2 .. n : ~ Before(h.items[i], h.items[Parent(i)])

(* The entry at p may be too low, or too high; its children are behind its *)
(* parent.                                                                 *)
Spans(h, n, p) ==
  \A c \in 2 .. n : p > 1 /\ Parent(c) = p => ~ Before(h.items[c], h.items[Parent(p)])

Rising(h, n, p) ==
  /\ \A i \in 2 .. n : i # p => ~ Before(h.items[i], h.items[Parent(i)])
  /\ Spans(h, n, p)

Sinking(h, n, p) ==
  /\ \A i \in 2 .. n : Parent(i) # p => ~ Before(h.items[i], h.items[Parent(i)])
  /\ Spans(h, n, p)

(* The parent of a place is a place.                                       *)
LEMMA TreeFacts ==
  ASSUME NEW n \in Nat
  PROVE  \A i \in 2 .. n : /\ Parent(i) \in 1 .. n /\ Parent(i) < i
                           /\ i \in 1 .. n
<1> SUFFICES ASSUME NEW i \in 2 .. n
             PROVE  Parent(i) \in 1 .. n /\ Parent(i) < i /\ i \in 1 .. n
  OBVIOUS
<1>1. i \in Nat /\ i >= 2 /\ i <= n
  OBVIOUS
<1>2. Parent(i) \in Nat /\ 1 <= Parent(i) /\ Parent(i) < i
  BY <1>1, ParentIs
<1> QED
  BY <1>1, <1>2

(* A round upwards ends with a heap in order, or the place is higher and   *)
(* still the only one that may be wrong.                                   *)
LEMMA RiseKeeps ==
  ASSUME NEW E, Apart(E), NEW n, NEW s, Contains(s.heap, E, n),
         s.place \in 1 .. n, Rising(s.heap, n, s.place)
  PROVE  LET r == Rise(s)
         IN  \/ r = s /\ Ordered(s.heap, n)
             \/ /\ Contains(r.heap, E, n) /\ r.heap.nextSeq = s.heap.nextSeq
                /\ r.place \in 1 .. n /\ r.place < s.place
                /\ Rising(r.heap, n, r.place)
<1> DEFINE r == Rise(s)
           h == s.heap
           p == s.place
           q == Parent(p)
           g == Swap(h, p, q)
<1>1. n \in Nat /\ p \in 1 .. n /\ h.items \in [1 .. n -> E]
  BY DEF Contains
<1>2. \A i \in 2 .. n : Parent(i) \in 1 .. n /\ Parent(i) < i /\ i \in 1 .. n
  BY <1>1, TreeFacts
<1>3. CASE p = 1 \/ ~ Less(h, p, q)
  <2>1. r = s
    BY <1>3 DEF Rise
  <2>2. ASSUME NEW i \in 2 .. n
        PROVE  ~ Before(h.items[i], h.items[Parent(i)])
    <3>1. CASE i = p
      BY <1>3, <3>1 DEF Less, Before
    <3> QED
      BY <3>1 DEF Rising
  <2> QED
    BY <2>1, <2>2 DEF Ordered
<1>4. CASE p # 1 /\ Less(h, p, q)
  <2>1. r = [heap |-> g, place |-> q]
    BY <1>4 DEF Rise
  <2>2. p \in 2 .. n /\ q \in 1 .. n /\ q < p
    BY <1>1, <1>2, <1>4
  <2> DEFINE t == h.items
             u == g.items
  <2>3. /\ Contains(g, E, n) /\ g.nextSeq = h.nextSeq
        /\ u[p] = t[q] /\ u[q] = t[p]
        /\ \A k \in 1 .. n : k # p /\ k # q => u[k] = t[k]
    <3>1. Contains(h, E, n) /\ p \in 1 .. n /\ q \in 1 .. n /\ p # q
      BY <1>1, <2>2
    <3> HIDE DEF h, p, q
    <3> QED
      BY <3>1, SwapContains
  <2>4. r.heap = g /\ r.place = q
    BY <2>1
  <2>5. Before(t[p], t[q])
    BY <1>4 DEF Less, Before
  <2>6. /\ \A i \in 2 .. n : i # p => ~ Before(t[i], t[Parent(i)])
        /\ \A c \in 2 .. n : p > 1 /\ Parent(c) = p => ~ Before(t[c], t[q])
    BY DEF Rising, Spans
  <2>7. t \in [1 .. n -> E] /\ \A i \in 1 .. n : t[i] \in E
    BY <1>1
  <2>8. /\ \A e, d \in E : e # d => (Before(e, d) <=> ~ Before(d, e))
        /\ \A e \in E : ~ Before(e, e)
        /\ \A e, d, f \in E : ~ Before(d, e) /\ ~ Before(f, d) => ~ Before(f, e)
    BY BeforeOrders
  <2> HIDE DEF r, g, h, p, q, t, u
  <2>9. ~ Before(t[q], t[p])
    BY <2>2, <2>5, <2>7, <2>8, <1>1
  <2>10. ASSUME NEW i \in 2 .. n, i # q
         PROVE  ~ Before(u[i], u[Parent(i)])
    <3>1. Parent(i) \in 1 .. n /\ Parent(i) < i /\ i \in 1 .. n
      BY <1>2
    <3>2. CASE i = p
      BY <2>3, <2>9, <3>2 DEF q
    <3>3. CASE i # p /\ Parent(i) = p
      <4>1. ~ Before(t[i], t[q])
        BY <2>2, <2>6, <3>3
      <4> QED
        BY <2>3, <2>10, <3>1, <3>3, <4>1
    <3>4. CASE i # p /\ Parent(i) = q
      <4>1. ~ Before(t[i], t[q])
        BY <2>6, <3>4
      <4>2. ~ Before(t[i], t[p])
        BY <1>1, <2>2, <2>7, <2>8, <2>9, <3>1, <4>1
      <4> QED
        BY <2>3, <2>10, <3>1, <3>4, <4>2
    <3>5. CASE i # p /\ Parent(i) # p /\ Parent(i) # q
      BY <2>3, <2>6, <2>10, <3>1, <3>5
    <3> QED
      BY <3>2, <3>3, <3>4, <3>5
  <2>11. ASSUME NEW c \in 2 .. n, q > 1, Parent(c) = q
         PROVE  ~ Before(u[c], u[Parent(q)])
    <3>1. q \in 2 .. n /\ c \in 1 .. n
      BY <1>1, <1>2, <2>2, <2>11
    <3>2. Parent(q) \in 1 .. n /\ Parent(q) < q
      BY <1>2, <3>1
    <3>3. u[Parent(q)] = t[Parent(q)]
      BY <2>2, <2>3, <3>2
    <3>4. ~ Before(t[q], t[Parent(q)])
      BY <2>2, <2>6, <3>1
    <3>5. CASE c = p
      BY <2>3, <3>3, <3>4, <3>5
    <3>6. CASE c # p
      <4>1. ~ Before(t[c], t[q]) /\ c # q
        BY <2>6, <2>11, <3>2, <3>6, <1>2
      <4>2. ~ Before(t[c], t[Parent(q)])
        BY <2>2, <2>7, <2>8, <3>1, <3>2, <3>4, <4>1
      <4> QED
        BY <2>3, <3>1, <3>3, <3>6, <4>1, <4>2
    <3> QED
      BY <3>5, <3>6
  <2>12. Rising(g, n, q)
    BY <2>10, <2>11 DEF Rising, Spans, u
  <2> QED
    BY <2>2, <2>3, <2>4, <2>12 DEF h, p, r
<1> QED
  BY <1>3, <1>4

(* The least of a place and its children.                                  *)
LEMMA LeastIs ==
  ASSUME NEW E, Apart(E), NEW h, NEW n, Contains(h, E, n), NEW p \in 1 .. n
  PROVE  /\ Least(h, p) \in {c \in 2 .. n : Parent(c) = p} \union {p}
         /\ \A c \in 2 .. n : Parent(c) = p /\ c # Least(h, p) =>
              Before(h.items[Least(h, p)], h.items[c])
         /\ Least(h, p) # p => Before(h.items[Least(h, p)], h.items[p])
<1> DEFINE family == Children(h, p) \union {p}
           F == {h.items[c] : c \in family}
<1>1. n \in Nat /\ h.items \in [1 .. n -> E] /\ Len(h.items) = n
      /\ \A i, j \in 1 .. n : h.items[i] = h.items[j] => i = j
  BY ContainsFacts DEF Contains
<1>2. Children(h, p) = {c \in 2 .. n : Parent(c) = p}
  <2>1. p \in Nat /\ p >= 1
    BY <1>1
  <2>2. ASSUME NEW c \in Children(h, p)
        PROVE  c \in 2 .. n /\ Parent(c) = p
    <3>1. c \in Arity * (p - 1) + 2 .. Arity * p + 1 /\ c <= n
      BY <1>1 DEF Children
    <3>2. c \in Nat /\ c >= 2 /\ Parent(c) = p
      BY <2>1, <3>1, ChildIs
    <3> QED
      BY <1>1, <3>1, <3>2
  <2>3. ASSUME NEW c \in 2 .. n, Parent(c) = p
        PROVE  c \in Children(h, p)
    <3>1. c \in Nat /\ c >= 2 /\ c <= n
      BY <1>1
    <3>2. Arity * (p - 1) + 2 <= c /\ c <= Arity * p + 1
      BY <3>1, <2>3, ParentIs
    <3>3. Arity * (p - 1) \in Int /\ Arity * p \in Int
      BY <2>1, HeapAssumption
    <3>4. c \in Arity * (p - 1) + 2 .. Arity * p + 1
      BY <3>1, <3>2, <3>3
    <3> QED
      BY <1>1, <3>1, <3>4 DEF Children
  <2> QED
    BY <2>2, <2>3
<1> HIDE DEF family
<1>3. family \subseteq 1 .. n /\ p \in family
  BY <1>1, <1>2 DEF family
<1>4. PICK e \in F : \A d \in F \ {e} : Before(e, d)
  <2>1. F \in SUBSET E /\ F # {}
    BY <1>1, <1>3
  <2> HIDE DEF F
  <2> QED
    BY <2>1, FirstOf
<1>5. PICK c \in family : h.items[c] = e
  BY <1>4
<1>6. \A d \in family \ {c} : Less(h, c, d)
  <2> SUFFICES ASSUME NEW d \in family \ {c}
               PROVE  Less(h, c, d)
    OBVIOUS
  <2>1. h.items[d] # e
    BY <1>1, <1>3, <1>5
  <2>2. Before(e, h.items[d])
    BY <1>4, <2>1
  <2> QED
    BY <1>5, <2>2 DEF Less, Before
<1>7. /\ Least(h, p) \in family
      /\ \A d \in family \ {Least(h, p)} : Less(h, Least(h, p), d)
  BY <1>6 DEF Least, family
<1> DEFINE least == Least(h, p)
<1> HIDE DEF least
<1>8. \A d \in family \ {least} : Before(h.items[least], h.items[d])
  BY <1>7 DEF Less, Before, least
<1> QED
  BY <1>2, <1>3, <1>7, <1>8 DEF family, least

(* A round downwards does the same, and goes lower.                        *)
LEMMA SinkKeeps ==
  ASSUME NEW E, Apart(E), NEW n, NEW s, Contains(s.heap, E, n),
         s.place \in 1 .. n, Sinking(s.heap, n, s.place)
  PROVE  LET r == Sink(s)
         IN  \/ r = s /\ Ordered(s.heap, n)
             \/ /\ Contains(r.heap, E, n) /\ r.heap.nextSeq = s.heap.nextSeq
                /\ r.place \in 1 .. n /\ s.place < r.place
                /\ Sinking(r.heap, n, r.place)
<1> DEFINE r == Sink(s)
           h == s.heap
           p == s.place
           l == Least(h, p)
           g == Swap(h, p, l)
           t == h.items
           u == g.items
<1>1. n \in Nat /\ p \in 1 .. n /\ t \in [1 .. n -> E] /\ \A i \in 1 .. n : t[i] \in E
  BY DEF Contains
<1>2. \A i \in 2 .. n : Parent(i) \in 1 .. n /\ Parent(i) < i /\ i \in 1 .. n
  BY <1>1, TreeFacts
<1>3. /\ l \in {c \in 2 .. n : Parent(c) = p} \union {p}
      /\ \A c \in 2 .. n : Parent(c) = p /\ c # l => Before(t[l], t[c])
      /\ l # p => Before(t[l], t[p])
  BY LeastIs
<1>4. /\ \A e, d \in E : e # d => (Before(e, d) <=> ~ Before(d, e))
      /\ \A e \in E : ~ Before(e, e)
      /\ \A e, d, f \in E : ~ Before(d, e) /\ ~ Before(f, d) => ~ Before(f, e)
  BY BeforeOrders
<1>5. /\ \A i \in 2 .. n : Parent(i) # p => ~ Before(t[i], t[Parent(i)])
      /\ \A c \in 2 .. n : p > 1 /\ Parent(c) = p => ~ Before(t[c], t[Parent(p)])
  BY DEF Sinking, Spans
<1>6. \A i, j \in 1 .. n : Before(t[i], t[j]) => ~ Before(t[j], t[i])
  <2> HIDE DEF t
  <2> QED
    BY <1>1, <1>4
<1>7. CASE l = p
  <2>1. r = s
    BY <1>7 DEF Sink
  <2>2. ASSUME NEW i \in 2 .. n
        PROVE  ~ Before(t[i], t[Parent(i)])
    <3> HIDE DEF t, l, p
    <3>1. CASE Parent(i) = p
      <4>1. i # l /\ i \in 1 .. n
        BY <1>2, <1>7, <3>1
      <4>2. Before(t[p], t[i])
        BY <1>3, <1>7, <3>1, <4>1
      <4> QED
        BY <1>1, <1>6, <3>1, <4>1, <4>2
    <3> QED
      BY <1>5, <3>1
  <2> QED
    BY <2>1, <2>2 DEF Ordered
<1>8. CASE l # p
  <2>1. r = [heap |-> g, place |-> l]
    BY <1>8 DEF Sink
  <2>2. l \in 2 .. n /\ l \in 1 .. n /\ Parent(l) = p /\ p < l
    BY <1>2, <1>3, <1>8
  <2>3. /\ Contains(g, E, n) /\ g.nextSeq = h.nextSeq
        /\ u[p] = t[l] /\ u[l] = t[p]
        /\ \A k \in 1 .. n : k # p /\ k # l => u[k] = t[k]
    <3>1. Contains(h, E, n) /\ p \in 1 .. n /\ l \in 1 .. n /\ p # l
      BY <1>1, <2>2
    <3> HIDE DEF h, p, l
    <3> QED
      BY <3>1, SwapContains
  <2>4. r.heap = g /\ r.place = l
    BY <2>1
  <2> HIDE DEF r, g, h, p, l, t, u
  <2>5. ASSUME NEW i \in 2 .. n, Parent(i) # l
        PROVE  ~ Before(u[i], u[Parent(i)])
    <3>1. Parent(i) \in 1 .. n /\ Parent(i) < i /\ i \in 1 .. n
      BY <1>2
    <3>2. CASE i = p
      <4>1. ~ Before(t[l], t[Parent(p)])
        BY <1>1, <1>5, <2>2, <3>1, <3>2
      <4>2. u[Parent(p)] = t[Parent(p)]
        BY <2>3, <2>5, <3>1, <3>2
      <4> QED
        BY <2>3, <3>2, <4>1, <4>2
    <3>3. CASE i = l
      BY <1>1, <1>3, <1>6, <1>8, <2>2, <2>3, <3>3
    <3>4. CASE i # l /\ Parent(i) = p
      <4>1. Before(t[l], t[i])
        BY <1>3, <3>4
      <4>2. u[i] = t[i]
        BY <2>3, <3>1, <3>4
      <4> QED
        BY <1>6, <2>2, <2>3, <3>1, <3>4, <4>1, <4>2
    <3>5. CASE i # p /\ i # l /\ Parent(i) # p
      <4>1. u[i] = t[i] /\ u[Parent(i)] = t[Parent(i)]
        BY <2>3, <2>5, <3>1, <3>5
      <4> QED
        BY <1>5, <3>5, <4>1
    <3> QED
      BY <3>2, <3>3, <3>4, <3>5
  <2>6. ASSUME NEW c \in 2 .. n, Parent(c) = l
        PROVE  ~ Before(u[c], u[Parent(l)])
    <3>1. c \in 1 .. n /\ c # l /\ c # p
      BY <1>2, <2>2, <2>6
    <3>2. ~ Before(t[c], t[l])
      BY <1>5, <1>8, <2>6
    <3> QED
      BY <2>2, <2>3, <3>1, <3>2
  <2>7. Sinking(g, n, l)
    BY <2>5, <2>6 DEF Sinking, Spans, u
  <2> QED
    BY <2>2, <2>3, <2>4, <2>7 DEF h, p, r
<1> QED
  BY <1>7, <1>8

-----------------------------------------------------------------------------
(* The loops.  f holds what is left after each of n rounds.                *)

Round(s, sinking) ==
  IF sinking THEN The({Sink(x) : x \in {s}}) ELSE The({Rise(x) : x \in {s}})

Loop(f, h, i, n, sinking) ==
  f = [k \in 0 .. n |->
         IF k = 0 THEN [heap |-> h, place |-> i] ELSE Round(f[k - 1], sinking)]

(* The set of one that a round goes through makes no difference.           *)
LEMMA RoundIs ==
  \A s : Round(s, TRUE) = Sink(s) /\ Round(s, FALSE) = Rise(s)
<1> TAKE s
<1>1. {Sink(x) : x \in {s}} = {Sink(s)} /\ {Rise(x) : x \in {s}} = {Rise(s)}
  OBVIOUS
<1>2. \A v : The({v}) = v
  BY DEF The
<1> QED
  BY <1>1, <1>2 DEF Round

(* The states of a loop, one by one.                                       *)
LEMMA LoopIs ==
  ASSUME NEW f, NEW h, NEW i, NEW n \in Nat, NEW sinking, Loop(f, h, i, n, sinking)
  PROVE  /\ f[0] = [heap |-> h, place |-> i]
         /\ \A k \in 1 .. n : f[k] = Round(f[k - 1], sinking)
<1>1. 0 \in 0 .. n /\ \A k \in 1 .. n : k \in 0 .. n /\ k # 0
  OBVIOUS
<1> QED
  BY <1>1 DEF Loop

(* Either loop has these states.                                           *)
LEMMA LoopRuns ==
  ASSUME NEW h, NEW i, NEW n \in Nat, NEW sinking
  PROVE  \E f : Loop(f, h, i, n, sinking)
<1> DEFINE P == {m \in 0 .. n : \E f : Loop(f, h, i, m, sinking)}
           first == [heap |-> h, place |-> i]
<1>1. 0 \in P
  <2>1. Loop([k \in 0 .. 0 |-> first], h, i, 0, sinking)
    BY DEF Loop
  <2> QED
    BY <2>1
<1>2. ASSUME NEW m \in P, m < n
      PROVE  m + 1 \in P
  <2>1. PICK f : Loop(f, h, i, m, sinking)
    OBVIOUS
  <2>2. /\ m \in Nat /\ m + 1 \in 0 .. n
        /\ f[0] = first
        /\ \A k \in 1 .. m : f[k] = Round(f[k - 1], sinking)
    <3>1. m \in Nat /\ m + 1 \in 0 .. n
      BY <1>2
    <3> QED
      BY <2>1, <3>1, LoopIs
  <2> DEFINE g == [k \in 0 .. m + 1 |-> IF k = m + 1 THEN Round(f[m], sinking) ELSE f[k]]
             j == [k \in 0 .. m + 1 |-> IF k = 0 THEN first ELSE Round(g[k - 1], sinking)]
  <2>3. ASSUME NEW k \in 0 .. m + 1
        PROVE  g[k] = j[k]
    <3>1. CASE k = 0
      BY <2>2, <3>1
    <3>2. CASE k \in 1 .. m
      <4>1. k - 1 \in 0 .. m + 1 /\ k - 1 # m + 1 /\ k # m + 1 /\ k # 0
        BY <2>2, <3>2
      <4>2. g[k] = f[k] /\ g[k - 1] = f[k - 1]
        BY <4>1
      <4>3. j[k] = Round(g[k - 1], sinking)
        BY <4>1
      <4> HIDE DEF g, j
      <4> QED
        BY <2>2, <3>2, <4>2, <4>3
    <3>3. CASE k = m + 1
      <4>1. m \in 0 .. m + 1 /\ m # m + 1 /\ k # 0 /\ k - 1 = m
        BY <2>2, <3>3
      <4>2. g[k] = Round(f[m], sinking) /\ g[m] = f[m]
        BY <3>3, <4>1
      <4>3. j[k] = Round(g[k - 1], sinking)
        BY <4>1
      <4> HIDE DEF g, j
      <4> QED
        BY <4>1, <4>2, <4>3
    <3> QED
      BY <2>2, <3>1, <3>2, <3>3
  <2>4. g = j
    BY <2>3
  <2>5. Loop(g, h, i, m + 1, sinking)
    <3> HIDE DEF g
    <3> QED
      BY <2>4 DEF Loop
  <2> HIDE DEF g, j
  <2> QED
    BY <2>2, <2>5
<1>3. P = 0 .. n
  BY <1>1, <1>2, UpTo
<1>4. n \in P
  BY <1>3
<1> QED
  BY <1>4

(* A heap with the same entries and numbers, in order.                     *)
Sorted(g, h, E, n) ==
  Contains(g, E, n) /\ Ordered(g, n) /\ g.nextSeq = h.nextSeq

(* The loop upwards ends with the heap in order before the place runs out: *)
(* it starts at i, ends at one and goes up in every round.                 *)
LEMMA SiftUpSorts ==
  ASSUME NEW E, Apart(E), NEW n, NEW h, Contains(h, E, n),
         NEW i \in 1 .. n, Rising(h, n, i)
  PROVE  Sorted(SiftUp(h, i), h, E, n)
<1> DEFINE g == CHOOSE x : x = [k \in 0 .. i |-> IF k = 0 THEN [heap |-> h, place |-> i]
                                    ELSE The({Rise(s) : s \in {x[k - 1]}})]
<1>1. n \in Nat /\ i \in Nat
  BY DEF Contains
<1>2. SiftUp(h, i) = g[i].heap
  BY DEF SiftUp
<1>3. \A x : (x = [k \in 0 .. i |-> IF k = 0 THEN [heap |-> h, place |-> i]
                                    ELSE The({Rise(s) : s \in {x[k - 1]}})])
             <=> Loop(x, h, i, i, FALSE)
  BY DEF Loop, Round
<1>4. Loop(g, h, i, i, FALSE)
  BY <1>1, <1>3, LoopRuns
<1> HIDE DEF g
<1>5. g[0] = [heap |-> h, place |-> i] /\ \A k \in 1 .. i : g[k] = Rise(g[k - 1])
  <2>1. g[0] = [heap |-> h, place |-> i] /\ \A k \in 1 .. i : g[k] = Round(g[k - 1], FALSE)
    <3> DEFINE sinking == FALSE
    <3>1. Loop(g, h, i, i, sinking)
      BY <1>4
    <3> HIDE DEF sinking
    <3>2. g[0] = [heap |-> h, place |-> i] /\ \A k \in 1 .. i : g[k] = Round(g[k - 1], sinking)
      BY <1>1, <3>1, LoopIs
    <3> QED
      BY <3>2, Zenon DEF sinking
  <2> QED
    BY <2>1, RoundIs, Zenon
<1> DEFINE Done(s) == Rise(s) = s /\ Ordered(s.heap, n)
           Keeps(s) == /\ Contains(s.heap, E, n) /\ s.heap.nextSeq = h.nextSeq
                       /\ s.place \in 1 .. n /\ Rising(s.heap, n, s.place)
           P == {k \in 0 .. i : Keeps(g[k]) /\ (Done(g[k]) \/ g[k].place <= i - k)}
<1>6. 0 \in P
  <2>1. g[0].heap = h /\ g[0].place = i
    BY <1>5
  <2> QED
    BY <1>1, <2>1
<1>7. ASSUME NEW k \in P, k < i
      PROVE  k + 1 \in P
  <2>1. k \in 0 .. i /\ k + 1 \in 1 .. i /\ (k + 1) - 1 = k /\ k + 1 \in 0 .. i
    BY <1>1, <1>7
  <2>2. g[k + 1] = Rise(g[k])
    BY <1>5, <2>1
  <2> DEFINE s == g[k]
             r == g[k + 1]
  <2>3. Keeps(s) /\ (Done(s) \/ s.place <= i - k)
    OBVIOUS
  <2>4. \/ r = s /\ Ordered(s.heap, n)
        \/ /\ Contains(r.heap, E, n) /\ r.heap.nextSeq = s.heap.nextSeq
           /\ r.place \in 1 .. n /\ r.place < s.place
           /\ Rising(r.heap, n, r.place)
    BY <2>2, <2>3, RiseKeeps
  <2>5. r = Rise(s)
    BY <2>2
  <2> HIDE DEF s, r
  <2>6. CASE r = s /\ Ordered(s.heap, n)
    BY <2>1, <2>3, <2>5, <2>6 DEF r, s
  <2>7. CASE /\ Contains(r.heap, E, n) /\ r.heap.nextSeq = s.heap.nextSeq
             /\ r.place \in 1 .. n /\ r.place < s.place
             /\ Rising(r.heap, n, r.place)
    <3>1. r # s
      BY <1>1, <2>3, <2>7
    <3>2. s.place <= i - k /\ s.place \in Int /\ r.place \in Int
      BY <2>3, <2>5, <3>1, <2>7
    <3>3. r.place <= i - (k + 1)
      BY <1>1, <2>1, <2>7, <3>2
    <3> QED
      BY <2>1, <2>3, <2>7, <3>3 DEF r
  <2> QED
    BY <2>4, <2>6, <2>7
<1>8. P = 0 .. i
  BY <1>1, <1>6, <1>7, UpTo
<1>9. i \in P
  BY <1>1, <1>8
<1>10. Keeps(g[i]) /\ (Done(g[i]) \/ g[i].place <= i - i)
  BY <1>9
<1>11. Done(g[i])
  BY <1>1, <1>10
<1> QED
  BY <1>2, <1>10, <1>11 DEF Sorted

(* The loop downwards goes down in every round and ends before the n-th.   *)
LEMMA SiftDownSorts ==
  ASSUME NEW E, Apart(E), NEW n, NEW h, Contains(h, E, n),
         NEW i \in 1 .. n, Sinking(h, n, i)
  PROVE  Sorted(SiftDown(h, i), h, E, n)
<1> DEFINE g == CHOOSE x : x = [k \in 0 .. n |-> IF k = 0 THEN [heap |-> h, place |-> i]
                                    ELSE The({Sink(s) : s \in {x[k - 1]}})]
<1>1. n \in Nat /\ i \in Nat
  BY DEF Contains
<1>2. SiftDown(h, i) = g[n].heap
  BY ContainsFacts DEF SiftDown
<1>3. \A x : (x = [k \in 0 .. n |-> IF k = 0 THEN [heap |-> h, place |-> i]
                                    ELSE The({Sink(s) : s \in {x[k - 1]}})])
             <=> Loop(x, h, i, n, TRUE)
  BY DEF Loop, Round
<1>4. Loop(g, h, i, n, TRUE)
  BY <1>1, <1>3, LoopRuns
<1> HIDE DEF g
<1>5. g[0] = [heap |-> h, place |-> i] /\ \A k \in 1 .. n : g[k] = Sink(g[k - 1])
  <2>1. g[0] = [heap |-> h, place |-> i] /\ \A k \in 1 .. n : g[k] = Round(g[k - 1], TRUE)
    <3> DEFINE sinking == TRUE
    <3>1. Loop(g, h, i, n, sinking)
      BY <1>4
    <3> HIDE DEF sinking
    <3>2. g[0] = [heap |-> h, place |-> i] /\ \A k \in 1 .. n : g[k] = Round(g[k - 1], sinking)
      BY <1>1, <3>1, LoopIs
    <3> QED
      BY <3>2, Zenon DEF sinking
  <2> QED
    BY <2>1, RoundIs, Zenon
<1> DEFINE Done(s) == Sink(s) = s /\ Ordered(s.heap, n)
           Keeps(s) == /\ Contains(s.heap, E, n) /\ s.heap.nextSeq = h.nextSeq
                       /\ s.place \in 1 .. n /\ Sinking(s.heap, n, s.place)
           P == {k \in 0 .. n : Keeps(g[k]) /\ (Done(g[k]) \/ k < g[k].place)}
<1>6. 0 \in P
  <2>1. g[0].heap = h /\ g[0].place = i
    BY <1>5
  <2> QED
    BY <1>1, <2>1
<1>7. ASSUME NEW k \in P, k < n
      PROVE  k + 1 \in P
  <2>1. k \in 0 .. n /\ k + 1 \in 1 .. n /\ (k + 1) - 1 = k /\ k + 1 \in 0 .. n
    BY <1>1, <1>7
  <2>2. g[k + 1] = Sink(g[k])
    BY <1>5, <2>1
  <2> DEFINE s == g[k]
             r == g[k + 1]
  <2>3. Keeps(s) /\ (Done(s) \/ k < s.place)
    OBVIOUS
  <2>4. \/ r = s /\ Ordered(s.heap, n)
        \/ /\ Contains(r.heap, E, n) /\ r.heap.nextSeq = s.heap.nextSeq
           /\ r.place \in 1 .. n /\ s.place < r.place
           /\ Sinking(r.heap, n, r.place)
    BY <2>2, <2>3, SinkKeeps
  <2>5. r = Sink(s)
    BY <2>2
  <2> HIDE DEF s, r
  <2>6. CASE r = s /\ Ordered(s.heap, n)
    BY <2>1, <2>3, <2>5, <2>6 DEF r, s
  <2>7. CASE /\ Contains(r.heap, E, n) /\ r.heap.nextSeq = s.heap.nextSeq
             /\ r.place \in 1 .. n /\ s.place < r.place
             /\ Sinking(r.heap, n, r.place)
    <3>1. r # s
      BY <1>1, <2>3, <2>7
    <3>2. k < s.place /\ s.place \in Int /\ r.place \in Int
      BY <2>3, <2>5, <3>1, <2>7
    <3>3. k + 1 < r.place
      BY <1>1, <2>1, <2>7, <3>2
    <3> QED
      BY <2>1, <2>3, <2>7, <3>3 DEF r
  <2> QED
    BY <2>4, <2>6, <2>7
<1>8. P = 0 .. n
  BY <1>1, <1>6, <1>7, UpTo
<1>9. n \in P
  BY <1>1, <1>8
<1>10. Keeps(g[n]) /\ (Done(g[n]) \/ n < g[n].place)
  BY <1>9
<1>11. Done(g[n])
  BY <1>1, <1>10
<1> QED
  BY <1>2, <1>10, <1>11 DEF Sorted

(* One entry may be out of order, on either side.                          *)
LEMMA FixSorts ==
  ASSUME NEW E, Apart(E), NEW n, NEW h, Contains(h, E, n), NEW i \in 1 .. n,
         \A c \in 2 .. n : c # i /\ Parent(c) # i => ~ Before(h.items[c], h.items[Parent(c)]),
         Spans(h, n, i)
  PROVE  Sorted(Fix(h, i), h, E, n)
<1> DEFINE t == h.items
<1>1. n \in Nat /\ t \in [1 .. n -> E] /\ \A k \in 1 .. n : t[k] \in E
  BY DEF Contains
<1>2. \A c \in 2 .. n : Parent(c) \in 1 .. n /\ Parent(c) < c /\ c \in 1 .. n
  BY <1>1, TreeFacts
<1>3. /\ \A e, d \in E : e # d => (Before(e, d) <=> ~ Before(d, e))
      /\ \A e \in E : ~ Before(e, e)
      /\ \A e, d, f \in E : ~ Before(d, e) /\ ~ Before(f, d) => ~ Before(f, e)
  BY BeforeOrders
<1>4. CASE i > 1 /\ Less(h, i, Parent(i))
  <2>1. Fix(h, i) = SiftUp(h, i)
    BY <1>4 DEF Fix
  <2>2. Before(t[i], t[Parent(i)]) /\ i \in 2 .. n
    BY <1>1, <1>4 DEF Less, Before
  <2>3. ASSUME NEW c \in 2 .. n, c # i
        PROVE  ~ Before(t[c], t[Parent(c)])
    <3>1. CASE Parent(c) = i
      <4>1. ~ Before(t[c], t[Parent(i)])
        BY <1>4, <3>1 DEF Spans
      <4> HIDE DEF t
      <4>2. t[i] \in E /\ t[c] \in E /\ t[Parent(i)] \in E
        BY <1>1, <1>2, <2>2
      <4>3. ~ Before(t[Parent(i)], t[i])
        BY <1>3, <2>2, <4>2
      <4> QED
        BY <1>3, <3>1, <4>1, <4>2, <4>3
    <3> QED
      BY <2>3, <3>1
  <2>4. Rising(h, n, i)
    BY <2>3 DEF Rising
  <2> QED
    BY <2>1, <2>4, SiftUpSorts
<1>5. CASE ~ (i > 1 /\ Less(h, i, Parent(i)))
  <2>1. Fix(h, i) = SiftDown(h, i)
    BY <1>5 DEF Fix
  <2>2. ASSUME NEW c \in 2 .. n, Parent(c) # i
        PROVE  ~ Before(t[c], t[Parent(c)])
    <3>1. CASE c = i
      BY <1>1, <1>5, <3>1 DEF Less, Before
    <3> QED
      BY <2>2, <3>1
  <2>3. Sinking(h, n, i)
    BY <2>2 DEF Sinking
  <2> QED
    BY <2>1, <2>3, SiftDownSorts
<1> QED
  BY <1>4, <1>5

-----------------------------------------------------------------------------
(* The operations.                                                         *)

(* A heap in order, of entries of which no two have one key or one number, *)
(* with numbers left for the next ones.                                    *)
Good(h, E, n) ==
  /\ Apart(E)
  /\ Contains(h, E, n)
  /\ Ordered(h, n)
  /\ h.nextSeq \in 0 .. MaxSequence
  /\ \A e \in E : e.sequence < h.nextSeq

(* A heap has as many entries as places, and no more than there are keys:  *)
(* a number is left for a key that is not in it.                           *)
LEMMA Counted ==
  ASSUME NEW h, NEW E, NEW n, Apart(E), Contains(h, E, n)
  PROVE  /\ IsFiniteSet(E) /\ Cardinality(E) = n
         /\ n \in Nat /\ n <= Cardinality(Keys)
         /\ n <= MaxSequence /\ Cardinality(Keys) \in Nat
         /\ \A key \in Keys : (\A e \in E : e.key # key) => n + 1 <= Cardinality(Keys)
<1>1. n \in Nat /\ IsFiniteSet(1 .. n) /\ Cardinality(1 .. n) = n
  <2>1. n \in Nat
    BY DEF Contains
  <2>2. IsFiniteSet(1 .. n) /\ Cardinality(1 .. n) = IF 1 > n THEN 0 ELSE n - 1 + 1
    BY <2>1, FS_Interval
  <2> QED
    BY <2>1, <2>2
<1>2. h.items \in Bijection(1 .. n, E)
  <2>1. h.items \in [1 .. n -> E]
    BY DEF Contains
  <2>2. \A i, j \in 1 .. n : h.items[i] = h.items[j] => i = j
    BY ContainsFacts
  <2>3. \A e \in E : \E i \in 1 .. n : h.items[i] = e
    BY DEF Contains
  <2> QED
    BY <2>1, <2>2, <2>3 DEF Bijection, Injection, Surjection, IsInjective
<1>3. IsFiniteSet(E) /\ Cardinality(E) = n
  BY <1>1, <1>2, FS_Bijection DEF ExistsBijection
<1>4. IsFiniteSet(Keys) /\ Cardinality(Keys) \in Nat /\ Cardinality(Keys) <= MaxSequence
      /\ MaxSequence \in Nat
  BY TimerAssumption, HeapAssumption, FS_CardinalityType
<1> DEFINE f == [e \in E |-> e.key]
<1>5. ASSUME NEW K \in SUBSET Keys, \A e \in E : e.key \in K
      PROVE  n <= Cardinality(K) /\ IsFiniteSet(K)
  <2>1. f \in [E -> K]
    BY <1>5
  <2>2. \A e, d \in E : f[e] = f[d] => e = d
    BY DEF Apart
  <2>3. f \in Injection(E, K)
    BY <2>1, <2>2 DEF Injection, IsInjective
  <2>4. IsFiniteSet(K)
    BY <1>4, FS_Subset
  <2> HIDE DEF f
  <2> QED
    BY <1>3, <2>3, <2>4, FS_Injection
<1>6. \A e \in E : e.key \in Keys
  BY EntryTypes DEF Apart
<1>7. n <= Cardinality(Keys)
  BY <1>5, <1>6
<1>8. ASSUME NEW key \in Keys, \A e \in E : e.key # key
      PROVE  n + 1 <= Cardinality(Keys)
  <2>1. n <= Cardinality(Keys \ {key})
    BY <1>5, <1>6, <1>8
  <2>2. Cardinality(Keys \ {key}) = Cardinality(Keys) - 1
    BY <1>4, FS_RemoveElement
  <2> QED
    BY <1>1, <1>4, <2>1, <2>2
<1> QED
  BY <1>1, <1>3, <1>4, <1>7, <1>8

(* The entries with another deadline for one of them.                      *)
Moved(E, e, when) == (E \ {e}) \union {[e EXCEPT !.when = when]}

(* Another deadline for an entry.                                          *)
LEMMA UpdateKeeps ==
  ASSUME NEW E, NEW n, NEW h, Good(h, E, n), NEW e \in E, NEW when \in Deadlines
  PROVE  Good(Update(h, e.key, when), Moved(E, e, when), n)
<1> DEFINE d == [e EXCEPT !.when = when]
           F == (E \ {e}) \union {d}
           t == h.items
           p == h.indexes[e.key]
           g == [h EXCEPT !.items[p].when = when]
           u == [t EXCEPT ![p] = d]
<1>1. /\ n \in Nat /\ IsHeap(h) /\ t \in [1 .. n -> E]
      /\ h.indexes \in [{a.key : a \in E} -> 1 .. n]
      /\ \A a \in E : t[h.indexes[a.key]] = a
      /\ \A i \in 1 .. n : h.indexes[t[i].key] = i
  BY DEF Good, Contains
<1>2. p \in 1 .. n /\ t[p] = e
  BY <1>1
<1>3. d \in Entries /\ d.key = e.key /\ d.sequence = e.sequence /\ e \in Entries
  BY DEF Good, Apart, Entries
<1>4. Apart(F)
  <2> HIDE DEF d
  <2> QED
    BY <1>3 DEF Good, Apart
<1>5. g.items = u /\ g.indexes = h.indexes /\ g.nextSeq = h.nextSeq /\ IsHeap(g)
  <2>1. g = [h EXCEPT !.items = u]
    BY <1>1, <1>2 DEF IsHeap, Heap
  <2> HIDE DEF g, u
  <2>2. g = Heap(u, h.indexes, h.nextSeq)
    BY <1>1, <2>1, HeapFields DEF IsHeap
  <2> QED
    BY <2>2, HeapFields DEF IsHeap
<1>6. u[p] = d /\ \A i \in 1 .. n : i # p => u[i] = t[i] /\ t[i] # e /\ t[i] \in E
  BY <1>1, <1>2
<1>7. Contains(g, F, n)
  <2>1. u \in [1 .. n -> F]
    <3>1. \A i \in 1 .. n : u[i] \in F
      BY <1>6
    <3>2. u = [i \in 1 .. n |-> u[i]]
      BY <1>1
    <3> HIDE DEF u, F
    <3> QED
      BY <3>1, <3>2
  <2>2. {a.key : a \in F} = {a.key : a \in E}
    <3> HIDE DEF d
    <3> QED
      BY <1>3
  <2>3. \A a \in F : u[h.indexes[a.key]] = a
    <3> SUFFICES ASSUME NEW a \in F PROVE u[h.indexes[a.key]] = a
      OBVIOUS
    <3>1. CASE a = d
      BY <1>3, <1>6, <3>1
    <3>2. CASE a \in E \ {e}
      <4>1. h.indexes[a.key] \in 1 .. n /\ t[h.indexes[a.key]] = a
        BY <1>1, <3>2
      <4>2. h.indexes[a.key] # p
        BY <1>2, <3>2, <4>1
      <4> QED
        BY <1>6, <4>1, <4>2
    <3> QED
      BY <3>1, <3>2
  <2>4. \A i \in 1 .. n : h.indexes[u[i].key] = i
    BY <1>1, <1>3, <1>6
  <2> HIDE DEF g, u, F
  <2> QED
    BY <1>1, <1>5, <2>1, <2>2, <2>3, <2>4 DEF Contains
<1>8. \A c \in 2 .. n : Parent(c) \in 1 .. n /\ Parent(c) < c /\ c \in 1 .. n
  BY <1>1, TreeFacts
<1>9. \A c \in 2 .. n : ~ Before(t[c], t[Parent(c)])
  BY DEF Good, Ordered
<1>10. ASSUME NEW c \in 2 .. n, c # p, Parent(c) # p
       PROVE  ~ Before(u[c], u[Parent(c)])
  BY <1>6, <1>8, <1>9, <1>10
<1>11. Spans(g, n, p)
  <2>1. ASSUME NEW c \in 2 .. n, p > 1, Parent(c) = p
        PROVE  ~ Before(u[c], u[Parent(p)])
    <3>1. p \in 2 .. n /\ Parent(p) \in 1 .. n /\ Parent(p) # p /\ c # p /\ c \in 1 .. n
      BY <1>1, <1>2, <1>8, <2>1
    <3>2. ~ Before(t[c], t[p]) /\ ~ Before(t[p], t[Parent(p)])
      BY <1>9, <2>1, <3>1
    <3>3. ~ Before(t[c], t[Parent(p)])
      <4>1. t[c] \in E /\ t[p] \in E /\ t[Parent(p)] \in E
        BY <1>1, <1>2, <3>1
      <4> HIDE DEF t
      <4> QED
        BY <3>2, <4>1, BeforeOrders DEF Good
    <3> QED
      BY <1>6, <3>1, <3>3
  <2> QED
    BY <1>5, <2>1 DEF Spans
<1>12. Sorted(Fix(g, p), g, F, n)
  <2>1. \A c \in 2 .. n : c # p /\ Parent(c) # p => ~ Before(g.items[c], g.items[Parent(c)])
    BY <1>5, <1>10
  <2> HIDE DEF g, F, p
  <2> QED
    BY <1>2, <1>4, <1>7, <1>11, <2>1, FixSorts
<1>13. Update(h, e.key, when) = Fix(g, p)
  BY DEF Update
<1>14. \A a \in F : a.sequence < h.nextSeq
  BY <1>3 DEF Good
<1> HIDE DEF F, g, p
<1> QED
  BY <1>4, <1>5, <1>12, <1>13, <1>14 DEF Good, Sorted, Moved, F

(* An entry leaves: the last one fills the gap, and may have to go up from *)
(* there, or down.                                                         *)
LEMMA RemoveKeeps ==
  ASSUME NEW E, NEW n, NEW h, Good(h, E, n), NEW e \in E
  PROVE  Good(Remove(h, e.key), E \ {e}, n - 1)
<1> DEFINE F == E \ {e}
           t == h.items
           p == h.indexes[e.key]
           m == t[n]
           keys == {a.key : a \in E}
<1>1. /\ n \in Nat /\ IsHeap(h) /\ t \in [1 .. n -> E] /\ h.indexes \in [keys -> 1 .. n]
      /\ \A a \in E : h.indexes[a.key] \in 1 .. n /\ t[h.indexes[a.key]] = a
      /\ \A i \in 1 .. n : t[i] \in E /\ h.indexes[t[i].key] = i
      /\ \A a \in E : a.key \in keys
      /\ \A a, b \in E : a.key = b.key => a = b
  BY DEF Good, Contains, Apart
<1>2. p \in 1 .. n /\ t[p] = e /\ n >= 1 /\ n \in 1 .. n /\ n - 1 \in Nat /\ Len(t) = n
      /\ 1 .. n - 1 \subseteq 1 .. n /\ m \in E /\ t \in Seq(E)
  BY <1>1
<1>3. Apart(F)
  BY DEF Good, Apart
<1>4. Has(h, e.key) /\ Remove(h, e.key) = RemoveAt(h, p)
  BY <1>1 DEF Has, Remove
<1> DEFINE u == SubSeq([t EXCEPT ![p] = m], 1, n - 1)
           x == Unindexed(h, e.key)
           rest == [h EXCEPT !.items = SubSeq([@ EXCEPT ![p] = m], 1, n - 1),
                             !.indexes = x]
<1>5. rest = Heap(u, x, h.nextSeq)
  <2> DEFINE z == [h EXCEPT !.items = u]
  <2> HIDE DEF u, x
  <2>1. z = Heap(u, h.indexes, h.nextSeq)
    BY <1>1, HeapFields DEF IsHeap
  <2>2. rest = [z EXCEPT !.indexes = x]
    BY <1>1 DEF u, IsHeap, Heap
  <2> HIDE DEF z, rest
  <2> QED
    BY <2>1, <2>2, HeapFields
<1>6. /\ u \in [1 .. n - 1 -> E] /\ Len(u) = n - 1
      /\ \A i \in 1 .. n - 1 : u[i] = IF i = p THEN m ELSE t[i]
  <2>1. [t EXCEPT ![p] = m] \in Seq(E)
    BY <1>2
  <2>2. \A i \in 1 .. n : [t EXCEPT ![p] = m][i] = IF i = p THEN m ELSE t[i]
    BY <1>1, <1>2
  <2> DEFINE v == [t EXCEPT ![p] = m]
  <2>3. Len(v) = n
    BY <1>1, <1>2
  <2> HIDE DEF v
  <2>4. u = SubSeq(v, 1, n - 1) /\ v \in Seq(E)
    BY <2>1 DEF v
  <2>5. u \in Seq(E) /\ Len(u) = n - 1 /\ \A i \in 1 .. n - 1 : u[i] = v[i]
    BY <1>2, <2>3, <2>4
  <2> HIDE DEF u
  <2> QED
    BY <1>2, <2>2, <2>5 DEF v
<1>7. x = [k \in keys \ {e.key} |-> h.indexes[k]]
  BY <1>1 DEF Unindexed
<1>8. {a.key : a \in F} = keys \ {e.key}
  BY <1>1
<1>9. RemoveAt(h, p) = IF p = n THEN [rest EXCEPT !.nextSeq = IF n = 1 THEN 0 ELSE @]
                       ELSE Fix([rest EXCEPT !.indexes[m.key] = p], p)
  BY <1>2 DEF RemoveAt
<1>10. \A a \in F : a.sequence < h.nextSeq
  BY DEF Good
<1>11. \A i \in 2 .. n : ~ Before(t[i], t[Parent(i)])
  BY DEF Good, Ordered
<1>12. \A c \in 2 .. n : Parent(c) \in 1 .. n /\ Parent(c) < c /\ c \in 1 .. n
  BY <1>1, TreeFacts
<1>13. h.nextSeq \in 0 .. MaxSequence
  BY DEF Good
<1> HIDE DEF u, x, rest, keys, F
<1>14. CASE p = n
  <2> DEFINE s == IF n = 1 THEN 0 ELSE h.nextSeq
             g == Heap(u, x, s)
  <2>1. Remove(h, e.key) = g
    <3>1. rest.nextSeq = h.nextSeq
      BY <1>5, HeapFields
    <3>2. [rest EXCEPT !.nextSeq = IF n = 1 THEN 0 ELSE @] = [rest EXCEPT !.nextSeq = s]
      BY <3>1, <1>5 DEF Heap
    <3> HIDE DEF s
    <3> QED
      BY <1>4, <1>5, <1>9, <1>14, <3>2, HeapFields
  <2> HIDE DEF s
  <2>2. g.items = u /\ g.indexes = x /\ g.nextSeq = s /\ IsHeap(g)
    BY HeapFields DEF IsHeap
  <2> HIDE DEF g
  <2>3. \A i \in 1 .. n - 1 : u[i] = t[i] /\ u[i] \in F /\ i \in 1 .. n
    BY <1>1, <1>2, <1>6, <1>14 DEF F
  <2>4. \A a \in F : a.key \in keys \ {e.key} /\ a \in E /\ h.indexes[a.key] \in 1 .. n - 1
    BY <1>1, <1>2, <1>14 DEF F
  <2>5. Contains(g, F, n - 1)
    <3>1. g.items \in [1 .. n - 1 -> F]
      BY <1>6, <2>2, <2>3
    <3>2. g.indexes \in [{a.key : a \in F} -> 1 .. n - 1]
      <4>1. \A k \in keys \ {e.key} : h.indexes[k] \in 1 .. n - 1
        BY <2>4, <1>8
      <4> QED
        BY <1>7, <1>8, <2>2, <4>1
    <3>3. \A a \in F : g.items[g.indexes[a.key]] = a
      BY <1>1, <1>7, <2>2, <2>3, <2>4
    <3>4. \A i \in 1 .. n - 1 : g.indexes[g.items[i].key] = i
      BY <1>1, <1>7, <2>2, <2>3, <2>4
    <3> QED
      BY <1>2, <2>2, <3>1, <3>2, <3>3, <3>4 DEF Contains
  <2>6. Ordered(g, n - 1)
    <3>1. \A i \in 2 .. n - 1 : i \in 2 .. n /\ i \in 1 .. n - 1 /\ Parent(i) \in 1 .. n - 1
      BY <1>2, <1>12
    <3> QED
      BY <1>11, <2>2, <2>3, <3>1 DEF Ordered
  <2>7. s \in 0 .. MaxSequence /\ \A a \in F : a.sequence < s
    <3>1. CASE n = 1
      <4>1. F = {}
        BY <1>1, <1>2, <1>14, <3>1 DEF F
      <4> QED
        BY <3>1, <4>1, HeapAssumption DEF s
    <3>2. CASE n # 1
      BY <1>10, <1>13, <3>2 DEF s
    <3> QED
      BY <3>1, <3>2
  <2> QED
    BY <1>3, <2>1, <2>2, <2>5, <2>6, <2>7 DEF Good, F
<1>15. CASE p # n
  <2> DEFINE y == [x EXCEPT ![m.key] = p]
             g == Heap(u, y, h.nextSeq)
  <2>1. Remove(h, e.key) = Fix(g, p)
    <3>1. rest.indexes = x
      BY <1>5, HeapFields
    <3>2. [rest EXCEPT !.indexes[m.key] = p] = [rest EXCEPT !.indexes = y]
      BY <3>1, <1>5 DEF Heap
    <3> HIDE DEF y
    <3>3. [rest EXCEPT !.indexes[m.key] = p] = g
      BY <1>5, <3>2, HeapFields
    <3> QED
      BY <1>4, <1>9, <1>15, <3>3
  <2>2. g.items = u /\ g.indexes = y /\ g.nextSeq = h.nextSeq /\ IsHeap(g)
    BY HeapFields DEF IsHeap
  <2> HIDE DEF g
  <2>3. /\ p \in 1 .. n - 1 /\ m # e /\ m \in F /\ m.key \in keys \ {e.key} /\ h.indexes[m.key] = n
        /\ u[p] = m
        /\ \A i \in 1 .. n - 1 : i # p =>
             u[i] = t[i] /\ t[i] # e /\ t[i] # m /\ t[i] \in F /\ i \in 1 .. n
    <3>1. p \in 1 .. n - 1 /\ m # e /\ h.indexes[m.key] = n
      BY <1>1, <1>2, <1>15
    <3>2. m \in F /\ m.key \in keys \ {e.key}
      BY <1>1, <1>2, <3>1 DEF F
    <3>3. ASSUME NEW i \in 1 .. n - 1, i # p
          PROVE  t[i] # e /\ t[i] # m /\ t[i] \in F /\ i \in 1 .. n
      <4>1. i \in 1 .. n /\ i # n
        BY <1>2
      <4>2. t[i] \in E /\ h.indexes[t[i].key] = i
        BY <1>1, <4>1
      <4>3. t[i] # e /\ t[i] # m
        BY <3>1, <3>3, <4>1, <4>2
      <4> QED
        BY <4>1, <4>2, <4>3 DEF F
    <3> QED
      BY <1>6, <3>1, <3>2, <3>3
  <2> HIDE DEF m, p, t
  <2>4. /\ y \in [keys \ {e.key} -> 1 .. n - 1] /\ y[m.key] = p
        /\ \A a \in F : a # m => y[a.key] = h.indexes[a.key] /\ h.indexes[a.key] \in 1 .. n - 1
                                 /\ h.indexes[a.key] # p
    <3>1. \A a \in F : a \in E /\ a # e /\ a.key \in keys \ {e.key}
      BY <1>1, <1>8 DEF F
    <3>2. \A a \in F : a # m => a.key # m.key
      BY <1>1, <2>3, <3>1
    <3>3. ASSUME NEW a \in F, a # m
          PROVE  h.indexes[a.key] \in 1 .. n - 1 /\ h.indexes[a.key] # p
      <4>1. h.indexes[a.key] \in 1 .. n /\ t[h.indexes[a.key]] = a
        BY <1>1, <3>1
      <4>2. h.indexes[a.key] # n /\ h.indexes[a.key] # p
        BY <1>2, <3>1, <3>3, <4>1 DEF m
      <4> QED
        BY <1>2, <4>1, <4>2
    <3>4. y = [k \in keys \ {e.key} |-> IF k = m.key THEN p ELSE h.indexes[k]]
      BY <1>7, <2>3
    <3> HIDE DEF y
    <3>5. \A k \in keys \ {e.key} : y[k] \in 1 .. n - 1
      <4> SUFFICES ASSUME NEW k \in keys \ {e.key} PROVE y[k] \in 1 .. n - 1
        OBVIOUS
      <4>1. PICK a \in F : a.key = k
        BY <1>8
      <4> QED
        BY <2>3, <3>2, <3>3, <3>4, <4>1
    <3> QED
      BY <2>3, <3>1, <3>2, <3>3, <3>4, <3>5
  <2> HIDE DEF y
  <2>5. Contains(g, F, n - 1)
    <3>1. g.items \in [1 .. n - 1 -> F]
      BY <1>6, <2>2, <2>3
    <3>2. g.indexes \in [{a.key : a \in F} -> 1 .. n - 1]
      BY <1>8, <2>2, <2>4
    <3>3. \A a \in F : g.items[g.indexes[a.key]] = a
      <4> SUFFICES ASSUME NEW a \in F PROVE u[y[a.key]] = a
        BY <2>2
      <4>1. CASE a = m
        BY <2>3, <2>4, <4>1
      <4>2. CASE a # m
        <5>1. a \in E
          BY DEF F
        <5> QED
          BY <1>1, <2>3, <2>4, <4>2, <5>1
      <4> QED
        BY <4>1, <4>2
    <3>4. \A i \in 1 .. n - 1 : g.indexes[g.items[i].key] = i
      <4> SUFFICES ASSUME NEW i \in 1 .. n - 1 PROVE y[u[i].key] = i
        BY <2>2
      <4>1. CASE i = p
        BY <2>3, <2>4, <4>1
      <4>2. CASE i # p
        BY <1>1, <2>3, <2>4, <4>2
      <4> QED
        BY <4>1, <4>2
    <3> QED
      BY <1>2, <2>2, <3>1, <3>2, <3>3, <3>4 DEF Contains
  <2>6. \A c \in 2 .. n - 1 : /\ c \in 2 .. n /\ c \in 1 .. n - 1
                               /\ Parent(c) \in 1 .. n - 1 /\ Parent(c) < c
    BY <1>2, <1>12
  <2>7. ASSUME NEW c \in 2 .. n - 1, c # p, Parent(c) # p
        PROVE  ~ Before(u[c], u[Parent(c)])
    BY <1>11, <2>3, <2>6, <2>7
  <2>8. Spans(g, n - 1, p)
    <3>1. ASSUME NEW c \in 2 .. n - 1, p > 1, Parent(c) = p
          PROVE  ~ Before(u[c], u[Parent(p)])
      <4>1. p \in 2 .. n - 1 /\ c # p /\ Parent(p) # p
        BY <1>2, <2>3, <2>6, <3>1
      <4>2. ~ Before(t[c], t[p]) /\ ~ Before(t[p], t[Parent(p)])
        BY <1>11, <2>6, <3>1, <4>1
      <4>3. t[c] \in E /\ t[p] \in E /\ t[Parent(p)] \in E
        BY <1>1, <1>2, <2>6, <4>1
      <4>4. ~ Before(t[c], t[Parent(p)])
        BY <4>2, <4>3, BeforeOrders DEF Good
      <4> QED
        BY <2>3, <2>6, <4>1, <4>4
    <3> QED
      BY <2>2, <3>1 DEF Spans
  <2>9. Sorted(Fix(g, p), g, F, n - 1)
    <3>1. \A c \in 2 .. n - 1 : c # p /\ Parent(c) # p => ~ Before(g.items[c], g.items[Parent(c)])
      BY <2>2, <2>7
    <3> QED
      BY <1>3, <2>3, <2>5, <2>8, <3>1, FixSorts DEF F
  <2> QED
    BY <1>3, <1>10, <1>13, <2>1, <2>2, <2>9 DEF Good, Sorted, F
<1> QED
  BY <1>14, <1>15

(* The ranks of n entries are 0 .. n - 1, in the order of their numbers.   *)
LEMMA RankIs ==
  ASSUME NEW E, Apart(E), IsFiniteSet(E), NEW n, n = Cardinality(E)
  PROVE  /\ \A e \in E : Rank(E, e) \in 0 .. n - 1
         /\ \A e, d \in E : e.sequence < d.sequence => Rank(E, e) < Rank(E, d)
         /\ \A e, d \in E : Rank(E, e) = Rank(E, d) => e = d
         /\ \A r \in 0 .. n - 1 : \E e \in E : Rank(E, e) = r
<1> DEFINE S == {d.sequence : d \in E}
           Below(e) == {m \in S : m < e.sequence}
           f == [e \in E |-> e.sequence]
<1>1. /\ \A e \in E : e.sequence \in Nat /\ e.sequence \in S
      /\ \A e, d \in E : e.sequence = d.sequence => e = d
      /\ S \in SUBSET Nat
  BY EntryTypes DEF Apart
<1>2. IsFiniteSet(S) /\ Cardinality(S) = n /\ n \in Nat
  <2>1. f \in Bijection(E, S)
    BY <1>1 DEF Bijection, Injection, Surjection, IsInjective
  <2> HIDE DEF f, S
  <2> QED
    BY <2>1, FS_Bijection, FS_CardinalityType DEF ExistsBijection
<1>3. \A e : Rank(E, e) = Cardinality(Below(e))
  BY DEF Rank
<1> HIDE DEF S, f
<1>4. \A e : IsFiniteSet(Below(e)) /\ Cardinality(Below(e)) \in Nat
  <2> TAKE e
  <2>1. Below(e) \in SUBSET S
    OBVIOUS
  <2> HIDE DEF Below
  <2> QED
    BY <1>2, <2>1, FS_Subset, FS_CardinalityType
<1>5. ASSUME NEW e \in E, NEW B \in SUBSET S, IsFiniteSet(B),
             e.sequence \in B, Below(e) \subseteq B
      PROVE  Cardinality(Below(e)) < Cardinality(B)
  <2>1. e.sequence \notin Below(e)
    BY <1>1
  <2>2. Below(e) \in SUBSET B /\ Below(e) # B
    BY <1>5, <2>1
  <2> HIDE DEF Below
  <2>3. Cardinality(Below(e)) <= Cardinality(B) /\ Cardinality(Below(e)) # Cardinality(B)
    BY <1>5, <2>2, FS_Subset
  <2>4. Cardinality(Below(e)) \in Nat /\ Cardinality(B) \in Nat
    BY <1>4, <1>5, FS_CardinalityType
  <2> QED
    BY <2>3, <2>4
<1>6. \A e \in E : Rank(E, e) \in 0 .. n - 1
  <2> SUFFICES ASSUME NEW e \in E PROVE Rank(E, e) \in 0 .. n - 1
    OBVIOUS
  <2>1. e.sequence \in S /\ Below(e) \subseteq S
    BY <1>1
  <2>2. Cardinality(Below(e)) < n
    BY <1>2, <1>5, <2>1
  <2> QED
    BY <1>2, <1>3, <1>4, <2>2
<1>7. \A e, d \in E : e.sequence < d.sequence => Rank(E, e) < Rank(E, d)
  <2> SUFFICES ASSUME NEW e \in E, NEW d \in E, e.sequence < d.sequence
               PROVE  Rank(E, e) < Rank(E, d)
    OBVIOUS
  <2>1. Below(d) \in SUBSET S /\ e.sequence \in Below(d)
    BY <1>1
  <2>2. ASSUME NEW m \in S, m < e.sequence
        PROVE  m < d.sequence
    <3>1. m \in Nat /\ e.sequence \in Nat /\ d.sequence \in Nat
      BY <1>1
    <3> QED
      BY <2>2, <3>1
  <2>3. Below(e) \subseteq Below(d)
    BY <2>2
  <2>4. Cardinality(Below(e)) < Cardinality(Below(d))
    BY <1>4, <1>5, <2>1, <2>3
  <2> QED
    BY <1>3, <2>4
<1> HIDE DEF Below
<1>8. \A e, d \in E : Rank(E, e) = Rank(E, d) => e = d
  <2> SUFFICES ASSUME NEW e \in E, NEW d \in E, Rank(E, e) = Rank(E, d), e # d
               PROVE  FALSE
    OBVIOUS
  <2>1. e.sequence < d.sequence \/ d.sequence < e.sequence
    BY <1>1
  <2>2. Rank(E, e) \in Int /\ Rank(E, d) \in Int
    BY <1>6
  <2> QED
    BY <1>7, <2>1, <2>2
<1>9. \A r \in 0 .. n - 1 : \E e \in E : Rank(E, e) = r
  <2> DEFINE g == [e \in E |-> Rank(E, e)]
             T == 0 .. n - 1
  <2>1. g \in Injection(E, T)
    BY <1>6, <1>8 DEF Injection, IsInjective
  <2>2. IsFiniteSet(T) /\ Cardinality(T) = n
    <3> DEFINE m == n - 1
    <3>1. m \in Int /\ m >= -1 /\ n = m + 1
      BY <1>2
    <3> HIDE DEF m
    <3>2. IsFiniteSet(0 .. m) /\ Cardinality(0 .. m) = IF 0 > m THEN 0 ELSE m - 0 + 1
      BY <3>1, FS_Interval
    <3>3. Cardinality(0 .. m) = n
      BY <3>1, <3>2
    <3> QED
      BY <3>2, <3>3 DEF m
  <2>3. g \in Surjection(E, T)
    <3> HIDE DEF g, T
    <3> QED
      BY <2>1, <2>2, FS_Injection
  <2> QED
    BY <2>3 DEF Surjection
<1> QED
  BY <1>6, <1>7, <1>8, <1>9

(* The entries with new numbers in the same order.                         *)
Numbered(E, e) == [e EXCEPT !.sequence = Rank(E, e)]
Anew(E) == {Numbered(E, e) : e \in E}

(* Numbering anew changes no key, deadline or order.                       *)
LEMMA NumberedIs ==
  ASSUME NEW E, Apart(E), IsFiniteSet(E), Cardinality(E) <= MaxSequence
  PROVE  /\ \A e \in E : /\ Numbered(E, e) \in Entries
                         /\ Numbered(E, e).key = e.key
                         /\ Numbered(E, e).when = e.when
                         /\ Numbered(E, e).sequence = Rank(E, e)
                         /\ Numbered(E, e).sequence < Cardinality(E)
         /\ Apart(Anew(E))
         /\ {a.key : a \in Anew(E)} = {a.key : a \in E}
         /\ \A e, d \in E : Before(Numbered(E, e), Numbered(E, d)) <=> Before(e, d)
<1> DEFINE n == Cardinality(E)
<1>1. /\ \A e \in E : Rank(E, e) \in 0 .. n - 1
      /\ \A e, d \in E : e.sequence < d.sequence => Rank(E, e) < Rank(E, d)
      /\ \A e, d \in E : Rank(E, e) = Rank(E, d) => e = d
      /\ n \in Nat /\ n <= MaxSequence /\ MaxSequence \in Nat
  BY RankIs, FS_CardinalityType, HeapAssumption
<1> HIDE DEF n
<1>2. ASSUME NEW e \in E
      PROVE  /\ Numbered(E, e) \in Entries
             /\ Numbered(E, e).key = e.key /\ Numbered(E, e).when = e.when
             /\ Numbered(E, e).sequence = Rank(E, e)
             /\ Rank(E, e) < n
  <2>1. Rank(E, e) \in 0 .. MaxSequence /\ Rank(E, e) < n
    BY <1>1
  <2>2. e \in Entries
    BY DEF Apart
  <2> QED
    BY <2>1, <2>2 DEF Numbered, Entries
<1>3. Apart(Anew(E))
  <2>1. Anew(E) \subseteq Entries
    BY <1>2 DEF Anew
  <2>2. ASSUME NEW a \in Anew(E), NEW b \in Anew(E), a.key = b.key \/ a.sequence = b.sequence
        PROVE  a = b
    <3>1. PICK e \in E : a = Numbered(E, e)
      BY DEF Anew
    <3>2. PICK d \in E : b = Numbered(E, d)
      BY DEF Anew
    <3>3. e.key = d.key \/ Rank(E, e) = Rank(E, d)
      BY <1>2, <2>2, <3>1, <3>2
    <3>4. e = d
      BY <1>1, <3>3 DEF Apart
    <3> QED
      BY <3>1, <3>2, <3>4
  <2> QED
    BY <2>1, <2>2 DEF Apart
<1>4. {a.key : a \in Anew(E)} = {a.key : a \in E}
  BY <1>2 DEF Anew
<1>5. ASSUME NEW e \in E, NEW d \in E
      PROVE  Before(Numbered(E, e), Numbered(E, d)) <=> Before(e, d)
  <2>1. e.sequence \in Nat /\ d.sequence \in Nat /\ (e.sequence = d.sequence => e = d)
    BY EntryTypes DEF Apart
  <2>2. Rank(E, e) \in Int /\ Rank(E, d) \in Int
    BY <1>1
  <2>3. Rank(E, e) < Rank(E, d) <=> e.sequence < d.sequence
    BY <1>1, <2>1, <2>2
  <2> QED
    BY <1>2, <2>3 DEF Before
<1> QED
  BY <1>2, <1>3, <1>4, <1>5 DEF n

(* Numbering anew keeps the heap in order, and leaves the numbers from n   *)
(* on.                                                                     *)
LEMMA RenumberKeeps ==
  ASSUME NEW E, NEW n, NEW h, Good(h, E, n)
  PROVE  Good(RenumberSequences(h), Anew(E), n) /\ RenumberSequences(h).nextSeq = n
<1> DEFINE t == h.items
           g == RenumberSequences(h)
           u == [i \in 1 .. n |-> Numbered(E, t[i])]
           F == Anew(E)
<1>1. /\ n \in Nat /\ IsHeap(h) /\ t \in [1 .. n -> E]
      /\ h.indexes \in [{a.key : a \in E} -> 1 .. n]
      /\ \A a \in E : h.indexes[a.key] \in 1 .. n /\ t[h.indexes[a.key]] = a
      /\ \A i \in 1 .. n : t[i] \in E /\ h.indexes[t[i].key] = i
      /\ DOMAIN t = 1 .. n /\ Len(t) = n /\ Held(h) = E
  <2>1. Len(t) = n /\ Held(h) = E
    BY ContainsFacts DEF Good
  <2> QED
    BY <2>1 DEF Good, Contains
<1>2. IsFiniteSet(E) /\ Cardinality(E) = n /\ n <= MaxSequence /\ Apart(E)
  BY Counted DEF Good
<1>3. /\ \A e \in E : /\ Numbered(E, e) \in Entries
                      /\ Numbered(E, e).key = e.key
                      /\ Numbered(E, e).sequence < n
      /\ Apart(F)
      /\ {a.key : a \in F} = {a.key : a \in E}
      /\ \A e, d \in E : Before(Numbered(E, e), Numbered(E, d)) <=> Before(e, d)
  BY <1>2, NumberedIs
<1>4. g = Heap(u, h.indexes, n)
  <2> DEFINE v == [i \in DOMAIN t |-> [t[i] EXCEPT !.sequence = Rank(Held(h), t[i])]]
             z == [h EXCEPT !.items = v]
  <2>1. v = u
    BY <1>1 DEF Numbered
  <2>2. g = [h EXCEPT !.items = v, !.nextSeq = n]
    BY <1>1 DEF RenumberSequences, IsHeap, Heap
  <2> HIDE DEF u, v, g
  <2>3. z = Heap(u, h.indexes, h.nextSeq)
    BY <1>1, <2>1, HeapFields DEF IsHeap
  <2>4. g = [z EXCEPT !.nextSeq = n]
    BY <2>2
  <2> HIDE DEF z
  <2> QED
    BY <2>3, <2>4, HeapFields
<1>5. g.items = u /\ g.indexes = h.indexes /\ g.nextSeq = n /\ IsHeap(g)
  <2> HIDE DEF g, u
  <2> QED
    BY <1>4, HeapFields DEF IsHeap
<1>6. u \in [1 .. n -> F] /\ \A i \in 1 .. n : u[i] = Numbered(E, t[i])
  BY <1>1 DEF Anew
<1> HIDE DEF g, u, t, F
<1>7. Contains(g, F, n)
  <2>1. \A a \in F : u[h.indexes[a.key]] = a
    <3> SUFFICES ASSUME NEW a \in F PROVE u[h.indexes[a.key]] = a
      OBVIOUS
    <3>1. PICK e \in E : a = Numbered(E, e)
      BY DEF F, Anew
    <3> QED
      BY <1>1, <1>3, <1>6, <3>1
  <2>2. \A i \in 1 .. n : h.indexes[u[i].key] = i
    BY <1>1, <1>3, <1>6
  <2> QED
    BY <1>1, <1>3, <1>5, <1>6, <2>1, <2>2 DEF Contains
<1>8. Ordered(g, n)
  <2>1. \A i \in 2 .. n : Parent(i) \in 1 .. n /\ i \in 1 .. n
    BY <1>1, TreeFacts
  <2>2. \A i \in 2 .. n : ~ Before(t[i], t[Parent(i)])
    BY DEF Good, Ordered, t
  <2> QED
    BY <1>1, <1>3, <1>5, <1>6, <2>1, <2>2 DEF Ordered
<1>9. n \in 0 .. MaxSequence /\ \A a \in F : a.sequence < n
  BY <1>1, <1>2, <1>3, HeapAssumption DEF F, Anew
<1> QED
  BY <1>3, <1>5, <1>7, <1>8, <1>9 DEF Good, g, F

(* A new entry gets the next number and rises from the last place.         *)
LEMMA AppendKeeps ==
  ASSUME NEW E, NEW n, NEW g, Good(g, E, n), g.nextSeq < MaxSequence,
         NEW key \in Keys, \A e \in E : e.key # key, NEW when \in Deadlines
  PROVE  LET a == [key |-> key, when |-> when, sequence |-> g.nextSeq]
             x == [ items   |-> Append(g.items, a),
                    indexes |-> Indexed(g, key, n + 1),
                    nextSeq |-> g.nextSeq + 1 ]
         IN  a \in Entries /\ Good(SiftUp(x, n + 1), E \union {a}, n + 1)
<1> DEFINE a == [key |-> key, when |-> when, sequence |-> g.nextSeq]
           F == E \union {a}
           t == g.items
           u == Append(t, a)
           y == Indexed(g, key, n + 1)
           x == [items |-> u, indexes |-> y, nextSeq |-> g.nextSeq + 1]
           keys == {e.key : e \in E}
<1>1. /\ n \in Nat /\ t \in [1 .. n -> E] /\ g.indexes \in [keys -> 1 .. n]
      /\ \A e \in E : e.key \in keys /\ g.indexes[e.key] \in 1 .. n /\ t[g.indexes[e.key]] = e
      /\ \A i \in 1 .. n : t[i] \in E /\ g.indexes[t[i].key] = i
      /\ \A e \in E : e.sequence < g.nextSeq
      /\ g.nextSeq \in 0 .. MaxSequence /\ MaxSequence \in Nat
      /\ Apart(E)
  BY HeapAssumption DEF Good, Contains
<1>2. a \in Entries /\ a.key = key /\ a.sequence = g.nextSeq /\ a \notin E
  <2>1. a \in Entries
    BY <1>1 DEF Entries
  <2> QED
    BY <1>1, <2>1
<1>3. Apart(F)
  <2> HIDE DEF a
  <2>1. \A e \in E : e.sequence \in Nat /\ e.sequence # g.nextSeq
    BY <1>1, EntryTypes DEF Apart
  <2> QED
    BY <1>1, <1>2, <2>1 DEF Apart
<1>4. /\ u \in [1 .. n + 1 -> F] /\ u[n + 1] = a
      /\ \A i \in 1 .. n : u[i] = t[i] /\ i # n + 1 /\ i \in 1 .. n + 1
  <2>1. t \in Seq(E) /\ Len(t) = n
    BY <1>1
  <2>2. /\ u \in Seq(F) /\ Len(u) = n + 1 /\ u[n + 1] = a
        /\ \A i \in 1 .. n : u[i] = t[i]
    <3> HIDE DEF a, t
    <3> QED
      BY <2>1
  <2> HIDE DEF u
  <2> QED
    BY <1>1, <2>2
<1>5. /\ y \in [keys \union {key} -> 1 .. n + 1] /\ y[key] = n + 1
      /\ \A e \in E : y[e.key] = g.indexes[e.key]
  <2>1. /\ DOMAIN g.indexes = keys
        /\ \A k \in keys : g.indexes[k] \in 1 .. n /\ g.indexes[k] \in 1 .. n + 1
    BY <1>1
  <2>2. y = [k \in keys \union {key} |-> IF k = key THEN n + 1 ELSE g.indexes[k]]
    BY <2>1 DEF Indexed
  <2> HIDE DEF y, keys
  <2>3. n + 1 \in 1 .. n + 1
    BY <1>1
  <2> QED
    BY <1>1, <2>1, <2>2, <2>3
<1>6. {e.key : e \in F} = keys \union {key}
  BY <1>2
<1>7. x.items = u /\ x.indexes = y /\ x.nextSeq = g.nextSeq + 1 /\ IsHeap(x)
  BY DEF IsHeap, Heap
<1> HIDE DEF x, y, u, t, F, a, keys
<1>8. Contains(x, F, n + 1)
  <2>1. \A e \in F : u[y[e.key]] = e
    <3> SUFFICES ASSUME NEW e \in F PROVE u[y[e.key]] = e
      OBVIOUS
    <3>1. CASE e = a
      BY <1>2, <1>4, <1>5, <3>1
    <3>2. CASE e \in E
      BY <1>1, <1>4, <1>5, <3>2
    <3> QED
      BY <3>1, <3>2 DEF F
  <2>2. \A i \in 1 .. n + 1 : y[u[i].key] = i
    <3> SUFFICES ASSUME NEW i \in 1 .. n + 1 PROVE y[u[i].key] = i
      OBVIOUS
    <3>1. CASE i = n + 1
      BY <1>2, <1>4, <1>5, <3>1
    <3>2. CASE i \in 1 .. n
      BY <1>1, <1>4, <1>5, <3>2
    <3> QED
      BY <1>1, <3>1, <3>2
  <2>3. n + 1 \in Nat
    BY <1>1
  <2> QED
    BY <1>4, <1>5, <1>6, <1>7, <2>1, <2>2, <2>3 DEF Contains
<1>9. Rising(x, n + 1, n + 1)
  <2>1. \A c \in 2 .. n + 1 : Parent(c) \in 1 .. n /\ Parent(c) # n + 1
    <3>1. n + 1 \in Nat
      BY <1>1
    <3>2. \A c \in 2 .. n + 1 : Parent(c) \in 1 .. n + 1 /\ Parent(c) < c
      BY <3>1, TreeFacts
    <3> QED
      BY <1>1, <3>2
  <2>2. \A c \in 2 .. n + 1 : c # n + 1 => c \in 2 .. n /\ c \in 1 .. n
    BY <1>1
  <2>3. \A c \in 2 .. n : ~ Before(t[c], t[Parent(c)])
    BY DEF Good, Ordered, t
  <2> QED
    BY <1>4, <1>7, <2>1, <2>2, <2>3 DEF Rising, Spans
<1>10. Sorted(SiftUp(x, n + 1), x, F, n + 1)
  <2>1. n + 1 \in 1 .. n + 1
    BY <1>1
  <2> QED
    BY <1>3, <1>8, <1>9, <2>1, SiftUpSorts
<1>11. x.nextSeq \in 0 .. MaxSequence /\ \A e \in F : e.sequence < x.nextSeq
  <2>1. \A e \in E : e.sequence \in Nat
    BY <1>1, EntryTypes DEF Apart
  <2> QED
    BY <1>1, <1>2, <1>7, <2>1 DEF F
<1>12. Good(SiftUp(x, n + 1), F, n + 1)
  BY <1>3, <1>10, <1>11 DEF Good, Sorted
<1> QED
  BY <1>2, <1>12 DEF x, u, y, F, a, t

(* What an insertion keeps: the entries, with new numbers if need be.      *)
Kept(h, E) == IF h.nextSeq = MaxSequence THEN Anew(E) ELSE E

(* An insertion, whether or not the numbers have run out.                  *)
LEMMA InsertKeeps ==
  ASSUME NEW E, NEW n, NEW h, Good(h, E, n),
         NEW key \in Keys, \A e \in E : e.key # key, NEW when \in Deadlines
  PROVE  \E a \in Entries :
           /\ a.key = key /\ a.when = when
           /\ \A e \in Kept(h, E) : e.sequence < a.sequence
           /\ Good(Insert(h, key, when), Kept(h, E) \union {a}, n + 1)
<1> DEFINE g == IF h.nextSeq = MaxSequence THEN RenumberSequences(h) ELSE h
           F == Kept(h, E)
           a == [key |-> key, when |-> when, sequence |-> g.nextSeq]
           x == [ items   |-> Append(g.items, a),
                  indexes |-> Indexed(g, key, Len(g.items) + 1),
                  nextSeq |-> g.nextSeq + 1 ]
<1>1. /\ IsFiniteSet(E) /\ Cardinality(E) = n /\ n \in Nat /\ n <= MaxSequence
      /\ n + 1 <= MaxSequence /\ MaxSequence \in Nat /\ Apart(E)
  BY Counted, TimerAssumption, HeapAssumption DEF Good
<1>2. Good(g, F, n) /\ g.nextSeq < MaxSequence
  <2>1. CASE h.nextSeq = MaxSequence
    <3>1. Good(RenumberSequences(h), Anew(E), n) /\ RenumberSequences(h).nextSeq = n
      BY RenumberKeeps
    <3> QED
      BY <1>1, <2>1, <3>1 DEF Kept
  <2>2. CASE h.nextSeq # MaxSequence
    <3>1. h.nextSeq < MaxSequence
      BY <1>1, <2>2 DEF Good
    <3> QED
      BY <2>2, <3>1 DEF Kept
  <2> QED
    BY <2>1, <2>2
<1>3. \A e \in F : e.key # key
  <2>1. {e.key : e \in Anew(E)} = {e.key : e \in E}
    BY <1>1, NumberedIs
  <2> QED
    BY <2>1 DEF Kept
<1>4. Len(g.items) = n
  <2> HIDE DEF g
  <2> QED
    BY <1>2, ContainsFacts DEF Good
<1>5. Insert(h, key, when) = SiftUp(x, Len(g.items) + 1)
  BY DEF Insert
<1> HIDE DEF g, F
<1>6. a \in Entries /\ Good(SiftUp(x, n + 1), F \union {a}, n + 1)
  BY <1>2, <1>3, <1>4, AppendKeeps
<1>7. \A e \in F : e.sequence < a.sequence
  BY <1>2 DEF Good
<1> QED
  BY <1>4, <1>5, <1>6, <1>7 DEF F

(* The first entry of a heap is before all others.                         *)
LEMMA TopIsFirst ==
  ASSUME NEW E, NEW n, NEW h, Good(h, E, n), ~ IsEmpty(h)
  PROVE  /\ 1 \in 1 .. n /\ h.items[1] \in E
         /\ \A e \in E : ~ Before(e, h.items[1])
<1> DEFINE t == h.items
<1>1. /\ n \in Nat /\ t \in [1 .. n -> E] /\ \A e \in E : \E i \in 1 .. n : t[i] = e
      /\ \A i \in 1 .. n : t[i] \in E
      /\ Apart(E)
  BY DEF Good, Contains
<1>2. n # 0
  <2>1. t \in Seq(E) /\ Len(t) = n /\ t # <<>>
    BY <1>1 DEF IsEmpty
  <2> QED
    BY <2>1
<1>3. \A i \in 2 .. n : ~ Before(t[i], t[Parent(i)])
  BY DEF Good, Ordered
<1>4. 1 \in 1 .. n /\ t[1] \in E
  BY <1>1, <1>2
<1>5. \A i \in 2 .. n : Parent(i) \in 1 .. n /\ Parent(i) < i
  BY <1>1, TreeFacts
<1> HIDE DEF t
<1> DEFINE B == {i \in 1 .. n : Before(t[i], t[1])}
<1>6. B = {}
  <2> SUFFICES ASSUME B # {} PROVE FALSE
    OBVIOUS
  <2>1. B \in SUBSET Nat
    OBVIOUS
  <2>2. PICK i \in B : \A j \in B : i <= j
    BY <2>1, LeastNumber
  <2>3. i # 1 /\ i \in 2 .. n
    BY <1>1, <1>4, BeforeOrders
  <2>4. Parent(i) \in 1 .. n /\ Parent(i) < i /\ ~ Before(t[i], t[Parent(i)])
    BY <1>3, <1>5, <2>3
  <2>5. Parent(i) \notin B
    BY <2>2, <2>4
  <2>6. ~ Before(t[Parent(i)], t[1])
    BY <2>4, <2>5
  <2>7. t[i] \in E /\ t[1] \in E /\ t[Parent(i)] \in E
    BY <1>1, <1>4, <2>4
  <2>8. ~ Before(t[i], t[1])
    BY <1>1, <2>4, <2>6, <2>7, BeforeOrders
  <2> QED
    BY <2>2, <2>8
<1> QED
  BY <1>1, <1>4, <1>6 DEF t

-----------------------------------------------------------------------------
(* The state.                                                              *)

Typed ==
  /\ trigger \in {Stopped} \union 0 .. DurationRange
  /\ clock \in 0 .. MaxTime
  /\ mailbox \in Seq(Keys \union {"record"})
  /\ Len(mailbox) <= Capacity
  /\ actor \in [ stage : {"running", "expiring", "draining", "gone"},
                 now   : 0 .. MaxTime,
                 stop  : BOOLEAN ]
  /\ records \in 0 .. MaxRecords

HeapIsGood == Good(heap, Held(heap), Len(heap.items))

(* What is due is decided by a time that has come.                         *)
NowHasCome == actor.stage = "expiring" => actor.now <= clock

IInv == Typed /\ HeapIsGood /\ NowHasCome /\ WakesInTime

(* The entries of a heap are those it holds.                               *)
LEMMA GoodIs ==
  ASSUME NEW h, NEW E, NEW n, Good(h, E, n)
  PROVE  E = Held(h) /\ n = Len(h.items) /\ Good(h, Held(h), Len(h.items))
BY ContainsFacts DEF Good

(* The heap at the start.                                                  *)
LEMMA GoodEmpty == Good(EmptyHeap, {}, 0)
<1> DEFINE h == EmptyHeap
<1>1. h.items = <<>> /\ h.indexes = <<>> /\ h.nextSeq = 0 /\ IsHeap(h)
  BY DEF EmptyHeap, IsHeap, Heap
<1> HIDE DEF h
<1>2. <<>> \in [1 .. 0 -> {}] /\ <<>> \in [{} -> 1 .. 0]
  OBVIOUS
<1>3. {e.key : e \in {}} = {} /\ 1 .. 0 = {} /\ 2 .. 0 = {}
  OBVIOUS
<1> QED
  BY <1>1, <1>2, <1>3, HeapAssumption DEF Good, Apart, Contains, Ordered, h

(* The heap is what the runs check.                                        *)
LEMMA GoodHeapOK ==
  ASSUME NEW h, NEW E, NEW n, Good(h, E, n)
  PROVE  HeapOK(h)
<1> DEFINE t == h.items
<1>1. /\ n \in Nat /\ t \in [1 .. n -> E] /\ DOMAIN t = 1 .. n
      /\ \A e \in E : h.indexes[e.key] \in 1 .. n /\ t[h.indexes[e.key]] = e
      /\ \A i \in 1 .. n : t[i] \in E /\ h.indexes[t[i].key] = i
      /\ DOMAIN h.indexes = {e.key : e \in E}
      /\ \A e \in E : e.sequence < h.nextSeq
      /\ \A e, d \in E : e.sequence = d.sequence => e = d
  BY DEF Good, Contains, Apart
<1>2. \A i \in 1 .. n : i > 1 => ~ Less(h, i, Parent(i))
  <2>1. \A i \in 1 .. n : i > 1 => i \in 2 .. n
    BY <1>1
  <2> QED
    BY <2>1 DEF Good, Ordered, Before, Less
<1>3. {t[i].key : i \in 1 .. n} = {e.key : e \in E}
  BY <1>1
<1>4. \A i, j \in 1 .. n : t[i].sequence = t[j].sequence => i = j
  <2>1. \A i, j \in 1 .. n : t[i] = t[j] => i = j
    BY <1>1
  <2> HIDE DEF t
  <2> QED
    BY <1>1, <2>1
<1> QED
  BY <1>1, <1>2, <1>3, <1>4 DEF HeapOK

(* The first entry as the actor sees it.                                   *)
LEMMA TopIs ==
  ASSUME NEW h, NEW E, NEW n, Good(h, E, n), ~ IsEmpty(h)
  PROVE  \E e \in E : /\ Top(h).key = e.key /\ Top(h).when = e.when
                      /\ e.key \in Keys /\ e.when \in Nat
                      /\ \A d \in E : ~ Before(d, e)
                      /\ \A d \in E : d.when \in Nat /\ e.when <= d.when
<1>1. h.items[1] \in E /\ \A d \in E : ~ Before(d, h.items[1])
  BY TopIsFirst
<1> DEFINE e == h.items[1]
<1>2. Top(h).key = e.key /\ Top(h).when = e.when
  BY DEF Top, Item
<1>3. \A d \in E : d.key \in Keys /\ d.when \in Nat /\ d.sequence \in Nat
  BY EntryTypes DEF Good, Apart
<1>4. \A d \in E : e.when <= d.when
  BY <1>1, <1>3 DEF Before
<1> QED
  BY <1>1, <1>2, <1>3, <1>4

(* What the operations make of the entries.                                *)
LEMMA RemoveGood ==
  ASSUME NEW E, NEW n, NEW h, Good(h, E, n), NEW key
  PROVE  \/ Remove(h, key) = h /\ \A e \in E : e.key # key
         \/ \E e \in E : e.key = key /\ Good(Remove(h, key), E \ {e}, n - 1)
<1>1. DOMAIN h.indexes = {e.key : e \in E}
  BY DEF Good, Contains
<1>2. CASE Has(h, key)
  <2>1. PICK e \in E : e.key = key
    BY <1>1, <1>2 DEF Has
  <2> QED
    BY <2>1, RemoveKeeps
<1>3. CASE ~ Has(h, key)
  BY <1>1, <1>3 DEF Has, Remove
<1> QED
  BY <1>2, <1>3

(* Setting a timer moves one entry or adds one behind all others.          *)
LEMMA UpsertGood ==
  ASSUME NEW E, NEW n, NEW h, Good(h, E, n), NEW key \in Keys, NEW when \in Deadlines
  PROVE  \/ \E e \in E :
              /\ e.key = key
              /\ Good(Upsert(h, key, when), Moved(E, e, when), n)
         \/ \E a \in Entries :
              /\ \A e \in E : e.key # key
              /\ a.key = key /\ a.when = when
              /\ \A e \in Kept(h, E) : e.sequence < a.sequence
              /\ Good(Upsert(h, key, when), Kept(h, E) \union {a}, n + 1)
<1>1. DOMAIN h.indexes = {e.key : e \in E}
  BY DEF Good, Contains
<1>2. CASE Has(h, key)
  <2>1. PICK e \in E : e.key = key
    BY <1>1, <1>2 DEF Has
  <2> QED
    BY <1>2, <2>1, UpdateKeeps DEF Upsert
<1>3. CASE ~ Has(h, key)
  <2>1. \A e \in E : e.key # key
    BY <1>1, <1>3 DEF Has
  <2> QED
    BY <1>3, <2>1, InsertKeeps DEF Upsert
<1> QED
  BY <1>2, <1>3

(* No entry of a heap becomes due earlier by another one's leaving, or by  *)
(* being numbered anew.                                                    *)
LEMMA RemoveLater ==
  ASSUME NEW E, NEW n, NEW h, Good(h, E, n), NEW key,
         ~ IsEmpty(Remove(h, key))
  PROVE  ~ IsEmpty(h) /\ Top(h).when \in Nat /\ Top(Remove(h, key)).when \in Nat
         /\ Top(h).when <= Top(Remove(h, key)).when
<1> DEFINE g == Remove(h, key)
<1>1. CASE g = h
  BY <1>1, TopIs
<1>2. ASSUME NEW e \in E, Good(g, E \ {e}, n - 1)
      PROVE  ~ IsEmpty(h) /\ Top(h).when \in Nat /\ Top(g).when \in Nat
             /\ Top(h).when <= Top(g).when
  <2>1. ~ IsEmpty(h)
    <3>1. n \in Nat /\ h.items \in [1 .. n -> E] /\ h.indexes[e.key] \in 1 .. n
      BY DEF Good, Contains
    <3> QED
      BY <3>1 DEF IsEmpty
  <2> HIDE DEF g
  <2>2. PICK d \in E \ {e} : Top(g).when = d.when /\ d.when \in Nat
    <3>1. ~ IsEmpty(g)
      BY DEF g
    <3> QED
      BY <1>2, <3>1, TopIs
  <2> QED
    BY <2>1, <2>2, TopIs
<1>3. g = h \/ \E e \in E : Good(g, E \ {e}, n - 1)
  BY RemoveGood
<1> QED
  BY <1>1, <1>2, <1>3

(* Setting a timer makes the first deadline no earlier than the lesser of  *)
(* what it was and the new one.                                            *)
LEMMA UpsertLater ==
  ASSUME NEW E, NEW n, NEW h, Good(h, E, n), NEW key \in Keys, NEW when \in Deadlines
  PROVE  LET g == Upsert(h, key, when)
         IN  /\ Good(g, Held(g), Len(g.items))
             /\ ~ IsEmpty(g) => Top(g).when \in Nat
             /\ ~ IsEmpty(g) /\ ~ IsEmpty(h) /\ Top(h).when <= when
                  => Top(h).when \in Nat /\ Top(h).when <= Top(g).when
<1> DEFINE g == Upsert(h, key, when)
<1>1. PICK F, m : /\ Good(g, F, m)
                  /\ \A f \in F : f.when = when \/ \E e \in E : f.when = e.when
  <2>1. CASE \E e \in E :
               Good(g, Moved(E, e, when), n)
    <3>1. PICK e \in E : Good(g, Moved(E, e, when), n)
      BY <2>1
    <3>2. [e EXCEPT !.when = when].when = when
      BY DEF Good, Apart, Entries
    <3>3. \A f \in Moved(E, e, when) : f.when = when \/ f \in E
      BY <3>2 DEF Moved
    <3> QED
      BY <3>1, <3>3
  <2>2. CASE \E a \in Entries : a.when = when /\ Good(g, Kept(h, E) \union {a}, n + 1)
    <3>1. PICK a \in Entries : a.when = when /\ Good(g, Kept(h, E) \union {a}, n + 1)
      BY <2>2
    <3>2. \A f \in Kept(h, E) : \E e \in E : f.when = e.when
      <4>1. IsFiniteSet(E) /\ Cardinality(E) <= MaxSequence /\ Apart(E)
        BY Counted DEF Good
      <4>2. \A e \in E : Numbered(E, e).when = e.when
        BY <4>1, NumberedIs
      <4> QED
        BY <4>2 DEF Kept, Anew
    <3> QED
      BY <3>1, <3>2
  <2> QED
    BY <2>1, <2>2, UpsertGood
<1>2. Good(g, Held(g), Len(g.items))
  BY <1>1, GoodIs
<1> HIDE DEF g
<1>3. ASSUME ~ IsEmpty(g)
      PROVE  \E f \in F : Top(g).when = f.when /\ f.when \in Nat
  BY <1>1, <1>3, TopIs
<1>4. ASSUME ~ IsEmpty(g), ~ IsEmpty(h), Top(h).when <= when
      PROVE  Top(h).when \in Nat /\ Top(h).when <= Top(g).when
  <2>1. PICK f \in F : Top(g).when = f.when
    BY <1>3, <1>4
  <2>2. Top(h).when \in Nat /\ \A e \in E : Top(h).when <= e.when
    BY <1>4, TopIs
  <2>3. Top(h).when <= f.when
    BY <1>1, <1>4, <2>2
  <2> QED
    BY <2>1, <2>2, <2>3
<1> QED
  BY <1>2, <1>3, <1>4 DEF g

(* The bounds are numbers.                                                 *)
LEMMA Constants ==
  /\ MaxTime \in Nat /\ DurationRange \in Nat /\ 1 <= DurationRange /\ MaxTime <= DurationRange
  /\ Capacity \in Nat /\ MaxRecords \in Nat /\ Never \in Nat
  /\ \A when \in Deadlines : when \in Nat
  BY TimerAssumption DEF Deadlines

(* A duration is no longer than it should be, and has not passed when the  *)
(* deadline has not.                                                       *)
LEMMA DurationIs ==
  ASSUME NEW n \in Int, - MaxTime <= n
  PROVE  /\ Positive(Duration(n)) \in 0 .. DurationRange
         /\ Positive(Duration(n)) <= IF n > 0 THEN n ELSE 1
<1> DEFINE R == DurationRange
           q == n + R
           r == q % (2 * R)
<1>1. R \in Nat /\ 1 <= R /\ q \in Nat /\ 2 * R \in Nat \ {0}
  BY Constants
<1>2. r \in Nat /\ r <= q /\ r < 2 * R
  <2> DEFINE m == 2 * R
  <2>1. m \in Nat \ {0}
    BY <1>1
  <2> HIDE DEF m, q
  <2> QED
    BY <1>1, <2>1, Remainder DEF m
<1>3. Duration(n) = r - R
  BY DEF Duration
<1> HIDE DEF r, R
<1>4. r - R \in Int /\ r - R <= n /\ r - R < R
  BY <1>1, <1>2
<1> QED
  BY <1>1, <1>3, <1>4 DEF Positive, R

(* Calibration sets the trigger in time for the first entry.               *)
LEMMA CalibrationIs ==
  ASSUME NEW h, ~ IsEmpty(h) => Top(h).when \in Nat, clock \in 0 .. MaxTime
  PROVE  /\ Calibration(h) \in {Stopped} \union 0 .. DurationRange
         /\ ~ IsEmpty(h) =>
              /\ Calibration(h) # Stopped
              /\ Calibration(h) <= IF Top(h).when > clock THEN Top(h).when - clock ELSE 1
<1>1. CASE IsEmpty(h)
  BY <1>1 DEF Calibration
<1>2. CASE ~ IsEmpty(h)
  <2> DEFINE n == Top(h).when - clock
             w == Top(h).when
  <2>1. n \in Int /\ - MaxTime <= n /\ w \in Nat /\ clock \in Nat
    BY <1>2, Constants
  <2>2. Calibration(h) = Positive(Duration(n))
    BY <1>2 DEF Calibration
  <2> DEFINE p == Positive(Duration(n))
  <2>3. p \in 0 .. DurationRange /\ p <= IF n > 0 THEN n ELSE 1
    <3> HIDE DEF n
    <3> QED
      BY <2>1, DurationIs
  <2>4. n > 0 <=> w > clock
    BY <2>1
  <2>5. p \in Nat /\ p # Stopped
    BY <2>3, Constants DEF Stopped
  <2> HIDE DEF p
  <2> QED
    BY <2>2, <2>3, <2>4, <2>5 DEF p
<1> QED
  BY <1>1, <1>2

(* Whether a timer set to t wakes for the first entry of h at time now.    *)
Wakes(t, h, now) ==
  ~ IsEmpty(h) => /\ t # Stopped
                  /\ t <= IF Top(h).when > now THEN Top(h).when - now ELSE 1

(* A trigger set for one first entry is in time for a later one.           *)
LEMMA WakesLater ==
  ASSUME NEW t \in {Stopped} \union 0 .. DurationRange, NEW h, NEW g, NEW now \in Nat,
         Wakes(t, h, now), ~ IsEmpty(g) =>
           /\ ~ IsEmpty(h) /\ Top(h).when \in Nat /\ Top(g).when \in Nat
           /\ Top(h).when <= Top(g).when
  PROVE  Wakes(t, g, now)
<1> SUFFICES ASSUME ~ IsEmpty(g)
             PROVE  /\ t # Stopped
                    /\ t <= IF Top(g).when > now THEN Top(g).when - now ELSE 1
  BY DEF Wakes
<1> DEFINE v == Top(h).when
           w == Top(g).when
<1>1. v \in Nat /\ w \in Nat /\ v <= w /\ t # Stopped
      /\ t <= IF v > now THEN v - now ELSE 1
  BY DEF Wakes
<1>2. t \in Nat
  BY <1>1, Constants
<1> HIDE DEF v, w
<1>3. t <= IF w > now THEN w - now ELSE 1
  BY <1>1, <1>2
<1> QED
  BY <1>1, <1>3 DEF w

(* What a handler may do.                                                  *)
LEMMA HandleKeeps ==
  ASSUME IInv, Handle
  PROVE  /\ HeapIsGood'
         /\ trigger' \in {Stopped} \union 0 .. DurationRange
         /\ Wakes(trigger, heap, clock) => Wakes(trigger', heap', clock)
         /\ mailbox' \in Seq(Keys \union {"record"}) /\ Len(mailbox') <= Capacity
         /\ UNCHANGED <<clock, records>>
<1>1. mailbox' \in Seq(Keys \union {"record"}) /\ Len(mailbox') <= Capacity
  <2>1. /\ mailbox \in Seq(Keys \union {"record"}) /\ mailbox # <<>> /\ mailbox' = Tail(mailbox)
        /\ Len(mailbox) <= Capacity /\ Capacity \in Nat
    BY Constants DEF IInv, Typed, Handle
  <2> QED
    BY <2>1
<1>2. UNCHANGED <<clock, records>>
  BY DEF Handle
<1>3. clock \in 0 .. MaxTime /\ clock \in Nat /\ trigger \in {Stopped} \union 0 .. DurationRange
  BY Constants DEF IInv, Typed
<1>4. Good(heap, Held(heap), Len(heap.items))
  BY DEF IInv, HeapIsGood
<1>5. CASE UNCHANGED <<heap, trigger>>
  BY <1>1, <1>2, <1>3, <1>4, <1>5 DEF HeapIsGood
<1>6. ASSUME NEW key \in Keys, Del(key)
      PROVE  /\ HeapIsGood'
             /\ trigger' \in {Stopped} \union 0 .. DurationRange
             /\ Wakes(trigger, heap, clock) => Wakes(trigger', heap', clock)
  <2>1. heap' = Remove(heap, key)
    BY <1>6 DEF Del
  <2>2. HeapIsGood'
    <3> DEFINE E == Held(heap)
               n == Len(heap.items)
    <3> HIDE DEF E, n
    <3>2. \/ heap' = heap
          \/ \E e \in E : Good(heap', E \ {e}, n - 1)
      BY <1>4, <2>1, RemoveGood DEF E, n
    <3>1. \E F, m : Good(heap', F, m)
      BY <1>4, <3>2
    <3> QED
      BY <3>1, GoodIs DEF HeapIsGood
  <2>3. ~ IsEmpty(heap') => /\ ~ IsEmpty(heap) /\ Top(heap).when \in Nat /\ Top(heap').when \in Nat
                            /\ Top(heap).when <= Top(heap').when
    BY <1>4, <2>1, RemoveLater
  <2>4. CASE trigger' = trigger
    BY <1>3, <2>2, <2>3, <2>4, WakesLater
  <2>5. CASE trigger' = Calibration(heap')
    BY <1>3, <2>2, <2>3, <2>5, CalibrationIs DEF Wakes
  <2> QED
    BY <1>6, <2>4, <2>5 DEF Del
<1>7. ASSUME NEW key \in Keys, NEW when \in Deadlines, AddTimer(key, when)
      PROVE  /\ HeapIsGood'
             /\ trigger' \in {Stopped} \union 0 .. DurationRange
             /\ Wakes(trigger, heap, clock) => Wakes(trigger', heap', clock)
  <2>1. heap' = Upsert(heap, key, when)
    BY <1>7 DEF AddTimer
  <2>2. /\ Good(heap', Held(heap'), Len((heap').items))
        /\ ~ IsEmpty(heap') => Top(heap').when \in Nat
        /\ ~ IsEmpty(heap') /\ ~ IsEmpty(heap) /\ Top(heap).when <= when
             => Top(heap).when \in Nat /\ Top(heap).when <= Top(heap').when
    BY <1>4, <2>1, UpsertLater
  <2>3. HeapIsGood'
    BY <2>2 DEF HeapIsGood
  <2>4. CASE ~ IsEmpty(heap) /\ Top(heap).when <= when
    <3>1. trigger' = trigger
      BY <1>7, <2>4 DEF AddTimer
    <3> QED
      BY <1>3, <2>2, <2>3, <2>4, <3>1, WakesLater
  <2>5. CASE ~ (~ IsEmpty(heap) /\ Top(heap).when <= when)
    <3>1. trigger' = Calibration(heap')
      BY <1>7, <2>5 DEF AddTimer
    <3> QED
      BY <1>3, <2>2, <2>3, <3>1, CalibrationIs DEF Wakes
  <2> QED
    BY <2>4, <2>5
<1> QED
  BY <1>1, <1>2, <1>5, <1>6, <1>7 DEF Handle

(* The invariant holds at the start, and every step keeps it.              *)
LEMMA InitIInv == Init => IInv
<1> SUFFICES ASSUME Init PROVE IInv
  OBVIOUS
<1>1. HeapIsGood /\ IsEmpty(heap)
  <2>1. heap = EmptyHeap
    BY DEF Init
  <2>2. Good(heap, {}, 0)
    BY <2>1, GoodEmpty
  <2> QED
    BY <2>1, <2>2, GoodIs DEF HeapIsGood, IsEmpty, EmptyHeap
<1>2. Typed
  <2>1. <<>> \in Seq(Keys \union {"record"}) /\ Len(<<>>) = 0
    OBVIOUS
  <2> QED
    BY <2>1, Constants DEF Init, Typed
<1> QED
  BY <1>1, <1>2 DEF Init, IInv, NowHasCome, WakesInTime

LEMMA NextIInv == IInv /\ [Next]_vars => IInv'
<1> SUFFICES ASSUME IInv, [Next]_vars PROVE IInv'
  OBVIOUS
<1>1. /\ trigger \in {Stopped} \union 0 .. DurationRange
      /\ clock \in 0 .. MaxTime /\ clock \in Nat
      /\ mailbox \in Seq(Keys \union {"record"}) /\ Len(mailbox) <= Capacity
      /\ actor \in [ stage : {"running", "expiring", "draining", "gone"},
                     now   : 0 .. MaxTime,
                     stop  : BOOLEAN ]
      /\ records \in 0 .. MaxRecords
      /\ Good(heap, Held(heap), Len(heap.items))
      /\ HeapIsGood /\ NowHasCome
  BY Constants DEF IInv, Typed, HeapIsGood
<1>2. WakesInTime <=> (actor.stage = "running" => Wakes(trigger, heap, clock))
  BY DEF WakesInTime, Wakes
<1>3. WakesInTime' <=> ((actor').stage = "running" => Wakes(trigger', heap', clock'))
  BY DEF WakesInTime, Wakes
<1>4. WakesInTime
  BY DEF IInv
<1>5. ~ IsEmpty(heap) => Top(heap).when \in Nat /\ Top(heap).key \in Keys
  BY <1>1, TopIs
<1>6. CASE ReceiveMessage
  <2>1. /\ HeapIsGood' /\ trigger' \in {Stopped} \union 0 .. DurationRange
        /\ Wakes(trigger, heap, clock) => Wakes(trigger', heap', clock)
        /\ mailbox' \in Seq(Keys \union {"record"}) /\ Len(mailbox') <= Capacity
        /\ UNCHANGED <<clock, records>>
    BY <1>6, HandleKeeps DEF ReceiveMessage
  <2>2. actor' = actor
    BY <1>6 DEF ReceiveMessage
  <2> QED
    BY <1>1, <1>2, <1>3, <1>4, <2>1, <2>2 DEF IInv, Typed, NowHasCome
<1>7. CASE TimerFires
  <2>1. actor' = [actor EXCEPT !.stage = "expiring", !.now = clock]
        /\ trigger' = Stopped /\ UNCHANGED <<heap, clock, mailbox, records>>
    BY <1>7 DEF TimerFires
  <2>2. (actor').stage = "expiring" /\ (actor').now = clock
        /\ actor' \in [ stage : {"running", "expiring", "draining", "gone"},
                        now   : 0 .. MaxTime,
                        stop  : BOOLEAN ]
    BY <1>1, <2>1
  <2>3. HeapIsGood'
    BY <1>1, <2>1 DEF HeapIsGood
  <2> QED
    BY <1>1, <1>3, <2>1, <2>2, <2>3 DEF IInv, Typed, NowHasCome
<1>8. CASE ExpireSend
  <2>1. /\ actor.stage = "expiring" /\ ~ IsEmpty(heap) /\ Len(mailbox) < Capacity
        /\ mailbox' = Append(mailbox, Top(heap).key)
        /\ heap' = Remove(heap, Top(heap).key)
        /\ UNCHANGED <<trigger, clock, actor, records>>
    BY <1>8 DEF ExpireSend, IsDue, Room
  <2>2. HeapIsGood'
    <3>1. \E F, m : Good(heap', F, m)
      <4> DEFINE E == Held(heap)
                 n == Len(heap.items)
      <4> HIDE DEF E, n
      <4>1. \/ heap' = heap
            \/ \E e \in E : Good(heap', E \ {e}, n - 1)
        BY <1>1, <2>1, RemoveGood DEF E, n
      <4> QED
        BY <1>1, <4>1
    <3> QED
      BY <3>1, GoodIs DEF HeapIsGood
  <2>3. mailbox' \in Seq(Keys \union {"record"}) /\ Len(mailbox') <= Capacity
    <3> DEFINE k == Top(heap).key
    <3>1. k \in Keys \union {"record"}
      BY <1>5, <2>1
    <3> HIDE DEF k
    <3>2. mailbox' = Append(mailbox, k)
      BY <2>1 DEF k
    <3> QED
      BY <1>1, <2>1, <3>1, <3>2, Constants
  <2> QED
    BY <1>1, <1>3, <2>1, <2>2, <2>3 DEF IInv, Typed, NowHasCome
<1>9. CASE ExpireFull
  <2>1. /\ trigger' = 1 /\ actor' = [actor EXCEPT !.stage = "running", !.now = 0]
        /\ UNCHANGED <<heap, clock, mailbox, records>>
    BY <1>9 DEF ExpireFull, RetryAfter, Resumes
  <2>2. (actor').stage = "running"
        /\ actor' \in [ stage : {"running", "expiring", "draining", "gone"},
                        now   : 0 .. MaxTime,
                        stop  : BOOLEAN ]
    <3>1. 0 \in 0 .. MaxTime /\ "running" \in {"running", "expiring", "draining", "gone"}
      BY Constants
    <3> DEFINE T == 0 .. MaxTime
               U == {"running", "expiring", "draining", "gone"}
    <3>2. 0 \in T /\ "running" \in U /\ actor \in [stage : U, now : T, stop : BOOLEAN]
      BY <1>1, <3>1
    <3> HIDE DEF T, U
    <3>3. (actor').stage = "running" /\ actor' \in [stage : U, now : T, stop : BOOLEAN]
      BY <2>1, <3>2
    <3> QED
      BY <3>3 DEF T, U
  <2>3. HeapIsGood'
    BY <1>1, <2>1 DEF HeapIsGood
  <2>4. Wakes(trigger', heap', clock')
    <3> DEFINE w == Top(heap).when
    <3>1. ~ IsEmpty(heap) => 1 <= IF w > clock THEN w - clock ELSE 1
      <4>1. ~ IsEmpty(heap) => w \in Nat
        BY <1>5
      <4> HIDE DEF w
      <4> QED
        BY <1>1, <4>1
    <3>2. 1 # Stopped
      BY DEF Stopped
    <3> QED
      BY <2>1, <3>1, <3>2 DEF Wakes
  <2> QED
    BY <1>1, <1>3, <2>1, <2>2, <2>3, <2>4, Constants DEF IInv, Typed, NowHasCome
<1>10. CASE ExpireDone
  <2>1. /\ trigger' = Calibration(heap) /\ actor' = [actor EXCEPT !.stage = "running", !.now = 0]
        /\ UNCHANGED <<heap, clock, mailbox, records>>
    BY <1>10 DEF ExpireDone, Resumes
  <2>2. (actor').stage = "running"
        /\ actor' \in [ stage : {"running", "expiring", "draining", "gone"},
                        now   : 0 .. MaxTime,
                        stop  : BOOLEAN ]
    <3>1. 0 \in 0 .. MaxTime /\ "running" \in {"running", "expiring", "draining", "gone"}
      BY Constants
    <3> DEFINE T == 0 .. MaxTime
               U == {"running", "expiring", "draining", "gone"}
    <3>2. 0 \in T /\ "running" \in U /\ actor \in [stage : U, now : T, stop : BOOLEAN]
      BY <1>1, <3>1
    <3> HIDE DEF T, U
    <3>3. (actor').stage = "running" /\ actor' \in [stage : U, now : T, stop : BOOLEAN]
      BY <2>1, <3>2
    <3> QED
      BY <3>3 DEF T, U
  <2>3. HeapIsGood'
    BY <1>1, <2>1 DEF HeapIsGood
  <2>4. Wakes(trigger', heap', clock') /\ trigger' \in {Stopped} \union 0 .. DurationRange
    BY <1>1, <1>5, <2>1, CalibrationIs DEF Wakes
  <2> QED
    BY <1>1, <1>3, <2>1, <2>2, <2>3, <2>4 DEF IInv, Typed, NowHasCome
<1>11. CASE ReceiveStop
  <2>1. /\ actor' = [actor EXCEPT !.stage = "draining", !.stop = FALSE]
        /\ UNCHANGED <<heap, trigger, clock, mailbox, records>>
    BY <1>11 DEF ReceiveStop
  <2>2. (actor').stage = "draining"
        /\ actor' \in [ stage : {"running", "expiring", "draining", "gone"},
                        now   : 0 .. MaxTime,
                        stop  : BOOLEAN ]
    BY <1>1, <2>1
  <2>3. HeapIsGood'
    BY <1>1, <2>1 DEF HeapIsGood
  <2> QED
    BY <1>1, <1>3, <2>1, <2>2, <2>3 DEF IInv, Typed, NowHasCome
<1>12. CASE Drain
  <2>1. /\ HeapIsGood' /\ trigger' \in {Stopped} \union 0 .. DurationRange
        /\ mailbox' \in Seq(Keys \union {"record"}) /\ Len(mailbox') <= Capacity
        /\ UNCHANGED <<clock, records>>
    BY <1>12, HandleKeeps DEF Drain
  <2>2. actor' = actor /\ actor.stage = "draining"
    BY <1>12 DEF Drain
  <2> QED
    BY <1>1, <1>3, <2>1, <2>2 DEF IInv, Typed, NowHasCome
<1>13. CASE Finish
  <2>1. /\ actor' = [actor EXCEPT !.stage = "gone"]
        /\ UNCHANGED <<heap, trigger, clock, mailbox, records>>
    BY <1>13 DEF Finish
  <2>2. (actor').stage = "gone"
        /\ actor' \in [ stage : {"running", "expiring", "draining", "gone"},
                        now   : 0 .. MaxTime,
                        stop  : BOOLEAN ]
    BY <1>1, <2>1
  <2>3. HeapIsGood'
    BY <1>1, <2>1 DEF HeapIsGood
  <2> QED
    BY <1>1, <1>3, <2>1, <2>2, <2>3 DEF IInv, Typed, NowHasCome
<1>14. CASE NodeSends
  <2>1. /\ records < MaxRecords /\ Len(mailbox) < Capacity
        /\ mailbox' = Append(mailbox, "record") /\ records' = records + 1
        /\ UNCHANGED <<heap, trigger, clock, actor>>
    BY <1>14 DEF NodeSends, Room
  <2>2. mailbox' \in Seq(Keys \union {"record"}) /\ Len(mailbox') <= Capacity
        /\ records' \in 0 .. MaxRecords
    BY <1>1, <2>1, Constants
  <2>3. HeapIsGood'
    BY <1>1, <2>1 DEF HeapIsGood
  <2> QED
    BY <1>1, <1>2, <1>3, <1>4, <2>1, <2>2, <2>3 DEF IInv, Typed, NowHasCome
<1>15. CASE Stop
  <2>1. /\ actor' = [actor EXCEPT !.stop = TRUE]
        /\ UNCHANGED <<heap, trigger, clock, mailbox, records>>
    BY <1>15 DEF Stop
  <2>2. (actor').stage = actor.stage /\ (actor').now = actor.now
        /\ actor' \in [ stage : {"running", "expiring", "draining", "gone"},
                        now   : 0 .. MaxTime,
                        stop  : BOOLEAN ]
    BY <1>1, <2>1
  <2>3. HeapIsGood'
    BY <1>1, <2>1 DEF HeapIsGood
  <2> QED
    BY <1>1, <1>2, <1>3, <1>4, <2>1, <2>2, <2>3 DEF IInv, Typed, NowHasCome
<1>16. CASE Tick
  <2>1. /\ clock < MaxTime \/ trigger > 0
        /\ clock' = IF clock < MaxTime THEN clock + 1 ELSE clock
        /\ trigger' = IF trigger > 0 THEN trigger - 1 ELSE trigger
        /\ UNCHANGED <<heap, mailbox, actor, records>>
    BY <1>16 DEF Tick
  <2>2. /\ clock' \in 0 .. MaxTime /\ clock <= clock'
        /\ trigger' \in {Stopped} \union 0 .. DurationRange
    BY <1>1, <2>1, Constants DEF Stopped
  <2>3. HeapIsGood' /\ NowHasCome'
    <3>1. actor.now \in Int
      BY <1>1
    <3> QED
      BY <1>1, <2>1, <2>2, <3>1, Constants DEF HeapIsGood, NowHasCome
  <2>4. Wakes(trigger, heap, clock) => Wakes(trigger', heap', clock')
    <3> SUFFICES ASSUME ~ IsEmpty(heap), Wakes(trigger, heap, clock)
                 PROVE  /\ trigger' # Stopped
                        /\ trigger' <= IF Top(heap).when > clock'
                                      THEN Top(heap).when - clock' ELSE 1
      BY <2>1 DEF Wakes
    <3> DEFINE w == Top(heap).when
    <3>1. w \in Nat /\ trigger # Stopped /\ trigger <= IF w > clock THEN w - clock ELSE 1
      BY <1>5 DEF Wakes
    <3>2. trigger \in Nat
      BY <1>1, <3>1, Constants
    <3> HIDE DEF w
    <3>3. trigger' <= IF w > clock' THEN w - clock' ELSE 1
      BY <1>1, <2>1, <3>1, <3>2
    <3>4. trigger' # Stopped
      BY <2>1, <3>2 DEF Stopped
    <3> QED
      BY <3>3, <3>4 DEF w
  <2> QED
    BY <1>1, <1>2, <1>3, <1>4, <2>1, <2>2, <2>3, <2>4 DEF IInv, Typed
<1>17. CASE Quiet \/ UNCHANGED vars
  <2>1. UNCHANGED vars
    BY <1>17 DEF Quiet
  <2> QED
    BY <1>1, <1>4, <2>1 DEF vars, IInv, Typed, NowHasCome, HeapIsGood, WakesInTime
<1> QED
  BY <1>6, <1>7, <1>8, <1>9, <1>10, <1>11, <1>12, <1>13, <1>14, <1>15, <1>16, <1>17 DEF Next

LEMMA Invariance == Spec => []IInv
  BY InitIInv, NextIInv, PTL DEF Spec

(* The state has its types; the heap holds no more entries than there are  *)
(* keys and its numbers stay in range, for any number of keys up to        *)
(* MaxSequence.                                                            *)
THEOREM TimersTyped == Spec => []TypeOK
<1>1. IInv => TypeOK
  <2> SUFFICES ASSUME IInv PROVE TypeOK
    OBVIOUS
  <2>1. Good(heap, Held(heap), Len(heap.items))
    BY DEF IInv, HeapIsGood
  <2> DEFINE E == Held(heap)
             n == Len(heap.items)
  <2> HIDE DEF E, n
  <2>2. Good(heap, E, n) /\ n = Len(heap.items)
    BY <2>1 DEF E, n
  <2>3. Apart(E) /\ Contains(heap, E, n) /\ heap.nextSeq \in 0 .. MaxSequence
    BY <2>2 DEF Good
  <2>4. n <= Cardinality(Keys)
    BY <2>3, Counted
  <2>5. heap.items \in Seq(Entries)
    <3>1. heap.items \in Seq(E) /\ E \subseteq Entries
      BY <2>3, ContainsFacts DEF Apart
    <3> QED
      BY <3>1
  <2> QED
    BY <2>2, <2>3, <2>4, <2>5 DEF TypeOK, IInv, Typed
<1> QED
  BY <1>1, Invariance, PTL

(* The heap stays a heap, and its map and its numbers stay right, for any  *)
(* number of keys, of children and of sequence numbers.                    *)
THEOREM HeapStays == Spec => []HeapKept
<1>1. IInv => HeapKept
  BY GoodHeapOK DEF IInv, HeapIsGood, HeapKept
<1> QED
  BY <1>1, Invariance, PTL

(* The trigger is set whenever a timer is pending and the goroutine waits, *)
(* and fires no later than the first deadline, or a second on when this    *)
(* has passed, wherever Duration turns negative.                           *)
THEOREM WokenInTime == Spec => []WakesInTime
<1>1. IInv => WakesInTime
  BY DEF IInv
<1> QED
  BY <1>1, Invariance, PTL

-----------------------------------------------------------------------------
(* The pending timers in the order they were set.                          *)

Face(e) == [key |-> e.key, when |-> e.when]

Chosen(E, r) == CHOOSE e \in E : Rank(E, e) = r - 1

List(E, n) == [r \in 1 .. n |-> Face(Chosen(E, r))]

(* n entries that have an order.                                           *)
Listed(E, n) == Apart(E) /\ IsFiniteSet(E) /\ n = Cardinality(E)

(* An entry is in the list at one more than its rank.                      *)
LEMMA ListIs ==
  ASSUME NEW E, NEW n, Listed(E, n)
  PROVE  /\ n \in Nat
         /\ \A e \in E : Rank(E, e) \in 0 .. n - 1
         /\ \A e \in E : Rank(E, e) + 1 \in 1 .. n /\ List(E, n)[Rank(E, e) + 1] = Face(e)
         /\ \A r \in 1 .. n : \E e \in E : r = Rank(E, e) + 1 /\ List(E, n)[r] = Face(e)
         /\ List(E, n) \in Seq([key : Keys, when : Deadlines])
         /\ Len(List(E, n)) = n /\ DOMAIN List(E, n) = 1 .. n
<1>1. /\ n \in Nat
      /\ \A e \in E : Rank(E, e) \in 0 .. n - 1
      /\ \A e, d \in E : Rank(E, e) = Rank(E, d) => e = d
      /\ \A r \in 0 .. n - 1 : \E e \in E : Rank(E, e) = r
  BY RankIs, FS_CardinalityType DEF Listed
<1>2. \A e \in E : Rank(E, e) + 1 \in 1 .. n /\ (Rank(E, e) + 1) - 1 = Rank(E, e)
  BY <1>1
<1>3. ASSUME NEW e \in E
      PROVE  Chosen(E, Rank(E, e) + 1) = e
  <2>1. \A d \in E : Rank(E, d) = (Rank(E, e) + 1) - 1 <=> d = e
    BY <1>1, <1>2
  <2> QED
    BY <2>1, Zenon DEF Chosen
<1>4. \A e \in E : List(E, n)[Rank(E, e) + 1] = Face(e)
  BY <1>2, <1>3 DEF List
<1>5. \A r \in 1 .. n : \E e \in E : r = Rank(E, e) + 1
  <2> SUFFICES ASSUME NEW r \in 1 .. n PROVE \E e \in E : r = Rank(E, e) + 1
    OBVIOUS
  <2>1. r - 1 \in 0 .. n - 1 /\ r \in Int
    BY <1>1
  <2>2. PICK e \in E : Rank(E, e) = r - 1
    BY <1>1, <2>1
  <2> QED
    BY <2>1, <2>2
<1>6. \A r \in 1 .. n : List(E, n)[r] \in [key : Keys, when : Deadlines]
  <2>1. \A e \in E : Face(e) \in [key : Keys, when : Deadlines]
    <3>1. \A e \in Entries : e.key \in Keys /\ e.when \in Deadlines
      BY DEF Entries
    <3> QED
      BY <3>1 DEF Listed, Apart, Face
  <2> QED
    BY <1>4, <1>5, <2>1
<1>7. DOMAIN List(E, n) = 1 .. n /\ List(E, n) = [r \in 1 .. n |-> List(E, n)[r]]
  BY DEF List
<1> DEFINE L == List(E, n)
           T == [key : Keys, when : Deadlines]
<1>8. L \in [1 .. n -> T]
  BY <1>6, <1>7
<1> HIDE DEF L, T
<1>9. L \in Seq(T) /\ Len(L) = n
  BY <1>1, <1>8
<1>10. List(E, n) \in Seq([key : Keys, when : Deadlines]) /\ Len(List(E, n)) = n
  BY <1>9 DEF L, T
<1>11. \A r \in 1 .. n : \E e \in E : r = Rank(E, e) + 1 /\ List(E, n)[r] = Face(e)
  BY <1>4, <1>5
<1> QED
  BY <1>1, <1>2, <1>4, <1>7, <1>10, <1>11, Zenon

(* The list is what the refinement shows of the heap.                      *)
LEMMA PendingIs ==
  ASSUME NEW h, NEW E, NEW n, Good(h, E, n)
  PROVE  Pending(h) = List(E, n)
<1>1. E = Held(h) /\ n = Len(h.items)
  BY GoodIs
<1>2. ByAge(h) = [r \in 1 .. n |-> Chosen(E, r)]
  BY <1>1 DEF ByAge, Chosen
<1>3. \A r \in 1 .. n : ByAge(h)[r] = Chosen(E, r)
  BY <1>2
<1> QED
  BY <1>1, <1>3 DEF Pending, List, Face

(* A list is what its entries are.                                         *)
LEMMA ListEquals ==
  ASSUME NEW E, NEW n, Listed(E, n), NEW T, NEW L \in Seq(T), Len(L) = n,
         \A e \in E : L[Rank(E, e) + 1] = Face(e)
  PROVE  List(E, n) = L
<1> DEFINE M == List(E, n)
<1>1. \A r \in 1 .. n : \E e \in E : r = Rank(E, e) + 1 /\ M[r] = Face(e)
  BY ListIs
<1>2. M \in Seq([key : Keys, when : Deadlines]) /\ Len(M) = n /\ DOMAIN M = 1 .. n
  BY ListIs
<1>3. \A r \in 1 .. n : M[r] = L[r]
  BY <1>1
<1> HIDE DEF M
<1>4. M = [r \in 1 .. n |-> M[r]] /\ L = [r \in 1 .. n |-> L[r]]
  BY <1>2
<1> QED
  BY <1>3, <1>4 DEF M

-----------------------------------------------------------------------------
(* What the operations do to the list.                                     *)

(* Numbering anew leaves the list as it is.                                *)
LEMMA ListOfAnew ==
  ASSUME NEW E, NEW n, Listed(E, n), n <= MaxSequence
  PROVE  /\ Listed(Anew(E), n)
         /\ List(Anew(E), n) = List(E, n)
<1> DEFINE F == Anew(E)
<1>1. /\ \A e \in E : /\ Numbered(E, e).key = e.key
                      /\ Numbered(E, e).when = e.when
                      /\ Numbered(E, e).sequence = Rank(E, e)
      /\ Apart(F)
  BY NumberedIs DEF Listed
<1>2. /\ \A e \in E : Rank(E, e) \in 0 .. n - 1
      /\ \A r \in 0 .. n - 1 : \E e \in E : Rank(E, e) = r
      /\ \A e, d \in E : Rank(E, e) = Rank(E, d) => e = d
      /\ n \in Nat
  BY RankIs, FS_CardinalityType DEF Listed
<1>3. {d.sequence : d \in F} = 0 .. n - 1
  BY <1>1, <1>2 DEF Anew
<1>4. IsFiniteSet(F) /\ Cardinality(F) = n
  <2> DEFINE f == [e \in E |-> Numbered(E, e)]
  <2>1. f \in Bijection(E, F)
    <3>1. \A e \in E : f[e] \in F
      BY DEF Anew
    <3>2. \A e, d \in E : f[e] = f[d] => e = d
      BY <1>1, <1>2
    <3>3. \A a \in F : \E e \in E : f[e] = a
      BY DEF Anew
    <3> HIDE DEF F
    <3>4. f \in [E -> F]
      BY <3>1
    <3> HIDE DEF f
    <3> QED
      BY <3>2, <3>3, <3>4 DEF Bijection, Injection, Surjection, IsInjective
  <2> HIDE DEF f, F
  <2> QED
    BY <2>1, FS_Bijection DEF ExistsBijection, Listed
<1>5. ASSUME NEW e \in E
      PROVE  Rank(F, Numbered(E, e)) = Rank(E, e)
  <2> DEFINE r == Rank(E, e)
  <2>1. r \in 0 .. n - 1
    BY <1>2
  <2> HIDE DEF r
  <2>2. {m \in 0 .. n - 1 : m < r} = 0 .. r - 1
    BY <1>2, <2>1
  <2> DEFINE q == r - 1
  <2>3. q \in Int /\ q >= -1 /\ r = q + 1
    BY <1>2, <2>1
  <2> HIDE DEF q
  <2>4. Cardinality(0 .. q) = IF 0 > q THEN 0 ELSE q - 0 + 1
    BY <2>3, FS_Interval
  <2>5. Cardinality(0 .. q) = r
    BY <2>3, <2>4
  <2>6. Rank(F, Numbered(E, e)) = Cardinality({m \in 0 .. n - 1 : m < r})
    BY <1>1, <1>3 DEF Rank, r
  <2> QED
    BY <2>2, <2>5, <2>6 DEF q, r
<1>6. \A a \in F : List(E, n)[Rank(F, a) + 1] = Face(a)
  <2> SUFFICES ASSUME NEW a \in F PROVE List(E, n)[Rank(F, a) + 1] = Face(a)
    OBVIOUS
  <2>1. PICK e \in E : a = Numbered(E, e)
    BY DEF Anew
  <2>2. List(E, n)[Rank(E, e) + 1] = Face(e)
    BY ListIs
  <2>3. Face(e) = Face(a)
    BY <1>1, <2>1 DEF Face
  <2> QED
    BY <1>5, <2>1, <2>2, <2>3
<1>7. List(E, n) \in Seq([key : Keys, when : Deadlines]) /\ Len(List(E, n)) = n
  BY ListIs
<1> HIDE DEF F
<1>8. Listed(F, n)
  BY <1>1, <1>4 DEF Listed
<1>9. List(F, n) = List(E, n)
  BY <1>6, <1>7, <1>8, ListEquals
<1> QED
  BY <1>8, <1>9 DEF F

(* The entries of a heap have a list.                                      *)
LEMMA GoodListed ==
  ASSUME NEW h, NEW E, NEW n, Good(h, E, n)
  PROVE  Listed(E, n) /\ n <= MaxSequence /\ Pending(h) = List(E, n)
BY Counted, PendingIs DEF Good, Listed

(* An entry behind all others in number is appended.                       *)
LEMMA ListOfAdded ==
  ASSUME NEW E, NEW n, Listed(E, n), NEW a \in Entries,
         \A e \in E : e.sequence < a.sequence,
         Listed(E \union {a}, n + 1)
  PROVE  List(E \union {a}, n + 1) = Append(List(E, n), Face(a))
<1> DEFINE F == E \union {a}
           L == List(E, n)
           M == Append(L, Face(a))
           T == [key : Keys, when : Deadlines]
           S == {d.sequence : d \in E}
<1>1. /\ n \in Nat
      /\ \A e \in E : Rank(E, e) \in 0 .. n - 1 /\ L[Rank(E, e) + 1] = Face(e)
      /\ L \in Seq(T) /\ Len(L) = n
  BY ListIs
<1>2. Face(a) \in T
  BY DEF Entries, Face
<1>3. M \in Seq(T) /\ Len(M) = n + 1 /\ M[n + 1] = Face(a)
      /\ \A r \in 1 .. n : M[r] = L[r]
  <2> DEFINE f == Face(a)
  <2> HIDE DEF L, T, f
  <2> QED
    BY <1>1, <1>2 DEF f
<1>4. a.sequence \in Nat /\ \A e \in E : e.sequence \in Nat
  BY EntryTypes DEF Listed, Apart
<1>5. Cardinality(S) = n
  <2> DEFINE f == [e \in E |-> e.sequence]
  <2>1. f \in Bijection(E, S)
    BY DEF Listed, Apart, Bijection, Injection, Surjection, IsInjective
  <2> HIDE DEF f, S
  <2> QED
    BY <2>1, FS_Bijection DEF ExistsBijection, Listed
<1>6. {d.sequence : d \in F} = S \union {a.sequence}
  OBVIOUS
<1>7. \A e \in E : Rank(F, e) = Rank(E, e)
  <2> SUFFICES ASSUME NEW e \in E PROVE Rank(F, e) = Rank(E, e)
    OBVIOUS
  <2>1. {m \in S \union {a.sequence} : m < e.sequence} = {m \in S : m < e.sequence}
    BY <1>4
  <2> HIDE DEF F
  <2> QED
    BY <1>6, <2>1 DEF Rank
<1>8. Rank(F, a) = n
  <2>1. {m \in S \union {a.sequence} : m < a.sequence} = S
    BY <1>4
  <2> HIDE DEF F, S
  <2>2. Rank(F, a) = Cardinality(S)
    BY <1>6, <2>1 DEF Rank
  <2> QED
    BY <1>5, <2>2
<1> HIDE DEF L, M, T
<1>9. \A e \in F : M[Rank(F, e) + 1] = Face(e)
  <2>1. ASSUME NEW e \in E PROVE M[Rank(F, e) + 1] = Face(e)
    <3>1. Rank(E, e) + 1 \in 1 .. n
      BY <1>1
    <3> QED
      BY <1>1, <1>3, <1>7, <3>1
  <2>2. M[Rank(F, a) + 1] = Face(a)
    BY <1>3, <1>8
  <2> QED
    BY <2>1, <2>2
<1> HIDE DEF F
<1>10. List(F, n + 1) = M
  <2> DEFINE k == n + 1
  <2>1. Listed(F, k) /\ Len(M) = k
    BY <1>3 DEF F
  <2> HIDE DEF k
  <2>2. List(F, k) = M
    BY <1>3, <1>9, <2>1, ListEquals
  <2> QED
    BY <2>2 DEF k
<1> QED
  BY <1>10 DEF F, M, L

(* Another deadline changes one element of the list.                       *)
LEMMA ListOfChanged ==
  ASSUME NEW E, NEW n, Listed(E, n), NEW e \in E, NEW d \in Entries,
         d.sequence = e.sequence, Listed((E \ {e}) \union {d}, n)
  PROVE  List((E \ {e}) \union {d}, n) = [List(E, n) EXCEPT ![Rank(E, e) + 1] = Face(d)]
<1> DEFINE F == (E \ {e}) \union {d}
           L == List(E, n)
           p == Rank(E, e) + 1
           M == [L EXCEPT ![p] = Face(d)]
           T == [key : Keys, when : Deadlines]
<1>1. /\ n \in Nat
      /\ \A x \in E : Rank(E, x) \in 0 .. n - 1 /\ Rank(E, x) + 1 \in 1 .. n
                      /\ L[Rank(E, x) + 1] = Face(x)
      /\ L \in Seq(T) /\ Len(L) = n /\ DOMAIN L = 1 .. n
  BY ListIs
<1>2. Face(d) \in T
  BY DEF Entries, Face
<1>3. p \in 1 .. n
  BY <1>1
<1>4. {x.sequence : x \in F} = {x.sequence : x \in E}
  OBVIOUS
<1>5. \A x : Rank(F, x) = Rank(E, x)
  BY <1>4 DEF Rank
<1>6. Rank(F, d) = Rank(E, e)
  BY <1>5 DEF Rank
<1>7. \A x \in E : x # e => Rank(E, x) # Rank(E, e)
  BY RankIs DEF Listed
<1> HIDE DEF L, F, p, T
<1>8. M \in Seq(T) /\ Len(M) = n /\ M[p] = Face(d) /\ \A r \in 1 .. n : r # p => M[r] = L[r]
  <2> DEFINE f == Face(d)
  <2> HIDE DEF f
  <2> QED
    BY <1>1, <1>2, <1>3 DEF f
<1> HIDE DEF M
<1>9. \A x \in F : M[Rank(F, x) + 1] = Face(x)
  <2>1. M[Rank(F, d) + 1] = Face(d)
    BY <1>6, <1>8 DEF p
  <2>2. ASSUME NEW x \in E, x # e PROVE M[Rank(F, x) + 1] = Face(x)
    <3>1. Rank(E, x) + 1 \in 1 .. n /\ Rank(E, x) + 1 # p
      BY <1>1, <1>7, <2>2 DEF p
    <3> QED
      BY <1>1, <1>5, <1>8, <3>1
  <2> QED
    BY <2>1, <2>2 DEF F
<1>10. Listed(F, n)
  BY DEF F
<1>11. List(F, n) = M
  BY <1>8, <1>9, <1>10, ListEquals
<1> QED
  BY <1>11 DEF F, M, L, p

(* An entry that leaves is cut out of the list.                            *)
LEMMA ListOfLess ==
  ASSUME NEW E, NEW n, Listed(E, n), NEW e \in E, Listed(E \ {e}, n - 1)
  PROVE  LET L == List(E, n)
             p == Rank(E, e) + 1
         IN  List(E \ {e}, n - 1) = SubSeq(L, 1, p - 1) \o SubSeq(L, p + 1, Len(L))
<1> DEFINE F == E \ {e}
           L == List(E, n)
           p == Rank(E, e) + 1
           M == SubSeq(L, 1, p - 1) \o SubSeq(L, p + 1, Len(L))
           T == [key : Keys, when : Deadlines]
           S == {x.sequence : x \in E}
           Below(x) == {m \in S : m < x.sequence}
<1>1. /\ n \in Nat
      /\ \A x \in E : Rank(E, x) \in 0 .. n - 1 /\ Rank(E, x) + 1 \in 1 .. n
                      /\ L[Rank(E, x) + 1] = Face(x)
      /\ L \in Seq(T) /\ Len(L) = n
  BY ListIs
<1>2. \A x, y \in E : x.sequence < y.sequence => Rank(E, x) < Rank(E, y)
  BY RankIs DEF Listed
<1>3. /\ \A x \in E : x.sequence \in Nat /\ x.sequence \in S
      /\ \A x, y \in E : x.sequence = y.sequence => x = y
  BY EntryTypes DEF Listed, Apart
<1>4. {x.sequence : x \in F} = S \ {e.sequence}
  BY <1>3
<1>5. \A x : Rank(E, x) = Cardinality(Below(x))
  BY DEF Rank
<1>6. \A x : Rank(F, x) = Cardinality(Below(x) \ {e.sequence})
  <2> TAKE x
  <2>1. {m \in S \ {e.sequence} : m < x.sequence} = Below(x) \ {e.sequence}
    OBVIOUS
  <2> QED
    BY <1>4, <2>1 DEF Rank
<1>7. \A x : IsFiniteSet(Below(x))
  <2> TAKE x
  <2>1. IsFiniteSet(S)
    <3> DEFINE f == [y \in E |-> y.sequence]
    <3>1. f \in Surjection(E, S)
      BY DEF Surjection
    <3> HIDE DEF f, S
    <3> QED
      BY <3>1, FS_Surjection DEF Listed
  <2>2. Below(x) \in SUBSET S
    OBVIOUS
  <2> HIDE DEF S, Below
  <2> QED
    BY <2>1, <2>2, FS_Subset
<1> HIDE DEF S
<1>8. ASSUME NEW x \in F
      PROVE  /\ x \in E
             /\ Rank(E, x) < Rank(E, e) \/ Rank(E, e) < Rank(E, x)
             /\ Rank(E, x) < Rank(E, e) => Rank(F, x) = Rank(E, x)
             /\ Rank(E, e) < Rank(E, x) => Rank(F, x) = Rank(E, x) - 1
  <2>1. x \in E /\ x # e
    OBVIOUS
  <2>2. Rank(E, x) \in Nat /\ Rank(E, e) \in Nat /\ x.sequence \in Nat /\ e.sequence \in Nat
    BY <1>1, <1>3, <2>1
  <2>3. CASE x.sequence < e.sequence
    <3>1. Rank(E, x) < Rank(E, e)
      BY <1>2, <2>1, <2>3
    <3>2. e.sequence \notin Below(x)
      BY <2>2, <2>3
    <3>3. Below(x) \ {e.sequence} = Below(x)
      BY <3>2
    <3>4. Rank(F, x) = Rank(E, x)
      BY <1>5, <1>6, <3>3
    <3> QED
      BY <2>1, <2>2, <3>1, <3>4
  <2>4. CASE e.sequence < x.sequence
    <3>1. Rank(E, e) < Rank(E, x)
      BY <1>2, <2>1, <2>4
    <3>2. e.sequence \in Below(x)
      BY <1>3, <2>4
    <3> DEFINE B == Below(x)
               s == e.sequence
    <3>3. IsFiniteSet(B) /\ s \in B
      BY <1>7, <3>2
    <3> HIDE DEF B, s
    <3>4. Cardinality(B \ {s}) = Cardinality(B) - 1
      BY <3>3, FS_RemoveElement
    <3>5. Rank(F, x) = Rank(E, x) - 1
      BY <1>5, <1>6, <3>4 DEF B, s
    <3> QED
      BY <2>1, <2>2, <3>1, <3>5
  <2> QED
    BY <1>3, <2>1, <2>2, <2>3, <2>4
<1> HIDE DEF F, L, T, Below
<1>9. p \in 1 .. n
  BY <1>1
<1>10. /\ M \in Seq(T) /\ Len(M) = n - 1
       /\ \A r \in 1 .. n - 1 : M[r] = IF r < p THEN L[r] ELSE L[r + 1]
  <2> HIDE DEF p
  <2> DEFINE A == SubSeq(L, 1, p - 1)
             B == SubSeq(L, p + 1, n)
  <2>1. A \in Seq(T) /\ Len(A) = p - 1 /\ \A r \in 1 .. p - 1 : A[r] = L[r]
    BY <1>1, <1>9
  <2>2. B \in Seq(T) /\ Len(B) = n - p /\ \A r \in 1 .. n - p : B[r] = L[p + r]
    BY <1>1, <1>9
  <2>3. M = A \o B
    BY <1>1
  <2> HIDE DEF A, B, M
  <2>4. M \in Seq(T) /\ Len(M) = (p - 1) + (n - p)
        /\ \A r \in 1 .. n - 1 : M[r] = IF r < p THEN A[r] ELSE B[r - (p - 1)]
    <3>1. A \in Seq(T) /\ B \in Seq(T)
      BY <2>1, <2>2
    <3>2. /\ M \in Seq(T) /\ Len(M) = Len(A) + Len(B)
          /\ \A r \in 1 .. Len(A) + Len(B) :
               M[r] = IF r <= Len(A) THEN A[r] ELSE B[r - Len(A)]
      BY <2>3, <3>1
    <3>3. Len(A) = p - 1 /\ Len(B) = n - p
      BY <2>1, <2>2
    <3>4. /\ (p - 1) + (n - p) = n - 1
          /\ \A r \in 1 .. n - 1 : r < p <=> r <= p - 1
      BY <1>1, <1>9
    <3>5. \A r \in 1 .. n - 1 : M[r] = IF r <= p - 1 THEN A[r] ELSE B[r - (p - 1)]
      BY <3>2, <3>3, <3>4
    <3> QED
      BY <3>2, <3>3, <3>4, <3>5
  <2>5. \A r \in 1 .. n - 1 : ~ (r < p) => r - (p - 1) \in 1 .. n - p /\ p + (r - (p - 1)) = r + 1
    BY <1>1, <1>9
  <2>6. \A r \in 1 .. n - 1 : r < p => r \in 1 .. p - 1
    BY <1>1, <1>9
  <2> QED
    BY <1>1, <1>9, <2>1, <2>2, <2>4, <2>5, <2>6
<1> HIDE DEF M
<1>11. \A x \in F : M[Rank(F, x) + 1] = Face(x)
  <2> SUFFICES ASSUME NEW x \in F PROVE M[Rank(F, x) + 1] = Face(x)
    OBVIOUS
  <2>1. /\ x \in E /\ Rank(E, x) \in 0 .. n - 1 /\ Rank(E, e) \in 0 .. n - 1
        /\ L[Rank(E, x) + 1] = Face(x)
    BY <1>1, <1>8
  <2>2. CASE Rank(E, x) < Rank(E, e)
    <3>1. Rank(F, x) + 1 = Rank(E, x) + 1 /\ Rank(F, x) + 1 \in 1 .. n - 1 /\ Rank(F, x) + 1 < p
      BY <1>1, <1>8, <2>1, <2>2
    <3> QED
      BY <1>10, <2>1, <3>1
  <2>3. CASE Rank(E, e) < Rank(E, x)
    <3>1. /\ (Rank(F, x) + 1) + 1 = Rank(E, x) + 1 /\ Rank(F, x) + 1 \in 1 .. n - 1
          /\ ~ (Rank(F, x) + 1 < p)
      BY <1>1, <1>8, <2>1, <2>3
    <3> QED
      BY <1>10, <2>1, <3>1
  <2> QED
    BY <1>8, <2>2, <2>3
<1>12. List(F, n - 1) = M
  <2> DEFINE k == n - 1
  <2>1. Listed(F, k) /\ Len(M) = k
    BY <1>10 DEF F
  <2> HIDE DEF k
  <2>2. List(F, k) = M
    BY <1>10, <1>11, <2>1, ListEquals
  <2> QED
    BY <2>2 DEF k
<1> QED
  BY <1>12 DEF F, M, L

-----------------------------------------------------------------------------
(* The timers keep the promise of DueQueue.                                *)

(* The same of Pending, with the operators of DueQueue: an entry leaves,   *)
LEMMA RemovedFromList ==
  ASSUME NEW h, NEW g, NEW E, NEW n, NEW e \in E,
         Good(h, E, n), Good(g, E \ {e}, n - 1)
  PROVE  /\ Rank(E, e) + 1 \in DOMAIN Pending(h)
         /\ Pending(h)[Rank(E, e) + 1] = Face(e)
         /\ Pending(g) = Queue!RemoveAt(Pending(h), Rank(E, e) + 1)
<1>1. Listed(E, n) /\ Pending(h) = List(E, n)
  BY GoodListed
<1>2. Listed(E \ {e}, n - 1) /\ Pending(g) = List(E \ {e}, n - 1)
  BY GoodListed
<1>3. /\ Rank(E, e) + 1 \in 1 .. n /\ List(E, n)[Rank(E, e) + 1] = Face(e)
      /\ DOMAIN List(E, n) = 1 .. n
  BY <1>1, ListIs
<1>4. Pending(g) = Queue!RemoveAt(Pending(h), Rank(E, e) + 1)
  <2> DEFINE L == List(E, n)
             p == Rank(E, e) + 1
  <2>1. List(E \ {e}, n - 1) = SubSeq(L, 1, p - 1) \o SubSeq(L, p + 1, Len(L))
    BY <1>1, <1>2, ListOfLess
  <2> HIDE DEF L, p
  <2>2. Pending(g) = Queue!RemoveAt(L, p)
    BY <1>2, <2>1 DEF Queue!RemoveAt
  <2> QED
    BY <1>1, <2>2 DEF L, p
<1> QED
  BY <1>1, <1>3, <1>4

(* gets another deadline,                                                  *)
LEMMA ChangedInList ==
  ASSUME NEW h, NEW g, NEW E, NEW n, NEW e \in E, NEW when \in Deadlines,
         Good(h, E, n), Good(g, Moved(E, e, when), n)
  PROVE  LET i == Rank(E, e) + 1
         IN  /\ i \in DOMAIN Pending(h)
             /\ Len(Pending(g)) = Len(Pending(h))
             /\ Pending(g)[i].key = Pending(h)[i].key
             /\ Pending(g) = Queue!ReplaceAt(Pending(h), i, Pending(g)[i])
<1> DEFINE d == [e EXCEPT !.when = when]
           F == Moved(E, e, when)
           i == Rank(E, e) + 1
           L == List(E, n)
<1>1. Listed(E, n) /\ Pending(h) = L
  BY GoodListed
<1>2. Listed(F, n) /\ Pending(g) = List(F, n)
  BY GoodListed
<1>3. d \in Entries /\ d.sequence = e.sequence /\ d.key = e.key
  BY DEF Good, Apart, Entries
<1> HIDE DEF d
<1>4. List(F, n) = [L EXCEPT ![i] = Face(d)]
  <2>1. F = (E \ {e}) \union {d}
    BY DEF Moved, d
  <2> QED
    BY <1>1, <1>2, <1>3, <2>1, ListOfChanged
<1>5. /\ i \in 1 .. n /\ L[i] = Face(e) /\ DOMAIN L = 1 .. n /\ Len(L) = n
      /\ L \in Seq([key : Keys, when : Deadlines])
  BY <1>1, ListIs
<1> HIDE DEF L, F, i
<1> DEFINE M == List(F, n)
<1>6. M[i] = Face(d) /\ Len(M) = n
  <2> DEFINE f == Face(d)
  <2> HIDE DEF f
  <2> QED
    BY <1>4, <1>5 DEF f
<1>7. Face(d).key = Face(e).key
  BY <1>3 DEF Face
<1>8. M = [L EXCEPT ![i] = M[i]]
  BY <1>4, <1>6
<1> HIDE DEF M
<1> QED
  BY <1>1, <1>2, <1>5, <1>6, <1>7, <1>8 DEF Queue!ReplaceAt, M, i

(* or is new.                                                              *)
LEMMA AddedToList ==
  ASSUME NEW h, NEW g, NEW E, NEW n, NEW a \in Entries,
         Good(h, E, n), Good(g, Kept(h, E) \union {a}, n + 1),
         \A e \in E : e.key # a.key,
         \A e \in Kept(h, E) : e.sequence < a.sequence
  PROVE  /\ Len(Pending(g)) = Len(Pending(h)) + 1
         /\ Queue!Front(Pending(g)) = Pending(h)
         /\ \A i \in DOMAIN Pending(h) : Pending(h)[i].key # Queue!Last(Pending(g)).key
<1> DEFINE F == Kept(h, E)
           L == List(E, n)
           k == n + 1
<1>1. Listed(E, n) /\ Pending(h) = L /\ n <= MaxSequence
  BY GoodListed
<1>2. Listed(F, n) /\ List(F, n) = L
  BY <1>1, ListOfAnew DEF Kept
<1> HIDE DEF F, L
<1>3. Listed(F \union {a}, k) /\ Pending(g) = List(F \union {a}, k)
  <2>1. Good(g, F \union {a}, k)
    BY DEF F
  <2> HIDE DEF k
  <2> QED
    BY <2>1, GoodListed
<1>4. Pending(g) = Append(L, Face(a))
  <2>1. \A e \in F : e.sequence < a.sequence
    BY DEF F
  <2>2. List(F \union {a}, n + 1) = Append(List(F, n), Face(a))
    BY <1>2, <1>3, <2>1, ListOfAdded
  <2> QED
    BY <1>2, <1>3, <2>2
<1>5. /\ n \in Nat /\ L \in Seq([key : Keys, when : Deadlines]) /\ Len(L) = n /\ DOMAIN L = 1 .. n
      /\ \A r \in 1 .. n : \E e \in E : L[r] = Face(e)
  <2>1. \A r \in 1 .. n : \E e \in E : r = Rank(E, e) + 1 /\ List(E, n)[r] = Face(e)
    BY <1>1, ListIs
  <2>2. \A r \in 1 .. n : \E e \in E : List(E, n)[r] = Face(e)
    BY <2>1
  <2>3. /\ n \in Nat /\ List(E, n) \in Seq([key : Keys, when : Deadlines])
        /\ Len(List(E, n)) = n /\ DOMAIN List(E, n) = 1 .. n
    BY <1>1, ListIs
  <2> QED
    BY <2>2, <2>3, Zenon DEF L
<1>6. Face(a) \in [key : Keys, when : Deadlines] /\ Face(a).key = a.key
  BY DEF Entries, Face
<1>7. \A r \in 1 .. n : L[r].key # a.key
  <2>1. \A e \in E : Face(e).key # a.key
    BY DEF Face
  <2> QED
    BY <1>5, <2>1
<1> DEFINE f == Face(a)
           M == Append(L, f)
           T == [key : Keys, when : Deadlines]
<1> HIDE DEF f, T
<1>8. f \in T /\ L \in Seq(T) /\ f.key = a.key
  BY <1>5, <1>6 DEF f, T
<1>9. Len(M) = n + 1 /\ M[n + 1] = f /\ SubSeq(M, 1, n) = L
  BY <1>5, <1>8
<1>10. Queue!Front(M) = L /\ Queue!Last(M) = f
  BY <1>5, <1>9 DEF Queue!Front, Queue!Last
<1> QED
  BY <1>1, <1>4, <1>5, <1>7, <1>8, <1>9, <1>10 DEF f

(* What a handler does to the timers is what DueQueue allows.              *)
LEMMA HandleMaps ==
  ASSUME IInv, Handle
  PROVE  Queue!Handle
<1>1. mailbox # <<>> /\ mailbox' = Tail(mailbox) /\ UNCHANGED clock
  BY DEF Handle
<1> DEFINE E == Held(heap)
           n == Len(heap.items)
           h == heap
           g == heap'
<1>2. Good(h, E, n)
  BY DEF IInv, HeapIsGood
<1>3. ASSUME g = h \/ \E e \in E : Good(g, E \ {e}, n - 1)
      PROVE  Queue!Changed
  <2> HIDE DEF E, n
  <2>1. CASE g = h
    BY <2>1 DEF Queue!Changed
  <2>2. ASSUME NEW e \in E, Good(g, E \ {e}, n - 1)
        PROVE  Queue!Changed
    <3> DEFINE i == Rank(E, e) + 1
    <3>1. i \in DOMAIN Pending(h) /\ Pending(g) = Queue!RemoveAt(Pending(h), i)
      <4>1. e \in E
        BY <2>2
      <4>2. Good(g, E \ {e}, n - 1)
        BY <2>2
      <4> HIDE DEF g, h
      <4> QED
        BY <1>2, <4>1, <4>2, RemovedFromList
    <3> QED
      BY <3>1 DEF Queue!Changed
  <2> QED
    BY <1>3, <2>1, <2>2
<1>4. ASSUME NEW e \in E, NEW when \in Deadlines,
             Good(g, Moved(E, e, when), n)
      PROVE  Queue!Changed
  <2> HIDE DEF E, n
  <2> DEFINE i == Rank(E, e) + 1
  <2>1. /\ i \in DOMAIN Pending(h)
        /\ Len(Pending(g)) = Len(Pending(h))
        /\ Pending(g)[i].key = Pending(h)[i].key
        /\ Pending(g) = Queue!ReplaceAt(Pending(h), i, Pending(g)[i])
    BY <1>2, <1>4, ChangedInList
  <2> QED
    BY <2>1 DEF Queue!Changed
<1>5. ASSUME NEW a \in Entries, \A e \in E : e.key # a.key,
             \A e \in Kept(h, E) : e.sequence < a.sequence,
             Good(g, Kept(h, E) \union {a}, n + 1)
      PROVE  Queue!Changed
  <2> HIDE DEF E, n
  <2>1. /\ Len(Pending(g)) = Len(Pending(h)) + 1
        /\ Queue!Front(Pending(g)) = Pending(h)
        /\ \A i \in DOMAIN Pending(h) : Pending(h)[i].key # Queue!Last(Pending(g)).key
    BY <1>2, <1>5, AddedToList
  <2> QED
    BY <2>1 DEF Queue!Changed
<1> HIDE DEF E, n
<1>6. ASSUME UNCHANGED <<heap, trigger>>
      PROVE  Queue!Changed
  <2>1. g = h
    BY <1>6
  <2> HIDE DEF g, h
  <2> QED
    BY <1>3, <2>1, Zenon
<1>7. ASSUME NEW key \in Keys, Del(key)
      PROVE  Queue!Changed
  <2>1. g = Remove(h, key)
    BY <1>7 DEF Del
  <2>2. g = h \/ \E e \in E : Good(g, E \ {e}, n - 1)
    BY <1>2, <2>1, RemoveGood
  <2> QED
    BY <1>3, <2>2
<1>8. ASSUME NEW key \in Keys, NEW when \in Deadlines, AddTimer(key, when)
      PROVE  Queue!Changed
  <2>1. g = Upsert(h, key, when)
    BY <1>8 DEF AddTimer
  <2> HIDE DEF g
  <2>2. CASE \E e \in E : Good(g, Moved(E, e, when), n)
    BY <1>4, <2>2, Zenon DEF g
  <2>3. ASSUME NEW a \in Entries,
               \A e \in E : e.key # key, a.key = key,
               \A e \in Kept(h, E) : e.sequence < a.sequence,
               Good(g, Kept(h, E) \union {a}, n + 1)
        PROVE  Queue!Changed
    <3>1. \A e \in E : e.key # a.key
      BY <2>3
    <3> QED
      BY <1>5, <2>3, <3>1, Zenon DEF g
  <2>4. \/ \E e \in E : Good(g, Moved(E, e, when), n)
        \/ \E a \in Entries : /\ \A e \in E : e.key # key
                              /\ a.key = key
                              /\ \A e \in Kept(h, E) : e.sequence < a.sequence
                              /\ Good(g, Kept(h, E) \union {a}, n + 1)
    <3> HIDE DEF h
    <3>1. Good(h, E, n)
      BY <1>2 DEF h
    <3> QED
      BY <2>1, <3>1, UpsertGood
  <2> QED
    BY <2>2, <2>3, <2>4
<1>9. Queue!Changed
  <2>1. \/ UNCHANGED <<heap, trigger>>
        \/ \E key \in Keys : Del(key)
        \/ \E key \in Keys, when \in Deadlines : AddTimer(key, when)
    BY DEF Handle
  <2> QED
    BY <1>6, <1>7, <1>8, <2>1, Zenon
<1> QED
  BY <1>1, <1>9 DEF Queue!Handle

(* What the actor sends itself is next in DueQueue: it is due, no other is *)
(* earlier and none as early was set before it.                            *)
LEMMA DeliverMaps ==
  ASSUME IInv, ExpireSend
  PROVE  Queue!Deliver
<1> DEFINE E == Held(heap)
           n == Len(heap.items)
<1>1. Good(heap, E, n)
  BY DEF IInv, HeapIsGood
<1> HIDE DEF E, n
<1>2. /\ ~ IsEmpty(heap) /\ Top(heap).when <= actor.now
      /\ mailbox' = Append(mailbox, Top(heap).key)
      /\ heap' = Remove(heap, Top(heap).key)
      /\ clock' = clock /\ actor.now <= clock
      /\ actor.now \in Nat /\ clock \in Nat
  BY Constants DEF IInv, Typed, NowHasCome, ExpireSend, IsDue
<1>3. PICK e \in E : /\ Top(heap).key = e.key /\ Top(heap).when = e.when /\ e.when \in Nat
                     /\ \A d \in E : ~ Before(d, e)
                     /\ \A d \in E : d.when \in Nat /\ e.when <= d.when
  BY <1>1, <1>2, TopIs
<1> DEFINE i == Rank(E, e) + 1
           p == Pending(heap)
<1>4. Good(heap', E \ {e}, n - 1)
  BY <1>1, <1>2, <1>3, RemoveKeeps
<1>5. i \in DOMAIN p /\ p[i] = Face(e) /\ Pending(heap') = Queue!RemoveAt(p, i)
  BY <1>1, <1>4, RemovedFromList
<1>6. p[i].when = e.when /\ p[i].key = e.key
  BY <1>5 DEF Face
<1>7. ASSUME NEW j \in DOMAIN p
      PROVE  \/ p[i].when < p[j].when
             \/ p[i].when = p[j].when /\ i <= j
  <2>1. Listed(E, n) /\ p = List(E, n)
    BY <1>1, GoodListed
  <2>2. j \in 1 .. n /\ (\A x \in E : Rank(E, x) \in 0 .. n - 1) /\ n \in Nat
    BY <2>1, ListIs
  <2>3. PICK d \in E : j = Rank(E, d) + 1 /\ p[j] = Face(d)
    BY <2>1, <2>2, ListIs
  <2>4. p[j].when = d.when
    BY <2>3 DEF Face
  <2>5. \A x, y \in E : x.sequence < y.sequence => Rank(E, x) < Rank(E, y)
    BY <2>1, RankIs DEF Listed
  <2>6. /\ \A x \in E : x.sequence \in Nat
        /\ \A x, y \in E : x.sequence = y.sequence => x = y
    BY <2>1, EntryTypes DEF Listed, Apart
  <2>7. CASE d = e
    BY <1>6, <2>2, <2>3, <2>4, <2>7
  <2>8. CASE d # e
    <3>1. e.when < d.when \/ (e.when = d.when /\ ~ (d.sequence < e.sequence))
      BY <1>3 DEF Before
    <3>2. CASE e.when < d.when
      BY <1>6, <2>4, <3>2
    <3>3. CASE e.when = d.when /\ ~ (d.sequence < e.sequence)
      <4>1. e.sequence < d.sequence
        BY <2>6, <2>8, <3>3
      <4>2. Rank(E, e) < Rank(E, d) /\ Rank(E, e) \in Int /\ Rank(E, d) \in Int
        BY <2>2, <2>5, <4>1
      <4>3. i <= Rank(E, d) + 1
        BY <4>2
      <4> QED
        BY <1>6, <2>3, <2>4, <3>3, <4>3
    <3> QED
      BY <3>1, <3>2, <3>3
  <2> QED
    BY <2>7, <2>8
<1>8. p[i].when <= clock
  BY <1>2, <1>3, <1>6
<1>9. mailbox' = Append(mailbox, p[i].key)
  BY <1>2, <1>3, <1>6
<1> HIDE DEF i
<1>10. Queue!IsNext(i)
  BY <1>7, <1>8 DEF Queue!IsNext
<1> QED
  BY <1>2, <1>5, <1>9, <1>10 DEF Queue!Deliver

(* The promise of DueQueue is kept for any number of timers, whatever the  *)
(* handlers do to them and however full the mailbox is: a message is sent  *)
(* when it is due, the earliest first and the first set of equals, once.   *)
THEOREM TimersKeepPromise == Spec => SentWhenDue
<1>1. Init => Queue!Init
  <2> SUFFICES ASSUME Init PROVE Queue!Init
    OBVIOUS
  <2>1. heap.items = <<>> /\ mailbox = <<>> /\ clock = 0
    BY DEF Init, EmptyHeap
  <2>2. Pending(heap) = <<>>
    <3>1. 1 .. Len(heap.items) = {}
      BY <2>1
    <3> QED
      BY <3>1 DEF Pending
  <2> QED
    BY <2>1, <2>2 DEF Queue!Init
<1>2. IInv /\ [Next]_vars => [Queue!Next]_Queue!vars
  <2> SUFFICES ASSUME IInv, [Next]_vars PROVE [Queue!Next]_Queue!vars
    OBVIOUS
  <2>1. CASE ReceiveMessage \/ Drain
    BY <2>1, HandleMaps DEF ReceiveMessage, Drain, Queue!Next
  <2>2. CASE ExpireSend
    BY <2>2, DeliverMaps DEF Queue!Next
  <2>3. CASE TimerFires \/ ExpireFull \/ ExpireDone \/ ReceiveStop \/ Finish \/ Stop \/ Quiet
             \/ UNCHANGED vars
    <3>1. UNCHANGED <<heap, mailbox, clock>>
      BY <2>3 DEF TimerFires, ExpireFull, ExpireDone, ReceiveStop, Finish, Stop, Quiet, vars
    <3> QED
      BY <3>1 DEF Queue!vars
  <2>4. CASE NodeSends
    <3>1. UNCHANGED <<heap, clock>> /\ mailbox' = Append(mailbox, "record")
      BY <2>4 DEF NodeSends
    <3>2. /\ Len(mailbox') = Len(mailbox) + 1
          /\ Queue!Front(mailbox') = mailbox
          /\ Queue!Last(mailbox') = "record"
      <4> DEFINE f == "record"
                 T == Keys \union {"record"}
      <4>1. mailbox \in Seq(T) /\ f \in T
        BY DEF IInv, Typed
      <4> HIDE DEF f, T
      <4>2. /\ Len(Append(mailbox, f)) = Len(mailbox) + 1
            /\ Append(mailbox, f)[Len(mailbox) + 1] = f
            /\ SubSeq(Append(mailbox, f), 1, Len(mailbox)) = mailbox
            /\ Len(mailbox) + 1 - 1 = Len(mailbox)
        BY <4>1
      <4>3. mailbox' = Append(mailbox, f)
        BY <3>1 DEF f
      <4> QED
        BY <4>2, <4>3 DEF Queue!Front, Queue!Last, f
    <3> QED
      BY <3>1, <3>2 DEF Queue!Other, Queue!Next
  <2>5. CASE Tick
    <3>1. UNCHANGED <<heap, mailbox>> /\ clock' >= clock
      <4>1. clock \in Int
        BY DEF IInv, Typed
      <4> QED
        BY <2>5, <4>1 DEF Tick
    <3> QED
      BY <3>1 DEF Queue!Other, Queue!Next
  <2> QED
    BY <2>1, <2>2, <2>3, <2>4, <2>5 DEF Next
<1> QED
  BY <1>1, <1>2, Invariance, PTL DEF Spec, SentWhenDue, Queue!Spec
=============================================================================
