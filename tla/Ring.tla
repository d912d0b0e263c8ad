-------------------------------- MODULE Ring --------------------------------
(***************************************************************************)
(* The ring buffer of structs/ring.go with a positive capacity: the slice, *)
(* the index of the oldest value and the number of values.  A slot without *)
(* a value holds Zero, Go's zero value.                                    *)
(***************************************************************************)
EXTENDS Integers, Sequences

CONSTANTS Capacity, Zero

ASSUME CapacityAssumption == Capacity \in Nat \ {0}

Slots == 0 .. Capacity - 1

NewRing == [items |-> [i \in Slots |-> Zero], head |-> 0, size |-> 0]

RingFull(r) == r.size = Capacity

(* The slot of the k-th oldest value, counted from 0.                      *)
Slot(r, k) == (r.head + k) % Capacity

(* Mutant: the first value is taken to be in slot 0.                       *)
PushAtSize(r, value) ==
  IF RingFull(r)
  THEN [r EXCEPT !.items[r.head] = value, !.head = Slot(r, 1)]
  ELSE [r EXCEPT !.items[r.size] = value, !.size = @ + 1]

(* A full ring overwrites its oldest value.                                *)
Push(r, value) ==
  IF RingFull(r)
  THEN [r EXCEPT !.items[r.head] = value, !.head = Slot(r, 1)]
  ELSE [r EXCEPT !.items[Slot(r, r.size)] = value, !.size = @ + 1]

Peek(r) == r.items[r.head]

(* Pop of a ring that is not empty; an empty ring starts again at slot 0.  *)
Pop(r) ==
  [ items |-> [r.items EXCEPT ![r.head] = Zero],
    head  |-> IF r.size = 1 THEN 0 ELSE Slot(r, 1),
    size  |-> r.size - 1 ]

(* Values, oldest first.                                                   *)
Contents(r) == [k \in 1 .. r.size |-> r.items[Slot(r, k - 1)]]

(* Mutant: the values and the head are left as they are.                   *)
ClearSize(r) == [r EXCEPT !.size = 0]

Clear(r) == NewRing
=============================================================================
