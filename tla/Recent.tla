------------------------------- MODULE Recent -------------------------------
(***************************************************************************)
(* What the dedup ring promises an actor: it remembers the identifiers of  *)
(* the last Limit messages it was told of, each once and oldest first.     *)
(***************************************************************************)
EXTENDS SequencesExt

CONSTANTS Ids, Limit, MaxRestored

VARIABLE recent

Init == recent = <<>>

(* A known identifier is not told of again: it keeps its age.              *)
Remembering(s, id) ==
  IF id \in Range(s) THEN s
  ELSE IF Len(s) < Limit THEN Append(s, id)
  ELSE Append(Tail(s), id)

Remember(id) == recent' = Remembering(recent, id)

Forget == recent' = <<>>

(* Taking over what another ring remembered, whatever its limit was.       *)
Taken(s) ==
  LET after[k \in 0 .. Len(s)] ==
        IF k = 0 THEN <<>> ELSE Remembering(after[k - 1], s[k])
  IN  after[Len(s)]

TakeOver(s) == recent' = Taken(s)

(* What another ring may have remembered: no identifier twice.             *)
Remembered == {s \in BoundedSeq(Ids, MaxRestored) : IsInjective(s)}

Next == \/ \E id \in Ids : Remember(id)
        \/ Forget
        \/ \E s \in Remembered : TakeOver(s)

Spec == Init /\ [][Next]_recent
=============================================================================
