---------------------------- MODULE OffsetCommit ----------------------------
(***************************************************************************)
(* What the in-flight window promises its caller.  Offsets of a log are    *)
(* accepted in log order (an offset already accepted may be accepted       *)
(* again: the log is read again after a seek), and finished in any order.  *)
(* The checkpoint moves only to a value below which every offset of the    *)
(* log is finished and none is open, so a consumer that restarts from it   *)
(* skips nothing that was not finished.                                    *)
(*                                                                         *)
(* Offsets need not be contiguous: a Kafka partition has holes.            *)
(***************************************************************************)
EXTENDS Integers

CONSTANT Offsets        \* the offsets of the log

VARIABLES open,         \* accepted and not finished since
          finished,     \* finished at least once
          checkpoint    \* where a restarted consumer begins

vars == <<open, finished, checkpoint>>

Init ==
  /\ open = {}
  /\ finished = {}
  /\ checkpoint = 0

Accept(o) ==
  /\ \A d \in Offsets : d < o => d \in open \union finished
  /\ open' = open \union {o}
  /\ UNCHANGED <<finished, checkpoint>>

Contiguous(v) == \A d \in Offsets : d < v => d \in finished' \ open'

Finish(done) ==
  /\ open' = open \ done
  /\ finished' = finished \union done
  /\ checkpoint' = checkpoint \/ Contiguous(checkpoint')

Next ==
  \/ \E o \in Offsets : Accept(o)
  \/ \E done \in SUBSET open : Finish(done)

Spec == Init /\ [][Next]_vars
=============================================================================
