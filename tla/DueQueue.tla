------------------------------ MODULE DueQueue ------------------------------
(***************************************************************************)
(* What an actor's timers promise: pending timers in the order they were   *)
(* set; one that is set again keeps its place.  A timer becomes a message  *)
(* only when it is due, the earliest first and the first of equals, once,  *)
(* and behind everything the mailbox holds.                                *)
(***************************************************************************)
EXTENDS SequencesExt

VARIABLES pending,  \* sequence of [key, when]
          mailbox,
          clock

vars == <<pending, mailbox, clock>>

Init == pending = <<>> /\ mailbox = <<>> /\ clock \in Int

IsNext(i) ==
  /\ pending[i].when <= clock
  /\ \A j \in DOMAIN pending : \/ pending[i].when < pending[j].when
                               \/ pending[i].when = pending[j].when /\ i <= j

Deliver ==
  \E i \in DOMAIN pending :
    /\ IsNext(i)
    /\ pending' = RemoveAt(pending, i)
    /\ mailbox' = Append(mailbox, pending[i].key)
    /\ UNCHANGED clock

(* A handler may set or cancel one timer; the mailbox loses the message.   *)
Changed ==
  \/ UNCHANGED pending
  \/ \E i \in DOMAIN pending : \/ pending' = RemoveAt(pending, i)
                               \/ /\ Len(pending') = Len(pending)
                                  /\ pending'[i].key = pending[i].key
                                  /\ pending' = ReplaceAt(pending, i, pending'[i])
  \/ /\ Len(pending') = Len(pending) + 1
     /\ Front(pending') = pending
     /\ \A i \in DOMAIN pending : pending[i].key # Last(pending').key

Handle ==
  /\ mailbox # <<>>
  /\ mailbox' = Tail(mailbox)
  /\ Changed
  /\ UNCHANGED clock

(* The mailbox also gets what others send, and time goes on.               *)
Other ==
  /\ UNCHANGED pending
  /\ \/ UNCHANGED mailbox /\ clock' >= clock
     \/ /\ Len(mailbox') = Len(mailbox) + 1
        /\ Front(mailbox') = mailbox
        /\ Last(mailbox') = "record"
        /\ UNCHANGED clock

Next == Deliver \/ Handle \/ Other

Spec == Init /\ [][Next]_vars
=============================================================================
