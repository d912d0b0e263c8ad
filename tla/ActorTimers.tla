----------------------------- MODULE ActorTimers -----------------------------
(***************************************************************************)
(* The timers of an actor: the heap of what is pending, the one time.Timer *)
(* that wakes the goroutine for the first of it (core/timer.go), and the   *)
(* delivery of what is due into the actor's own mailbox, into which the    *)
(* node sends too and which may be full (core/actor.go, handleTimerTrigger)*)
(*                                                                         *)
(* Time is counted in seconds, as NowUnix does.  time.Timer is external:   *)
(* Reset and Stop discard what has fired, a duration that is not positive  *)
(* fires at once.                                                          *)
(***************************************************************************)
EXTENDS QuadHeap

CONSTANTS
  Keys,
  Capacity,       \* ActorChannelCap
  MaxTime,        \* bound: time is not told apart from here on
  Never,          \* a deadline that is not reached
  DurationRange,  \* seconds a time.Duration holds before it turns negative
  MaxRecords,     \* bound: messages the node sends
  MayStop         \* whether the actor may be stopped

ASSUME TimerAssumption ==
  /\ IsFiniteSet(Keys) /\ Cardinality(Keys) <= MaxSequence
  /\ {Capacity, DurationRange} \subseteq Nat \ {0}
  /\ {MaxTime, Never, MaxRecords} \subseteq Nat
  /\ MaxTime < Never /\ MaxTime <= DurationRange
  /\ MayStop \in BOOLEAN

VARIABLES
  heap,     \* Timer.heap
  trigger,  \* Timer.timer: Stopped, or the seconds left; at zero it has fired
  clock,    \* NowUnix
  mailbox,
  actor,    \* the goroutine: [stage, now, stop]
  records   \* how many messages the node sent

vars == <<heap, trigger, clock, mailbox, actor, records>>

Stopped == -1
Deadlines == 0 .. MaxTime \union {Never}

Init ==
  /\ heap = EmptyHeap
  /\ trigger = Stopped
  /\ clock = 0
  /\ mailbox = <<>>
  /\ actor = [stage |-> "running", now |-> 0, stop |-> FALSE]
  /\ records = 0

Positive(n) == IF n > 0 THEN n ELSE 0

(* time.Second * Duration(n) has 64 bits.                                  *)
Duration(n) == ((n + DurationRange) % (2 * DurationRange)) - DurationRange

Calibration(h) ==
  IF IsEmpty(h) THEN Stopped ELSE Positive(Duration(Top(h).when - clock))

-----------------------------------------------------------------------------
(* What a handler may do to the timers.  Bound: one operation, and no      *)
(* deadline in the past.                                                   *)

(* Mutant: the timer is set only for the first entry.                      *)
AddUncalibrated(key, when) ==
  /\ heap' = Upsert(heap, key, when)
  /\ trigger' = IF IsEmpty(heap) THEN Calibration(heap') ELSE trigger

(* An entry that is first and becomes later leaves the timer as it was.    *)
AddTimer(key, when) ==
  /\ heap' = Upsert(heap, key, when)
  /\ trigger' = IF ~ IsEmpty(heap) /\ Top(heap).when <= when
                THEN trigger ELSE Calibration(heap')

(* Nothing in the repository calls it yet.                                 *)
Del(key) ==
  /\ heap' = Remove(heap, key)
  /\ trigger' = IF IsEmpty(heap) \/ Top(heap).key # key
                THEN trigger ELSE Calibration(heap')

Handle ==
  /\ mailbox # <<>>
  /\ mailbox' = Tail(mailbox)
  /\ \/ UNCHANGED <<heap, trigger>>
     \/ \E key \in Keys : \/ Del(key)
                          \/ \E when \in Deadlines : /\ when >= clock
                                                     /\ AddTimer(key, when)
  /\ UNCHANGED <<clock, records>>

-----------------------------------------------------------------------------
(* The actor's goroutine.                                                  *)

ReceiveMessage ==
  /\ actor.stage = "running"
  /\ Handle
  /\ UNCHANGED actor

(* handleTimerTrigger: what is due is decided by one reading of the clock. *)
TimerFires ==
  /\ actor.stage = "running"
  /\ trigger = 0
  /\ trigger' = Stopped
  /\ actor' = [actor EXCEPT !.stage = "expiring", !.now = clock]
  /\ UNCHANGED <<heap, clock, mailbox, records>>

(* Mutant: one more message than the channel holds.                        *)
RoomForOneMore == Len(mailbox) <= Capacity

Room == Len(mailbox) < Capacity

IsDue == ~ IsEmpty(heap) /\ Top(heap).when <= actor.now

ExpireSend ==
  /\ actor.stage = "expiring"
  /\ IsDue
  /\ Room
  /\ mailbox' = Append(mailbox, Top(heap).key)
  /\ heap' = Remove(heap, Top(heap).key)
  /\ UNCHANGED <<trigger, clock, actor, records>>

Resumes == actor' = [actor EXCEPT !.stage = "running", !.now = 0]

(* Mutant: nothing wakes the goroutine for what did not fit.               *)
NoRetry == trigger' = trigger

RetryAfter == trigger' = 1

ExpireFull ==
  /\ actor.stage = "expiring"
  /\ IsDue
  /\ ~ Room
  /\ RetryAfter
  /\ Resumes
  /\ UNCHANGED <<heap, clock, mailbox, records>>

ExpireDone ==
  /\ actor.stage = "expiring"
  /\ ~ IsDue
  /\ trigger' = Calibration(heap)
  /\ Resumes
  /\ UNCHANGED <<heap, clock, mailbox, records>>

ReceiveStop ==
  /\ actor.stage = "running"
  /\ actor.stop
  /\ actor' = [actor EXCEPT !.stage = "draining", !.stop = FALSE]
  /\ UNCHANGED <<heap, trigger, clock, mailbox, records>>

Drain ==
  /\ actor.stage = "draining"
  /\ Handle
  /\ UNCHANGED actor

(* What is pending then is never delivered.                                *)
Finish ==
  /\ actor.stage = "draining"
  /\ mailbox = <<>>
  /\ actor' = [actor EXCEPT !.stage = "gone"]
  /\ UNCHANGED <<heap, trigger, clock, mailbox, records>>

-----------------------------------------------------------------------------
(* The others: the node, and time.                                         *)

NodeSends ==
  /\ records < MaxRecords
  /\ actor.stage # "gone"
  /\ Room
  /\ mailbox' = Append(mailbox, "record")
  /\ records' = records + 1
  /\ UNCHANGED <<heap, trigger, clock, actor>>

Stop ==
  /\ MayStop
  /\ actor.stage \in {"running", "expiring"}
  /\ ~ actor.stop
  /\ actor' = [actor EXCEPT !.stop = TRUE]
  /\ UNCHANGED <<heap, trigger, clock, mailbox, records>>

Tick ==
  /\ actor.stage # "gone"
  /\ clock < MaxTime \/ trigger > 0
  /\ clock' = IF clock < MaxTime THEN clock + 1 ELSE clock
  /\ trigger' = IF trigger > 0 THEN trigger - 1 ELSE trigger
  /\ UNCHANGED <<heap, mailbox, actor, records>>

(* Nothing happens to a stopped actor, or to one without work.             *)
Quiet ==
  /\ \/ actor.stage = "gone"
     \/ actor.stage = "running" /\ mailbox = <<>> /\ trigger = Stopped
  /\ UNCHANGED vars

Next ==
  \/ ReceiveMessage
  \/ TimerFires
  \/ ExpireSend
  \/ ExpireFull
  \/ ExpireDone
  \/ ReceiveStop
  \/ Drain
  \/ Finish
  \/ NodeSends
  \/ Stop
  \/ Tick
  \/ Quiet

Spec == Init /\ [][Next]_vars

(***************************************************************************)
(* Time passes and the goroutine runs; select picks at random among what   *)
(* is ready, so it picks each case that is ready again and again.          *)
(***************************************************************************)
FairSpec ==
  /\ Spec
  /\ WF_vars(Tick)
  /\ SF_vars(ReceiveMessage)
  /\ SF_vars(TimerFires)
  /\ WF_vars(ExpireSend)
  /\ WF_vars(ExpireFull)
  /\ WF_vars(ExpireDone)

-----------------------------------------------------------------------------
Entries == [key : Keys, when : Deadlines, sequence : 0 .. MaxSequence]

TypeOK ==
  /\ heap.items \in Seq(Entries)
  /\ Len(heap.items) <= Cardinality(Keys)
  /\ heap.nextSeq \in 0 .. MaxSequence
  /\ trigger \in {Stopped} \union 0 .. DurationRange
  /\ clock \in 0 .. MaxTime
  /\ mailbox \in Seq(Keys \union {"record"})
  /\ Len(mailbox) <= Capacity
  /\ actor \in [ stage : {"running", "expiring", "draining", "gone"},
                 now   : 0 .. MaxTime,
                 stop  : BOOLEAN ]
  /\ records \in 0 .. MaxRecords

(***************************************************************************)
(* The heap stays a heap, its map points to the entries and their numbers  *)
(* differ, when entries move up and down, leave from the middle and are    *)
(* numbered anew.                                                          *)
(***************************************************************************)
HeapKept == HeapOK(heap)

(***************************************************************************)
(* The promise of DueQueue: whatever the moment at which time passes, the  *)
(* mailbox is full or a handler changes the timers, messages are sent when *)
(* due, in order, once.                                                    *)
(***************************************************************************)
Pending(h) ==
  LET queue == ByAge(h)
  IN  [r \in 1 .. Len(h.items) |-> [key |-> queue[r].key, when |-> queue[r].when]]

Queue == INSTANCE DueQueue WITH pending <- Pending(heap)

SentWhenDue == Queue!Spec

(***************************************************************************)
(* A timer that is pending wakes the goroutine in time, or a second after  *)
(* it found the mailbox full; an overflow only makes it wake too early.    *)
(***************************************************************************)
WakesInTime ==
  actor.stage = "running" /\ ~ IsEmpty(heap) =>
    /\ trigger # Stopped
    /\ trigger <= IF Top(heap).when > clock THEN Top(heap).when - clock ELSE 1

(***************************************************************************)
(* A timer that is overdue does not stay so, unless the actor stops:       *)
(* neither a full mailbox nor other timers keep it back for ever, as long  *)
(* as no handler sets deadlines in the past.                               *)
(***************************************************************************)
Overdue(key) == Has(heap, key) /\ Item(heap, heap.indexes[key]).when <= clock

Stopping == actor.stop \/ actor.stage \in {"draining", "gone"}

Expires == \A key \in Keys : Overdue(key) ~> ~ Overdue(key) \/ Stopping
=============================================================================
