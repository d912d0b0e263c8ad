-------------------------------- MODULE Node --------------------------------
(***************************************************************************)
(* One node that serves one shard: the node goroutine (core/node.go), the  *)
(* goroutines of the shard's actors (core/actor.go), the goroutine that    *)
(* polls Kafka, and what they use: the Kafka client of mq/kafka.go and the *)
(* snapshot store.  They share nothing but channels; the node's mailbox    *)
(* carries both the records of the partition and the actors' signals.      *)
(*                                                                         *)
(* A record is named by its offset; Log says what is in it.  An actor's    *)
(* state is abstracted to the sequence of records whose handler it ran,    *)
(* which also gives its dedup ring and the offset of its snapshots.        *)
(***************************************************************************)
EXTENDS InflightWindow, SequencesExt

CONSTANTS
  FirstOffset,    \* the offset of the partition's first record
  LastOffset,     \* bound: the offset of its last record
  Log,            \* the records, by offset
  NodeCapacity,   \* NodeChannelCapacity
  ActorCapacity,  \* ActorChannelCap
  DedupCapacity,  \* ActorDedupCap
  MaxBatch,       \* bound: records one Poll returns
  Faults,         \* which faults may happen
  MaxFaults,      \* bound: how many of them
  MaxTimers,      \* bound: how often the actors' idle and alive timers are seen to fire
  MayStop         \* whether somebody may ask the node to stop

Kinds == { "handled",      \* the actor has a handler that returns
           "unknown",      \* no handler is registered for the command
           "panics",       \* the handler panics
           "unstartable",  \* the factory does not know the receiver's type
           "memory",       \* Type is MessageTypeMemory, as NewMessage leaves it
           "undecodable" } \* ToMMMessage rejects the record

Offsets == FirstOffset .. LastOffset

ASSUME LogAssumption ==
  /\ FirstOffset \in Nat /\ LastOffset \in Nat /\ FirstOffset <= LastOffset
  /\ Log \in [Offsets -> [actor : Actors, id : Nat, kind : Kinds]]

ASSUME BoundsAssumption ==
  /\ ActorCapacity \in Nat /\ ActorCapacity > 2
  /\ {NodeCapacity, DedupCapacity, MaxBatch} \subseteq Nat \ {0}
  /\ Faults \subseteq {"save", "commit", "crash", "poll", "timeout"}
  /\ {MaxFaults, MaxTimers} \subseteq Nat
  /\ MayStop \in BOOLEAN

VARIABLES
  client,   \* Kafka client: [position, paused, open], and the committed checkpoint
  poller,   \* poll goroutine: [batch, cancelled, running]
  mailbox,  \* Node.mailbox
  node,     \* the node goroutine: [stage, stopping, end, endTimer]
  shard,    \* the NodeShard and its registration: [registered, pause, window]
  actors,   \* Node.actors: a function on the actors that have an entry
  procs,    \* the actor goroutines and their channels
  history   \* the store and ghosts: [durable, overtaken, faults, timers]

vars == <<client, poller, mailbox, node, shard, actors, procs, history>>

-----------------------------------------------------------------------------
(* Messages of the node's mailbox.                                         *)

Record(o) == [command |-> "record", offset |-> o]
Signal(command, a) == [command |-> command, sender |-> a]

(* signalSnapshot: the offset is 0 until a handler has run.                *)
SnapshotOf(p) ==
  [ offset |-> IF p.executed = <<>> THEN 0 ELSE Last(p.executed),
    state  |-> Range(p.executed) ]

SnapshotSignal(a, p) ==
  [command |-> "snapshot", sender |-> a, snapshot |-> SnapshotOf(p)]

NewEntry == [ stopping |-> FALSE,
              snapshot |-> {},           \* at most one, the last received
              pause    |-> NoOffset,
              pending  |-> NoOffset ]

(***************************************************************************)
(* An actor goroutine: out holds the signals it still has to send before   *)
(* it does anything else.                                                  *)
(***************************************************************************)
NoProc == [ stage    |-> "gone",
            mailbox  |-> <<>>,
            mailFull |-> FALSE,
            executed |-> <<>>,
            stop     |-> FALSE,
            out      |-> <<>> ]

NewProc == [NoProc EXCEPT !.stage = "running"]

FreshShard == [registered |-> TRUE, pause |-> NoOffset, window |-> EmptyWindow]
FreshPoller == [batch |-> <<>>, cancelled |-> FALSE, running |-> TRUE]
FreshNode == [stage |-> "serving", stopping |-> FALSE, end |-> FALSE, endTimer |-> "unset"]

Init ==
  /\ client = [position |-> FirstOffset, paused |-> FALSE, open |-> TRUE,
               checkpoint |-> FirstOffset]
  /\ poller = FreshPoller
  /\ mailbox = <<>>
  /\ node = FreshNode
  /\ shard = FreshShard
  /\ actors = <<>>
  /\ procs = [a \in Actors |-> NoProc]
  /\ history = [durable |-> {}, overtaken |-> FALSE, faults |-> 0, timers |-> 0]

CanFail(kind) == kind \in Faults /\ history.faults < MaxFaults

Fault(kind) ==
  /\ CanFail(kind)
  /\ history' = [history EXCEPT !.faults = @ + 1]

-----------------------------------------------------------------------------
(* The Kafka client.                                                       *)

(* Mutant: a seek ends the pause.                                          *)
SeekResumes(cl, o) == [cl EXCEPT !.position = o, !.paused = FALSE]

(* SeekMessage keeps a pause and does not touch what was fetched before.   *)
SeekMessage(cl, o) == [cl EXCEPT !.position = o]
PausePartition(cl) == [cl EXCEPT !.paused = TRUE]
ResumePartition(cl) == [cl EXCEPT !.paused = FALSE]

(***************************************************************************)
(* CommitOffset takes any offset, also one below the last.  A commit that  *)
(* is "lost" took effect, but the caller sees an error.                    *)
(***************************************************************************)
CommitOffset(cl, next, commit) ==
  IF commit \in {"acknowledged", "lost"} THEN [cl EXCEPT !.checkpoint = next] ELSE cl

-----------------------------------------------------------------------------
(* The poll goroutine.                                                     *)

Fetched(last) == [i \in 1 .. last - client.position + 1 |-> client.position + i - 1]

Fetchable(last) ==
  /\ poller.batch = <<>>
  /\ ~ poller.cancelled
  /\ ~ client.paused
  /\ last \in Offsets
  /\ client.position <= last
  /\ last < client.position + MaxBatch

Poll(last) ==
  /\ Fetchable(last)
  /\ \A o \in client.position .. last : Log[o].kind # "undecodable"
  /\ poller' = [poller EXCEPT !.batch = Fetched(last)]
  /\ client' = [client EXCEPT !.position = last + 1]
  /\ UNCHANGED <<mailbox, node, shard, actors, procs, history>>

(* Records and an error may be returned together; `continue` drops both.   *)
PollError(last) ==
  /\ Fetchable(last)
  /\ \/ /\ \E o \in client.position .. last : Log[o].kind = "undecodable"
        /\ UNCHANGED history
     \/ Fault("poll")
  /\ client' = [client EXCEPT !.position = last + 1]
  /\ UNCHANGED <<poller, mailbox, node, shard, actors, procs>>

Deliver ==
  /\ poller.running
  /\ poller.batch # <<>>
  /\ Len(mailbox) < NodeCapacity
  /\ mailbox' = Append(mailbox, Record(Head(poller.batch)))
  /\ poller' = [poller EXCEPT !.batch = Tail(@)]
  /\ UNCHANGED <<client, node, shard, actors, procs, history>>

(* ctx.Done is only looked at while a record is waiting to be delivered.   *)
PollerExit ==
  /\ poller.running
  /\ poller.cancelled
  /\ poller.batch # <<>>
  /\ poller' = [poller EXCEPT !.running = FALSE, !.batch = <<>>]
  /\ UNCHANGED <<client, mailbox, node, shard, actors, procs, history>>

-----------------------------------------------------------------------------
(* The node goroutine: snapshots, commits and what follows from them.      *)

Serving == node.stage = "serving"

(* Node.actors with an entry more, and after a deletion.                   *)
WithEntry(a, e) == [b \in DOMAIN actors \union {a} |-> IF b = a THEN e ELSE actors[b]]
Without(a) == [b \in DOMAIN actors \ {a} |-> actors[b]]

WithSnapshot(S) == {a \in S \intersect DOMAIN actors : actors[a].snapshot # {}}

Snapshot(a) == CHOOSE s \in actors[a].snapshot : TRUE

(* resumeOffset: a paused partition is read again from the refused offset. *)
ResumeOffset(sh, cl) ==
  IF sh.pause = NoOffset
  THEN [shard |-> sh, client |-> cl]
  ELSE [shard  |-> [sh EXCEPT !.pause = NoOffset],
        client |-> ResumePartition(SeekMessage(cl, sh.pause))]

(* completeOffset, and resumeOffset unless the commit returned an error.   *)
Completed(S) == Complete(shard.window, [a \in S |-> Snapshot(a).offset])

Commits(S) ==
  IF ~ Completed(S).advanced THEN {"none"}
  ELSE IF ~ client.open THEN {"refused"}
  ELSE {"acknowledged"} \union (IF CanFail("commit") THEN {"refused", "lost"} ELSE {})

CompleteOffset(S, commit) ==
  LET sh == [shard EXCEPT !.window = Completed(S).window]
      cl == CommitOffset(client, Completed(S).next, commit)
  IN  IF commit \in {"refused", "lost"}
      THEN [shard |-> sh, client |-> cl]
      ELSE ResumeOffset(sh, cl)

(***************************************************************************)
(* What saving the snapshots of the actors in S can lead to.  A Save that  *)
(* returns an error may have stored any of them; the node then keeps all   *)
(* of them enabled and completes nothing.                                  *)
(***************************************************************************)
Untouched == [ stored |-> {}, disabled |-> {}, faults |-> history.faults,
               next |-> [shard |-> shard, client |-> client] ]

(* Mutant: the error of Save is ignored.                                   *)
SaveErrorsIgnored(S) ==
  IF CanFail("save")
  THEN {[ stored |-> T, disabled |-> S, faults |-> history.faults + 1,
          next |-> CompleteOffset(S, "acknowledged") ] : T \in SUBSET S}
  ELSE {}

SaveErrors(S) ==
  IF CanFail("save")
  THEN {[Untouched EXCEPT !.stored = T, !.faults = @ + 1] : T \in SUBSET S}
  ELSE {}

SaveSuccesses(S) ==
  {[ stored   |-> S,
     disabled |-> S,
     faults   |-> IF client.open /\ commit \in {"refused", "lost"}
                  THEN history.faults + 1 ELSE history.faults,
     next     |-> CompleteOffset(S, commit) ] : commit \in Commits(S)}

SaveOutcomes(S) == IF S = {} THEN {Untouched} ELSE SaveErrors(S) \union SaveSuccesses(S)

(* Entries of Node.actors once the snapshots an outcome covers are saved.  *)
Disabled(outcome) ==
  [a \in DOMAIN actors |-> IF a \in outcome.disabled
                           THEN [actors[a] EXCEPT !.snapshot = {}] ELSE actors[a]]

Saved(outcome) ==
  history' = [history EXCEPT
    !.durable = @ \union UNION {Snapshot(a).state : a \in outcome.stored},
    !.faults  = outcome.faults]

SnapshotBatch ==
  \E outcome \in SaveOutcomes(WithSnapshot(Actors)) :
    /\ Saved(outcome)
    /\ actors' = Disabled(outcome)
    /\ shard'  = outcome.next.shard
    /\ client' = outcome.next.client

(* With nothing to save the timer changes nothing.                         *)
SnapshotTimer ==
  /\ Serving
  /\ WithSnapshot(Actors) # {}
  /\ SnapshotBatch
  /\ UNCHANGED <<poller, mailbox, node, procs>>

-----------------------------------------------------------------------------
(* The node goroutine: Dispatcher.                                         *)

Receives(command) ==
  /\ Serving
  /\ mailbox # <<>>
  /\ Head(mailbox).command = command
  /\ mailbox' = Tail(mailbox)

Offset == Head(mailbox).offset
Receiver == Log[Offset].actor

(* A record of type memory reaches the receivers of the actors' signals.   *)
(* With a command that is none of theirs it is dropped; one that bears the *)
(* name of a signal is not modelled: its payload is of another type, and   *)
(* node.go:182-191 panics.                                                 *)
Routable == /\ Log[Offset].kind # "memory"
            /\ shard.registered
            /\ shard.pause = NoOffset

DispatchDrop ==
  /\ Receives("record")
  /\ ~ Routable
  /\ UNCHANGED <<client, poller, node, shard, actors, procs, history>>

DispatchFull ==
  /\ Receives("record")
  /\ Routable
  /\ Full(shard.window, Offset)
  /\ shard' = [shard EXCEPT !.pause = Offset]
  /\ client' = PausePartition(client)
  /\ UNCHANGED <<poller, node, actors, procs, history>>

Accepted ==
  /\ Receives("record")
  /\ Routable
  /\ ~ Full(shard.window, Offset)

DispatchUnstartable ==
  /\ Accepted
  /\ Receiver \notin DOMAIN actors
  /\ Log[Offset].kind = "unstartable"
  /\ UNCHANGED <<client, poller, node, shard, actors, procs, history>>

(***************************************************************************)
(* History: a record overtakes one that comes before it in the log and is  *)
(* missing, that is to be handled and not yet stored, when the window      *)
(* comes to track it but not the earlier one; or when it is put in an      *)
(* actor's mailbox and the earlier one is of the same actor and will not   *)
(* be handled first.  Two records with the identifier of one message stand *)
(* for each other.  Offset 0 is left out: see CheckpointCovered.           *)
(***************************************************************************)
Effective == {o \in Offsets : Log[o].kind = "handled"}

Among(o, S) == \E x \in S \intersect Effective :
                 Log[x].actor = Log[o].actor /\ Log[x].id = Log[o].id

Missing == {o \in Effective \ {0} : ~ Among(o, history.durable)}

Holds(p) == Range(p.executed) \union Range(p.mailbox)

Leaps(o) == \E d \in Missing : d < o /\ d \notin shard.window.offsetActor

Overtakes(o, p) ==
  \E d \in Missing : d < o /\ Log[d].actor = Log[o].actor /\ ~ Among(d, Holds(p))

Tracked(overtakes) ==
  /\ shard' = [shard EXCEPT !.window = Add(@, Offset, Receiver)]
  /\ history' = [history EXCEPT !.overtaken = @ \/ Leaps(Offset) \/ overtakes]

(***************************************************************************)
(* An actor that is stopping, paused or out of mailbox space does not get  *)
(* the record, though the window tracks it from here on.  Only the first   *)
(* such offset is kept, for the seek that is to bring the record back.     *)
(***************************************************************************)
DispatchPending ==
  /\ Accepted
  /\ Receiver \in DOMAIN actors
  /\ actors[Receiver].stopping
  /\ Tracked(FALSE)
  /\ actors' = [actors EXCEPT ![Receiver].pending = IF @ = NoOffset THEN Offset ELSE @]
  /\ UNCHANGED <<client, poller, node, procs>>

Reachable == Receiver \in DOMAIN actors /\ ~ actors[Receiver].stopping

DispatchPaused ==
  /\ Accepted
  /\ Reachable
  /\ actors[Receiver].pause # NoOffset
  /\ Tracked(FALSE)
  /\ UNCHANGED <<client, poller, node, actors, procs>>

DispatchMailFull ==
  /\ Accepted
  /\ Reachable
  /\ actors[Receiver].pause = NoOffset
  /\ Len(procs[Receiver].mailbox) = ActorCapacity
  /\ Tracked(FALSE)
  /\ actors' = [actors EXCEPT ![Receiver].pause = Offset]
  /\ UNCHANGED <<client, poller, node, procs>>

Hand(p) == procs' = [procs EXCEPT ![Receiver] = [p EXCEPT !.mailbox = Append(@, Offset)]]

DispatchStart ==
  /\ Accepted
  /\ Receiver \notin DOMAIN actors
  /\ Log[Offset].kind # "unstartable"
  /\ Tracked(Overtakes(Offset, NewProc))
  /\ actors' = WithEntry(Receiver, NewEntry)
  /\ Hand(NewProc)
  /\ UNCHANGED <<client, poller, node>>

DispatchSend ==
  /\ Accepted
  /\ Reachable
  /\ actors[Receiver].pause = NoOffset
  /\ Len(procs[Receiver].mailbox) < ActorCapacity
  /\ Tracked(Overtakes(Offset, procs[Receiver]))
  /\ Hand(procs[Receiver])
  /\ UNCHANGED <<client, poller, node, actors>>

Dispatcher ==
  \/ DispatchDrop
  \/ DispatchFull
  \/ DispatchUnstartable
  \/ DispatchPending
  \/ DispatchPaused
  \/ DispatchMailFull
  \/ DispatchStart
  \/ DispatchSend

-----------------------------------------------------------------------------
(* The node goroutine: signals of the actors.  Sender always has an entry: *)
(* see OneIncarnation.                                                     *)

Sender == Head(mailbox).sender

(* recycleActor asks for redelivery as long as the actor is owed a record, *)
(* and stops the actor otherwise.                                          *)
Owed(a) == IF GetMinOffset(shard.window, a) # NoOffset
           THEN GetMinOffset(shard.window, a)
           ELSE actors[a].pause

RecycleSeek ==
  /\ Receives("idle")
  /\ Owed(Sender) # NoOffset
  /\ client' = SeekMessage(client, Owed(Sender))
  /\ UNCHANGED <<poller, node, shard, actors, procs, history>>

(* Mutant: the goroutine is not told.                                      *)
StopUntold(a) == procs

StopActor(a) == [procs EXCEPT ![a].stop = TRUE]

RecycleStop ==
  /\ Receives("idle")
  /\ Owed(Sender) = NoOffset
  /\ \E outcome \in SaveOutcomes(IF actors[Sender].snapshot = {} THEN {}
                                 ELSE WithSnapshot(Actors)) :
       /\ Saved(outcome)
       /\ actors' = [Disabled(outcome) EXCEPT ![Sender].stopping = TRUE]
       /\ shard'  = outcome.next.shard
       /\ client' = outcome.next.client
  /\ procs' = StopActor(Sender)
  /\ UNCHANGED <<poller, node>>

ReceiveSnapshot ==
  /\ Receives("snapshot")
  /\ actors' = [actors EXCEPT ![Sender].snapshot = {Head(mailbox).snapshot}]
  /\ UNCHANGED <<client, poller, node, shard, procs, history>>

(* Mutant: the pause of the actor is not ended.                            *)
ReceiveReadyPaused ==
  /\ Receives("ready")
  /\ client' = IF actors[Sender].pause = NoOffset THEN client
               ELSE SeekMessage(client, actors[Sender].pause)
  /\ UNCHANGED <<poller, node, shard, actors, procs, history>>

ReceiveReady ==
  /\ Receives("ready")
  /\ IF actors[Sender].pause = NoOffset
     THEN UNCHANGED <<client, actors>>
     ELSE /\ client' = SeekMessage(client, actors[Sender].pause)
          /\ actors' = [actors EXCEPT ![Sender].pause = NoOffset]
  /\ UNCHANGED <<poller, node, shard, procs, history>>

(* keepAlive is only written.                                              *)
ReceiveAlive ==
  /\ Receives("alive")
  /\ UNCHANGED <<client, poller, node, shard, actors, procs, history>>

(***************************************************************************)
(* handleEnding: n.end has room for one; a second send blocks the node     *)
(* goroutine, which is the only one that receives from n.end.              *)
(***************************************************************************)
(* Mutant: the first actor to report ends the node.                        *)
HandleEndingEarly(n, remaining) ==
  IF n.end THEN [n EXCEPT !.stage = "blocked"] ELSE [n EXCEPT !.end = TRUE]

HandleEnding(n, remaining) ==
  IF remaining # {} THEN n
  ELSE IF n.end THEN [n EXCEPT !.stage = "blocked"]
  ELSE [n EXCEPT !.end = TRUE]

(* The actor's record in procs is garbage once its goroutine has returned. *)
Collected(a) == IF procs[a].stage = "gone" THEN NoProc ELSE procs[a]

(* Mutant: no seek for the records that came meanwhile.                    *)
NotSought(a, cl) == cl

(* Where reading goes on after the report of actor a.                      *)
SoughtAfter(a, cl) ==
  IF node.stopping \/ actors[a].pending = NoOffset
  THEN cl ELSE SeekMessage(cl, actors[a].pending)

ReceiveStopped ==
  LET a == Sender
  IN  /\ Receives("stopped")
      /\ \E outcome \in SaveOutcomes(WithSnapshot({a})) :
           /\ Saved(outcome)
           /\ shard'  = outcome.next.shard
           /\ client' = SoughtAfter(a, outcome.next.client)
      /\ actors' = Without(a)
      /\ procs' = [procs EXCEPT ![a] = Collected(a)]
      /\ node' = IF node.stopping THEN HandleEnding(node, DOMAIN actors \ {a}) ELSE node
      /\ UNCHANGED poller

-----------------------------------------------------------------------------
(* The node goroutine: stopping.                                           *)

StopAll ==
  /\ actors' = [a \in DOMAIN actors |-> [actors[a] EXCEPT !.stopping = TRUE]]
  /\ procs' = [a \in Actors |-> IF a \in DOMAIN actors
                                THEN [procs[a] EXCEPT !.stop = TRUE] ELSE procs[a]]

(* Mutant: the shard goes on taking records.                               *)
StillRegistered == shard

Unregistered == [shard EXCEPT !.registered = FALSE]

(* Mutant: a node without actors does not end.                             *)
BeforeStopWaits ==
  /\ Serving
  /\ MayStop
  /\ ~ node.stopping
  /\ poller' = [poller EXCEPT !.cancelled = TRUE]
  /\ client' = [client EXCEPT !.open = FALSE]
  /\ shard' = Unregistered
  /\ StopAll
  /\ node' = [node EXCEPT !.stopping = TRUE, !.endTimer = "armed"]
  /\ UNCHANGED <<mailbox, history>>

BeforeStop ==
  /\ Serving
  /\ MayStop
  /\ ~ node.stopping
  /\ poller' = [poller EXCEPT !.cancelled = TRUE]
  /\ client' = [client EXCEPT !.open = FALSE]
  /\ shard' = Unregistered
  /\ StopAll
  /\ node' = HandleEnding([node EXCEPT !.stopping = TRUE, !.endTimer = "armed"],
                          DOMAIN actors)
  /\ UNCHANGED <<mailbox, history>>

(* NodeStopTimeout: the timer's goroutine fills n.end, or blocks on it.    *)
EndTimer ==
  /\ Serving
  /\ node.endTimer = "armed"
  /\ ~ node.end
  /\ Fault("timeout")
  /\ node' = [node EXCEPT !.end = TRUE, !.endTimer = "fired"]
  /\ UNCHANGED <<client, poller, mailbox, shard, actors, procs>>

AfterStop ==
  /\ Serving
  /\ node.end
  /\ SnapshotBatch
  /\ node' = [node EXCEPT !.stage = "stopped", !.end = FALSE]
  /\ UNCHANGED <<poller, mailbox, procs>>

-----------------------------------------------------------------------------
(* The actor goroutines.                                                   *)

(* The goroutine's private steps leave everything else alone.              *)
Becomes(a, p) ==
  /\ procs' = [procs EXCEPT ![a] = p]
  /\ UNCHANGED <<client, poller, mailbox, node, shard, actors, history>>

(* Dedup: the identifiers of the last DedupCapacity messages handled.      *)
Seen(p) == {Log[p.executed[i]].id : i \in {j \in DOMAIN p.executed :
                                             j > Len(p.executed) - DedupCapacity}}

(***************************************************************************)
(* handle: the goroutine takes a record from its mailbox and reads how     *)
(* many are left.  Ready is sent when a mailbox that was full is half      *)
(* empty.  A send by the node between the two reads does not change the    *)
(* outcome for the capacities assumed.                                     *)
(***************************************************************************)
Takes(a) ==
  /\ procs[a].stage \in {"running", "draining"}
  /\ procs[a].out = <<>>
  /\ procs[a].mailbox # <<>>

Taken(a) == Head(procs[a].mailbox)

Duplicate(a) == Log[Taken(a)].id \in Seen(procs[a])

(* Mutant: the mailbox counts as full only at its capacity.                *)
RelievedAtCapacity(a) ==
  LET p      == procs[a]
      length == Len(p.mailbox) - 1
      full   == p.mailFull \/ length >= ActorCapacity
      ready  == full /\ length <= ActorCapacity \div 2
  IN  [p EXCEPT !.mailbox = Tail(@),
                !.mailFull = full /\ ~ ready,
                !.out = IF ready THEN <<Signal("ready", a)>> ELSE <<>>]

Relieved(a) ==
  LET p      == procs[a]
      length == Len(p.mailbox) - 1
      full   == p.mailFull \/ length >= ActorCapacity - 1
      ready  == full /\ length <= ActorCapacity \div 2
  IN  [p EXCEPT !.mailbox = Tail(@),
                !.mailFull = full /\ ~ ready,
                !.out = IF ready THEN <<Signal("ready", a)>> ELSE <<>>]

ActorSkip(a) ==
  /\ Takes(a)
  /\ Duplicate(a) \/ Log[Taken(a)].kind = "unknown"
  /\ Becomes(a, Relieved(a))

(* The handler's error is dropped, so a failure is handled like a success. *)
ActorExecute(a) ==
  /\ Takes(a)
  /\ ~ Duplicate(a)
  /\ Log[Taken(a)].kind = "handled"
  /\ Becomes(a, [Relieved(a) EXCEPT !.executed = Append(@, Taken(a))])

(* Mutant: the report comes before the last snapshot.                      *)
FinishingFirst(a, p) ==
  [p EXCEPT !.stage = "finishing",
            !.out = @ \o <<Signal("stopped", a), SnapshotSignal(a, p)>>]

(* finish: what is left in the mailbox is never handled.                   *)
Finishing(a, p) ==
  [p EXCEPT !.stage = "finishing",
            !.out = @ \o <<SnapshotSignal(a, p), Signal("stopped", a)>>]

ActorPanic(a) ==
  /\ Takes(a)
  /\ ~ Duplicate(a)
  /\ Log[Taken(a)].kind = "panics"
  /\ Becomes(a, Finishing(a, Relieved(a)))

(* idleTime is never set: the idle timer is always due.                    *)
ActorIdle(a) ==
  /\ procs[a].stage = "running"
  /\ procs[a].out = <<>>
  /\ history.timers < MaxTimers
  /\ history' = [history EXCEPT !.timers = @ + 1]
  /\ procs' = [procs EXCEPT
       ![a].out = <<SnapshotSignal(a, procs[a]), Signal("idle", a)>>]
  /\ UNCHANGED <<client, poller, mailbox, node, shard, actors>>

(* alive: offsetAdvanced is never raised, so no snapshot is taken.         *)
ActorAlive(a) ==
  /\ procs[a].stage = "running"
  /\ procs[a].out = <<>>
  /\ history.timers < MaxTimers
  /\ history' = [history EXCEPT !.timers = @ + 1]
  /\ procs' = [procs EXCEPT ![a].out = <<Signal("alive", a)>>]
  /\ UNCHANGED <<client, poller, mailbox, node, shard, actors>>

ActorStop(a) ==
  /\ procs[a].stage = "running"
  /\ procs[a].out = <<>>
  /\ procs[a].stop
  /\ Becomes(a, [procs[a] EXCEPT !.stage = "draining", !.stop = FALSE])

ActorFinish(a) ==
  /\ procs[a].stage = "draining"
  /\ procs[a].out = <<>>
  /\ procs[a].mailbox = <<>>
  /\ Becomes(a, Finishing(a, procs[a]))

(* signal blocks until the node's mailbox has room; the goroutine returns  *)
(* after its last signal.                                                  *)
SignalSent(a) ==
  /\ mailbox' = Append(mailbox, Head(procs[a].out))
  /\ procs' = [procs EXCEPT
       ![a].out = Tail(@),
       ![a].stage = IF @ = "finishing" /\ Len(procs[a].out) = 1 THEN "gone" ELSE @]
  /\ UNCHANGED <<client, poller, node, shard, actors, history>>

(* Mutant: the signal does not wait for room.                              *)
ActorSignalAnyway(a) == procs[a].out # <<>> /\ SignalSent(a)

ActorSignal(a) ==
  /\ procs[a].out # <<>>
  /\ Len(mailbox) < NodeCapacity
  /\ SignalSent(a)

-----------------------------------------------------------------------------
(***************************************************************************)
(* The process dies, at any moment: while it serves, while it stops, or    *)
(* where it blocks; or it has ended.  It is started again, and only the    *)
(* broker's checkpoint and the store survive.  A new actor does not load   *)
(* what was stored.                                                        *)
(***************************************************************************)
Restart ==
  /\ Fault("crash")
  /\ client' = [client EXCEPT !.position = client.checkpoint, !.paused = FALSE, !.open = TRUE]
  /\ poller' = FreshPoller
  /\ mailbox' = <<>>
  /\ node' = FreshNode
  /\ shard' = FreshShard
  /\ actors' = <<>>
  /\ procs' = [a \in Actors |-> NoProc]

PollerStep == (\E last \in Offsets : Poll(last) \/ PollError(last)) \/ Deliver \/ PollerExit

NodeReceive == Dispatcher \/ RecycleSeek \/ RecycleStop \/ ReceiveSnapshot
                          \/ ReceiveReady \/ ReceiveAlive \/ ReceiveStopped

ActorReceive(a) == ActorSkip(a) \/ ActorExecute(a) \/ ActorPanic(a)

ActorStep(a) == ActorReceive(a) \/ ActorIdle(a) \/ ActorAlive(a) \/ ActorStop(a)
                                \/ ActorFinish(a) \/ ActorSignal(a)

(***************************************************************************)
(* Where the model may come to rest: the node has halted, or no message is *)
(* under way and no timer of an actor is seen to fire any more.  A         *)
(* state with a message that nobody can receive is a deadlock.             *)
(***************************************************************************)
NothingUnderWay ==
  /\ poller.batch = <<>>
  /\ mailbox = <<>>
  /\ \A a \in Actors : procs[a].mailbox = <<>> /\ procs[a].out = <<>>

Quiet ==
  /\ \/ ~ Serving
     \/ NothingUnderWay /\ (actors = <<>> \/ history.timers = MaxTimers)
  /\ UNCHANGED vars

Next == \/ PollerStep
        \/ NodeReceive
        \/ SnapshotTimer
        \/ BeforeStop
        \/ EndTimer
        \/ AfterStop
        \/ \E a \in Actors : ActorStep(a)
        \/ Restart
        \/ Quiet

Spec == Init /\ [][Next]_vars

(***************************************************************************)
(* Every goroutine is scheduled again and again, a channel serves its      *)
(* blocked senders in order, and select picks at random among the cases    *)
(* that are ready, so a case that is ready again and again is picked.      *)
(***************************************************************************)
ActorFairness(a) ==
  /\ SF_vars(ActorReceive(a))
  /\ SF_vars(ActorIdle(a))
  /\ SF_vars(ActorStop(a))
  /\ WF_vars(ActorFinish(a))
  /\ SF_vars(ActorSignal(a))

Fairness ==
  /\ WF_vars(\E last \in Offsets : Poll(last))
  /\ SF_vars(Deliver)
  /\ WF_vars(NodeReceive)
  /\ SF_vars(SnapshotTimer)
  /\ WF_vars(AfterStop)
  /\ \A a \in Actors : ActorFairness(a)

FairSpec == Spec /\ Fairness

-----------------------------------------------------------------------------
(* The types of the variables.  The reader's position and the checkpoint   *)
(* may be one past the last record; the mailbox of the node and those of   *)
(* the actors never hold more than their channels do.                      *)

OptionalOffset == Offsets \union {NoOffset}
Positions == FirstOffset .. LastOffset + 1

SnapshotType == [offset : Offsets \union {0}, state : SUBSET Offsets]

SignalType ==
  [command : {"idle", "ready", "alive", "stopped"}, sender : Actors]
    \union [command : {"snapshot"}, sender : Actors, snapshot : SnapshotType]

MessageType == [command : {"record"}, offset : Offsets] \union SignalType

EntryType == [ stopping : BOOLEAN,
               snapshot : SUBSET SnapshotType,
               pause    : OptionalOffset,
               pending  : OptionalOffset ]

ProcType == [ stage    : {"gone", "running", "draining", "finishing"},
              mailbox  : Seq(Offsets),
              mailFull : BOOLEAN,
              executed : Seq(Offsets),
              stop     : BOOLEAN,
              out      : Seq(SignalType) ]

ShardType == [ registered : BOOLEAN,
               pause      : OptionalOffset,
               window     : [ minOffset    : OptionalOffset,
                              maxOffset    : OptionalOffset,
                              offsetActor  : SUBSET Offsets,
                              actorOffsets : [Actors -> Seq(Offsets)] ] ]

ClientType == [ position   : Positions,
                paused     : BOOLEAN,
                open       : BOOLEAN,
                checkpoint : Positions ]

PollerType == [batch : Seq(Offsets), cancelled : BOOLEAN, running : BOOLEAN]

NodeType == [ stage    : {"serving", "blocked", "stopped"},
              stopping : BOOLEAN,
              end      : BOOLEAN,
              endTimer : {"unset", "armed", "fired"} ]

HistoryType == [ durable   : SUBSET Offsets,
                 overtaken : BOOLEAN,
                 faults    : 0 .. MaxFaults,
                 timers    : 0 .. MaxTimers ]

TypeOK ==
  /\ client \in ClientType
  /\ poller \in PollerType
  /\ mailbox \in Seq(MessageType) /\ Len(mailbox) <= NodeCapacity
  /\ node \in NodeType
  /\ shard \in ShardType
  /\ DOMAIN actors \subseteq Actors /\ actors \in [DOMAIN actors -> EntryType]
  /\ \A a \in DOMAIN actors : \A s, t \in actors[a].snapshot : s = t
  /\ procs \in [Actors -> ProcType]
  /\ \A a \in Actors : Len(procs[a].mailbox) <= ActorCapacity
                       /\ Len(procs[a].out) <= 3
  /\ history \in HistoryType

(***************************************************************************)
(* Goroutines and entries of Node.actors belong together, so a record can  *)
(* never reach two goroutines of one actor: an actor without an entry has  *)
(* no goroutine and no signal under way (which is why the handlers of      *)
(* signals always find an entry), and an entry whose goroutine returned is *)
(* about to be removed.                                                    *)
(***************************************************************************)
SignalsOf(a) == {m \in Range(mailbox) : m.command # "record" /\ m.sender = a}

OneIncarnation ==
  \A a \in Actors :
    IF a \in DOMAIN actors
    THEN procs[a].stage = "gone" => Signal("stopped", a) \in SignalsOf(a)
    ELSE procs[a].stage = "gone" /\ SignalsOf(a) = {}

(***************************************************************************)
(* As long as no record was tracked or handed to an actor ahead of one     *)
(* that comes before it, a restart from the checkpoint loses nothing: the  *)
(* effects of all records below it have been stored.  Offset 0 is the      *)
(* exception: the snapshot of an actor that has handled nothing carries it *)
(* too, and the window takes the partition's first record for done; no     *)
(* other offset can be mistaken that way.                                  *)
(***************************************************************************)
CheckpointCovered ==
  ~ history.overtaken => \A o \in Missing : o >= client.checkpoint

(***************************************************************************)
(* When the node forgets an actor, everything the actor did in this life   *)
(* is stored, unless the very Save of its last snapshot failed.            *)
(***************************************************************************)
FinalSnapshotSaved ==
  [][\A a \in DOMAIN actors \ DOMAIN actors' :
       history'.faults = history.faults =>
         Range(procs[a].executed) \subseteq history'.durable]_vars

(***************************************************************************)
(* A commit passes no record that is open, be it of another actor and have *)
(* the records come in any order.                                          *)
(***************************************************************************)
CommitBelowOpen ==
  [][client'.checkpoint # client.checkpoint =>
       \A o \in shard'.window.offsetActor : client'.checkpoint <= o]_vars

(***************************************************************************)
(* The shard and the client agree whether the partition is paused, through *)
(* seeks, refused commits and restarts: a partition that is read while its *)
(* shard is paused would have its records dropped, and one that is paused  *)
(* while its shard is not would never be resumed.                          *)
(***************************************************************************)
PausedTogether == client.paused <=> shard.pause # NoOffset

(***************************************************************************)
(* The node keeps the promise of Activations: an entry of Node.actors is a *)
(* life, and what it did is what its goroutine executed.                   *)
(***************************************************************************)
DoneBy(a) == IF a \in DOMAIN actors THEN Range(procs[a].executed) ELSE {}

Phase == IF node.stage = "stopped" THEN "ended"
         ELSE IF node.stopping THEN "stopping" ELSE "serving"

Lives == INSTANCE Activations WITH
  Records <- Offsets,
  living  <- DOMAIN actors,
  done    <- [a \in Actors |-> DoneBy(a)],
  stored  <- history.durable,
  phase   <- Phase,
  gaveUp  <- node.endTimer = "fired",
  mishaps <- history.faults

LivesAreKept == Lives!Spec

(***************************************************************************)
(* A paused actor will say that it is ready.                               *)
(***************************************************************************)
ReadyComing(a) ==
  LET p == procs[a]
  IN  \/ Signal("ready", a) \in Range(p.out) \union SignalsOf(a)
      \/ Len(p.mailbox) = ActorCapacity
      \/ p.mailFull /\ Len(p.mailbox) > ActorCapacity \div 2

PausedWillBeReady ==
  \A a \in DOMAIN actors :
    actors[a].pause # NoOffset /\ procs[a].stage \in {"running", "draining"}
      => ReadyComing(a)

(***************************************************************************)
(* Such an actor is served again: its pause ends, or its entry does.       *)
(***************************************************************************)
Paused(a) == a \in DOMAIN actors /\ actors[a].pause # NoOffset

PausedResumes == \A a \in Actors : Paused(a) ~> ~ Paused(a)

(***************************************************************************)
(* When an actor has the partition for itself, a record that came while it *)
(* was stopping is handled in the end: the node seeks back to it after the *)
(* actor has reported, and the record starts a new goroutine; unless a     *)
(* record after it was fetched before the seek and overtakes it, or the    *)
(* partition is left paused without an actor to resume it.  A seek for     *)
(* another actor may undo this one: see NothingForgotten.                  *)
(***************************************************************************)
Stranded == shard.pause # NoOffset /\ actors = <<>>

Pending(o) == /\ Log[o].actor \in DOMAIN actors
              /\ actors[Log[o].actor].pending = o

HandledAgain(o) == /\ o \in Range(procs[Log[o].actor].executed)
                   /\ procs[Log[o].actor].stage = "running"

PendingIsHandled ==
  \A o \in Offsets : Pending(o) ~> HandledAgain(o) \/ history.overtaken \/ Stranded

(***************************************************************************)
(* A node that was asked to stop ends without waiting for its timeout: all *)
(* actors are told, drain their mailboxes and report, and the last report  *)
(* ends the node.                                                          *)
(***************************************************************************)
TimedOut == node.endTimer = "fired"

StopEnds == node.stopping ~> node.stage = "stopped" \/ TimedOut

(***************************************************************************)
(* That rests on this: the node waits for nobody who was not told.  An     *)
(* actor whose entry is marked as stopping has the request, or has seen    *)
(* it; while the node waits every entry is marked, and there is one.       *)
(***************************************************************************)
Told(a) == procs[a].stop \/ procs[a].stage # "running"

StopIsAnswered ==
  /\ \A a \in DOMAIN actors : actors[a].stopping => Told(a)
  /\ node.stopping => \A a \in DOMAIN actors : actors[a].stopping
  /\ node.stopping /\ Serving /\ ~ node.end => actors # <<>>

(***************************************************************************)
(* When it has ended no goroutine of an actor is left, and none waits for  *)
(* ever to send to the mailbox that nobody reads any more.                 *)
(***************************************************************************)
StoppedClean ==
  node.stage = "stopped" /\ ~ TimedOut =>
    /\ actors = <<>>
    /\ \A a \in Actors : procs[a].stage = "gone"

-----------------------------------------------------------------------------
(* What the documents and comments of the repository say and the code does *)
(* not do: each of these has a run that shows how it fails.                *)

(***************************************************************************)
(* mq/mq.go:76: only the offset after the contiguously completed ones is   *)
(* committed.  Unconditional form of CheckpointCovered.                    *)
(***************************************************************************)
AllCovered ==
  \A o \in Effective : o < client.checkpoint => Among(o, history.durable)

(***************************************************************************)
(* mq/kafka.go:156 and docs/doc/mq.md:27: the caller sees to it that the   *)
(* committed offsets only grow.                                            *)
(***************************************************************************)
CommitsAdvance == [][client'.checkpoint >= client.checkpoint]_client

(***************************************************************************)
(* core/node.go:441: the seek for the records that came while an actor was *)
(* stopping starts it again.  So a record that is open and not stored, and *)
(* whose actor has no entry, comes back, unless something overtook it: it  *)
(* is on its way, or the reader has yet to get there or will be made to    *)
(* by the end of a pause or for an actor that is owed something.           *)
(***************************************************************************)
SeeksFor(a) == {Owed(a), actors[a].pause, actors[a].pending} \ {NoOffset}

ComesBack(o) ==
  \/ o \in Range(poller.batch) \/ Record(o) \in Range(mailbox)
  \/ IF shard.pause = NoOffset THEN client.position <= o ELSE shard.pause <= o
  \/ \E a \in DOMAIN actors : \E sought \in SeeksFor(a) : sought <= o

NothingForgotten ==
  \A o \in shard.window.offsetActor \intersect Missing :
    Log[o].actor \in DOMAIN actors \/ ComesBack(o) \/ history.overtaken
=============================================================================
