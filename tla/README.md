# TLA+ development for goactor

goactor is an actor runtime on top of a Kafka partition. A *node* reads the
partition of a *shard*, hands each record to the goroutine of the *actor* it is
addressed to, collects the actors' snapshots, stores them in batches, and
commits to Kafka the offset from which a restarted node has to read again.

The question this development asks is the one the design stands or falls with:
**does a restart from the committed offset, a seek, a pause, a recycled actor or
a stop ever lose a record, hang, or run an actor twice?**

- `Inflight*.tla`, `OffsetCommit.tla`: the bookkeeping that decides what is
  committed, shown to implement an abstract promise.
- `Node.tla`, `Activations.tla`: the node goroutine, the actor goroutines, the poll
  goroutine, the Kafka client and the store, with crashes, failed saves and commits,
  the stop timeout; checked by TLC under six configurations, its safety properties
  proved, and shown to implement an abstract promise about the lives of actors.
- `Ring.tla`, `Dedup.tla`, `Recent.tla`: the ring by which an actor recognises
  redelivered messages, shown to implement an abstract promise.
- `QuadHeap.tla`, `ActorTimers.tla`, `DueQueue.tla`: an actor's timers, from the
  heap to the message in a mailbox that may be full, shown to implement a queue
  of what is due.
- `SnapshotStore.tla`, `FencedStore.tla`: the store with its two backends, and
  several nodes that each believe they own an actor, shown to implement a fence.
- `Messages.tla`: what handlers send each other, from the context to the record
  and back, with handlers that run again.

Each of these is checked by TLC on a small instance (section 3). Every safety
property and every refinement that a passing run checks is also proved with TLAPS,
for every value of the constants (section 4).

Running it: `tlc -config MCNode_stop.cfg MCNode` (any other pair in the table of
runs), `tlapm NodeProofs.tla` (any other module whose name ends in `Proofs`).

---

## 1. Inventory of the system

| Component | Source | State | Operations |
|---|---|---|---|
| Node | `core/node.go`, `node_actor.go`, `node_shard.go` | `actors` (entries with `stopping`, `snapshot`, `pause`, `pending`), `shards` (`pause`, `inflight`), `registerShards`, `stopping`, `mailbox`, `stop`, `end`, two timers | `Dispatcher`, `receiveSnapshot`, `receiveIdle`/`recycleActor`, `receiveReady`, `receiveStopped`, `snapshotBatch`, `beforeStop`, `afterStop`, `startPoll` |
| In-flight window | `core/inflight.go` | `minOffset`, `maxOffset`, `offsetActor`, `actorOffsets` | `Add`, `Full`, `GetMinOffset`, `Complete` |
| Actor | `core/actor.go` | `mailbox`, `stop`, `mailFull`, state, offset, dedup ring, idle and alive timers | receive loop, `handleNetwork`, `drain`, `finish`, `signal*` |
| Dedup ring | `core/dedup.go`, `structs/ring.go` | ring of ids, set of ids | `Add`, `Has`, `Reset`, `Restore`; `Push`, `Pop`, `Clear` |
| Actor timers | `core/timer.go`, `structs/quadheap.go`, `Actor.AddTimer`, `handleTimerTrigger` | 4-ary heap with a map of places and a counter of insertions, one `time.Timer` | add, move, cancel, expiry, retry, calibration |
| Kafka client | `mq/kafka.go`, `mq/mq.go` | position, pause, committed offset | `Subscribe`, `Poll`, `SeekMessage`, `PausePartition`, `ResumePartition`, `CommitOffset`, `Close` |
| Messages between actors | `core/context.go`, `message_id.go`, `handler.go`, `mq/convert.go` | per handler: how many messages went to each receiver | `NewMessage`, `GenerateMessageID`, `FromMMMessage`, `ToMMMessage`, `Publish`, `DLQ` |
| Snapshot store | `storage/*.go` | one row per actor, with a version | `Save` (one or a batch), `Load` |
| Factory, sharding | `core/factory.go`, `shard.go`, `message/mm/shard.go` | registries | look-ups |
| Containers | `structs/*.go` | | maps, sets, optional values |
| Generated code, example | `message/proto`, `examples/kafka` | | |

**How they interact.** Nothing is shared but channels. The node goroutine is the
only one that touches the node's state. Its mailbox carries two kinds of
messages: records, from the poll goroutine, and the signals *snapshot*, *idle*,
*ready* and *stopped*, from the actors. Both senders block while it is full. The
node sends to an actor's mailbox without blocking (a full mailbox *pauses* the
actor: it is sent nothing until it reports *ready*) and to its `stop` channel,
which has room for one. Seeks, pauses, resumes and commits are direct calls into
the Kafka client, while the poll goroutine goes on reading with the same client.

**What is hard.**

- A seek does not take back what was fetched: the batch of the poll goroutine,
  the node's mailbox and the actor's mailbox still hold later records.
- An actor's end takes three steps in two goroutines (told to stop, last
  snapshot, report), and records for it go on arriving between them.
- What is completed in the window is decided by the *offset* in a snapshot, not
  by the records handled.
- `Save` may store a part of a batch; a commit may be refused, or take effect
  and its answer be lost; the process may die between any two of these.
- A full mailbox is noticed by the node, its relief by the actor, with two
  different readings of its length.
- The end of the node is triggered by the last report or by a timeout, through a
  channel with room for one that only the node itself reads.
- An actor delivers its own timers into the mailbox it alone empties: it must not
  block when that is full, and must not sleep through what is left.
- Two nodes may believe they own an actor, and a save that its caller gave up may
  still be carried out; only the version in the row decides.
- A handler that runs again sends again. Nothing remembers what it sent: the
  identifiers of its messages have to come out the same.

**What makes each part correct.**

| Part | Correct when |
|---|---|
| Window | its two maps describe the same offsets; its bounds follow them; no commit passes a tracked offset; everything below the commit is finished |
| Node + actors | at most one goroutine of an actor; the checkpoint passes only stored effects; a record that came while its actor was stopping is handled later; a node asked to stop ends by itself, with everything stored and nobody left |
| Mailbox back-pressure | a pause is always ended by a *ready* that is still to come, and the actor is served again |
| Dedup ring | ring and set are the same set; it holds exactly the latest identifiers |
| Timers | heap, map and numbers agree; messages are sent when due, in order, once; a pending timer always wakes the goroutine in time; none stays overdue |
| Store | only the activation that moved the fence last writes; what Save confirmed stays; a snapshot is saved in the end |
| Messages | what a receiver drops as known it has handled; it handles no message twice; what was read can be sent on unchanged |

---

## 2. Modules and their correspondence to the code

| Module | Models | Extends / instantiates |
|---|---|---|
| `InflightWindow` | `core/inflight.go` as pure operators on a record with the struct's fields | |
| `OffsetCommit` | abstract: offsets are accepted in log order, finished in any order, the checkpoint moves only over what is finished | |
| `Inflight` | the window as the node uses it: `Dispatch` (`Dispatcher`), `CompleteOffset` (`completeOffset`) | extends `InflightWindow`, instantiates `OffsetCommit` |
| `Activations` | abstract: an actor has one life at a time, what it did in it is stored before the node forgets it, and a node that stops begins none | |
| `Node` | node, actors, poll goroutine, Kafka client, store | extends `InflightWindow`, instantiates `Activations` |
| `Ring` | `structs/ring.go` with a positive capacity | |
| `Recent` | abstract: the last `Limit` identifiers, each once, oldest first | |
| `Dedup` | `core/dedup.go` | extends `Ring`, instantiates `Recent` |
| `QuadHeap` | `structs/quadheap.go` | |
| `DueQueue` | abstract: pending timers in the order they were set, the first that is due becomes a message | |
| `ActorTimers` | `core/timer.go` and the actor's use of it | extends `QuadHeap`, instantiates `DueQueue` |
| `FencedStore` | abstract: one content per actor, replaced only by a holder of its fence | |
| `SnapshotStore` | `storage/mongo.go`, `storage/postgres.go` and the nodes' calls of them | instantiates `FencedStore` |
| `Messages` | `core/context.go`, `message_id.go`, `handler.go`, `mq/convert.go`, `Publish` and `DLQ` | |
| `MCInflight`, `MCNode`, `MCDedup`, `MCActorTimers`, `MCSnapshotStore`, `MCMessages` | instances for TLC | |
| `InflightWindowProofs` | lemmas about one call on an arbitrary window | extends `InflightWindow` |
| `InflightProofs` | theorems about `Inflight` | extends `Inflight`, `InflightWindowProofs` |
| `NodeProofs` | theorems about the life of actors and of the node | extends `Node`, `InflightWindowProofs` |
| `NodeCheckpointProofs` | theorems about the committed offset | extends `NodeProofs` |
| `DedupProofs`, `SnapshotStoreProofs`, `MessagesProofs` | theorems about `Dedup`, `SnapshotStore`, `Messages` | each extends its module |
| `ActorTimersProofs` | the heap's operations, then theorems about `ActorTimers` | extends `ActorTimers` |

### The window

A window is a record with the four fields of the Go struct. Go's `offsetActor`
map is read only for its keys, so it is a set here. `DoneCount` is the loop of
`remove` with its break at the first offset above the bound: the list is in
order of *arrival*, so after a redelivery a smaller offset may stand behind a
larger one and survive. `Add` does not lower `minOffset`. Both are kept, for
they are what makes the invariants of the window less than obvious.

`Inflight` has two specifications. In `Spec` offsets arrive in any order: what is
left of correctness when records overtake each other. In `OrderedSpec` an offset
arrives for the first time only after all smaller ones, and may arrive again.
`finished` is a history variable. A snapshot's offset may be any offset of the
partition, or the 0 a fresh actor reports; several complete in one batch.

### The node

| Variable | Go |
|---|---|
| `client` | position, pause and open/closed of the Kafka client; `checkpoint` is what the consumer group holds, at the broker |
| `poller` | the batch the poll goroutine is delivering, its context, whether it runs |
| `mailbox` | `Node.mailbox` |
| `node` | where the node goroutine is (*serving*, *blocked* on `n.end`, *stopped*), `stopping`, whether `n.end` is filled, the stop timer |
| `shard` | the `NodeShard` (`pause`, `inflight`) and its registration |
| `actors` | `Node.actors`; a key is present as long as in Go |
| `procs` | per actor: the goroutine's stage, its mailbox, `mailFull`, `stop`, the records whose handler it ran (its state, dedup ring and offset), and `out`, the signals it has to send before it does anything else |
| `history` | `durable`: effects in the store; the rest are ghosts and counters |

A record is named by its offset; `Log` gives its actor, id and kind. The kinds
are the classes the code tells apart: handled, no handler, a handler that panics,
an unknown receiver type, a memory message, and one that cannot be decoded.

Every handler of the node goroutine is one atomic action, for the node goroutine
is the only one that reads or writes what it changes; where a handler has early
returns it is split into one action per path (`DispatchFull`, `DispatchPending`,
...), whose guards exclude each other. A handler that saves includes the save,
the completion of the window, the commit, the resume, with every outcome of each
(`SaveOutcomes`, `Commits`). An actor's turn is atomic up to the signals it
produces; each signal is a step of its own since it may block.

| Action | Code |
|---|---|
| `Poll`, `PollError`, `Deliver`, `PollerExit` | `startPoll`, `Kafka.Poll`, `decodeFetches` |
| `Dispatch*` | `Node.handle`, `Dispatcher`, `startActor` |
| `RecycleSeek`, `RecycleStop` | `receiveIdle`, `recycleActor`, `stopActor` |
| `ReceiveSnapshot`, `ReceiveReady`, `ReceiveAlive`, `ReceiveStopped` | the receivers of the same name |
| `SnapshotTimer` | `snapshotBatch` on the timer |
| `BeforeStop`, `EndTimer`, `AfterStop` | `beforeStop`, its timer, `afterStop` |
| `ActorSkip`, `ActorExecute`, `ActorPanic` | `Actor.handle`, `handleNetwork`, the recover of `Start` |
| `ActorIdle`, `ActorAlive`, `ActorStop`, `ActorFinish`, `ActorSignal` | idle timer, alive timer, `startStopping`, `drain`/`finish`, `signal` |
| `Restart` | the process dies, whether it serves, stops, blocks or has ended, and is started again |

`history.overtaken` records that a record went past an effective one before it
that is *missing*, neither stored nor certain to be handled first:

- it was put in an actor's mailbox ahead of an earlier missing record of that actor
  (`Overtakes`), or
- the window came to track it while an earlier missing one was not tracked (`Leaps`).

Two records with one id stand for each other (`Among`), since the dedup ring takes
the second for the first. The repository says that no record goes past another
(`mq/mq.go:76-80`); it happens (finding 1). The guarantees that do hold, hold until
it happens, so the ghost is the exact line between them: it appears as a hypothesis
in `CheckpointCovered` and as an escape in `PendingIsHandled` and `NothingForgotten`,
nowhere else.

In the refinement to `Activations` an entry of `Node.actors` is a life, what it did
is what its goroutine executed, a fault is a mishap, and the stop timer is what gives
up waiting. `Forget` is where a design like this one goes wrong: it has to store, in
the step in which the entry is deleted, what the last life of the actor did.

The second case of *overtaken* was found by trying to prove `CheckpointCovered` with the first one
alone. A record is refused because the window is full; a batch completes; a later
record, fetched already, is tracked for an actor that is stopping, and handed to
nobody; it completes with that actor's last snapshot, the window is empty, and
`maxOffset + 1` is committed: past the refused record, although nothing was ever
*handed* to an actor out of order. It takes 2 actors, 6 records and a window of 3.

### The ring

`Ring` has the slice, `head` and `size`; `Pop` zeroes the slot and resets the
head of an emptied ring. `Dedup` is ring and set together. `Restore` takes what
another ring held, possibly more than this one's capacity. The core never calls
`Reset` and `Restore` (nothing loads snapshots); they are modelled because a
caller of `Load` will. `Node` uses the promise rather than the ring: `Seen` is
the last `DedupCapacity` ids handled.

### The timers

| Variable | Go |
|---|---|
| `heap` | `QuadHeap`: `items`, `indexes`, `nextSeq` |
| `trigger` | the one `time.Timer`: stopped, seconds left, or fired (zero) |
| `clock` | `NowUnix()`, in seconds |
| `actor` | where the goroutine is: in its `select`, in the loop of `handleTimerTrigger` with the `now` it read, or draining |

The messages of that loop are steps of their own (`ExpireSend`), for the node may
fill the mailbox, and time may pass, between any two. `ExpireFull` is the `default`
of the inner `select`, `ExpireDone` the end of the loop. A handler sets, moves or
cancels one timer (`AddTimer`, `Del`); nothing in the repository cancels one yet, a
handler's `Context` has only `NewTimer`, but `Timer.Del` is there for it. `Add` looks
at the first entry *before* the change: an entry that is first and becomes later
leaves the timer as it was, and the goroutine wakes for nothing. `Reset` and `Stop` discard a fired timer, as they
do since Go 1.23. `Duration` keeps the sign overflow of `time.Second * Duration(n)`.
The heap's two loops are functions of the number of rounds (`SiftUp`, `SiftDown`); a
round is `Rise` or `Sink`, which leave the heap alone when the loop has ended.
The refinement to `DueQueue` reads the pending timers off the heap in the order of
their sequence numbers, so it is what renumbering and ties are held against.

### The store

| Variable | Code |
|---|---|
| `rows` | the table; `epoch` (ghost) is the activation that wrote the row |
| `active` | `Node.actors` of each node: the version, the snapshot last received |
| `calls` | the `Save` each node's goroutine waits for, and how far the database is with it |
| `late` | what a node that gave up, or died, had sent |

MongoDB carries out an unordered bulk one operation at a time, and an upsert that
matches nothing inserts in a second step (`MongoSteps`); PostgreSQL is one statement
(`PostgresSteps`). `Answer` is what `snapshotBatch` does with the result: nothing, if
there is an error. `Activate` calls `Load` if `Loading` is set. The core's
`startActor` does not: `Loading` is the difference between the design of
`docs/doc/doc.md`, which the storage package is written for, and the core as it is,
and each has a run. A state is the set of effects in it.

`history.unfenced` are the actors for which two writers have had one version: two
activations that found no row, or one that went on after a save it had lost sight
of. The code cannot tell these apart; `SavedIsKept` says nothing of them, and
`FenceHolds` has the first fence shared.

### The messages

Each actor reads its partition by itself; `Seek` and `Restart` stand for all the
reasons `Node` has to read again. A handler is a script (`Scripts`): the
application's, and deterministic. `NewMessage` makes the next message of the script
and counts, `Publish` converts and appends it, `PublishUnanswered` appends it while
the caller sees an error and may try again, `GiveUp` ends the handler with an error
(its record is remembered all the same), `GiveUpDead` after putting the record in
the dead letters. `cause` is a ghost: the root record and the steps by which a
message came about, so that two messages with one cause are the same message made
twice. Identifiers are modelled as the tuple that is hashed.

---

## 3. Runs

| Run | Properties | Bounds and why they are enough | Distinct states |
|---|---|---|---|
| `inflight` | `TypeOK`, `IndexesAgree`, `BoundsAgree`, `CheckpointCovered`, `CommitBelowTracked`, `PromiseKept` | 5 offsets with a hole, 2 actors, window of 4: `Full` bites in both of its clauses, redelivery puts lists out of order, two actors complete at once. Arrival in any order is left to the proofs, which hold for `Spec` | 3 116 |
| `dedup` | `TypeOK`, `SetIsQueue`, `RemembersRecent` | 5 ids for 3 slots: the head takes every position, evicted ids return; restores of 4 ids into 3 slots | 206 |
| `timers` | `TypeOK`, `HeapKept`, `WakesInTime`, `SentWhenDue`, `Expires` | 3 timers in a heap with 2 children per entry, numbers up to 4 so that renumbering happens, a mailbox of 2 that 3 records fill, deadlines 0 to 2, one that never comes and whose duration overflows. The ASSUME of `MCActorTimers` checks the heap with 4 children and 10 entries, the least in which filling a gap may need an entry to go up | 137 127 |
| `store` | `TypeOK`, `SavedIsKept`, `FenceHolds`, `SavedInTheEnd` | both backends, 2 nodes; one actor may run on both at once, the other shares its batches; 2 snapshots, so that one can follow what another left, 2 faults | 353 295 |
| `messages` | `TypeOK`, `NothingSwallowed`, `HandledOnce`, `SentOnUnchanged` | 2 actors, requests that make one send twice to the other, send what cannot be sent, a timer, foreign records; a ring of 2, 2 faults | 527 663 |
| `node_recovery` | `TypeOK`, `OneIncarnation`, `CheckpointCovered`, `PausedTogether`, `CommitBelowOpen`, `LivesAreKept` | 2 actors, 3 alternating records from offset 0 on, read one at a time, window of 2 so that the partition pauses, one timer signal, the stop at any moment, 2 faults of 4 kinds: a fault, and another while recovering from it or while stopping | 432 764 |
| `node_redelivery` | `PausedWillBeReady`, `PausedResumes`, `PendingIsHandled` | 1 actor, 5 records for a mailbox of 3, a window of 3 so that the partition pauses too, one timer signal, which recycles | 19 507 |
| `node_stop` | `StoppedClean`, `FinalSnapshotSaved`, `StopEnds`, `StopIsAnswered`, `LivesAreKept` | 1 actor, 5 records of all kinds, a node's mailbox of 1 that they fill, the stop at any moment, the timeout may fire | 54 299 |
| `node_stale`, `node_forgotten`, `node_regress`, `store_reload` | see *Findings* | each is the smallest instance found that shows it | |

Every bound is a constant: `LastOffset`, `MaxBatch`, `MaxFaults`, `MaxTimers` (the
idle and alive signals of all actors together), `MaxRestored`, `MaxTime`,
`MaxRecords`, `MaxActivations`, `MaxEffects`, `Hosts`, and the capacities. The capacity of an actor's mailbox is at least
3: below, "half empty" and "nearly full" coincide, which the default of 1024
never does. A partition begins at 0 in `node_recovery`, where the snapshot of an actor
that has handled nothing, which carries offset 0 (`actor.go:242`), completes the
first record; elsewhere it begins at 1, so that this does not hide other effects.

Every run checks for deadlock. A node may come to rest, with its log read and its
actors recycled, or with the timers of the model used up (`MaxTimers`): `Quiet`
allows that, and only when it has halted or no message is under way anywhere. So
a state in which a record or a signal waits and nobody can move, say an actor
that waits for room in the node's mailbox while the node waits for the actor,
would be reported.

**Fairness** (`FairSpec`; used by the runs with liveness properties). In `Node`:

- `Poll`, `NodeReceive`, `AfterStop`, `ActorFinish`: weak fairness. A goroutine
  that can go on does so; the Go scheduler is preemptive and fair.
- `Deliver`, `ActorSignal`: strong fairness. A send to a full channel is enabled
  now and then only, but Go serves blocked senders first come, first served.
- `SnapshotTimer`, `ActorReceive`, `ActorIdle`, `ActorStop`: strong fairness. They
  are cases of a `select`, which picks at random among the ready ones: one that
  is ready again and again is picked in the end.
- None on `BeforeStop`, `EndTimer`, `Restart`, or on a fault: nobody has to ask
  for a stop, and faults need not happen. None on `PollerExit` either, since the
  poll goroutine looks at its context only while it delivers.

In `ActorTimers`, weak fairness on `Tick` (time passes) and on the loop of
`handleTimerTrigger`, strong fairness on the two cases of the `select` a timer needs;
none on the node's sends and on `Stop`. In `SnapshotStore`, weak fairness on
`SnapshotBatch` (the node's timer), `Serve` and `Answer` (the database answers whoever
waits); none on activations, faults, or what nobody waits for.

### What the passing runs show

- *Whatever crashes and fails*, an actor has at most one goroutine and no stale
  signal of an earlier life (`OneIncarnation`); as long as nothing overtook
  anything, everything below the checkpoint is stored (`CheckpointCovered`). No
  commit passes a record that is open, in whatever order records come
  (`CommitBelowOpen`). Shard and client agree whether the partition is paused
  (`PausedTogether`): each learns of it in calls of its own, some of which fail.
- *A life leaves its traces*: what an actor did is stored before it is forgotten,
  unless a save failed in that step or the process died, and nothing else is
  stored, also while records are read again and the node stops (`LivesAreKept`).
- *Back-pressure works*: a paused actor always has a reason to report ready
  (`PausedWillBeReady`): the signal is on its way, the mailbox is full, or
  `mailFull` is set with more than half of it left; and its pause ends.
- *A record that came to a stopping actor* is handled by a new goroutine
  (`PendingIsHandled`), if that actor has the partition for itself, no later record
  overtakes it and the partition is not left paused with no actor. Each of these
  conditions is needed (findings 1 and 2).
- *A node asked to stop* ends by its actors' last report (`StopEnds`), before which
  their last snapshots are saved (`FinalSnapshotSaved`, also with panicking
  handlers); it waits for nobody who was not told (`StopIsAnswered`).
- *Timers* are sent when due, the earliest first and the first of equals, once
  (`SentWhenDue`), are never slept through (`WakesInTime`) and do not stay overdue,
  whatever fills the mailbox (`Expires`).
- *The version fences*: a node that lost an actor, and whatever it had sent, cannot
  replace the new owner's state (`FenceHolds`, `SavedIsKept`), provided activations
  call `Load`; a spurious "stale" of a MongoDB upsert is overcome by the retry
  (`SavedInTheEnd`). That property also marks a limit: one actor of a node that is
  fenced out keeps the other actors of the node from having their offsets
  completed (`HoldsBack`), because `snapshotBatch` returns at the error and does not
  read the ids that were stored.
- *Handlers that run again* send what they sent before, and its receiver knows it
  (`HandledOnce`) without taking another message for it (`NothingSwallowed`).

### Findings

Four runs show a disagreement of the code with what the repository says of it.

1. `node_stale`/`AllCovered`: a seek while later records are already fetched lets
   one of them overtake the record sought for. The actor's next snapshot carries
   the later offset, and the checkpoint passes a record that was never handled.
   `mq/mq.go:76-80` requires that polling is stopped before a seek.
2. `node_forgotten`/`NothingForgotten`: without any fault, a record is left to nobody.
   It came while its actor was stopping, so the node seeks back to it once the actor
   has reported: "seek message will restart it" (`node.go:440-442`). But the client has
   one position for all actors of the shard. Before the poll goroutine reads there,
   the idle signal of another actor makes the node seek to *that* actor's open
   record, which is a later one (`node.go:313`). The first record is open in the
   window, its actor has no entry, and nothing will seek for it: it is not handled,
   and the checkpoint stays below it, until another record for its actor comes or
   the node is restarted. `resumeOffset`, which seeks to where a pause began
   (`node.go:556`), undoes a seek in the same way. And with a single actor
   (`OneActor`, 3 records in batches of 2, a window of 2, a `NodeCapacity` of 2 and 3
   timer signals) the record is forgotten behind a pause: the window is full of
   records that came after the last snapshot of the last actor, so nobody is left
   whose snapshot could resume the partition.
3. `node_regress`/`CommitsAdvance`: without any fault, a committed offset is smaller
   than the one before. An idle actor makes the node seek back; a snapshot already
   under way then completes the window and commits past that position; what is
   read again there fills an empty window from below the checkpoint.
   `mq/kafka.go:156` and `docs/doc/mq.md:27` leave monotony to the caller.
4. `store_reload`/`SavedIsKept`: an actor that is activated again without `Load`, as
   the core does, replaces what it had stored, contrary to `docs/doc/doc.md:19`.

Five more that have no run of their own, because they follow from a line or two:

- `beforeStop` closes the Kafka client before the actors are told to stop
  (`node.go:113`), so the commits of their last snapshots are refused.
- The stop timer may fill `n.end` just before the last report; `handleEnding` then
  blocks the only goroutine that reads it (`node.go:136`). `StopEnds` and
  `StoppedClean` hold up to that timeout only.
- The snapshot of an actor that has handled nothing completes offset 0
  (`actor.go:242`); `CheckpointCovered` exempts that offset.
- `NewMessage` swaps type and id of the sender and sets no type, so the message of
  a handler that adds none is dropped by the node it reaches (`context.go:70-84`).
- A record may be handled twice in one activation however long the dedup ring is:
  a seek below the checkpoint brings back records that have been handled,
  committed and evicted.

---

## 4. Proofs

Every theorem holds for every value of the constants: any set of actors, nodes,
identifiers or scripts, any log (in `Inflight` its offsets may be infinitely many and
have holes), any capacity and any of the bounds of section 3, which are parameters
here.

| Module | Theorem | Says |
|---|---|---|
| `InflightProofs` | `Consistent` | `Spec => []IInv` |
| | `TypeCorrect`, `MapsAgree`, `BoundsFollow` | `TypeOK`, `IndexesAgree`, `BoundsAgree` are invariants of `Spec` |
| | `CommitsStayBelow` | `Spec => CommitBelowTracked`, an action property |
| | `RestartSkipsNothing` | `OrderedSpec => []CheckpointCovered` |
| | `ImplementsPromise` | `OrderedSpec` implements `OffsetCommit` |
| `NodeProofs` | `NodeTyped`, `OneLife`, `PausedIsTold`, `StopsClean` | `TypeOK`, `OneIncarnation`, `PausedWillBeReady`, `StoppedClean` are invariants of `Spec` |
| | `PausesAgree`, `EveryoneIsTold` | `PausedTogether`, `StopIsAnswered` are invariants of `Spec` |
| | `LastSnapshotIsSaved` | `Spec => FinalSnapshotSaved`, an action property |
| | `LivesRefined` | `Spec` implements `Activations` |
| `NodeCheckpointProofs` | `CheckpointIsCovered` | `Spec => []CheckpointCovered` |
| | `CommitsPassNoOpenRecord` | `Spec => CommitBelowOpen`, an action property |
| `SnapshotStoreProofs` | `StoreTyped` | `Spec => []TypeOK` |
| | `StoreIsFenced` | if `Loading`: `Spec` implements `FencedStore` |
| | `StoreKeepsSaved` | if `Loading`: `Spec => []SavedIsKept` |
| `DedupProofs` | `RingKeepsShape`, `SetAndRingAgree` | `TypeOK`, `SetIsQueue` are invariants of `Spec` |
| | `RingRemembers` | `Spec` implements `Recent` |
| `MessagesProofs` | `MessagesTyped`, `NothingIsSwallowed`, `EachHandledOnce`, `SentOn` | `TypeOK`, `NothingSwallowed`, `HandledOnce`, `SentOnUnchanged` are invariants of `Spec` |
| `ActorTimersProofs` | `TimersTyped`, `HeapStays`, `WokenInTime` | `TypeOK`, `HeapKept`, `WakesInTime` are invariants of `Spec` |
| | `TimersKeepPromise` | `Spec` implements `DueQueue` |

**Assumptions.** The constants' `ASSUME`s, all of which TLC evaluates: offsets are
natural numbers and each record has an owner (`LogAssumption`), limits and capacities
are positive (`WindowLimitAssumption`, `CapacityAssumption`), an actor's mailbox
holds more than two (section 3). Some say more than a type:

- `RootsAssumption` of `Messages`: the identifiers that come from outside are
  different for different messages and none is the hash of another message. The
  code draws them at random or takes them from the client; a collision is possible,
  and then a message *is* swallowed.
- `TimerAssumption` of `ActorTimers`: there are no more keys than sequence numbers,
  of which the code has 2^64, so that numbering anew always leaves one for the next
  entry; and the clock does not go beyond the seconds a `time.Duration` holds
  (292 years from 1970 on), so that a deadline that has passed has a duration that is
  not positive. A deadline itself may lie beyond them.
- `Loading`, the hypothesis of the two theorems about the fence: activations call
  `Load`. As the core is, they do not, every version is 0, and `SavedIsKept` is false
  (finding 4). The theorems are about the design.

### The window

`IInv` is `TypeOK /\ IndexesAgree /\ BoundsAgree`; none of the three is
inductive alone. `Complete` removes from the set what it removes from the lists;
that this leaves the two in agreement needs that a list holds only offsets of its
own actor and none of them twice (else an offset removed through one list could
stay in another, or further back in the same one). `minOffset` is recomputed only
when it is among what was removed, so that it stays a *tracked* offset needs that
it was one, and that the maps agreed about it. `maxOffset + 1` is committed when
nothing is left, which is safe since `maxOffset` bounds all that was tracked.

`CommitBelowTracked` follows from `IInv` in one step although `minOffset` need not
be the least tracked offset: a commit happens only if the minimum advanced, and
it then was recomputed over the whole set.

`OInv` adds, for `OrderedSpec`, that what arrived is a prefix of the log
(`PrefixArrived`) and `CheckpointCovered`. If the window is empty after a
completion, everything up to `maxOffset` has arrived and is finished; otherwise
everything below the new minimum has arrived, for the minimum itself did, and is
not tracked, hence finished. That is also the guard of `OffsetCommit`'s `Finish`;
`Dispatch` maps to `Accept`.

The lemmas about one call (`CompleteKeeps`, `AddKeeps`, `RemoveSplits`,
`CommitPassesNothing` and others) speak of an arbitrary window. They are in
`InflightWindowProofs`, stated once, and used for `Inflight` and for the node.

### The life of an actor, and of the node

`IInv` of `NodeProofs` says, besides types and the window of the shard:

- `Reports`: where the goroutine of an actor is and which of its signals are under
  way determine each other. A goroutine reports *stopped* exactly once and last; one
  that has returned while its entry is still there has that report in the node's
  mailbox, with nothing of the actor behind it; an actor without entry has no
  goroutine and no message anywhere. `OneIncarnation` alone is not inductive: it
  must be known that the report is the *last* signal, or the entry could be removed
  while another one is under way that would meet the next incarnation.
- `LastKept`: from `finish` on, all that the actor has done is in the last snapshot
  of its signals still to send; then in the last of its snapshots in the mailbox;
  then in the entry; then in the store. `FinalSnapshotSaved` is the end of this
  chain, `receiveStopped` with nothing in between.
- `ReadyKept`: while a paused actor takes records, a *ready* is being sent or in
  the mailbox, or the actor's mailbox is full, or `mailFull` is set and more than
  half of it is left. The step that matters is the read that takes the first record
  from a full mailbox: unless it sends *ready* it has to leave `mailFull` set, or the
  reads that follow would not know that a *ready* is due.
- `Ending`: nothing is registered on a node that stops, so no actor is added, and
  `n.end` is filled without the timeout only when no entry is left.

`PausedTogether` and `StopIsAnswered` are inductive together with `IInv`. The first
holds because an attempt to save ends both pauses or, if the save or the commit
failed, none (`OutcomeAgrees`), and a seek touches neither. The second (`AllTold`) is
that a request to stop is lost nowhere: the channel has room for one, the entry is
marked in the step that fills it, the goroutine empties it only by leaving its
stage, and a new entry is not marked, but a stopping node starts none. That there is somebody to wait for is `handleEnding`: the report that removes
the last entry fills `n.end` in the same step.

### What was done is stored, and nothing else

`LivesRefined` maps each action of the node to a step of `Activations` or to a
stutter: `DispatchStart` to `Activate`, an actor's turn to `Handle`, the four steps
that save to `SaveSome`, `Forget` and `End`, a crash to `Die`. Most of it is that the
other actions change neither an entry nor what a goroutine executed (`SameLives`).
Three steps need an invariant:

- `Forget` promises that what the life did is stored now. This is `LastKept`, as for
  `FinalSnapshotSaved`.
- `Activate` and `End` promise that a life begins only on a node that serves, and that
  the node ends with none left or after it gave up. This is `Ending`.
- Every save promises to store nothing that no living actor did. The state it stores
  was put together by a goroutine, sent as a signal, and held in an entry until now,
  while that goroutine may have ended and another begun. `Truth` says that each
  snapshot an actor has still to send, has in the mailbox, or has in its entry shows
  only what it did in its *present* life. It is inductive since an actor without an
  entry has no signal anywhere (`Reports`): what a new life finds is blank.

### The checkpoint

`CheckpointCovered` (nothing effective below the committed offset is missing from
the store, unless something was overtaken) is the end of a chain, and each link is a
conjunct of `Chain`, for the records an actor's log holds *before* the one in
question:

| Link | Says | Without it |
|---|---|---|
| `Queued` | what is before a record in an actor's mailbox is stored, handled, or ahead of it in that mailbox | a handler runs with a gap before it |
| `Ran` | what is before a record the actor handled is stored or handled | its snapshot claims an offset it does not cover |
| `Tells`, `Honest` | a snapshot, in an entry or on its way, holds with what is stored everything up to its offset | a save completes offsets of effects it did not store |
| `NoGap` | everything missing from the window's minimum up to its maximum is tracked | the minimum passes something never tracked |
| last line of `Covers` | everything missing is at or above the checkpoint | |

All of it is under the hypothesis `~ history.overtaken`; `OvertakenStays` shows that
once set it remains so, so a step from a state in which it is set has nothing to
show. A crash empties the first three links and the window, and keeps the last one,
from which the new node rebuilds the others by reading from the checkpoint on. A
partly failed save, a refused commit and a lost answer change the store or the
checkpoint but never the order of the two. What was stored twice is harmless
because every link speaks of *at least* what is stored (`AllGrows`, `CoversGrows`).

`CommitBelowOpen` says less, that a commit passes no record the window still has as
open, and holds without that hypothesis. What is committed is the minimum of what is
left in the window, or one past the maximum when nothing is left (`CompleteKeeps`);
a batch completes the offsets of all its actors before it commits, and the steps
that do not save leave the checkpoint alone.

### The ring

The slots in use are the `size` ones from `head` on, modulo the capacity, and exactly
the others hold the zero value (`Ring`). `Add` and `Pop` then are `Append` and `Tail` on
the contents. `Restore` is a loop over a list of any length. Its result is a recursive
function of the number of identifiers taken; that it is defined, and equals the
promise's, is shown by taking the least number for which it would not be
(`WFMin`), as the provers do not take the library's induction theorems.

### The store

The versions of an actor's activations are counted in `history.versions`.
`FenceInv`: each is at most the fence, nodes and requests carry the version of
*their* activation, and there is no other. `Load` moves the fence past every earlier
version, so what an earlier activation sent, whenever it is carried out, meets a
version above its own. `KeepInv` adds that an actor that is not unfenced has one
*writer* that holds the fence, an activation or one request nobody waits for
(`OneWriter`), that what the writer holds goes on from what is stored (`GoesOn`), and
that a request still awaited is that of its node's present state (`CallsCurrent`).
The MongoDB bulk, carried out one document at a time in any order, needs that one
request has an actor once (`OneDocument`).

### The messages

`Traced`: every message is a root, a timer's, or the child that the handler of a
traced message made at some step. `OneMeaning`: two messages with one identifier, or
with one cause, are the same message. A child's identifier is made of its parent's
identifier, the two actors and the number of earlier sends to that receiver; that
this number tells the steps of one script apart is a lemma on cardinalities
(`Before`), and that a handler which runs again counts the same way is `Numbered`.
`NothingSwallowed` and `HandledOnce` then are the two directions of `OneMeaning`,
applied to a ring that holds the identifiers of the last messages handled
(`SeenIsHandled`).

### The timers

Most of the proof is about the heap, and all of it about an arbitrary heap of the
entries in a set `E` with any number of children per entry (`Good`: the entries have
different keys and numbers, each is at one place, where the map says, none is
before its parent, and the numbers are below `nextSeq`).

A sift repairs a heap in which one place may be wrong. Rising, all but that place
are behind their parents; sinking, all but its children are. Neither survives a swap
unless it is also known that the children of the place are behind its *parent*
(`Spans`): after the swap they hang below what was there. `RiseKeeps` and `SinkKeeps`
show that a round keeps this and moves the place, or has ended with all in order;
the place can move only so often (`SiftUpSorts`, `SiftDownSorts`). `FixSorts` needs
`Spans` alone, and chooses the direction, as it has to when the last entry fills a gap
or a deadline changes. That the first entry is the least of all is an argument about
the smallest place at which there were one before it (`TopIsFirst`).

The rank of an entry is how many have a smaller number. Ranks run through
`0 .. n - 1` (`RankIs`, by cardinalities), so that numbering anew assigns different
numbers in the same order. The refinement shows the entries as a list by rank.
`ListOfAnew`, `ListOfAdded`, `ListOfChanged` and `ListOfLess` say what each operation
does to it: nothing, append, replace one, remove one. Moving entries about in the
heap does not appear at all, as the list depends on the set only.

For the steps of the goroutine little is left. `IInv` adds to `Good` and the types that
the `now` of the loop over what is due is a time that has come (`NowHasCome`, else a
message could be sent before its time), and `WakesInTime`. That one is inductive because
a handler that does not set the trigger anew leaves the first deadline where it is or
makes it later (`RemoveLater`, `UpsertLater`), and because an overflowing duration
is smaller than the true one (`DurationIs`).

### What is only model-checked

- *Liveness*: `PausedResumes`, `PendingIsHandled`, `StopEnds`, `SavedInTheEnd`,
  `Expires`. The prover does not reach fairness and ENABLED. `PausedIsTold`,
  `LastSnapshotIsSaved` and `WokenInTime` are the safety half of the first, the third
  and the last.
- The runs that show a disagreement (section 3, *Findings*).

---

## 5. What is not modelled

- *Code nobody calls*: `disableActors` (nothing adds to it), `startShard`,
  `keepAlive`, `Inflight.reset`, `sync_map`, `Unsubscribe`, `NewRootContext`, the random
  ids, `GlobalTimeOffset`, `Timer.Upsert` and `All`, `QuadHeap.Pop`.
- *The deletion of an empty shard while stopping*: nothing reads it afterwards.
- *The snapshots of the alive timer*: `alive` sends one only if `offsetAdvanced` is
  positive, and nothing ever adds to it.
- *A record of type memory that bears the name of an actor's signal*: its payload is
  not the signal's, the assertion in `node.go:182-191` panics, and the process dies,
  again and again as the record is read again. The model has the other records of
  that type, which are dropped; no property speaks of either.
- *Hashing and the wire format*: which shard an actor is in is a constant, an
  identifier is what it is made of, of the headers only the framework's is told
  apart.
- *More than one shard*: a node keeps shards apart, they share only its mailbox.
- *Timers*: deadlines in the past, with which a handler that sets such a timer again
  and again can keep a later one back for ever while the mailbox is full; more than
  one operation in a handler. What was pending when an actor is recycled is lost:
  the comment at `actor.go:43-45` asks for a rebuild that no code does.
- *The store's* connection, the creation of its table, snapshots it rejects before
  sending them (an empty id, a state that cannot be encoded), and rows without a
  version, which only another program could have made.
- *Two timers with one key for one second* share the ids of what they send, and
  the second's messages are swallowed; `Messages` has one such timer.
- *The state shared between a snapshot and the running handler*: the model copies
  the state when the signal is made; the code shares it until the store encodes
  it. A hazard, listed as such, that the model does not show.
- *Generated code and the example.*

---

## 6. Plan

Done, in this order: the window and its promise; the node with its actors and
faults; the proofs about the window; the dedup ring; the timers; the store with
its fence; the messages; the proofs about the store, the ring, the messages, the
node and the timers; the lives of a node's actors, and the proof that the node
implements them.

Left, in proofs: that `Node`, as long as nothing was overtaken, implements an abstract
at-least-once consumer, whose safety half is what `Chain` says already.

Left in the model: an idle timer without a bound, the state shared with a snapshot,
and that consumer.
