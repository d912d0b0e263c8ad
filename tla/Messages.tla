------------------------------ MODULE Messages ------------------------------
(***************************************************************************)
(* What actors send each other: a handler makes messages (core/context.go, *)
(* message_id.go), they become Kafka records and messages again            *)
(* (mq/convert.go, mq/kafka.go), and the receiver drops those it has seen  *)
(* (core/actor.go).  A handler that runs again sends again; that its       *)
(* messages then get the identifiers they had is what makes it harmless.   *)
(*                                                                         *)
(* How records reach an actor is the matter of Node.  Here every actor     *)
(* reads its partition on its own, again from anywhere after a seek or the *)
(* end of the process.  An identifier is a hash: it is modelled as what it *)
(* is computed from.  The handlers are the application's: Scripts says     *)
(* what each of them sends, the same whenever it runs.                     *)
(***************************************************************************)
EXTENDS SequencesExt, Integers

CONSTANTS
  Actors,
  Partitions,
  ShardOf,        \* ActorShardID
  Scripts,        \* handlers: for each registered command, what it sends
  Roots,          \* the records others put into each partition
  Timers,         \* messages of timers, by actor
  Empty,          \* the empty string
  Reserved,       \* a header with the framework's key
  DedupCapacity,  \* ActorDedupCap
  MaxFaults       \* bound: publishing that fails, seeks, ends of an activation

IsSequence(s) == s \in Seq(Range(s))

ASSUME MessagesAssumption ==
  /\ Empty \notin Actors
  /\ ShardOf \in [Actors -> Partitions]
  /\ "tick" \in DOMAIN Scripts
  /\ \A command \in DOMAIN Scripts :
       /\ IsSequence(Scripts[command])
       /\ \A send \in Range(Scripts[command]) :
            send.to \in Actors \union {Empty} /\ IsSequence(send.headers)
  /\ Roots = [p \in Partitions |-> Roots[p]]
  /\ DOMAIN Timers = Actors
  /\ DedupCapacity \in Nat \ {0} /\ MaxFaults \in Nat

VARIABLES
  log,      \* the partitions of the topic
  dead,     \* the dead letters
  actors,   \* what each actor has read and seen, and the handler it runs
  faults

vars == <<log, dead, actors, faults>>

-----------------------------------------------------------------------------
(* Conversion.  Of the headers of a record the framework's is kept apart:  *)
(* there may be none, one or several, and what it holds may be invalid.    *)

ValidMetadata(meta) ==
  /\ meta.receiver # Empty /\ meta.id # <<>> /\ meta.command # Empty
  /\ meta.type \in {"memory", "timer", "network"}

(* A payload of bytes is sent as it is, another one as JSON.               *)
Value(payload) == IF payload.bytes THEN payload.of ELSE <<"json", payload.of>>

Metadata(m) == [receiver |-> m.receiver, type |-> m.type, id |-> m.id,
                command |-> m.command, cause |-> m.cause]

(* The set has the record, or is empty when the message is rejected.       *)
FromMMMessage(m) ==
  IF ValidMetadata(Metadata(m)) /\ Reserved \notin Range(m.headers)
  THEN {[key |-> m.receiver, framework |-> <<Metadata(m)>>,
         headers |-> m.headers, value |-> Value(m.payload)]}
  ELSE {}

Decoded(r, headers, offset) ==
  LET meta == r.framework[1]
  IN  [ receiver |-> meta.receiver, type |-> meta.type, id |-> meta.id,
        command |-> meta.command, cause |-> meta.cause, headers |-> headers,
        payload |-> [bytes |-> TRUE, of |-> r.value], offset |-> offset ]

Decodable(r) == /\ Len(r.framework) = 1
                /\ ValidMetadata(r.framework[1])
                /\ r.key = r.framework[1].receiver

(* What can be in the log: the framework's header is never among the others. *)
MetadataOK(meta) ==
  /\ meta = [receiver |-> meta.receiver, type |-> meta.type, id |-> meta.id,
             command |-> meta.command, cause |-> meta.cause]
  /\ meta.receiver \in Actors \union {Empty}

RecordOK(r) ==
  /\ r = [key |-> r.key, framework |-> r.framework,
          headers |-> r.headers, value |-> r.value]
  /\ r.key \in Actors \union {Empty}
  /\ IsSequence(r.framework) /\ \A meta \in Range(r.framework) : MetadataOK(meta)
  /\ IsSequence(r.headers) /\ Reserved \notin Range(r.headers)

Logged(partition) == {partition[i].framework[1] : i \in {j \in DOMAIN partition : Decodable(partition[j])}}

RootMetadata == UNION {Logged(Roots[p]) : p \in Partitions}

(***************************************************************************)
(* What others write: their identifiers and causes tell their messages     *)
(* apart, and none is one that GenerateMessageID makes, nor the key of a   *)
(* timer; the identifiers are hashes, and random strings.                  *)
(***************************************************************************)
ASSUME RootsAssumption ==
  /\ \A p \in Partitions : /\ IsSequence(Roots[p])
                           /\ \A r \in Range(Roots[p]) : RecordOK(r)
  /\ \A meta \in RootMetadata : Len(meta.id) # 4 /\ Len(meta.cause) = 1
  /\ \A meta, other \in RootMetadata :
       meta.id = other.id \/ meta.cause = other.cause => meta = other
  /\ \A a \in Actors : \A timer \in Timers[a] :
       /\ timer = <<timer[1], timer[2]>>
       /\ Len(timer[1]) # 4
       /\ \A meta \in RootMetadata : meta.id # timer[1]

(* Mutant: the framework's header is handed on with the others.            *)
ToMMMessageWithAll(r, offset) ==
  IF Decodable(r) THEN {Decoded(r, <<Reserved>> \o r.headers, offset)} ELSE {}

ToMMMessage(r, offset) ==
  IF Decodable(r) THEN {Decoded(r, r.headers, offset)} ELSE {}

-----------------------------------------------------------------------------
(* The context of a handler.                                               *)

(* Mutant: two messages to one receiver are not told apart.                *)
GenerateUnnumbered(parent, sender, receiver, seq) == <<parent, sender, receiver>>

GenerateMessageID(parent, sender, receiver, seq) == <<parent, sender, receiver, seq>>

None == {}

NoSequences == [a \in Actors \union {Empty} |-> 0]

(* Mutant: the numbers go on from one handler to the next.                 *)
KeepsCounting(sequences) == sequences

(* The counters a handler starts with, given those of the last one.        *)
NewSequences(sequences) == NoSequences

Idle == [handling |-> None, sending |-> None, step |-> 1]

NewActor == [ next      |-> 1,
              seen      |-> <<>>,
              sequences |-> NoSequences,
              fired     |-> {},
              context   |-> Idle,
              handled   |-> <<>> ]   \* history: causes, in order

Init ==
  /\ log = Roots
  /\ dead = <<>>
  /\ actors = [a \in Actors |-> NewActor]
  /\ faults = 0

Busy(a) == actors[a].context # Idle

Handling(a) == CHOOSE m \in actors[a].context.handling : TRUE
Sending(a) == CHOOSE m \in actors[a].context.sending : TRUE

Script(a) == Scripts[Handling(a).command]
Finished(a) == actors[a].context.step > Len(Script(a))

Fault == faults < MaxFaults /\ faults' = faults + 1

(* An actor's private step.                                                *)
Becomes(a, x) == actors' = [actors EXCEPT ![a] = x]

(* NewContext, for the handler of message m.                               *)
Running(x, m) == [x EXCEPT !.context = [Idle EXCEPT !.handling = {m}],
                           !.sequences = NewSequences(@)]

-----------------------------------------------------------------------------
(* The actor receives.                                                     *)

Offset(a) == actors[a].next

Reads(a) == ~ Busy(a) /\ Offset(a) <= Len(log[ShardOf[a]])

Received(a) == ToMMMessage(log[ShardOf[a]][Offset(a)], Offset(a))

Known(a, id) == id \in Range(actors[a].seen)

(* Not decoded, of a type the node has no use for, or another actor's.     *)
Reaches(a, m) == m.type = "network" /\ m.receiver = a

Registered(m) == m.command \in DOMAIN Scripts

Skip(a) ==
  /\ Reads(a)
  /\ \A m \in Received(a) :
       ~ Reaches(a, m) \/ Known(a, m.id) \/ ~ Registered(m)
  /\ Becomes(a, [actors[a] EXCEPT !.next = @ + 1])
  /\ UNCHANGED <<log, dead, faults>>

Begin(a) ==
  /\ Reads(a)
  /\ \E m \in Received(a) :
       /\ Reaches(a, m)
       /\ ~ Known(a, m.id)
       /\ Registered(m)
       /\ Becomes(a, Running([actors[a] EXCEPT !.next = @ + 1], m))
  /\ UNCHANGED <<log, dead, faults>>

(***************************************************************************)
(* AddTimer: the message of a timer that is due.  Bound: in one activation *)
(* a timer is not set twice with the same key for the same second, for     *)
(* these two would have one identifier.                                    *)
(***************************************************************************)
TimerMessage(a, timer) ==
  [ receiver |-> a, type |-> "timer", command |-> "tick",
    id |-> GenerateMessageID(timer[1], a, a, timer[2]),
    cause |-> <<a, timer[1], timer[2]>>,
    headers |-> <<>>, payload |-> [bytes |-> FALSE, of |-> Empty], offset |-> 0 ]

BeginTimer(a) ==
  /\ ~ Busy(a)
  /\ \E timer \in Timers[a] \ actors[a].fired :
       Becomes(a, Running([actors[a] EXCEPT !.fired = @ \union {timer}],
                          TimerMessage(a, timer)))
  /\ UNCHANGED <<log, dead, faults>>

-----------------------------------------------------------------------------
(* The handler sends.                                                      *)

(***************************************************************************)
(* Context.NewMessage leaves the type at its zero, memory; send.type is    *)
(* what the handler makes of it.  Headers are not inherited.  (The sender, *)
(* in which NewMessage swaps type and id, tells nothing apart here.)       *)
(***************************************************************************)
Made(a, send) ==
  [ receiver |-> send.to, type |-> send.type, command |-> send.command,
    id |-> GenerateMessageID(Handling(a).id, a, send.to, actors[a].sequences[send.to]),
    cause |-> <<Handling(a).cause, actors[a].context.step>>,
    headers |-> send.headers, payload |-> send.payload, offset |-> 0 ]

NewMessage(a) ==
  /\ Busy(a) /\ ~ Finished(a)
  /\ actors[a].context.sending = None
  /\ LET send == Script(a)[actors[a].context.step]
     IN  Becomes(a, [actors[a] EXCEPT !.sequences[send.to] = @ + 1,
                                      !.context.sending = {Made(a, send)}])
  /\ UNCHANGED <<log, dead, faults>>

Publishing(a) == Busy(a) /\ actors[a].context.sending # None

Stores(r) == LET p == ShardOf[r.key]
             IN  log' = [log EXCEPT ![p] = Append(@, r)]

Publish(a) ==
  /\ Publishing(a)
  /\ \E r \in FromMMMessage(Sending(a)) : Stores(r)
  /\ Becomes(a, [actors[a] EXCEPT !.context.sending = None, !.context.step = @ + 1])
  /\ UNCHANGED <<dead, faults>>

(* The broker has the record but the handler gets an error; it may publish *)
(* the same message again.                                                 *)
PublishUnanswered(a) ==
  /\ Publishing(a)
  /\ \E r \in FromMMMessage(Sending(a)) : Stores(r)
  /\ Fault
  /\ UNCHANGED <<dead, actors>>

-----------------------------------------------------------------------------
(* The handler returns.                                                    *)

(* Mutant: the ring is left one longer than it may be.                     *)
LatestAndOne(ids) == IF Len(ids) > DedupCapacity + 1 THEN Tail(ids) ELSE ids

Latest(ids) == IF Len(ids) > DedupCapacity THEN Tail(ids) ELSE ids

(* handleNetwork: with an error, too.  A timer's message is not remembered.*)
Returned(a) ==
  LET x == [actors[a] EXCEPT !.context = Idle]
  IN  IF Handling(a).type = "timer" THEN x
      ELSE [x EXCEPT !.seen    = Latest(Append(@, Handling(a).id)),
                     !.handled = Append(@, Handling(a).cause)]

Return(a) ==
  /\ Busy(a)
  /\ Finished(a)
  /\ Becomes(a, Returned(a))
  /\ UNCHANGED <<log, dead, faults>>

(* What a handler that cannot publish gives up is not sent any more.       *)
GivesUp(a) ==
  /\ Publishing(a)
  /\ IF FromMMMessage(Sending(a)) = {} THEN UNCHANGED faults ELSE Fault
  /\ Becomes(a, Returned(a))

GiveUp(a) == GivesUp(a) /\ UNCHANGED <<log, dead>>

(* DLQ appends the record's place to the headers.  Bound: handlers hand    *)
(* over records only; a timer's message would pass for the record 0.       *)
Source(m) == [partition |-> ShardOf[m.receiver], offset |-> m.offset]

DLQ(m) == {[r EXCEPT !.headers = Append(@, Source(m))] : r \in FromMMMessage(m)}

GiveUpDead(a) ==
  /\ GivesUp(a)
  /\ Handling(a).offset > 0
  /\ \E r \in DLQ(Handling(a)) : dead' = Append(dead, r)
  /\ UNCHANGED log

-----------------------------------------------------------------------------
(* The node reads again, or the activation ends with all the actor had     *)
(* seen: the process ends, the handler panics or the actor is recycled.    *)
Seek(a) ==
  /\ Fault
  /\ \E o \in 1 .. Offset(a) - 1 : Becomes(a, [actors[a] EXCEPT !.next = o])
  /\ UNCHANGED <<log, dead>>

Restart(a) ==
  /\ Fault
  /\ \E o \in 1 .. Offset(a) : Becomes(a, [NewActor EXCEPT !.next = o])
  /\ UNCHANGED <<log, dead>>

(* The model rests when no handler runs and all is read.                   *)
Quiet ==
  /\ \A a \in Actors : ~ Busy(a) /\ ~ Reads(a)
  /\ UNCHANGED vars

Next ==
  \/ \E a \in Actors :
       \/ Skip(a) \/ Begin(a) \/ BeginTimer(a)
       \/ NewMessage(a) \/ Publish(a) \/ PublishUnanswered(a)
       \/ Return(a) \/ GiveUp(a) \/ GiveUpDead(a)
       \/ Seek(a) \/ Restart(a)
  \/ Quiet

Spec == Init /\ [][Next]_vars

-----------------------------------------------------------------------------
AtMostOne(S) == \A x, y \in S : x = y

ContextOK(c) ==
  /\ c = [handling |-> c.handling, sending |-> c.sending, step |-> c.step]
  /\ AtMostOne(c.handling) /\ AtMostOne(c.sending)
  /\ c.handling = None <=> c = Idle

ActorOK(a, x) ==
  /\ x = [next |-> x.next, seen |-> x.seen, sequences |-> x.sequences,
          fired |-> x.fired, context |-> x.context, handled |-> x.handled]
  /\ IsSequence(x.seen) /\ Len(x.seen) <= DedupCapacity
  /\ x.sequences \in [Actors \union {Empty} -> Nat]
  /\ x.fired \subseteq Timers[a]
  /\ ContextOK(x.context)
  /\ IsSequence(x.handled)

(* The records, the contexts and the rings have their types, and a handler *)
(* is within its script.                                                   *)
TypeOK ==
  /\ log = [p \in Partitions |-> log[p]]
  /\ \A p \in Partitions : /\ IsSequence(log[p])
                           /\ \A r \in Range(log[p]) : RecordOK(r)
  /\ IsSequence(dead)
  /\ \A r \in Range(dead) : r.key \in Actors
  /\ actors = [a \in Actors |-> actors[a]]
  /\ \A a \in Actors : /\ ActorOK(a, actors[a])
                       /\ Offset(a) \in 1 .. Len(log[ShardOf[a]]) + 1
                       /\ Busy(a) => actors[a].context.step \in 1 .. Len(Script(a)) + 1
  /\ faults \in 0 .. MaxFaults

(***************************************************************************)
(* A record an actor drops as one it has seen is one it has handled: no    *)
(* two messages get one identifier, whichever handlers ran again, in       *)
(* whatever order, and wherever they were interrupted.                     *)
(***************************************************************************)
NothingSwallowed ==
  \A a \in Actors : \A r \in Range(log[ShardOf[a]]) :
    \A m \in ToMMMessage(r, 0) :
      Reaches(a, m) /\ Known(a, m.id) => m.cause \in Range(actors[a].handled)

(***************************************************************************)
(* However often a handler ran and its messages were published, the        *)
(* receiver handles each of them once in an activation, as long as no more *)
(* than DedupCapacity others came in between.                              *)
(***************************************************************************)
HandledOnce ==
  \A a \in Actors : \A i, j \in DOMAIN actors[a].handled :
    i < j /\ actors[a].handled[i] = actors[a].handled[j] => j - i > DedupCapacity

(***************************************************************************)
(* What was read can be sent on, or become a dead letter, and is the same  *)
(* record again: nothing a producer can write leads to a message that the  *)
(* conversion then rejects, and a payload is not encoded twice.  A dead    *)
(* letter says in its last header which record it was.                     *)
(***************************************************************************)
SentOnUnchanged ==
  /\ \A a \in Actors : Busy(a) /\ Handling(a).offset > 0 =>
       FromMMMessage(Handling(a)) = {log[ShardOf[a]][Handling(a).offset]}
  /\ \A i \in DOMAIN dead :
       LET source == Last(dead[i].headers)
       IN  [dead[i] EXCEPT !.headers = Front(@)] = log[source.partition][source.offset]
=============================================================================
