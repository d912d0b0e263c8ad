----------------------------- MODULE NodeProofs -----------------------------
(***************************************************************************)
(* Theorems about the node, for every log, every set of actors, every      *)
(* capacity and every bound: types, the life of an actor's goroutine and   *)
(* its entry, its last snapshot, its pause and the partition's, how a node *)
(* stops, and that all of it keeps the promise of Activations.             *)
(***************************************************************************)
EXTENDS Node, InflightWindowProofs, SequenceTheorems

-----------------------------------------------------------------------------
(* The inductive invariant.                                                *)

(* The actor each record is addressed to.                                  *)
Owner == [o \in Offsets |-> Log[o].actor]

From(m, a) == m.command # "record" /\ m.sender = a

Is(m, command, a) == m.command = command /\ m.sender = a

NoneOf(messages, command, a) ==
  \A i \in DOMAIN messages : ~ Is(messages[i], command, a)

(***************************************************************************)
(* An actor reports that it has stopped once, after everything else it has *)
(* to say; mb is the node's mailbox and here tells whether the actor has   *)
(* an entry in Node.actors.  A goroutine that is finishing has the report  *)
(* still to send, one that has returned has left it in the mailbox.        *)
(***************************************************************************)
Reported(a, mb) ==
  \E i \in DOMAIN mb :
    /\ Is(mb[i], "stopped", a)
    /\ \A j \in DOMAIN mb : /\ From(mb[j], a) => j <= i
                            /\ Is(mb[j], "stopped", a) => j = i

Reports(a, here, stage, out, mb) ==
  /\ \A i \in DOMAIN out : out[i].sender = a
  /\ ~ here => stage = "gone" /\ \A i \in DOMAIN mb : ~ From(mb[i], a)
  /\ stage # "gone" => NoneOf(mb, "stopped", a)
  /\ stage \in {"running", "draining"} => NoneOf(out, "stopped", a)
  /\ stage = "finishing" =>
       out # <<>> /\ \A i \in DOMAIN out : out[i].command = "stopped" <=> i = Len(out)
  /\ stage = "gone" => out = <<>>
  /\ stage = "gone" /\ here => Reported(a, mb)

(***************************************************************************)
(* From finish on, all that the actor has done is in the snapshot it has   *)
(* still to send; or in the last one in the mailbox; or in the one the     *)
(* entry holds; or the entry holds none and it is stored.                  *)
(***************************************************************************)
LastSent(a, done, mb) ==
  \E i \in DOMAIN mb :
    /\ Is(mb[i], "snapshot", a)
    /\ mb[i].snapshot.state = done
    /\ \A j \in DOMAIN mb : Is(mb[j], "snapshot", a) => j <= i

LastReceived(a, snapshot, done, mb, durable) ==
  /\ NoneOf(mb, "snapshot", a)
  /\ \A s \in snapshot : s.state = done
  /\ snapshot = {} => done \subseteq durable

LastKept(a, snapshot, stage, out, done, mb, durable) ==
  stage \in {"finishing", "gone"} =>
    IF Len(out) > 1
    THEN /\ out[Len(out) - 1].command = "snapshot"
         /\ out[Len(out) - 1].snapshot.state = done
    ELSE LastSent(a, done, mb) \/ LastReceived(a, snapshot, done, mb, durable)

(* While an actor that takes records is paused, a ready signal is under    *)
(* way or its mailbox is still so full that one will be.                   *)
ReadyKept(a, pause, stage, out, box, full, mb) ==
  pause # NoOffset /\ stage \in {"running", "draining"} =>
    \/ ~ NoneOf(out, "ready", a)
    \/ ~ NoneOf(mb, "ready", a)
    \/ Len(box) = ActorCapacity
    \/ full /\ Len(box) > ActorCapacity \div 2

(* The shard is unregistered before anything else happens to a node that   *)
(* stops, so no actor is added; the node ends when none is left.           *)
Ending ==
  /\ node.end \/ node.endTimer # "unset" => node.stopping
  /\ node.stopping => ~ shard.registered
  /\ (node.end \/ node.stage = "stopped") /\ ~ TimedOut => DOMAIN actors = {}

EntryInv(a, e, p, mb, durable) ==
  /\ LastKept(a, e.snapshot, p.stage, p.out, Range(p.executed), mb, durable)
  /\ ReadyKept(a, e.pause, p.stage, p.out, p.mailbox, p.mailFull, mb)

IInv ==
  /\ TypeOK
  /\ WindowOK(shard.window, Offsets, Owner)
  /\ Ending
  /\ \A a \in Actors :
       Reports(a, a \in DOMAIN actors, procs[a].stage, procs[a].out, mailbox)
  /\ \A a \in DOMAIN actors :
       EntryInv(a, actors[a], procs[a], mailbox, history.durable)

-----------------------------------------------------------------------------
(* The node's mailbox gets one message more, or one less.                  *)

LEMMA Shorter ==
  ASSUME NEW T, NEW mb \in Seq(T), mb # <<>>
  PROVE  /\ Tail(mb) \in Seq(T) /\ Head(mb) \in T /\ Head(mb) = mb[1]
         /\ Len(mb) \in Nat /\ Len(mb) > 0 /\ Len(Tail(mb)) = Len(mb) - 1
         /\ 1 \in DOMAIN mb /\ DOMAIN mb = 1 .. Len(mb)
         /\ DOMAIN Tail(mb) = 1 .. Len(mb) - 1
         /\ \A i \in DOMAIN Tail(mb) : Tail(mb)[i] = mb[i + 1] /\ i + 1 \in DOMAIN mb
         /\ \A i \in DOMAIN mb : i # 1 => i - 1 \in DOMAIN Tail(mb) /\ mb[i] = Tail(mb)[i - 1]
<1>1. /\ Tail(mb) \in Seq(T) /\ Head(mb) = mb[1] /\ Len(mb) \in Nat /\ Len(mb) > 0
      /\ Len(Tail(mb)) = Len(mb) - 1 /\ DOMAIN mb = 1 .. Len(mb)
      /\ DOMAIN Tail(mb) = 1 .. Len(Tail(mb))
  OBVIOUS
<1>2. \A i \in 1 .. Len(mb) - 1 : Tail(mb)[i] = mb[i + 1]
  OBVIOUS
<1>3. \A i \in DOMAIN mb : mb[i] \in T
  OBVIOUS
<1>4. \A i \in 1 .. Len(mb) - 1 : i + 1 \in 1 .. Len(mb)
  BY <1>1
<1>5. ASSUME NEW i \in 1 .. Len(mb), i # 1
      PROVE  i - 1 \in 1 .. Len(mb) - 1 /\ mb[i] = Tail(mb)[i - 1]
  <2>1. i - 1 \in 1 .. Len(mb) - 1 /\ (i - 1) + 1 = i
    BY <1>1, <1>5
  <2> QED
    BY <1>2, <2>1
<1> QED
  BY <1>1, <1>2, <1>3, <1>4, <1>5

LEMMA Longer ==
  ASSUME NEW T, NEW mb \in Seq(T), NEW m \in T
  PROVE  /\ Append(mb, m) \in Seq(T) /\ Len(mb) \in Nat
         /\ Len(Append(mb, m)) = Len(mb) + 1
         /\ DOMAIN mb = 1 .. Len(mb) /\ DOMAIN Append(mb, m) = 1 .. Len(mb) + 1
         /\ \A i \in DOMAIN mb : Append(mb, m)[i] = mb[i]
         /\ Append(mb, m)[Len(mb) + 1] = m
OBVIOUS

(* A message that is not of the actor changes nothing for it.              *)
LEMMA ReportsLonger ==
  ASSUME NEW mb \in Seq(MessageType), NEW m \in MessageType, NEW a, ~ From(m, a),
         NEW here, NEW stage, NEW out, Reports(a, here, stage, out, mb)
  PROVE  Reports(a, here, stage, out, Append(mb, m))
<1> DEFINE l == Append(mb, m)
<1>1. /\ Len(mb) \in Nat /\ DOMAIN mb = 1 .. Len(mb) /\ DOMAIN l = 1 .. Len(mb) + 1
      /\ \A i \in DOMAIN mb : l[i] = mb[i]
      /\ l[Len(mb) + 1] = m
  BY Longer
<1> HIDE DEF l
<1>2. ~ Is(m, "stopped", a)
  BY DEF Is, From
<1>3. NoneOf(mb, "stopped", a) => NoneOf(l, "stopped", a)
  BY <1>1, <1>2 DEF NoneOf
<1>4. (\A i \in DOMAIN mb : ~ From(mb[i], a)) => \A i \in DOMAIN l : ~ From(l[i], a)
  BY <1>1
<1>5. Reported(a, mb) => Reported(a, l)
  <2> SUFFICES ASSUME Reported(a, mb) PROVE Reported(a, l)
    OBVIOUS
  <2>1. PICK i \in DOMAIN mb : /\ Is(mb[i], "stopped", a)
                               /\ \A j \in DOMAIN mb : /\ From(mb[j], a) => j <= i
                                                       /\ Is(mb[j], "stopped", a) => j = i
    BY DEF Reported
  <2>2. i \in DOMAIN l /\ Is(l[i], "stopped", a)
    BY <1>1, <2>1
  <2>3. \A j \in DOMAIN l : /\ From(l[j], a) => j <= i
                            /\ Is(l[j], "stopped", a) => j = i
    BY <1>1, <1>2, <2>1
  <2> QED
    BY <2>2, <2>3 DEF Reported
<1> QED
  BY <1>3, <1>4, <1>5 DEF Reports, l

LEMMA EntryLonger ==
  ASSUME NEW mb \in Seq(MessageType), NEW m \in MessageType, NEW a, ~ From(m, a),
         NEW e, NEW p, NEW durable, EntryInv(a, e, p, mb, durable)
  PROVE  EntryInv(a, e, p, Append(mb, m), durable)
<1> DEFINE l == Append(mb, m)
           done == Range(p.executed)
<1>1. /\ Len(mb) \in Nat /\ DOMAIN mb = 1 .. Len(mb) /\ DOMAIN l = 1 .. Len(mb) + 1
      /\ \A i \in DOMAIN mb : l[i] = mb[i]
      /\ l[Len(mb) + 1] = m
  BY Longer
<1> HIDE DEF l, done
<1>2. ~ Is(m, "snapshot", a) /\ ~ Is(m, "ready", a)
  BY DEF Is, From
<1>3. LastSent(a, done, mb) => LastSent(a, done, l)
  <2> SUFFICES ASSUME LastSent(a, done, mb) PROVE LastSent(a, done, l)
    OBVIOUS
  <2>1. PICK i \in DOMAIN mb : /\ Is(mb[i], "snapshot", a)
                               /\ mb[i].snapshot.state = done
                               /\ \A j \in DOMAIN mb : Is(mb[j], "snapshot", a) => j <= i
    BY DEF LastSent
  <2> QED
    BY <1>1, <1>2, <2>1 DEF LastSent
<1>4. NoneOf(mb, "snapshot", a) => NoneOf(l, "snapshot", a)
  BY <1>1, <1>2 DEF NoneOf
<1>5. ~ NoneOf(mb, "ready", a) => ~ NoneOf(l, "ready", a)
  BY <1>1, <1>2 DEF NoneOf
<1>6. LastKept(a, e.snapshot, p.stage, p.out, done, l, durable)
  BY <1>3, <1>4 DEF EntryInv, LastKept, LastReceived, done
<1>7. ReadyKept(a, e.pause, p.stage, p.out, p.mailbox, p.mailFull, l)
  BY <1>5 DEF EntryInv, ReadyKept
<1> QED
  BY <1>6, <1>7 DEF EntryInv, l, done

(* The node takes a message that tells nothing of the actor's end.         *)
LEMMA ReportsShorter ==
  ASSUME NEW mb \in Seq(MessageType), mb # <<>>, NEW a, ~ Is(Head(mb), "stopped", a),
         NEW here, NEW stage, NEW out, Reports(a, here, stage, out, mb)
  PROVE  Reports(a, here, stage, out, Tail(mb))
<1> DEFINE l == Tail(mb)
<1>1. /\ Len(mb) \in Nat /\ Head(mb) = mb[1]
      /\ DOMAIN mb = 1 .. Len(mb) /\ DOMAIN l = 1 .. Len(mb) - 1
      /\ \A i \in DOMAIN l : l[i] = mb[i + 1] /\ i + 1 \in DOMAIN mb
  BY Shorter
<1> HIDE DEF l
<1>2. NoneOf(mb, "stopped", a) => NoneOf(l, "stopped", a)
  BY <1>1 DEF NoneOf
<1>3. (\A i \in DOMAIN mb : ~ From(mb[i], a)) => \A i \in DOMAIN l : ~ From(l[i], a)
  BY <1>1
<1>4. Reported(a, mb) => Reported(a, l)
  <2> SUFFICES ASSUME Reported(a, mb) PROVE Reported(a, l)
    OBVIOUS
  <2>1. PICK i \in DOMAIN mb : /\ Is(mb[i], "stopped", a)
                               /\ \A j \in DOMAIN mb : /\ From(mb[j], a) => j <= i
                                                       /\ Is(mb[j], "stopped", a) => j = i
    BY DEF Reported
  <2>2. i # 1
    BY <1>1, <2>1
  <2>3. i - 1 \in DOMAIN l /\ Is(l[i - 1], "stopped", a)
    BY <1>1, <2>1, <2>2
  <2>4. \A j \in DOMAIN l : /\ From(l[j], a) => j <= i - 1
                            /\ Is(l[j], "stopped", a) => j = i - 1
    BY <1>1, <2>1
  <2> QED
    BY <2>3, <2>4 DEF Reported
<1> QED
  BY <1>2, <1>3, <1>4 DEF Reports, l

LEMMA LastShorter ==
  ASSUME NEW mb \in Seq(MessageType), mb # <<>>, NEW a, ~ Is(Head(mb), "snapshot", a),
         NEW snapshot, NEW stage, NEW out, NEW done, NEW durable,
         LastKept(a, snapshot, stage, out, done, mb, durable)
  PROVE  LastKept(a, snapshot, stage, out, done, Tail(mb), durable)
<1> DEFINE l == Tail(mb)
<1>1. /\ Len(mb) \in Nat /\ Head(mb) = mb[1]
      /\ DOMAIN mb = 1 .. Len(mb) /\ DOMAIN l = 1 .. Len(mb) - 1
      /\ \A i \in DOMAIN l : l[i] = mb[i + 1] /\ i + 1 \in DOMAIN mb
      /\ \A i \in DOMAIN mb : i # 1 => i - 1 \in DOMAIN l /\ mb[i] = l[i - 1]
  BY Shorter
<1> HIDE DEF l
<1>2. LastSent(a, done, mb) => LastSent(a, done, l)
  <2> SUFFICES ASSUME LastSent(a, done, mb) PROVE LastSent(a, done, l)
    OBVIOUS
  <2>1. PICK i \in DOMAIN mb : /\ Is(mb[i], "snapshot", a)
                               /\ mb[i].snapshot.state = done
                               /\ \A j \in DOMAIN mb : Is(mb[j], "snapshot", a) => j <= i
    BY DEF LastSent
  <2>2. i # 1
    BY <1>1, <2>1
  <2>3. i - 1 \in DOMAIN l /\ l[i - 1] = mb[i]
    BY <1>1, <2>2
  <2>4. \A j \in DOMAIN l : Is(l[j], "snapshot", a) => j <= i - 1
    BY <1>1, <2>1
  <2> QED
    BY <2>1, <2>3, <2>4 DEF LastSent
<1>3. NoneOf(mb, "snapshot", a) => NoneOf(l, "snapshot", a)
  BY <1>1 DEF NoneOf
<1> QED
  BY <1>2, <1>3 DEF LastKept, LastReceived, l

LEMMA ReadyShorter ==
  ASSUME NEW mb \in Seq(MessageType), mb # <<>>, NEW a, ~ Is(Head(mb), "ready", a),
         NEW pause, NEW stage, NEW out, NEW box, NEW full,
         ReadyKept(a, pause, stage, out, box, full, mb)
  PROVE  ReadyKept(a, pause, stage, out, box, full, Tail(mb))
<1>1. ~ NoneOf(mb, "ready", a) => ~ NoneOf(Tail(mb), "ready", a)
  <2> SUFFICES ASSUME NEW i \in DOMAIN mb, Is(mb[i], "ready", a)
               PROVE  ~ NoneOf(Tail(mb), "ready", a)
    BY DEF NoneOf
  <2>1. i # 1
    BY Shorter
  <2>2. i - 1 \in DOMAIN Tail(mb) /\ Tail(mb)[i - 1] = mb[i]
    BY <2>1, Shorter
  <2> QED
    BY <2>2 DEF NoneOf
<1> QED
  BY <1>1 DEF ReadyKept

LEMMA EntryShorter ==
  ASSUME NEW mb \in Seq(MessageType), mb # <<>>, NEW a,
         ~ Is(Head(mb), "snapshot", a), ~ Is(Head(mb), "ready", a),
         NEW e, NEW p, NEW durable, EntryInv(a, e, p, mb, durable)
  PROVE  EntryInv(a, e, p, Tail(mb), durable)
<1> DEFINE done == Range(p.executed)
<1>1. /\ LastKept(a, e.snapshot, p.stage, p.out, done, mb, durable)
      /\ ReadyKept(a, e.pause, p.stage, p.out, p.mailbox, p.mailFull, mb)
  BY DEF EntryInv
<1> HIDE DEF done
<1> QED
  BY <1>1, LastShorter, ReadyShorter DEF EntryInv, done

(* The node takes a snapshot: the entry holds what the last one holds.     *)
LEMMA SnapshotTaken ==
  ASSUME NEW mb \in Seq(MessageType), mb # <<>>, NEW a, Is(Head(mb), "snapshot", a),
         NEW snapshot, NEW stage, NEW out, NEW done, NEW durable,
         LastKept(a, snapshot, stage, out, done, mb, durable)
  PROVE  LastKept(a, {Head(mb).snapshot}, stage, out, done, Tail(mb), durable)
<1> DEFINE l == Tail(mb)
           s == Head(mb).snapshot
<1>1. /\ Len(mb) \in Nat /\ Head(mb) = mb[1] /\ 1 \in DOMAIN mb
      /\ DOMAIN mb = 1 .. Len(mb) /\ DOMAIN l = 1 .. Len(mb) - 1
      /\ \A i \in DOMAIN l : l[i] = mb[i + 1] /\ i + 1 \in DOMAIN mb
      /\ \A i \in DOMAIN mb : i # 1 => i - 1 \in DOMAIN l /\ mb[i] = l[i - 1]
  BY Shorter
<1>2. s = mb[1].snapshot /\ Is(mb[1], "snapshot", a)
  BY <1>1
<1> HIDE DEF l, s
<1>3. ~ NoneOf(mb, "snapshot", a)
  BY <1>1, <1>2 DEF NoneOf
<1>4. LastSent(a, done, mb) => LastSent(a, done, l) \/ LastReceived(a, {s}, done, l, durable)
  <2> SUFFICES ASSUME LastSent(a, done, mb)
               PROVE  LastSent(a, done, l) \/ LastReceived(a, {s}, done, l, durable)
    OBVIOUS
  <2>1. PICK i \in DOMAIN mb : /\ Is(mb[i], "snapshot", a)
                               /\ mb[i].snapshot.state = done
                               /\ \A j \in DOMAIN mb : Is(mb[j], "snapshot", a) => j <= i
    BY DEF LastSent
  <2>2. CASE i = 1
    <3>1. NoneOf(l, "snapshot", a)
      BY <1>1, <2>1, <2>2 DEF NoneOf
    <3> QED
      BY <1>2, <2>1, <2>2, <3>1 DEF LastReceived
  <2>3. CASE i # 1
    <3>1. i - 1 \in DOMAIN l /\ l[i - 1] = mb[i]
      BY <1>1, <2>3
    <3>2. \A j \in DOMAIN l : Is(l[j], "snapshot", a) => j <= i - 1
      BY <1>1, <2>1
    <3> QED
      BY <2>1, <3>1, <3>2 DEF LastSent
  <2> QED
    BY <2>2, <2>3
<1> QED
  BY <1>3, <1>4 DEF LastKept, LastReceived, l, s

(* The node takes the report: nothing of the actor is left.                *)
LEMMA ReportTaken ==
  ASSUME NEW mb \in Seq(MessageType), mb # <<>>, NEW a, Is(Head(mb), "stopped", a),
         NEW stage, NEW out, Reports(a, TRUE, stage, out, mb)
  PROVE  /\ NoneOf(mb, "snapshot", a)
         /\ Reports(a, FALSE, "gone", <<>>, Tail(mb))
<1> DEFINE l == Tail(mb)
<1>1. /\ Len(mb) \in Nat /\ Head(mb) = mb[1] /\ 1 \in DOMAIN mb
      /\ DOMAIN mb = 1 .. Len(mb) /\ DOMAIN l = 1 .. Len(mb) - 1
      /\ \A i \in DOMAIN l : l[i] = mb[i + 1] /\ i + 1 \in DOMAIN mb
  BY Shorter
<1> HIDE DEF l
<1>2. ~ NoneOf(mb, "stopped", a) /\ From(mb[1], a)
  BY <1>1 DEF NoneOf, Is, From
<1>3. stage = "gone" /\ out = <<>> /\ Reported(a, mb)
  BY <1>1, <1>2 DEF Reports
<1>4. \A j \in DOMAIN mb : From(mb[j], a) => j = 1
  <2>1. PICK i \in DOMAIN mb : /\ Is(mb[i], "stopped", a)
                               /\ \A j \in DOMAIN mb : /\ From(mb[j], a) => j <= i
                                                       /\ Is(mb[j], "stopped", a) => j = i
    BY <1>3 DEF Reported
  <2> QED
    BY <1>1, <2>1
<1>5. \A i \in DOMAIN l : ~ From(l[i], a)
  BY <1>1, <1>4
<1>6. NoneOf(mb, "snapshot", a)
  BY <1>1, <1>4 DEF NoneOf, From, Is
<1>7. DOMAIN <<>> = {}
  OBVIOUS
<1> QED
  BY <1>3, <1>5, <1>6, <1>7 DEF Reports, l

-----------------------------------------------------------------------------
(* What the goroutine of an actor does.                                    *)

Stages == {"gone", "running", "draining", "finishing"}

(* It sends the first signal that is due, and returns after the last.      *)
Left(stage, out) == IF stage = "finishing" /\ Len(out) = 1 THEN "gone" ELSE stage

SendsFirst(p, q) ==
  /\ q.stage = Left(p.stage, p.out) /\ q.out = Tail(p.out)
  /\ q.executed = p.executed /\ q.mailbox = p.mailbox /\ q.mailFull = p.mailFull

LEMMA ReportsSent ==
  ASSUME NEW mb \in Seq(MessageType), NEW a, NEW out \in Seq(SignalType), out # <<>>,
         NEW here, NEW stage \in Stages, Reports(a, here, stage, out, mb)
  PROVE  Reports(a, here, Left(stage, out), Tail(out), Append(mb, Head(out)))
<1> DEFINE l == Append(mb, Head(out))
           t == Tail(out)
<1>0. Head(out) \in MessageType
  BY DEF MessageType
<1>1. /\ Len(mb) \in Nat /\ DOMAIN mb = 1 .. Len(mb) /\ DOMAIN l = 1 .. Len(mb) + 1
      /\ \A i \in DOMAIN mb : l[i] = mb[i]
      /\ l[Len(mb) + 1] = Head(out)
  BY <1>0, Longer
<1>2. /\ Len(out) \in Nat /\ Head(out) = out[1] /\ Len(t) = Len(out) - 1
      /\ DOMAIN out = 1 .. Len(out) /\ 1 \in DOMAIN out /\ DOMAIN t = 1 .. Len(out) - 1
      /\ \A i \in DOMAIN t : t[i] = out[i + 1] /\ i + 1 \in DOMAIN out
      /\ t \in Seq(SignalType)
  BY Shorter
<1> HIDE DEF l, t
<1>3. t = <<>> <=> Len(out) = 1
  BY <1>2
<1>4. /\ stage # "gone" /\ here
      /\ NoneOf(mb, "stopped", a)
      /\ \A i \in DOMAIN out : out[i].sender = a
  BY DEF Reports
<1>5. \A i \in DOMAIN t : t[i].sender = a
  BY <1>2, <1>4
<1>6. CASE stage = "finishing" /\ Len(out) = 1
  <2>1. Is(Head(out), "stopped", a)
    BY <1>2, <1>4, <1>6 DEF Reports, Is
  <2>2. \A j \in DOMAIN l : /\ From(l[j], a) => j <= Len(mb) + 1
                            /\ Is(l[j], "stopped", a) => j = Len(mb) + 1
    BY <1>1, <1>4 DEF NoneOf
  <2>3. Len(mb) + 1 \in DOMAIN l
    BY <1>1
  <2>4. Reported(a, l)
    BY <1>1, <2>1, <2>2, <2>3 DEF Reported
  <2>5. Left(stage, out) = "gone"
    BY <1>6 DEF Left
  <2> QED
    BY <1>3, <1>4, <1>5, <1>6, <2>4, <2>5 DEF Reports, l, t
<1>7. CASE stage = "finishing" /\ Len(out) # 1
  <2>1. Head(out).command # "stopped"
    BY <1>2, <1>7 DEF Reports
  <2>2. NoneOf(l, "stopped", a)
    BY <1>1, <1>4, <2>1 DEF NoneOf, Is
  <2>3. \A i \in DOMAIN t : t[i].command = "stopped" <=> i = Len(t)
    BY <1>2, <1>7 DEF Reports
  <2>4. Left(stage, out) = "finishing"
    BY <1>7 DEF Left
  <2> QED
    BY <1>3, <1>4, <1>5, <1>7, <2>2, <2>3, <2>4 DEF Reports, l, t
<1>8. CASE stage # "finishing"
  <2>1. Left(stage, out) = stage
    BY <1>8 DEF Left
  <2>2. stage \in {"running", "draining"} => NoneOf(t, "stopped", a)
    BY <1>2 DEF Reports, NoneOf
  <2>3. NoneOf(l, "stopped", a)
    BY <1>1, <1>2, <1>4, <1>8 DEF Reports, NoneOf, Stages
  <2> QED
    BY <1>4, <1>5, <1>8, <2>1, <2>2, <2>3 DEF Reports, l, t
<1> QED
  BY <1>6, <1>7, <1>8

LEMMA EntrySent ==
  ASSUME NEW mb \in Seq(MessageType), NEW a, NEW e, NEW p \in ProcType, NEW q,
         p.out # <<>>, NEW durable, EntryInv(a, e, p, mb, durable),
         Reports(a, TRUE, p.stage, p.out, mb),
         SendsFirst(p, q)
  PROVE  EntryInv(a, e, q, Append(mb, Head(p.out)), durable)
<1> DEFINE out == p.out
           m == Head(p.out)
           l == Append(mb, m)
           t == Tail(p.out)
           done == Range(p.executed)
<1>0. out \in Seq(SignalType) /\ out # <<>> /\ p.stage \in Stages /\ m \in MessageType
  BY DEF ProcType, MessageType, Stages
<1>1. /\ Len(mb) \in Nat /\ DOMAIN mb = 1 .. Len(mb) /\ DOMAIN l = 1 .. Len(mb) + 1
      /\ \A i \in DOMAIN mb : l[i] = mb[i]
      /\ l[Len(mb) + 1] = m
  BY <1>0, Longer
<1>2. /\ Len(out) \in Nat /\ Len(out) > 0 /\ m = out[1] /\ Len(t) = Len(out) - 1
      /\ DOMAIN out = 1 .. Len(out) /\ 1 \in DOMAIN out /\ DOMAIN t = 1 .. Len(out) - 1
      /\ \A i \in DOMAIN t : t[i] = out[i + 1] /\ i + 1 \in DOMAIN out
      /\ \A i \in DOMAIN out : i # 1 => i - 1 \in DOMAIN t /\ out[i] = t[i - 1]
  BY <1>0, Shorter
<1>3. /\ q.out = t /\ q.stage = Left(p.stage, out) /\ q.executed = p.executed
      /\ q.mailbox = p.mailbox /\ q.mailFull = p.mailFull
  BY DEF SendsFirst
<1> HIDE DEF out, m, l, t, done
<1>4. \A i \in DOMAIN out : out[i].sender = a
  BY DEF Reports, out
<1>5. /\ LastKept(a, e.snapshot, p.stage, out, done, mb, durable)
      /\ ReadyKept(a, e.pause, p.stage, out, p.mailbox, p.mailFull, mb)
      /\ Reports(a, TRUE, p.stage, out, mb)
  BY DEF EntryInv, out, done
<1>6. LastKept(a, e.snapshot, q.stage, t, done, l, durable)
  <2> SUFFICES ASSUME q.stage \in {"finishing", "gone"}
               PROVE  IF Len(t) > 1
                      THEN /\ t[Len(t) - 1].command = "snapshot"
                           /\ t[Len(t) - 1].snapshot.state = done
                      ELSE \/ LastSent(a, done, l)
                           \/ LastReceived(a, e.snapshot, done, l, durable)
    BY DEF LastKept
  <2>1. p.stage = "finishing"
    BY <1>0, <1>3, <1>5 DEF Left, Reports
  <2>2. IF Len(out) > 1
        THEN /\ out[Len(out) - 1].command = "snapshot"
             /\ out[Len(out) - 1].snapshot.state = done
        ELSE \/ LastSent(a, done, mb)
             \/ LastReceived(a, e.snapshot, done, mb, durable)
    BY <1>5, <2>1 DEF LastKept
  <2>3. CASE Len(out) > 2
    <3>1. Len(t) > 1 /\ Len(t) - 1 \in DOMAIN t /\ (Len(t) - 1) + 1 = Len(out) - 1
      BY <1>2, <2>3
    <3>2. t[Len(t) - 1] = out[Len(out) - 1]
      BY <1>2, <3>1
    <3> QED
      BY <2>2, <2>3, <1>2, <3>1, <3>2
  <2>4. CASE Len(out) = 2
    <3>1. ~ (Len(t) > 1) /\ m.command = "snapshot" /\ m.snapshot.state = done
      BY <1>2, <2>2, <2>4
    <3>2. Is(l[Len(mb) + 1], "snapshot", a) /\ Len(mb) + 1 \in DOMAIN l
      BY <1>1, <1>2, <1>4, <3>1 DEF Is
    <3>3. \A j \in DOMAIN l : j <= Len(mb) + 1
      BY <1>1
    <3>4. LastSent(a, done, l)
      BY <1>1, <3>1, <3>2, <3>3 DEF LastSent
    <3> QED
      BY <3>1, <3>4
  <2>5. CASE Len(out) = 1
    <3>1. m.command = "stopped" /\ ~ (Len(t) > 1)
      BY <1>2, <1>5, <2>1, <2>5 DEF Reports
    <3>2. LastSent(a, done, mb) => LastSent(a, done, l)
      <4> SUFFICES ASSUME LastSent(a, done, mb) PROVE LastSent(a, done, l)
        OBVIOUS
      <4>1. PICK i \in DOMAIN mb : /\ Is(mb[i], "snapshot", a)
                                   /\ mb[i].snapshot.state = done
                                   /\ \A j \in DOMAIN mb : Is(mb[j], "snapshot", a) => j <= i
        BY DEF LastSent
      <4>2. i \in DOMAIN l /\ l[i] = mb[i] /\ i <= Len(mb)
        BY <1>1
      <4>3. \A j \in DOMAIN l : Is(l[j], "snapshot", a) => j <= i
        BY <1>1, <3>1, <4>1 DEF Is
      <4> QED
        BY <4>1, <4>2, <4>3 DEF LastSent
    <3>3. NoneOf(mb, "snapshot", a) => NoneOf(l, "snapshot", a)
      BY <1>1, <3>1 DEF NoneOf, Is
    <3> QED
      BY <2>2, <2>5, <3>1, <3>2, <3>3 DEF LastReceived
  <2>6. Len(out) > 2 \/ Len(out) = 2 \/ Len(out) = 1
    <3>1. \A n \in Nat : n > 0 => n > 2 \/ n = 2 \/ n = 1
      OBVIOUS
    <3>2. Len(out) \in Nat /\ Len(out) > 0
      BY <1>2
    <3> QED
      BY <3>1, <3>2, Zenon
  <2> QED
    BY <2>3, <2>4, <2>5, <2>6
<1>7. ReadyKept(a, e.pause, q.stage, t, p.mailbox, p.mailFull, l)
  <2>1. q.stage \in {"running", "draining"} => p.stage \in {"running", "draining"}
    BY <1>3 DEF Left
  <2>2. ~ NoneOf(mb, "ready", a) => ~ NoneOf(l, "ready", a)
    BY <1>1 DEF NoneOf
  <2>3. ~ NoneOf(out, "ready", a) => ~ NoneOf(t, "ready", a) \/ ~ NoneOf(l, "ready", a)
    <3> SUFFICES ASSUME NEW i \in DOMAIN out, Is(out[i], "ready", a)
                 PROVE  ~ NoneOf(t, "ready", a) \/ ~ NoneOf(l, "ready", a)
      BY DEF NoneOf
    <3>1. CASE i = 1
      BY <1>1, <1>2, <3>1 DEF NoneOf
    <3>2. CASE i # 1
      BY <1>2, <3>2 DEF NoneOf
    <3> QED
      BY <3>1, <3>2
  <2> QED
    BY <1>5, <2>1, <2>2, <2>3 DEF ReadyKept
<1> QED
  BY <1>3, <1>6, <1>7 DEF EntryInv, l, m, t, done

(* It begins to finish: nothing but the last snapshot and the report is    *)
(* still to be sent, after a ready signal that was due.                    *)
FinishesWith(a, p, q) ==
  /\ p.stage \in {"running", "draining"}
  /\ q.stage = "finishing" /\ q.executed = p.executed
  /\ \E first \in {<<>>, <<Signal("ready", a)>>} :
       q.out = first \o <<SnapshotSignal(a, q), Signal("stopped", a)>>

LEMMA Finishes ==
  ASSUME NEW mb, NEW a, NEW e, NEW p, NEW q, NEW durable, FinishesWith(a, p, q),
         Reports(a, TRUE, p.stage, p.out, mb)
  PROVE  /\ Reports(a, TRUE, q.stage, q.out, mb)
         /\ EntryInv(a, e, q, mb, durable)
<1> DEFINE s == SnapshotSignal(a, q)
           r == Signal("ready", a)
           z == Signal("stopped", a)
<1>1. /\ s.command = "snapshot" /\ s.sender = a /\ s.snapshot.state = Range(q.executed)
      /\ r.command = "ready" /\ r.sender = a
      /\ z.command = "stopped" /\ z.sender = a
  BY DEF SnapshotSignal, SnapshotOf, Signal
<1> HIDE DEF s, r, z
<1>2. /\ p.stage \in {"running", "draining"} /\ q.stage = "finishing"
      /\ q.out = <<s, z>> \/ q.out = <<r, s, z>>
  <2>1. /\ <<s, z>> \in Seq({r, s, z}) /\ <<r>> \in Seq({r, s, z})
        /\ Len(<<s, z>>) = 2 /\ Len(<<r>>) = 1
    OBVIOUS
  <2>2. <<>> \o <<s, z>> = <<s, z>>
    BY <2>1, ConcatEmptySeq
  <2>3. <<r>> \o <<s, z>> = <<r, s, z>>
    <3> DEFINE c == <<r>> \o <<s, z>>
    <3>1. /\ c \in Seq({r, s, z}) /\ Len(c) = 3
          /\ \A i \in 1 .. 3 : c[i] = IF i <= 1 THEN <<r>>[i] ELSE <<s, z>>[i - 1]
      BY <2>1, ConcatProperties
    <3> HIDE DEF c
    <3>2. c[1] = r /\ c[2] = s /\ c[3] = z
      BY <3>1
    <3> DEFINE d == <<r, s, z>>
    <3>3. /\ d \in Seq({r, s, z}) /\ Len(d) = 3
          /\ d[1] = r /\ d[2] = s /\ d[3] = z
      OBVIOUS
    <3> HIDE DEF d
    <3>4. \A i \in 1 .. 3 : c[i] = d[i]
      BY <3>2, <3>3
    <3>5. c = d
      BY <3>1, <3>3, <3>4, SeqEqual
    <3> QED
      BY <3>5 DEF c, d
  <2> QED
    BY <2>2, <2>3 DEF FinishesWith, s, r, z
<1>3. NoneOf(mb, "stopped", a)
  BY <1>2 DEF Reports
<1>4. CASE q.out = <<s, z>>
  <2>1. /\ Len(q.out) = 2 /\ DOMAIN q.out = 1 .. 2 /\ q.out # <<>>
        /\ q.out[1] = s /\ q.out[2] = z
    BY <1>4
  <2>2. Reports(a, TRUE, q.stage, q.out, mb)
    BY <1>1, <1>2, <1>3, <2>1 DEF Reports
  <2>3. EntryInv(a, e, q, mb, durable)
    BY <1>1, <1>2, <2>1 DEF EntryInv, LastKept, ReadyKept
  <2> QED
    BY <2>2, <2>3
<1>5. CASE q.out = <<r, s, z>>
  <2>1. /\ Len(q.out) = 3 /\ DOMAIN q.out = 1 .. 3 /\ q.out # <<>>
        /\ q.out[1] = r /\ q.out[2] = s /\ q.out[3] = z
    BY <1>5
  <2>2. Reports(a, TRUE, q.stage, q.out, mb)
    BY <1>1, <1>2, <1>3, <2>1 DEF Reports
  <2>3. EntryInv(a, e, q, mb, durable)
    BY <1>1, <1>2, <2>1 DEF EntryInv, LastKept, ReadyKept
  <2> QED
    BY <2>2, <2>3
<1> QED
  BY <1>2, <1>4, <1>5

(* It has nothing to send and goes on: what it is going to send is not the *)
(* report, and what it says of its mailbox is what ReadyKept needs.        *)
GoesOn(a, p, q) ==
  /\ p.stage \in {"running", "draining"} /\ p.out = <<>>
  /\ q.stage \in {"running", "draining"}
  /\ \A i \in DOMAIN q.out : q.out[i].sender = a /\ q.out[i].command # "stopped"
  /\ \/ q.mailbox = p.mailbox /\ q.mailFull = p.mailFull
     \/ ~ NoneOf(q.out, "ready", a)
     \/ q.mailFull /\ Len(q.mailbox) > ActorCapacity \div 2
     \/ /\ Len(p.mailbox) # ActorCapacity
        /\ ~ (p.mailFull /\ Len(p.mailbox) > ActorCapacity \div 2)

LEMMA ItGoesOn ==
  ASSUME NEW mb, NEW a, NEW e, NEW p, NEW q, NEW durable, GoesOn(a, p, q),
         Reports(a, TRUE, p.stage, p.out, mb),
         EntryInv(a, e, p, mb, durable)
  PROVE  /\ Reports(a, TRUE, q.stage, q.out, mb)
         /\ EntryInv(a, e, q, mb, durable)
<1>1. NoneOf(mb, "stopped", a)
  BY DEF GoesOn, Reports
<1>2. Reports(a, TRUE, q.stage, q.out, mb)
  BY <1>1 DEF Reports, GoesOn, NoneOf, Is
<1>3. DOMAIN p.out = {}
  BY DEF GoesOn
<1>4. ReadyKept(a, e.pause, q.stage, q.out, q.mailbox, q.mailFull, mb)
  BY <1>3 DEF EntryInv, ReadyKept, GoesOn, NoneOf
<1>5. LastKept(a, e.snapshot, q.stage, q.out, Range(q.executed), mb, durable)
  BY DEF GoesOn, LastKept
<1> QED
  BY <1>2, <1>4, <1>5 DEF EntryInv

(* handle takes a record: Ready is said when a full mailbox is half empty. *)

(* An actor that has nothing to send is one the node knows.                *)
LEMMA RunningIsHere ==
  ASSUME IInv, NEW a \in Actors, procs[a].stage # "gone"
  PROVE  /\ a \in DOMAIN actors
         /\ Reports(a, TRUE, procs[a].stage, procs[a].out, mailbox)
<1>1. Reports(a, a \in DOMAIN actors, procs[a].stage, procs[a].out, mailbox)
  BY DEF IInv
<1>2. a \in DOMAIN actors
  BY <1>1 DEF Reports
<1>3. (a \in DOMAIN actors) = TRUE
  BY <1>2
<1> QED
  BY <1>1, <1>2, <1>3

(* What the goroutine of one actor does for itself keeps the invariant.    *)
LEMMA OwnStep ==
  ASSUME IInv, NEW a \in Actors, NEW q \in ProcType,
         Len(q.mailbox) <= ActorCapacity, Len(q.out) <= 3,
         procs' = [procs EXCEPT ![a] = q],
         UNCHANGED <<client, poller, mailbox, node, shard, actors>>,
         history' \in HistoryType, history'.durable = history.durable,
         GoesOn(a, procs[a], q) \/ FinishesWith(a, procs[a], q)
  PROVE  IInv'
<1>1. procs[a].stage # "gone"
  BY DEF GoesOn, FinishesWith
<1>2. /\ a \in DOMAIN actors
      /\ Reports(a, TRUE, procs[a].stage, procs[a].out, mailbox)
  BY <1>1, RunningIsHere
<1>3. procs \in [Actors -> ProcType]
  BY DEF IInv, TypeOK
<1>4. procs'[a] = q /\ \A b \in Actors : b # a => procs'[b] = procs[b]
  BY <1>3
<1>5. EntryInv(a, actors[a], procs[a], mailbox, history.durable)
  BY <1>2 DEF IInv
<1>6. /\ Reports(a, TRUE, q.stage, q.out, mailbox)
      /\ EntryInv(a, actors[a], q, mailbox, history.durable)
  BY <1>2, <1>5, Finishes, ItGoesOn
<1>7. procs' \in [Actors -> ProcType]
  BY <1>3
<1>8. \A b \in Actors : Len(procs'[b].mailbox) <= ActorCapacity /\ Len(procs'[b].out) <= 3
  BY <1>4 DEF IInv, TypeOK
<1>9. TypeOK'
  BY <1>7, <1>8 DEF IInv, TypeOK
<1>10. WindowOK(shard.window, Offsets, Owner)' /\ Ending'
  BY DEF IInv, Ending, TimedOut
<1>11. \A b \in Actors :
         Reports(b, b \in DOMAIN actors, procs'[b].stage, procs'[b].out, mailbox)
  <2> TAKE b \in Actors
  <2>1. CASE b = a
    <3>1. (b \in DOMAIN actors) = TRUE
      BY <1>2, <2>1
    <3> QED
      BY <1>4, <1>6, <2>1, <3>1
  <2>2. CASE b # a
    BY <1>4, <2>2 DEF IInv
  <2> QED
    BY <2>1, <2>2
<1>12. \A b \in DOMAIN actors :
         EntryInv(b, actors[b], procs'[b], mailbox, history'.durable)
  <2>1. DOMAIN actors \subseteq Actors
    BY DEF IInv, TypeOK
  <2> QED
    BY <1>4, <1>6, <2>1 DEF IInv
<1> QED
  BY <1>9, <1>10, <1>11, <1>12 DEF IInv

(* handle takes a record: Ready is said when a full mailbox is half empty. *)
LEMMA RelievedIsReady ==
  ASSUME TypeOK, NEW a \in Actors, Takes(a)
  PROVE  LET p == procs[a]
             q == Relieved(a)
         IN  /\ q \in ProcType /\ q.stage = p.stage /\ q.executed = p.executed
             /\ q.out \in {<<>>, <<Signal("ready", a)>>}
             /\ q.mailbox = Tail(p.mailbox) /\ Len(q.mailbox) <= ActorCapacity
             /\ Taken(a) \in Offsets
             /\ \/ q.out = <<Signal("ready", a)>>
                \/ q.mailFull /\ Len(q.mailbox) > ActorCapacity \div 2
                \/ /\ Len(p.mailbox) # ActorCapacity
                   /\ ~ (p.mailFull /\ Len(p.mailbox) > ActorCapacity \div 2)
<1> DEFINE p == procs[a]
           length == Len(p.mailbox) - 1
           full == p.mailFull \/ length >= ActorCapacity - 1
           half == ActorCapacity \div 2
           ready == full /\ length <= half
           out == IF ready THEN <<Signal("ready", a)>> ELSE <<>>
           q == Relieved(a)
<1>1. p \in ProcType /\ p.mailbox # <<>> /\ Len(p.mailbox) <= ActorCapacity
  BY DEF TypeOK, Takes
<1>2. /\ Tail(p.mailbox) \in Seq(Offsets) /\ Head(p.mailbox) \in Offsets
      /\ Len(p.mailbox) \in Nat /\ Len(Tail(p.mailbox)) = Len(p.mailbox) - 1
  BY <1>1, Shorter DEF ProcType
<1>3. Signal("ready", a) \in SignalType
  BY DEF Signal, SignalType
<1>4. out \in Seq(SignalType) /\ out \in {<<>>, <<Signal("ready", a)>>}
  BY <1>3
<1>5. ActorCapacity \in Nat /\ ActorCapacity > 2
  BY BoundsAssumption
<1>6. half \in Nat /\ half < ActorCapacity - 1
  BY <1>5
<1>7. q = [p EXCEPT !.mailbox = Tail(p.mailbox), !.mailFull = full /\ ~ ready, !.out = out]
  BY DEF Relieved
<1> HIDE DEF p, out, q, half
<1>8. /\ q \in ProcType /\ q.stage = p.stage /\ q.executed = p.executed
      /\ q.out = out /\ q.mailbox = Tail(p.mailbox) /\ q.mailFull = (full /\ ~ ready)
  BY <1>1, <1>2, <1>4, <1>7 DEF ProcType
<1>9. Len(q.mailbox) = length /\ length <= ActorCapacity
  BY <1>1, <1>2, <1>5, <1>8
<1>10. CASE ready
  BY <1>10, <1>2, <1>4, <1>8, <1>9 DEF out, p, q, Taken
<1>11. CASE full /\ ~ ready
  <2>1. q.mailFull
    BY <1>11, <1>8
  <2>2. ~ (length <= half) /\ length \in Int /\ half \in Int
    BY <1>11, <1>2, <1>6
  <2>3. Len(q.mailbox) > half
    BY <1>9, <2>2
  <2> QED
    BY <2>1, <2>3, <1>2, <1>4, <1>8, <1>9 DEF half, p, q, Taken
<1>12. CASE ~ full
  <2>1. Len(p.mailbox) # ActorCapacity /\ ~ p.mailFull
    BY <1>12, <1>2, <1>5
  <2> QED
    BY <2>1, <1>2, <1>4, <1>8, <1>9 DEF p, q, Taken
<1> QED
  BY <1>10, <1>11, <1>12

(* The signals of an actor.                                                *)
LEMMA SnapshotTyped ==
  ASSUME NEW a \in Actors, NEW p \in ProcType
  PROVE  SnapshotSignal(a, p) \in SignalType
<1>1. p.executed \in Seq(Offsets)
  BY DEF ProcType
<1>2. Range(p.executed) \in SUBSET Offsets
  BY <1>1 DEF Range
<1>3. p.executed # <<>> => Last(p.executed) \in Offsets
  BY <1>1 DEF Last
<1>4. SnapshotOf(p) \in SnapshotType
  BY <1>2, <1>3 DEF SnapshotOf, SnapshotType
<1> QED
  BY <1>4 DEF SnapshotSignal, SignalType

LEMMA SignalTyped ==
  ASSUME NEW a \in Actors, NEW command \in {"idle", "ready", "alive", "stopped"}
  PROVE  Signal(command, a) \in SignalType /\ Is(Signal(command, a), command, a)
BY DEF Signal, SignalType, Is

(* What handle leaves to be sent.                                          *)
LEMMA ReadyOrNothing ==
  ASSUME NEW a, NEW out \in {<<>>, <<Signal("ready", a)>>}
  PROVE  /\ \A i \in DOMAIN out : out[i].sender = a /\ out[i].command # "stopped"
         /\ out = <<Signal("ready", a)>> => ~ NoneOf(out, "ready", a)
         /\ Len(out) <= 3 /\ Len(out) + 2 <= 3
<1> DEFINE s == Signal("ready", a)
<1>1. s.command = "ready" /\ s.sender = a
  BY DEF Signal
<1> HIDE DEF s
<1>2. CASE out = <<>>
  <2>1. DOMAIN out = {} /\ Len(out) = 0 /\ out # <<s>>
    BY <1>2
  <2> QED
    BY <2>1 DEF s
<1>3. CASE out = <<s>>
  <2>1. DOMAIN out = {1} /\ Len(out) = 1 /\ out[1] = s
    BY <1>3
  <2> QED
    BY <1>1, <2>1 DEF NoneOf, Is
<1> QED
  BY <1>2, <1>3 DEF s

LEMMA SkipIInv ==
  ASSUME IInv, NEW a \in Actors, ActorSkip(a)
  PROVE  IInv'
<1> DEFINE p == procs[a]
           q == Relieved(a)
<1>1. Takes(a) /\ TypeOK
  BY DEF ActorSkip, IInv
<1>2. /\ q \in ProcType /\ q.stage = p.stage
      /\ q.out \in {<<>>, <<Signal("ready", a)>>}
      /\ Len(q.mailbox) <= ActorCapacity
      /\ \/ q.out = <<Signal("ready", a)>>
         \/ q.mailFull /\ Len(q.mailbox) > ActorCapacity \div 2
         \/ /\ Len(p.mailbox) # ActorCapacity
            /\ ~ (p.mailFull /\ Len(p.mailbox) > ActorCapacity \div 2)
  BY <1>1, RelievedIsReady
<1>3. /\ procs' = [procs EXCEPT ![a] = q]
      /\ UNCHANGED <<client, poller, mailbox, node, shard, actors, history>>
  BY DEF ActorSkip, Becomes
<1>4. p.stage \in {"running", "draining"} /\ p.out = <<>>
  BY <1>1 DEF Takes
<1> HIDE DEF q
<1>5. /\ \A i \in DOMAIN q.out : q.out[i].sender = a /\ q.out[i].command # "stopped"
      /\ q.out = <<Signal("ready", a)>> => ~ NoneOf(q.out, "ready", a)
      /\ Len(q.out) <= 3
  BY <1>2, ReadyOrNothing
<1>6. GoesOn(a, p, q)
  BY <1>2, <1>4, <1>5 DEF GoesOn
<1>7. history \in HistoryType
  BY DEF IInv, TypeOK
<1> QED
  BY <1>2, <1>3, <1>5, <1>6, <1>7, OwnStep

LEMMA ExecuteIInv ==
  ASSUME IInv, NEW a \in Actors, ActorExecute(a)
  PROVE  IInv'
<1> DEFINE p == procs[a]
           r == Relieved(a)
           q == [r EXCEPT !.executed = Append(@, Taken(a))]
<1>1. Takes(a) /\ TypeOK
  BY DEF ActorExecute, IInv
<1>2. /\ r \in ProcType /\ r.stage = p.stage
      /\ r.out \in {<<>>, <<Signal("ready", a)>>}
      /\ Len(r.mailbox) <= ActorCapacity
      /\ Taken(a) \in Offsets
      /\ \/ r.out = <<Signal("ready", a)>>
         \/ r.mailFull /\ Len(r.mailbox) > ActorCapacity \div 2
         \/ /\ Len(p.mailbox) # ActorCapacity
            /\ ~ (p.mailFull /\ Len(p.mailbox) > ActorCapacity \div 2)
  BY <1>1, RelievedIsReady
<1>3. /\ procs' = [procs EXCEPT ![a] = q]
      /\ UNCHANGED <<client, poller, mailbox, node, shard, actors, history>>
  BY DEF ActorExecute, Becomes
<1>4. p.stage \in {"running", "draining"} /\ p.out = <<>>
  BY <1>1 DEF Takes
<1> HIDE DEF r
<1>10. /\ \A i \in DOMAIN r.out : r.out[i].sender = a /\ r.out[i].command # "stopped"
       /\ r.out = <<Signal("ready", a)>> => ~ NoneOf(r.out, "ready", a)
       /\ Len(r.out) <= 3
  BY <1>2, ReadyOrNothing
<1>11. Append(r.executed, Taken(a)) \in Seq(Offsets)
  BY <1>2 DEF ProcType
<1>5. /\ q \in ProcType /\ q.stage = r.stage /\ q.out = r.out
      /\ q.mailbox = r.mailbox /\ q.mailFull = r.mailFull
  BY <1>2, <1>11 DEF ProcType
<1> HIDE DEF q
<1>6. /\ \A i \in DOMAIN q.out : q.out[i].sender = a /\ q.out[i].command # "stopped"
      /\ q.out = <<Signal("ready", a)>> => ~ NoneOf(q.out, "ready", a)
      /\ Len(q.out) <= 3
  BY <1>5, <1>10
<1>7. GoesOn(a, p, q)
  BY <1>2, <1>4, <1>5, <1>6 DEF GoesOn
<1>8. history \in HistoryType
  BY DEF IInv, TypeOK
<1> QED
  BY <1>2, <1>3, <1>5, <1>6, <1>7, <1>8, OwnStep

(* finish, after the last record or because a handler panicked.            *)
LEMMA FinishingFinishes ==
  ASSUME NEW a \in Actors, NEW p \in ProcType, p.stage \in {"running", "draining"},
         NEW r \in ProcType, r.executed = p.executed,
         r.out \in {<<>>, <<Signal("ready", a)>>}
  PROVE  LET q == Finishing(a, r)
         IN  /\ q \in ProcType /\ q.mailbox = r.mailbox /\ Len(q.out) <= 3
             /\ FinishesWith(a, p, q)
<1> DEFINE s == SnapshotSignal(a, r)
           z == Signal("stopped", a)
           out == r.out \o <<s, z>>
           q == Finishing(a, r)
<1>1. s \in SignalType /\ z \in SignalType
  BY SnapshotTyped, SignalTyped
<1>2. <<s, z>> \in Seq(SignalType) /\ Len(<<s, z>>) = 2
  BY <1>1
<1>3. r.out \in Seq(SignalType) /\ Len(r.out) + 2 <= 3
  BY ReadyOrNothing DEF ProcType
<1>4. out \in Seq(SignalType) /\ Len(out) = Len(r.out) + 2
  BY <1>2, <1>3, ConcatProperties
<1>5. q = [r EXCEPT !.stage = "finishing", !.out = out]
  BY DEF Finishing
<1> HIDE DEF out
<1>6. /\ q \in ProcType /\ q.stage = "finishing" /\ q.executed = r.executed
      /\ q.out = out /\ q.mailbox = r.mailbox
  BY <1>4, <1>5 DEF ProcType
<1> HIDE DEF q
<1>7. SnapshotSignal(a, q) = s
  BY <1>6 DEF SnapshotSignal, SnapshotOf
<1>8. FinishesWith(a, p, q)
  BY <1>6, <1>7 DEF FinishesWith, out
<1>9. Len(out) <= 3
  BY <1>3, <1>4
<1> QED
  BY <1>6, <1>8, <1>9 DEF q

LEMMA PanicIInv ==
  ASSUME IInv, NEW a \in Actors, ActorPanic(a)
  PROVE  IInv'
<1> DEFINE p == procs[a]
           r == Relieved(a)
           q == Finishing(a, r)
<1>1. Takes(a) /\ TypeOK
  BY DEF ActorPanic, IInv
<1>2. /\ r \in ProcType /\ r.executed = p.executed
      /\ r.out \in {<<>>, <<Signal("ready", a)>>}
      /\ Len(r.mailbox) <= ActorCapacity
  BY <1>1, RelievedIsReady
<1>3. /\ procs' = [procs EXCEPT ![a] = q]
      /\ UNCHANGED <<client, poller, mailbox, node, shard, actors, history>>
  BY DEF ActorPanic, Becomes
<1>4. p \in ProcType /\ p.stage \in {"running", "draining"}
  BY <1>1 DEF Takes, TypeOK
<1> HIDE DEF r, p
<1>5. /\ q \in ProcType /\ q.mailbox = r.mailbox /\ Len(q.out) <= 3
      /\ FinishesWith(a, p, q)
  BY <1>2, <1>4, FinishingFinishes
<1> HIDE DEF q
<1>6. history \in HistoryType
  BY DEF IInv, TypeOK
<1> QED
  BY <1>2, <1>3, <1>5, <1>6, OwnStep DEF p

LEMMA FinishIInv ==
  ASSUME IInv, NEW a \in Actors, ActorFinish(a)
  PROVE  IInv'
<1> DEFINE p == procs[a]
           q == Finishing(a, p)
<1>1. /\ p \in ProcType /\ p.stage = "draining" /\ p.out = <<>>
      /\ Len(p.mailbox) <= ActorCapacity /\ history \in HistoryType
  BY DEF ActorFinish, IInv, TypeOK
<1>2. /\ procs' = [procs EXCEPT ![a] = q]
      /\ UNCHANGED <<client, poller, mailbox, node, shard, actors, history>>
  BY DEF ActorFinish, Becomes
<1> HIDE DEF p
<1>3. /\ q \in ProcType /\ q.mailbox = p.mailbox /\ Len(q.out) <= 3
      /\ FinishesWith(a, p, q)
  BY <1>1, FinishingFinishes
<1> HIDE DEF q
<1> QED
  BY <1>1, <1>2, <1>3, OwnStep DEF p

LEMMA IdleIInv ==
  ASSUME IInv, NEW a \in Actors, ActorIdle(a)
  PROVE  IInv'
<1> DEFINE p == procs[a]
           s == SnapshotSignal(a, p)
           i == Signal("idle", a)
           q == [p EXCEPT !.out = <<s, i>>]
<1>1. /\ p \in ProcType /\ p.stage = "running" /\ p.out = <<>>
      /\ Len(p.mailbox) <= ActorCapacity /\ history \in HistoryType
      /\ procs \in [Actors -> ProcType]
  BY DEF ActorIdle, IInv, TypeOK
<1>2. s \in SignalType /\ i \in SignalType
  BY <1>1, SnapshotTyped, SignalTyped
<1>3. /\ s.sender = a /\ s.command = "snapshot" /\ i.sender = a /\ i.command = "idle"
  BY DEF SnapshotSignal, Signal
<1>4. /\ procs' = [procs EXCEPT ![a].out = <<s, i>>]
      /\ UNCHANGED <<client, poller, mailbox, node, shard, actors>>
      /\ history.timers < MaxTimers
      /\ history' = [history EXCEPT !.timers = @ + 1]
  BY DEF ActorIdle
<1> HIDE DEF s, i
<1>5. procs' = [procs EXCEPT ![a] = q]
  BY <1>1, <1>4
<1> HIDE DEF p
<1>6. /\ <<s, i>> \in Seq(SignalType) /\ Len(<<s, i>>) <= 3
      /\ \A j \in DOMAIN <<s, i>> : <<s, i>>[j].sender = a /\ <<s, i>>[j].command # "stopped"
  BY <1>2, <1>3
<1>7. /\ q \in ProcType /\ q.out = <<s, i>> /\ q.stage = "running"
      /\ q.mailbox = p.mailbox /\ q.mailFull = p.mailFull
  BY <1>1, <1>6 DEF ProcType
<1> HIDE DEF q
<1>8. GoesOn(a, p, q)
  BY <1>1, <1>6, <1>7 DEF GoesOn
<1>9. history' \in HistoryType /\ history'.durable = history.durable
  BY <1>1, <1>4, BoundsAssumption DEF HistoryType
<1>10. Len(q.mailbox) <= ActorCapacity /\ Len(q.out) <= 3
  BY <1>1, <1>6, <1>7
<1> QED
  BY <1>4, <1>5, <1>7, <1>8, <1>9, <1>10, OwnStep DEF p

LEMMA AliveIInv ==
  ASSUME IInv, NEW a \in Actors, ActorAlive(a)
  PROVE  IInv'
<1> DEFINE p == procs[a]
           i == Signal("alive", a)
           q == [p EXCEPT !.out = <<i>>]
<1>1. /\ p \in ProcType /\ p.stage = "running" /\ p.out = <<>>
      /\ Len(p.mailbox) <= ActorCapacity /\ history \in HistoryType
      /\ procs \in [Actors -> ProcType]
  BY DEF ActorAlive, IInv, TypeOK
<1>2. i \in SignalType
  BY SignalTyped
<1>3. i.sender = a /\ i.command = "alive"
  BY DEF Signal
<1>4. /\ procs' = [procs EXCEPT ![a].out = <<i>>]
      /\ UNCHANGED <<client, poller, mailbox, node, shard, actors>>
      /\ history.timers < MaxTimers
      /\ history' = [history EXCEPT !.timers = @ + 1]
  BY DEF ActorAlive
<1> HIDE DEF i
<1>5. procs' = [procs EXCEPT ![a] = q]
  BY <1>1, <1>4
<1> HIDE DEF p
<1>6. /\ <<i>> \in Seq(SignalType) /\ Len(<<i>>) <= 3
      /\ \A j \in DOMAIN <<i>> : <<i>>[j].sender = a /\ <<i>>[j].command # "stopped"
  BY <1>2, <1>3
<1>7. /\ q \in ProcType /\ q.out = <<i>> /\ q.stage = "running"
      /\ q.mailbox = p.mailbox /\ q.mailFull = p.mailFull
  BY <1>1, <1>6 DEF ProcType
<1> HIDE DEF q
<1>8. GoesOn(a, p, q)
  BY <1>1, <1>6, <1>7 DEF GoesOn
<1>9. history' \in HistoryType /\ history'.durable = history.durable
  BY <1>1, <1>4, BoundsAssumption DEF HistoryType
<1>10. Len(q.mailbox) <= ActorCapacity /\ Len(q.out) <= 3
  BY <1>1, <1>6, <1>7
<1> QED
  BY <1>4, <1>5, <1>7, <1>8, <1>9, <1>10, OwnStep DEF p

LEMMA StopIInv ==
  ASSUME IInv, NEW a \in Actors, ActorStop(a)
  PROVE  IInv'
<1> DEFINE p == procs[a]
           q == [p EXCEPT !.stage = "draining", !.stop = FALSE]
<1>1. /\ p \in ProcType /\ p.stage = "running" /\ p.out = <<>>
      /\ Len(p.mailbox) <= ActorCapacity /\ history \in HistoryType
  BY DEF ActorStop, IInv, TypeOK
<1>2. /\ procs' = [procs EXCEPT ![a] = q]
      /\ UNCHANGED <<client, poller, mailbox, node, shard, actors, history>>
  BY DEF ActorStop, Becomes
<1> HIDE DEF p
<1>3. /\ q \in ProcType /\ q.stage = "draining" /\ q.out = <<>>
      /\ q.mailbox = p.mailbox /\ q.mailFull = p.mailFull
  BY <1>1 DEF ProcType
<1> HIDE DEF q
<1>4. GoesOn(a, p, q) /\ Len(q.out) <= 3
  BY <1>1, <1>3 DEF GoesOn
<1> QED
  BY <1>1, <1>2, <1>3, <1>4, OwnStep DEF p

LEMMA SignalIInv ==
  ASSUME IInv, NEW a \in Actors, ActorSignal(a)
  PROVE  IInv'
<1> DEFINE p == procs[a]
           m == Head(p.out)
           q == [p EXCEPT !.out = Tail(p.out), !.stage = Left(p.stage, p.out)]
           durable == history.durable
<1>1. /\ p \in ProcType /\ p.out # <<>> /\ Len(p.out) <= 3
      /\ Len(p.mailbox) <= ActorCapacity
      /\ procs \in [Actors -> ProcType]
      /\ mailbox \in Seq(MessageType) /\ Len(mailbox) < NodeCapacity
      /\ Reports(a, a \in DOMAIN actors, p.stage, p.out, mailbox)
  BY DEF ActorSignal, IInv, TypeOK
<1>2. /\ mailbox' = Append(mailbox, m)
      /\ procs' = [procs EXCEPT ![a] = q]
      /\ UNCHANGED <<client, poller, node, shard, actors, history>>
  <2>1. /\ mailbox' = Append(mailbox, m)
        /\ procs' = [procs EXCEPT ![a].out = Tail(@),
                                  ![a].stage = IF @ = "finishing" /\ Len(p.out) = 1
                                               THEN "gone" ELSE @]
        /\ UNCHANGED <<client, poller, node, shard, actors, history>>
    BY DEF ActorSignal, SignalSent
  <2>2. procs' = [procs EXCEPT ![a] = q]
    BY <1>1, <2>1 DEF Left
  <2> QED
    BY <2>1, <2>2
<1>3. p.stage # "gone"
  BY <1>1 DEF Reports
<1>4. /\ a \in DOMAIN actors
      /\ Reports(a, TRUE, p.stage, p.out, mailbox)
      /\ EntryInv(a, actors[a], p, mailbox, durable)
  BY <1>3, RunningIsHere DEF IInv
<1> HIDE DEF p
<1>5. /\ p.out \in Seq(SignalType) /\ p.stage \in Stages
      /\ m \in SignalType /\ Tail(p.out) \in Seq(SignalType)
      /\ Len(p.out) \in Nat /\ Len(Tail(p.out)) = Len(p.out) - 1
      /\ m = p.out[1] /\ 1 \in DOMAIN p.out
  BY <1>1, Shorter DEF ProcType, Stages
<1>6. m \in MessageType /\ m.sender = a
  BY <1>4, <1>5 DEF MessageType, Reports
<1> HIDE DEF m
<1>7. /\ q.stage = Left(p.stage, p.out) /\ q.out = Tail(p.out) /\ q \in ProcType
      /\ q.executed = p.executed /\ q.mailbox = p.mailbox /\ q.mailFull = p.mailFull
  BY <1>1, <1>5 DEF ProcType, Left, Stages
<1>8. SendsFirst(p, q)
  BY <1>7 DEF SendsFirst
<1> HIDE DEF q
<1>9. /\ Reports(a, TRUE, q.stage, q.out, mailbox')
      /\ EntryInv(a, actors[a], q, mailbox', durable)
  BY <1>1, <1>2, <1>4, <1>5, <1>7, <1>8, ReportsSent, EntrySent DEF m
<1>10. procs'[a] = q /\ \A b \in Actors : b # a => procs'[b] = procs[b]
  BY <1>1, <1>2
<1>11. \A b \in Actors : b # a => ~ From(m, b)
  BY <1>6 DEF From
<1>12. \A b \in Actors :
         Reports(b, b \in DOMAIN actors, procs'[b].stage, procs'[b].out, mailbox')
  <2> TAKE b \in Actors
  <2>1. CASE b = a
    <3>1. (b \in DOMAIN actors) = TRUE
      BY <1>4, <2>1
    <3> QED
      BY <1>9, <1>10, <2>1, <3>1
  <2>2. CASE b # a
    <3>1. Reports(b, b \in DOMAIN actors, procs[b].stage, procs[b].out, mailbox)
      BY DEF IInv
    <3>2. ~ From(m, b) /\ procs'[b] = procs[b]
      BY <1>10, <1>11, <2>2
    <3> QED
      BY <1>1, <1>2, <1>6, <3>1, <3>2, ReportsLonger
  <2> QED
    BY <2>1, <2>2
<1>13. \A b \in DOMAIN actors : EntryInv(b, actors[b], procs'[b], mailbox', durable)
  <2> TAKE b \in DOMAIN actors
  <2>1. b \in Actors /\ EntryInv(b, actors[b], procs[b], mailbox, durable)
    BY DEF IInv, TypeOK
  <2>2. CASE b = a
    BY <1>9, <1>10, <2>2
  <2>3. CASE b # a
    <3>1. ~ From(m, b) /\ procs'[b] = procs[b]
      BY <1>10, <1>11, <2>1, <2>3
    <3> QED
      BY <1>1, <1>2, <1>6, <2>1, <3>1, EntryLonger
  <2> QED
    BY <2>2, <2>3
<1>14. TypeOK'
  <2>1. /\ mailbox' \in Seq(MessageType)
        /\ Len(mailbox') <= NodeCapacity
    BY <1>1, <1>2, <1>6, BoundsAssumption
  <2>2. procs' \in [Actors -> ProcType]
    BY <1>1, <1>2, <1>7
  <2>3. Len(q.mailbox) <= ActorCapacity /\ Len(q.out) <= 3
    BY <1>1, <1>5, <1>7
  <2>4. \A b \in Actors : Len(procs'[b].mailbox) <= ActorCapacity /\ Len(procs'[b].out) <= 3
    BY <1>10, <2>3 DEF IInv, TypeOK
  <2> QED
    BY <1>2, <2>1, <2>2, <2>4 DEF IInv, TypeOK
<1>15. WindowOK(shard.window, Offsets, Owner)' /\ Ending'
  BY <1>2 DEF IInv, Ending, TimedOut
<1> QED
  BY <1>2, <1>12, <1>13, <1>14, <1>15 DEF IInv

LEMMA DeliverIInv ==
  ASSUME IInv, Deliver
  PROVE  IInv'
<1> DEFINE m == Record(Head(poller.batch))
<1>1. /\ poller \in PollerType /\ poller.batch # <<>>
      /\ mailbox \in Seq(MessageType) /\ Len(mailbox) < NodeCapacity
      /\ mailbox' = Append(mailbox, m)
      /\ poller' = [poller EXCEPT !.batch = Tail(@)]
      /\ UNCHANGED <<client, node, shard, actors, procs, history>>
  BY DEF Deliver, IInv, TypeOK
<1>2. /\ Head(poller.batch) \in Offsets
      /\ Tail(poller.batch) \in Seq(Offsets)
  BY <1>1, Shorter DEF PollerType
<1>3. m \in MessageType /\ \A b : ~ From(m, b)
  BY <1>2 DEF Record, MessageType, From
<1> HIDE DEF m
<1>4. \A b \in Actors :
         Reports(b, b \in DOMAIN actors, procs[b].stage, procs[b].out, mailbox')
  <2> TAKE b \in Actors
  <2>1. Reports(b, b \in DOMAIN actors, procs[b].stage, procs[b].out, mailbox)
    BY DEF IInv
  <2> QED
    BY <1>1, <1>3, <2>1, ReportsLonger
<1>5. \A b \in DOMAIN actors :
         EntryInv(b, actors[b], procs[b], mailbox', history.durable)
  <2> TAKE b \in DOMAIN actors
  <2>1. EntryInv(b, actors[b], procs[b], mailbox, history.durable)
    BY DEF IInv
  <2> QED
    BY <1>1, <1>3, <2>1, EntryLonger
<1>6. TypeOK'
  <2>1. mailbox' \in Seq(MessageType) /\ Len(mailbox') <= NodeCapacity
    BY <1>1, <1>3, BoundsAssumption
  <2>2. poller' \in PollerType
    BY <1>1, <1>2 DEF PollerType
  <2> QED
    BY <1>1, <2>1, <2>2 DEF IInv, TypeOK
<1>7. WindowOK(shard.window, Offsets, Owner)' /\ Ending'
  BY <1>1 DEF IInv, Ending, TimedOut
<1> QED
  BY <1>1, <1>4, <1>5, <1>6, <1>7 DEF IInv

-----------------------------------------------------------------------------
(* Saving snapshots and completing offsets.                                *)

LEMMA OffsetFacts ==
  /\ Offsets \in SUBSET Nat /\ NoOffset \notin Offsets
  /\ Owner \in [Offsets -> Actors]
  /\ \A o \in Offsets : o \in Positions /\ o + 1 \in Positions
  /\ FirstOffset \in Positions
<1>1. FirstOffset \in Nat /\ LastOffset \in Nat /\ FirstOffset <= LastOffset
  BY LogAssumption
<1>2. \A o \in Offsets : Log[o].actor \in Actors
  BY LogAssumption
<1> QED
  BY <1>1, <1>2 DEF Offsets, Positions, NoOffset, Owner

(* completeOffset and resumeOffset, whatever the commit answers.           *)
LEMMA Completes ==
  ASSUME IInv, NEW S \in SUBSET DOMAIN actors,
         \A a \in S : actors[a].snapshot # {}, NEW commit \in Commits(S)
  PROVE  LET r == CompleteOffset(S, commit)
         IN  /\ r.shard \in ShardType /\ WindowOK(r.shard.window, Offsets, Owner)
             /\ r.shard.registered = shard.registered
             /\ r.client \in ClientType
<1> DEFINE upTo == [a \in S |-> Snapshot(a).offset]
           done == Completed(S)
           sh == [shard EXCEPT !.window = done.window]
           cl == CommitOffset(client, done.next, commit)
           r == CompleteOffset(S, commit)
<1>1. /\ WindowOK(shard.window, Offsets, Owner)
      /\ shard \in ShardType /\ client \in ClientType
      /\ DOMAIN actors \subseteq Actors /\ actors \in [DOMAIN actors -> EntryType]
  BY DEF IInv, TypeOK
<1>2. DOMAIN upTo \subseteq Actors /\ \A a \in DOMAIN upTo : upTo[a] \in Nat
  <2> SUFFICES ASSUME NEW a \in S PROVE a \in Actors /\ Snapshot(a).offset \in Nat
    OBVIOUS
  <2>1. Snapshot(a) \in actors[a].snapshot
    BY DEF Snapshot
  <2>2. actors[a].snapshot \subseteq SnapshotType
    BY <1>1 DEF EntryType
  <2> QED
    BY <1>1, <2>1, <2>2, OffsetFacts DEF SnapshotType
<1>3. /\ WindowOK(done.window, Offsets, Owner)
      /\ done.advanced => done.next \in Positions
  <2> DEFINE w == shard.window
             c == Complete(w, upTo)
             left == c.window.offsetActor
  <2>1. done = c
    BY DEF Completed
  <2>2. w.offsetActor \subseteq Offsets
    BY <1>1 DEF ShardType
  <2> HIDE DEF upTo, w
  <2>3. /\ WindowOK(c.window, Offsets, Owner)
        /\ left \subseteq w.offsetActor
        /\ c.advanced =>
             /\ c.next \in Nat
             /\ \A o \in left : c.next <= o
             /\ IF left = {} THEN c.next = w.maxOffset + 1 /\ w.maxOffset \in Offsets
                ELSE c.next \in left
    BY <1>1, <1>2, OffsetFacts, CompleteKeeps DEF w
  <2> HIDE DEF c, done
  <2>4. c.advanced => c.next \in Positions
    BY <2>2, <2>3, OffsetFacts
  <2> QED
    BY <2>1, <2>3, <2>4
<1>4. commit \in {"acknowledged", "lost"} => done.advanced
  BY DEF Commits
<1> HIDE DEF done, upTo
<1>5. done.window \in [ minOffset    : OptionalOffset,
                        maxOffset    : OptionalOffset,
                        offsetActor  : SUBSET Offsets,
                        actorOffsets : [Actors -> Seq(Offsets)] ]
  BY <1>3 DEF WindowOK, WindowType, OptionalOffset
<1>6. /\ sh \in ShardType /\ sh.window = done.window
      /\ sh.registered = shard.registered /\ sh.pause = shard.pause
  BY <1>1, <1>5 DEF ShardType
<1>7. cl \in ClientType
  BY <1>1, <1>3, <1>4 DEF CommitOffset, ClientType
<1>8. r = IF commit \in {"refused", "lost"}
          THEN [shard |-> sh, client |-> cl]
          ELSE ResumeOffset(sh, cl)
  BY DEF CompleteOffset, done
<1> HIDE DEF sh, cl, r
<1>9. CASE r = [shard |-> sh, client |-> cl]
  BY <1>3, <1>6, <1>7, <1>9 DEF r
<1>10. CASE r = ResumeOffset(sh, cl) /\ sh.pause # NoOffset
  <2> DEFINE sh2 == [sh EXCEPT !.pause = NoOffset]
             cl2 == ResumePartition(SeekMessage(cl, sh.pause))
  <2>1. r = [shard |-> sh2, client |-> cl2]
    BY <1>10 DEF ResumeOffset
  <2>2. sh.pause \in Positions
    BY <1>6, <1>10, OffsetFacts DEF ShardType, OptionalOffset
  <2>3. /\ sh2 \in ShardType /\ sh2.window = sh.window /\ sh2.registered = sh.registered
    BY <1>6 DEF ShardType, OptionalOffset
  <2>4. [cl EXCEPT !.position = sh.pause] \in ClientType
    BY <1>7, <2>2 DEF ClientType
  <2>5. cl2 \in ClientType
    BY <2>4 DEF ResumePartition, SeekMessage, ClientType
  <2> HIDE DEF sh2, cl2
  <2>6. r.shard = sh2 /\ r.client = cl2
    BY <2>1
  <2> QED
    BY <1>3, <1>6, <2>3, <2>5, <2>6 DEF r
<1> QED
  BY <1>8, <1>9, <1>10 DEF ResumeOffset

(* What an attempt to save the snapshots of S leaves.                      *)
OutcomeOK(S, outcome) ==
  /\ outcome.stored \subseteq S
  /\ outcome.disabled \in {{}, S}
  /\ outcome.disabled # {} => outcome.stored = S
  /\ outcome.faults = history.faults => outcome.stored = S
  /\ outcome.faults \in 0 .. MaxFaults
  /\ outcome.next.shard \in ShardType
  /\ WindowOK(outcome.next.shard.window, Offsets, Owner)
  /\ outcome.next.shard.registered = shard.registered
  /\ outcome.next.client \in ClientType

LEMMA SaveAttempt ==
  ASSUME IInv, NEW S \in SUBSET DOMAIN actors,
         \A a \in S : actors[a].snapshot # {}, NEW outcome \in SaveOutcomes(S)
  PROVE  OutcomeOK(S, outcome)
<1>1. /\ WindowOK(shard.window, Offsets, Owner)
      /\ shard \in ShardType /\ client \in ClientType
      /\ history.faults \in 0 .. MaxFaults /\ MaxFaults \in Nat
  BY BoundsAssumption DEF IInv, TypeOK, HistoryType
<1>2. /\ Untouched.stored = {} /\ Untouched.disabled = {}
      /\ Untouched.faults = history.faults
      /\ Untouched.next.shard = shard /\ Untouched.next.client = client
      /\ Untouched = [ stored |-> {}, disabled |-> {}, faults |-> history.faults,
                       next |-> [shard |-> shard, client |-> client] ]
  BY DEF Untouched
<1>3. CASE S = {}
  <2>1. outcome = Untouched
    BY <1>3 DEF SaveOutcomes
  <2> QED
    BY <1>1, <1>2, <1>3, <2>1 DEF OutcomeOK
<1>4. CASE outcome \in SaveErrors(S)
  <2>1. CanFail("save")
    BY <1>4 DEF SaveErrors
  <2>2. PICK T \in SUBSET S : outcome = [Untouched EXCEPT !.stored = T, !.faults = @ + 1]
    BY <1>4, <2>1 DEF SaveErrors
  <2>3. /\ outcome.stored = T /\ outcome.disabled = {}
        /\ outcome.faults = history.faults + 1
        /\ outcome.next.shard = shard /\ outcome.next.client = client
    BY <1>2, <2>2
  <2>4. history.faults + 1 \in 0 .. MaxFaults /\ history.faults + 1 # history.faults
    BY <1>1, <2>1 DEF CanFail
  <2> QED
    BY <1>1, <2>3, <2>4 DEF OutcomeOK
<1>5. CASE outcome \in SaveSuccesses(S)
  <2>1. PICK commit \in Commits(S) : outcome =
          [ stored   |-> S,
            disabled |-> S,
            faults   |-> IF client.open /\ commit \in {"refused", "lost"}
                         THEN history.faults + 1 ELSE history.faults,
            next     |-> CompleteOffset(S, commit) ]
    BY <1>5 DEF SaveSuccesses
  <2> DEFINE r == CompleteOffset(S, commit)
  <2>2. /\ r.shard \in ShardType /\ WindowOK(r.shard.window, Offsets, Owner)
        /\ r.shard.registered = shard.registered
        /\ r.client \in ClientType
    BY Completes
  <2> HIDE DEF r
  <2>3. /\ outcome.stored = S /\ outcome.disabled = S /\ outcome.next = r
        /\ outcome.faults = IF client.open /\ commit \in {"refused", "lost"}
                            THEN history.faults + 1 ELSE history.faults
    BY <2>1 DEF r
  <2>4. client.open /\ commit \in {"refused", "lost"} => history.faults < MaxFaults
    BY DEF Commits, CanFail
  <2>5. outcome.faults \in 0 .. MaxFaults
    BY <1>1, <2>3, <2>4
  <2> QED
    BY <2>2, <2>3, <2>5 DEF OutcomeOK
<1> QED
  BY <1>3, <1>4, <1>5 DEF SaveOutcomes

(* Saving keeps what the entries stand for: a snapshot that is no longer   *)
(* held has been stored, one that may not have been is still held.         *)
LEMMA SaveKeeps ==
  ASSUME IInv, NEW S \in SUBSET DOMAIN actors,
         \A a \in S : actors[a].snapshot # {},
         NEW outcome, OutcomeOK(S, outcome), Saved(outcome)
  PROVE  /\ history' \in HistoryType
         /\ history.durable \subseteq history'.durable
         /\ \A a \in outcome.stored : Snapshot(a).state \subseteq history'.durable
         /\ Disabled(outcome) \in [DOMAIN actors -> EntryType]
         /\ \A a \in DOMAIN actors :
              LET e == Disabled(outcome)[a]
              IN  /\ \A s, t \in e.snapshot : s = t
                  /\ e.pause = actors[a].pause
                  /\ EntryInv(a, e, procs[a], mailbox, history'.durable)
<1> DEFINE new == UNION {Snapshot(a).state : a \in outcome.stored}
<1>1. /\ actors \in [DOMAIN actors -> EntryType] /\ DOMAIN actors \subseteq Actors
      /\ history \in HistoryType
      /\ \A a \in DOMAIN actors : \A s, t \in actors[a].snapshot : s = t
      /\ \A a \in DOMAIN actors : EntryInv(a, actors[a], procs[a], mailbox, history.durable)
  BY DEF IInv, TypeOK
<1>2. ASSUME NEW a \in S
      PROVE  /\ Snapshot(a) \in actors[a].snapshot
             /\ Snapshot(a).state \in SUBSET Offsets
  <2>1. Snapshot(a) \in actors[a].snapshot
    BY DEF Snapshot
  <2>2. actors[a].snapshot \subseteq SnapshotType
    BY <1>1 DEF EntryType
  <2> QED
    BY <2>1, <2>2 DEF SnapshotType
<1>3. new \in SUBSET Offsets /\ \A a \in outcome.stored : Snapshot(a).state \subseteq new
  <2>1. outcome.stored \subseteq S
    BY DEF OutcomeOK
  <2>2. ASSUME NEW o \in new PROVE o \in Offsets
    <3>1. PICK a \in outcome.stored : o \in Snapshot(a).state
      OBVIOUS
    <3> QED
      BY <1>2, <2>1, <3>1
  <2>3. ASSUME NEW a \in outcome.stored, NEW o \in Snapshot(a).state PROVE o \in new
    OBVIOUS
  <2> QED
    BY <2>2, <2>3
<1> HIDE DEF new
<1>4. /\ history' = [history EXCEPT !.durable = @ \union new, !.faults = outcome.faults]
      /\ outcome.faults \in 0 .. MaxFaults
  BY DEF Saved, new, OutcomeOK
<1>5. history' \in HistoryType /\ history'.durable = history.durable \union new
  BY <1>1, <1>3, <1>4 DEF HistoryType
<1>6. /\ Disabled(outcome) = [a \in DOMAIN actors |-> Disabled(outcome)[a]]
      /\ \A a \in DOMAIN actors :
           Disabled(outcome)[a] = IF a \in outcome.disabled
                                  THEN [actors[a] EXCEPT !.snapshot = {}] ELSE actors[a]
  BY DEF Disabled
<1>7. ASSUME NEW a \in DOMAIN actors
      PROVE  LET e == Disabled(outcome)[a]
             IN  /\ e \in EntryType
                 /\ \A s, t \in e.snapshot : s = t
                 /\ e.pause = actors[a].pause
                 /\ EntryInv(a, e, procs[a], mailbox, history'.durable)
  <2> DEFINE d == actors[a]
             e == Disabled(outcome)[a]
             p == procs[a]
             done == Range(p.executed)
  <2>1. d \in EntryType /\ EntryInv(a, d, p, mailbox, history.durable)
    BY <1>1
  <2>2. CASE a \notin outcome.disabled
    <3>1. e = d
      BY <1>6, <2>2
    <3>2. LastKept(a, d.snapshot, p.stage, p.out, done, mailbox, history'.durable)
      BY <1>5, <2>1 DEF EntryInv, LastKept, LastReceived
    <3>3. EntryInv(a, d, p, mailbox, history'.durable)
      BY <2>1, <3>2 DEF EntryInv
    <3> QED
      BY <1>1, <2>1, <3>1, <3>3
  <2>3. CASE a \in outcome.disabled
    <3>1. a \in S /\ a \in outcome.stored
      BY <2>3 DEF OutcomeOK
    <3>2. e = [d EXCEPT !.snapshot = {}]
      BY <1>6, <2>3
    <3> HIDE DEF d, e
    <3>3. e \in EntryType /\ e.snapshot = {} /\ e.pause = d.pause
      BY <2>1, <3>2 DEF EntryType
    <3>4. /\ Snapshot(a) \in d.snapshot
          /\ Snapshot(a).state \subseteq history'.durable
      BY <1>2, <1>3, <1>5, <3>1 DEF d
    <3>5. LastReceived(a, d.snapshot, done, mailbox, history.durable)
            => LastReceived(a, {}, done, mailbox, history'.durable)
      BY <3>4 DEF LastReceived
    <3>6. LastKept(a, {}, p.stage, p.out, done, mailbox, history'.durable)
      BY <2>1, <3>5 DEF EntryInv, LastKept
    <3>7. EntryInv(a, e, p, mailbox, history'.durable)
      BY <2>1, <3>3, <3>6 DEF EntryInv
    <3> QED
      BY <3>3, <3>7 DEF d, e
  <2> QED
    BY <2>2, <2>3
<1>8. Disabled(outcome) \in [DOMAIN actors -> EntryType]
  BY <1>6, <1>7
<1>9. \A a \in outcome.stored : Snapshot(a).state \subseteq history'.durable
  BY <1>3, <1>5
<1> QED
  BY <1>5, <1>7, <1>8, <1>9

LEMMA BatchKeeps ==
  ASSUME IInv, SnapshotBatch
  PROVE  /\ shard' \in ShardType /\ WindowOK(shard'.window, Offsets, Owner)
         /\ shard'.registered = shard.registered
         /\ client' \in ClientType
         /\ history' \in HistoryType
         /\ DOMAIN actors' = DOMAIN actors
         /\ actors' \in [DOMAIN actors -> EntryType]
         /\ \A a \in DOMAIN actors :
              /\ \A s, t \in actors'[a].snapshot : s = t
              /\ EntryInv(a, actors'[a], procs[a], mailbox, history'.durable)
<1> DEFINE S == WithSnapshot(Actors)
<1>1. S \in SUBSET DOMAIN actors /\ \A a \in S : actors[a].snapshot # {}
  BY DEF WithSnapshot
<1>2. PICK outcome \in SaveOutcomes(S) :
        /\ Saved(outcome)
        /\ actors' = Disabled(outcome)
        /\ shard'  = outcome.next.shard
        /\ client' = outcome.next.client
  BY DEF SnapshotBatch
<1> HIDE DEF S
<1>3. OutcomeOK(S, outcome)
  BY <1>1, SaveAttempt
<1>4. /\ history' \in HistoryType
      /\ Disabled(outcome) \in [DOMAIN actors -> EntryType]
      /\ \A a \in DOMAIN actors :
           LET e == Disabled(outcome)[a]
           IN  /\ \A s, t \in e.snapshot : s = t
               /\ e.pause = actors[a].pause
               /\ EntryInv(a, e, procs[a], mailbox, history'.durable)
  BY <1>1, <1>2, <1>3, SaveKeeps
<1> QED
  BY <1>2, <1>3, <1>4 DEF OutcomeOK

LEMMA TimerIInv ==
  ASSUME IInv, SnapshotTimer
  PROVE  IInv'
<1>1. /\ shard' \in ShardType /\ WindowOK(shard'.window, Offsets, Owner)
      /\ shard'.registered = shard.registered
      /\ client' \in ClientType
      /\ history' \in HistoryType
      /\ DOMAIN actors' = DOMAIN actors
      /\ actors' \in [DOMAIN actors -> EntryType]
      /\ \A a \in DOMAIN actors :
           /\ \A s, t \in actors'[a].snapshot : s = t
           /\ EntryInv(a, actors'[a], procs[a], mailbox, history'.durable)
  BY BatchKeeps DEF SnapshotTimer
<1>2. UNCHANGED <<poller, mailbox, node, procs>>
  BY DEF SnapshotTimer
<1>3. TypeOK'
  BY <1>1, <1>2 DEF IInv, TypeOK
<1>4. Ending'
  BY <1>1, <1>2 DEF IInv, Ending, TimedOut
<1> QED
  BY <1>1, <1>2, <1>3, <1>4 DEF IInv

LEMMA AfterStopIInv ==
  ASSUME IInv, AfterStop
  PROVE  IInv'
<1>1. /\ shard' \in ShardType /\ WindowOK(shard'.window, Offsets, Owner)
      /\ shard'.registered = shard.registered
      /\ client' \in ClientType
      /\ history' \in HistoryType
      /\ DOMAIN actors' = DOMAIN actors
      /\ actors' \in [DOMAIN actors -> EntryType]
      /\ \A a \in DOMAIN actors :
           /\ \A s, t \in actors'[a].snapshot : s = t
           /\ EntryInv(a, actors'[a], procs[a], mailbox, history'.durable)
  BY BatchKeeps DEF AfterStop
<1>2. /\ UNCHANGED <<poller, mailbox, procs>>
      /\ node \in NodeType /\ node.end
      /\ node' = [node EXCEPT !.stage = "stopped", !.end = FALSE]
  BY DEF AfterStop, IInv, TypeOK
<1>3. /\ node' \in NodeType /\ ~ node'.end
      /\ node'.stopping = node.stopping /\ node'.endTimer = node.endTimer
  BY <1>2 DEF NodeType
<1>4. TypeOK'
  BY <1>1, <1>2, <1>3 DEF IInv, TypeOK
<1>5. Ending'
  BY <1>1, <1>2, <1>3 DEF IInv, Ending, TimedOut
<1> QED
  BY <1>1, <1>2, <1>4, <1>5 DEF IInv

-----------------------------------------------------------------------------
(* What the node takes from its mailbox.                                   *)

LEMMA ReceiveFacts ==
  ASSUME IInv, NEW command, Receives(command)
  PROVE  /\ mailbox \in Seq(MessageType) /\ mailbox # <<>>
         /\ Head(mailbox) \in MessageType /\ Head(mailbox).command = command
         /\ mailbox' = Tail(mailbox)
         /\ mailbox' \in Seq(MessageType) /\ Len(mailbox') <= NodeCapacity
         /\ command # "record" => /\ Head(mailbox) \in SignalType
                                  /\ Sender \in Actors /\ Sender \in DOMAIN actors
                                  /\ From(Head(mailbox), Sender)
         /\ command = "record" => /\ Offset \in Offsets /\ Receiver \in Actors
                                  /\ Receiver = Owner[Offset]
                                  /\ \A a : ~ From(Head(mailbox), a)
<1>1. /\ mailbox \in Seq(MessageType) /\ mailbox # <<>> /\ Len(mailbox) <= NodeCapacity
      /\ Head(mailbox).command = command /\ mailbox' = Tail(mailbox)
  BY DEF Receives, IInv, TypeOK
<1>2. /\ Tail(mailbox) \in Seq(MessageType) /\ Head(mailbox) \in MessageType
      /\ Head(mailbox) = mailbox[1] /\ 1 \in DOMAIN mailbox
      /\ Len(mailbox) \in Nat /\ Len(Tail(mailbox)) = Len(mailbox) - 1
  BY <1>1, Shorter
<1>3. Len(mailbox') <= NodeCapacity
  BY <1>1, <1>2, BoundsAssumption
<1>4. ASSUME command # "record"
      PROVE  /\ Head(mailbox) \in SignalType
             /\ Sender \in Actors /\ Sender \in DOMAIN actors
             /\ From(Head(mailbox), Sender)
  <2>1. Head(mailbox) \in SignalType
    BY <1>1, <1>2, <1>4 DEF MessageType
  <2>2. Sender \in Actors
    BY <2>1 DEF SignalType, Sender
  <2>3. From(mailbox[1], Sender)
    BY <1>1, <1>2, <1>4 DEF From, Sender
  <2>4. Reports(Sender, Sender \in DOMAIN actors, procs[Sender].stage,
                procs[Sender].out, mailbox)
    BY <2>2 DEF IInv
  <2>5. Sender \in DOMAIN actors
    BY <1>2, <2>3, <2>4 DEF Reports
  <2> QED
    BY <1>2, <2>1, <2>2, <2>3, <2>5
<1>5. ASSUME command = "record"
      PROVE  /\ Offset \in Offsets /\ Receiver \in Actors
             /\ Receiver = Owner[Offset]
             /\ \A a : ~ From(Head(mailbox), a)
  <2>1. Offset \in Offsets
    BY <1>1, <1>2, <1>5 DEF MessageType, SignalType, Offset
  <2>2. Receiver = Owner[Offset]
    BY <2>1 DEF Receiver, Owner
  <2> QED
    BY <1>1, <1>5, <2>1, <2>2, OffsetFacts DEF From
<1> QED
  BY <1>1, <1>2, <1>3, <1>4, <1>5

(* A message that is no report, no snapshot and no ready signal of an      *)
(* actor changes nothing for it.                                           *)
LEMMA TailKeeps ==
  ASSUME IInv, NEW command, Receives(command)
  PROVE  /\ \A a \in Actors : ~ Is(Head(mailbox), "stopped", a) =>
              Reports(a, a \in DOMAIN actors, procs[a].stage, procs[a].out, mailbox')
         /\ \A a \in DOMAIN actors :
              ~ Is(Head(mailbox), "snapshot", a) /\ ~ Is(Head(mailbox), "ready", a) =>
              EntryInv(a, actors[a], procs[a], mailbox', history.durable)
<1>1. mailbox \in Seq(MessageType) /\ mailbox # <<>> /\ mailbox' = Tail(mailbox)
  BY ReceiveFacts
<1>2. ASSUME NEW a \in Actors, ~ Is(Head(mailbox), "stopped", a)
      PROVE  Reports(a, a \in DOMAIN actors, procs[a].stage, procs[a].out, Tail(mailbox))
  <2>1. Reports(a, a \in DOMAIN actors, procs[a].stage, procs[a].out, mailbox)
    BY DEF IInv
  <2> QED
    BY <1>1, <1>2, <2>1, ReportsShorter
<1>3. ASSUME NEW a \in DOMAIN actors,
             ~ Is(Head(mailbox), "snapshot", a), ~ Is(Head(mailbox), "ready", a)
      PROVE  EntryInv(a, actors[a], procs[a], Tail(mailbox), history.durable)
  <2>1. EntryInv(a, actors[a], procs[a], mailbox, history.durable)
    BY DEF IInv
  <2> QED
    BY <1>1, <1>3, <2>1, EntryShorter
<1> QED
  BY <1>1, <1>2, <1>3

(* Taking a record tells nothing of any actor.                             *)
LEMMA RecordTaken ==
  ASSUME IInv, Receives("record")
  PROVE  /\ Offset \in Offsets /\ Receiver \in Actors /\ Receiver = Owner[Offset]
         /\ mailbox' \in Seq(MessageType) /\ Len(mailbox') <= NodeCapacity
         /\ \A a \in Actors :
              Reports(a, a \in DOMAIN actors, procs[a].stage, procs[a].out, mailbox')
         /\ \A a \in DOMAIN actors :
              EntryInv(a, actors[a], procs[a], mailbox', history.durable)
<1>1. /\ Offset \in Offsets /\ Receiver \in Actors /\ Receiver = Owner[Offset]
      /\ mailbox' \in Seq(MessageType) /\ Len(mailbox') <= NodeCapacity
      /\ Head(mailbox).command = "record"
  BY ReceiveFacts
<1>2. \A a : /\ ~ Is(Head(mailbox), "stopped", a)
             /\ ~ Is(Head(mailbox), "snapshot", a)
             /\ ~ Is(Head(mailbox), "ready", a)
  BY <1>1 DEF Is
<1> QED
  BY <1>1, <1>2, TailKeeps

LEMMA DropIInv ==
  ASSUME IInv, DispatchDrop \/ DispatchUnstartable
  PROVE  IInv'
<1>1. /\ Receives("record")
      /\ UNCHANGED <<client, poller, node, shard, actors, procs, history>>
  BY DEF DispatchDrop, DispatchUnstartable, Accepted
<1>2. /\ mailbox' \in Seq(MessageType) /\ Len(mailbox') <= NodeCapacity
      /\ \A a \in Actors :
           Reports(a, a \in DOMAIN actors, procs[a].stage, procs[a].out, mailbox')
      /\ \A a \in DOMAIN actors :
           EntryInv(a, actors[a], procs[a], mailbox', history.durable)
  BY <1>1, RecordTaken
<1>3. TypeOK' /\ Ending' /\ WindowOK(shard.window, Offsets, Owner)'
  BY <1>1, <1>2 DEF IInv, TypeOK, Ending, TimedOut
<1> QED
  BY <1>1, <1>2, <1>3 DEF IInv

LEMMA FullIInv ==
  ASSUME IInv, DispatchFull
  PROVE  IInv'
<1>1. /\ Receives("record")
      /\ shard' = [shard EXCEPT !.pause = Offset]
      /\ client' = [client EXCEPT !.paused = TRUE]
      /\ UNCHANGED <<poller, node, actors, procs, history>>
      /\ shard \in ShardType /\ client \in ClientType
  BY DEF DispatchFull, PausePartition, IInv, TypeOK
<1>2. /\ mailbox' \in Seq(MessageType) /\ Len(mailbox') <= NodeCapacity
      /\ Offset \in Offsets
      /\ \A a \in Actors :
           Reports(a, a \in DOMAIN actors, procs[a].stage, procs[a].out, mailbox')
      /\ \A a \in DOMAIN actors :
           EntryInv(a, actors[a], procs[a], mailbox', history.durable)
  BY <1>1, RecordTaken
<1>3. /\ shard' \in ShardType /\ shard'.window = shard.window
      /\ shard'.registered = shard.registered
      /\ client' \in ClientType
  BY <1>1, <1>2 DEF ShardType, ClientType, OptionalOffset
<1>4. TypeOK' /\ Ending' /\ WindowOK(shard.window, Offsets, Owner)'
  BY <1>1, <1>2, <1>3 DEF IInv, TypeOK, Ending, TimedOut
<1> QED
  BY <1>1, <1>2, <1>4 DEF IInv

(* The window tracks a record that is accepted.                            *)
LEMMA AcceptedTracked ==
  ASSUME IInv, Accepted, NEW overtakes, Tracked(overtakes)
  PROVE  /\ history' \in HistoryType /\ history'.durable = history.durable
         /\ shard' \in ShardType /\ WindowOK(shard'.window, Offsets, Owner)
         /\ shard'.registered = shard.registered
         /\ shard.registered
<1>1. /\ shard' = [shard EXCEPT !.window = Add(shard.window, Offset, Receiver)]
      /\ history' = [history EXCEPT !.overtaken = @ \/ Leaps(Offset) \/ overtakes]
  BY DEF Tracked
<1>2. Offset \in Offsets /\ Receiver = Owner[Offset]
  BY RecordTaken DEF Accepted
<1> DEFINE w == Add(shard.window, Offset, Receiver)
<1>3. WindowOK(w, Offsets, Owner)
  <2>1. WindowOK(shard.window, Offsets, Owner)
    BY DEF IInv
  <2>2. WindowOK(Add(shard.window, Offset, Owner[Offset]), Offsets, Owner)
    BY <1>2, <2>1, OffsetFacts, AddKeeps
  <2> QED
    BY <1>2, <2>2
<1> HIDE DEF w
<1>4. w \in [ minOffset    : OptionalOffset,
              maxOffset    : OptionalOffset,
              offsetActor  : SUBSET Offsets,
              actorOffsets : [Actors -> Seq(Offsets)] ]
  BY <1>3 DEF WindowOK, WindowType, OptionalOffset
<1>5. shard \in ShardType /\ shard.registered
  BY DEF IInv, TypeOK, Accepted, Routable
<1>6. /\ shard' \in ShardType /\ shard'.window = w
      /\ shard'.registered = shard.registered
  BY <1>1, <1>4, <1>5 DEF ShardType, w
<1>7. history' \in HistoryType /\ history'.durable = history.durable
  <2>1. history \in HistoryType
    BY DEF IInv, TypeOK
  <2>2. (history.overtaken \/ Leaps(Offset) \/ overtakes) \in BOOLEAN
    OBVIOUS
  <2> QED
    BY <1>1, <2>1, <2>2 DEF HistoryType
<1> QED
  BY <1>3, <1>5, <1>6, <1>7

LEMMA UndeliveredIInv ==
  ASSUME IInv, DispatchPending \/ DispatchPaused \/ DispatchMailFull
  PROVE  IInv'
<1>1. /\ Accepted /\ Tracked(FALSE) /\ Receives("record")
      /\ UNCHANGED <<client, poller, node, procs>>
  BY DEF DispatchPending, DispatchPaused, DispatchMailFull, Accepted
<1>2. /\ mailbox' \in Seq(MessageType) /\ Len(mailbox') <= NodeCapacity
      /\ Offset \in Offsets
      /\ \A a \in Actors :
           Reports(a, a \in DOMAIN actors, procs[a].stage, procs[a].out, mailbox')
      /\ \A a \in DOMAIN actors :
           EntryInv(a, actors[a], procs[a], mailbox', history.durable)
  BY <1>1, RecordTaken
<1>3. /\ history' \in HistoryType /\ history'.durable = history.durable
      /\ shard' \in ShardType /\ WindowOK(shard'.window, Offsets, Owner)
      /\ shard'.registered = shard.registered
  BY <1>1, AcceptedTracked
<1>4. /\ actors \in [DOMAIN actors -> EntryType] /\ DOMAIN actors \subseteq Actors
      /\ \A a \in DOMAIN actors : \A s, t \in actors[a].snapshot : s = t
  BY DEF IInv, TypeOK
<1>5. /\ DOMAIN actors' = DOMAIN actors
      /\ actors' \in [DOMAIN actors -> EntryType]
      /\ \A a \in DOMAIN actors :
           /\ actors'[a].snapshot = actors[a].snapshot
           /\ \/ actors'[a].pause = actors[a].pause
              \/ Len(procs[a].mailbox) = ActorCapacity
  <2>1. CASE DispatchPending
    <3> DEFINE d == actors[Receiver]
               e == [d EXCEPT !.pending = IF @ = NoOffset THEN Offset ELSE @]
    <3>1. Receiver \in DOMAIN actors /\ d \in EntryType
      BY <1>4, <2>1 DEF DispatchPending
    <3>2. actors' = [actors EXCEPT ![Receiver] = e]
      BY <1>4, <2>1 DEF DispatchPending
    <3> HIDE DEF d
    <3>3. e \in EntryType /\ e.snapshot = d.snapshot /\ e.pause = d.pause
      BY <1>2, <3>1 DEF EntryType, OptionalOffset
    <3> HIDE DEF e
    <3> QED
      BY <1>4, <3>1, <3>2, <3>3 DEF d
  <2>2. CASE DispatchPaused
    BY <1>4, <2>2 DEF DispatchPaused
  <2>3. CASE DispatchMailFull
    <3> DEFINE d == actors[Receiver]
               e == [d EXCEPT !.pause = Offset]
    <3>1. /\ Receiver \in DOMAIN actors /\ d \in EntryType
          /\ Len(procs[Receiver].mailbox) = ActorCapacity
      BY <1>4, <2>3 DEF DispatchMailFull, Reachable
    <3>2. actors' = [actors EXCEPT ![Receiver] = e]
      BY <1>4, <2>3 DEF DispatchMailFull
    <3> HIDE DEF d
    <3>3. e \in EntryType /\ e.snapshot = d.snapshot
      BY <1>2, <3>1 DEF EntryType, OptionalOffset
    <3> HIDE DEF e
    <3> QED
      BY <1>4, <3>1, <3>2, <3>3 DEF d
  <2> QED
    BY <2>1, <2>2, <2>3
<1>6. \A a \in DOMAIN actors :
         EntryInv(a, actors'[a], procs[a], mailbox', history.durable)
  BY <1>2, <1>5 DEF EntryInv, ReadyKept
<1>7. TypeOK'
  BY <1>1, <1>2, <1>3, <1>4, <1>5 DEF IInv, TypeOK
<1>8. Ending'
  BY <1>1, <1>3, <1>5 DEF IInv, Ending, TimedOut
<1> QED
  BY <1>1, <1>2, <1>3, <1>5, <1>6, <1>7, <1>8 DEF IInv

LEMMA StartIInv ==
  ASSUME IInv, DispatchStart
  PROVE  IInv'
<1> DEFINE a == Receiver
           p == [NewProc EXCEPT !.mailbox = Append(@, Offset)]
<1>1. /\ Accepted /\ Tracked(Overtakes(Offset, NewProc)) /\ Receives("record")
      /\ Receiver \notin DOMAIN actors
      /\ actors' = WithEntry(Receiver, NewEntry)
      /\ procs' = [procs EXCEPT ![Receiver] = p]
      /\ UNCHANGED <<client, poller, node>>
  BY DEF DispatchStart, Accepted, Hand
<1>2. /\ mailbox' \in Seq(MessageType) /\ Len(mailbox') <= NodeCapacity
      /\ Offset \in Offsets /\ a \in Actors
      /\ \A b \in Actors :
           Reports(b, b \in DOMAIN actors, procs[b].stage, procs[b].out, mailbox')
      /\ \A b \in DOMAIN actors :
           EntryInv(b, actors[b], procs[b], mailbox', history.durable)
  BY <1>1, RecordTaken
<1>3. /\ history' \in HistoryType /\ history'.durable = history.durable
      /\ shard' \in ShardType /\ WindowOK(shard'.window, Offsets, Owner)
      /\ shard'.registered = shard.registered /\ shard.registered
  BY <1>1, AcceptedTracked
<1>4. /\ actors \in [DOMAIN actors -> EntryType] /\ DOMAIN actors \subseteq Actors
      /\ \A b \in DOMAIN actors : \A s, t \in actors[b].snapshot : s = t
      /\ procs \in [Actors -> ProcType] /\ history \in HistoryType
      /\ \A b \in Actors : Len(procs[b].mailbox) <= ActorCapacity /\ Len(procs[b].out) <= 3
  BY DEF IInv, TypeOK
<1>5. /\ p \in ProcType /\ p.stage = "running" /\ p.out = <<>> /\ Len(p.mailbox) = 1
      /\ DOMAIN p.out = {}
  <2>1. /\ NewProc \in ProcType /\ NewProc.stage = "running"
        /\ NewProc.mailbox = <<>> /\ NewProc.out = <<>>
    <3>1. NoProc \in ProcType /\ NoProc.mailbox = <<>> /\ NoProc.out = <<>>
      <4>1. /\ <<>> \in Seq(Offsets) /\ <<>> \in Seq(SignalType)
        OBVIOUS
      <4> QED
        BY <4>1 DEF NoProc, ProcType
    <3> QED
      BY <3>1 DEF NewProc, ProcType
  <2>2. /\ Append(<<>>, Offset) \in Seq(Offsets) /\ Len(Append(<<>>, Offset)) = 1
        /\ DOMAIN <<>> = {}
    BY <1>2
  <2> QED
    BY <2>1, <2>2 DEF ProcType
<1>6. /\ NewEntry \in EntryType /\ NewEntry.snapshot = {} /\ NewEntry.pause = NoOffset
  BY DEF NewEntry, EntryType, OptionalOffset
<1> HIDE DEF a, p
<1>7. /\ DOMAIN actors' = DOMAIN actors \union {a}
      /\ actors'[a] = NewEntry
      /\ \A b \in DOMAIN actors : actors'[b] = actors[b]
      /\ actors' = [b \in DOMAIN actors' |-> actors'[b]]
  BY <1>1 DEF WithEntry, a
<1>8. procs'[a] = p /\ \A b \in Actors : b # a => procs'[b] = procs[b]
  BY <1>1, <1>2, <1>4 DEF a
<1>10. a \notin DOMAIN actors
  BY <1>1 DEF a
<1>11. Reports(a, TRUE, "running", <<>>, mailbox')
  <2>1. Reports(a, FALSE, procs[a].stage, procs[a].out, mailbox')
    <3>1. (a \in DOMAIN actors) = FALSE
      BY <1>10
    <3> QED
      BY <1>2, <3>1
  <2>2. NoneOf(mailbox', "stopped", a)
    BY <2>1 DEF Reports, NoneOf, Is, From
  <2>3. DOMAIN <<>> = {}
    OBVIOUS
  <2> QED
    BY <2>2, <2>3 DEF Reports, NoneOf
<1>12. EntryInv(a, NewEntry, p, mailbox', history.durable)
  BY <1>5, <1>6 DEF EntryInv, LastKept, ReadyKept
<1>13. \A b \in Actors :
         Reports(b, b \in DOMAIN actors', procs'[b].stage, procs'[b].out, mailbox')
  <2> TAKE b \in Actors
  <2>1. CASE b = a
    <3>1. (b \in DOMAIN actors') = TRUE
      BY <1>7, <2>1
    <3> QED
      BY <1>5, <1>8, <1>11, <2>1, <3>1
  <2>2. CASE b # a
    <3>1. (b \in DOMAIN actors') = (b \in DOMAIN actors)
      BY <1>7, <2>2
    <3> QED
      BY <1>2, <1>8, <2>2, <3>1
  <2> QED
    BY <2>1, <2>2
<1>14. \A b \in DOMAIN actors' :
         EntryInv(b, actors'[b], procs'[b], mailbox', history.durable)
  BY <1>2, <1>4, <1>7, <1>8, <1>12
<1>15. procs' \in [Actors -> ProcType]
  BY <1>1, <1>4, <1>5
<1>16. \A b \in Actors : Len(procs'[b].mailbox) <= ActorCapacity /\ Len(procs'[b].out) <= 3
  <2>1. ActorCapacity \in Nat /\ 1 <= ActorCapacity /\ Len(<<>>) <= 3
    BY BoundsAssumption
  <2> QED
    BY <1>4, <1>5, <1>8, <2>1
<1>17. /\ DOMAIN actors' \subseteq Actors
       /\ actors' \in [DOMAIN actors' -> EntryType]
       /\ \A b \in DOMAIN actors' : \A s, t \in actors'[b].snapshot : s = t
  <2>1. \A b \in DOMAIN actors' : actors'[b] \in EntryType
    BY <1>4, <1>6, <1>7
  <2> QED
    BY <1>2, <1>4, <1>6, <1>7, <2>1
<1>18. TypeOK'
  BY <1>1, <1>2, <1>3, <1>15, <1>16, <1>17 DEF IInv, TypeOK
<1>19. Ending'
  BY <1>1, <1>3 DEF IInv, Ending, TimedOut, Accepted, Receives, Serving
<1> QED
  BY <1>3, <1>13, <1>14, <1>18, <1>19 DEF IInv

LEMMA SendIInv ==
  ASSUME IInv, DispatchSend
  PROVE  IInv'
<1> DEFINE a == Receiver
           p == procs[a]
           q == [p EXCEPT !.mailbox = Append(@, Offset)]
<1>1. /\ Accepted /\ Tracked(Overtakes(Offset, p)) /\ Receives("record")
      /\ a \in DOMAIN actors /\ actors[a].pause = NoOffset
      /\ Len(p.mailbox) < ActorCapacity
      /\ procs' = [procs EXCEPT ![a] = q]
      /\ UNCHANGED <<client, poller, node, actors>>
  BY DEF DispatchSend, Accepted, Hand, Reachable
<1>2. /\ mailbox' \in Seq(MessageType) /\ Len(mailbox') <= NodeCapacity
      /\ Offset \in Offsets /\ a \in Actors
      /\ \A b \in Actors :
           Reports(b, b \in DOMAIN actors, procs[b].stage, procs[b].out, mailbox')
      /\ \A b \in DOMAIN actors :
           EntryInv(b, actors[b], procs[b], mailbox', history.durable)
  BY <1>1, RecordTaken
<1>3. /\ history' \in HistoryType /\ history'.durable = history.durable
      /\ shard' \in ShardType /\ WindowOK(shard'.window, Offsets, Owner)
      /\ shard'.registered = shard.registered
  BY <1>1, AcceptedTracked
<1>4. /\ procs \in [Actors -> ProcType] /\ history \in HistoryType
      /\ DOMAIN actors \subseteq Actors
      /\ \A b \in Actors : Len(procs[b].mailbox) <= ActorCapacity /\ Len(procs[b].out) <= 3
  BY DEF IInv, TypeOK
<1>5. p \in ProcType
  BY <1>2, <1>4
<1> HIDE DEF a, p
<1>6. /\ Append(p.mailbox, Offset) \in Seq(Offsets)
      /\ Len(Append(p.mailbox, Offset)) <= ActorCapacity
  BY <1>1, <1>2, <1>5, BoundsAssumption DEF ProcType
<1>7. /\ q \in ProcType /\ q.stage = p.stage /\ q.out = p.out /\ q.executed = p.executed
      /\ q.mailbox = Append(p.mailbox, Offset)
  BY <1>5, <1>6 DEF ProcType
<1> HIDE DEF q
<1>8. procs'[a] = q /\ \A b \in Actors : b # a => procs'[b] = procs[b]
  BY <1>1, <1>2, <1>4
<1>10. \A b \in Actors :
         Reports(b, b \in DOMAIN actors, procs'[b].stage, procs'[b].out, mailbox')
  BY <1>2, <1>7, <1>8 DEF p
<1>11. EntryInv(a, actors[a], q, mailbox', history.durable)
  <2>1. EntryInv(a, actors[a], p, mailbox', history.durable)
    BY <1>1, <1>2 DEF p
  <2> QED
    BY <1>1, <1>7, <2>1 DEF EntryInv, ReadyKept
<1>12. \A b \in DOMAIN actors :
         EntryInv(b, actors[b], procs'[b], mailbox', history.durable)
  BY <1>2, <1>4, <1>8, <1>11
<1>13. procs' \in [Actors -> ProcType]
  BY <1>1, <1>4, <1>7
<1>14. \A b \in Actors : Len(procs'[b].mailbox) <= ActorCapacity /\ Len(procs'[b].out) <= 3
  BY <1>2, <1>4, <1>6, <1>7, <1>8 DEF p
<1>15. TypeOK'
  BY <1>1, <1>2, <1>3, <1>13, <1>14 DEF IInv, TypeOK
<1>16. Ending'
  BY <1>1, <1>3 DEF IInv, Ending, TimedOut
<1> QED
  BY <1>1, <1>3, <1>10, <1>12, <1>15, <1>16 DEF IInv

-----------------------------------------------------------------------------
(* Signals of actors.                                                      *)

LEMMA AliveTakenIInv ==
  ASSUME IInv, ReceiveAlive
  PROVE  IInv'
<1>1. /\ Receives("alive")
      /\ UNCHANGED <<client, poller, node, shard, actors, procs, history>>
  BY DEF ReceiveAlive
<1>2. mailbox' \in Seq(MessageType) /\ Len(mailbox') <= NodeCapacity
      /\ Head(mailbox).command = "alive"
  BY <1>1, ReceiveFacts
<1>3. /\ \A a \in Actors :
           Reports(a, a \in DOMAIN actors, procs[a].stage, procs[a].out, mailbox')
      /\ \A a \in DOMAIN actors :
           EntryInv(a, actors[a], procs[a], mailbox', history.durable)
  BY <1>1, <1>2, TailKeeps DEF Is
<1>4. TypeOK' /\ Ending' /\ WindowOK(shard.window, Offsets, Owner)'
  BY <1>1, <1>2 DEF IInv, TypeOK, Ending, TimedOut
<1> QED
  BY <1>1, <1>3, <1>4 DEF IInv

LEMMA SnapshotTakenIInv ==
  ASSUME IInv, ReceiveSnapshot
  PROVE  IInv'
<1> DEFINE a == Sender
           s == Head(mailbox).snapshot
           d == actors[a]
           e == [d EXCEPT !.snapshot = {s}]
<1>1. /\ Receives("snapshot")
      /\ actors' = [actors EXCEPT ![a] = e]
      /\ UNCHANGED <<client, poller, node, shard, procs, history>>
  BY DEF ReceiveSnapshot
<1>2. /\ mailbox \in Seq(MessageType) /\ mailbox # <<>> /\ mailbox' = Tail(mailbox)
      /\ mailbox' \in Seq(MessageType) /\ Len(mailbox') <= NodeCapacity
      /\ Head(mailbox).command = "snapshot" /\ Head(mailbox) \in SignalType
      /\ a \in Actors /\ a \in DOMAIN actors /\ Head(mailbox).sender = a
  BY <1>1, ReceiveFacts DEF From
<1>3. s \in SnapshotType
  BY <1>2 DEF SignalType
<1>4. /\ actors \in [DOMAIN actors -> EntryType] /\ DOMAIN actors \subseteq Actors
      /\ \A b \in DOMAIN actors : \A t, u \in actors[b].snapshot : t = u
  BY DEF IInv, TypeOK
<1>5. d \in EntryType /\ EntryInv(a, d, procs[a], mailbox, history.durable)
  BY <1>2, <1>4 DEF IInv
<1>6. /\ \A b \in Actors :
           Reports(b, b \in DOMAIN actors, procs[b].stage, procs[b].out, mailbox')
      /\ \A b \in DOMAIN actors : b # a =>
           EntryInv(b, actors[b], procs[b], mailbox', history.durable)
  BY <1>1, <1>2, TailKeeps DEF Is
<1> HIDE DEF a, d
<1>7. e \in EntryType /\ e.snapshot = {s} /\ e.pause = d.pause
  BY <1>3, <1>5 DEF EntryType
<1> HIDE DEF e
<1>8. EntryInv(a, e, procs[a], mailbox', history.durable)
  <2> DEFINE p == procs[a]
             done == Range(p.executed)
  <2>1. /\ LastKept(a, d.snapshot, p.stage, p.out, done, mailbox, history.durable)
        /\ ReadyKept(a, d.pause, p.stage, p.out, p.mailbox, p.mailFull, mailbox)
    BY <1>5 DEF EntryInv
  <2> HIDE DEF p, done
  <2>2. Is(Head(mailbox), "snapshot", a)
    BY <1>2 DEF Is
  <2>3. LastKept(a, {s}, p.stage, p.out, done, mailbox', history.durable)
    BY <1>2, <2>1, <2>2, SnapshotTaken
  <2>4. ReadyKept(a, d.pause, p.stage, p.out, p.mailbox, p.mailFull, mailbox')
    BY <1>2, <2>1, ReadyShorter DEF Is
  <2> QED
    BY <1>7, <2>3, <2>4 DEF EntryInv, p, done
<1>9. /\ DOMAIN actors' = DOMAIN actors
      /\ actors'[a] = e /\ \A b \in DOMAIN actors : b # a => actors'[b] = actors[b]
      /\ actors' \in [DOMAIN actors -> EntryType]
  BY <1>1, <1>2, <1>4, <1>7
<1>10. \A b \in DOMAIN actors : \A t, u \in actors'[b].snapshot : t = u
  BY <1>4, <1>7, <1>9
<1>11. \A b \in DOMAIN actors :
         EntryInv(b, actors'[b], procs[b], mailbox', history.durable)
  BY <1>6, <1>8, <1>9
<1>12. TypeOK'
  BY <1>1, <1>2, <1>9, <1>10 DEF IInv, TypeOK
<1>13. Ending' /\ WindowOK(shard.window, Offsets, Owner)'
  BY <1>1, <1>9 DEF IInv, Ending, TimedOut
<1> QED
  BY <1>1, <1>6, <1>9, <1>11, <1>12, <1>13 DEF IInv

LEMMA OwedTyped ==
  ASSUME IInv, NEW a \in DOMAIN actors
  PROVE  Owed(a) \in OptionalOffset /\ actors[a].pause \in OptionalOffset
<1>1. /\ a \in Actors /\ actors[a] \in EntryType
      /\ shard.window.actorOffsets \in [Actors -> Seq(Offsets)]
  BY DEF IInv, TypeOK, ShardType
<1> DEFINE list == shard.window.actorOffsets[a]
<1>2. list \in Seq(Offsets)
  BY <1>1
<1> HIDE DEF list
<1>3. GetMinOffset(shard.window, a) \in OptionalOffset
  <2>1. CASE list = <<>>
    BY <2>1 DEF GetMinOffset, OptionalOffset, list
  <2>2. CASE list # <<>>
    <3>1. list[1] \in Range(list) /\ Range(list) \subseteq Offsets
      BY <1>2, <2>2 DEF Range
    <3>2. Range(list) \in SUBSET Nat /\ Range(list) # {}
      BY <3>1, OffsetFacts
    <3>3. Min(Range(list)) \in Range(list)
      BY <3>2, MinIsLeast
    <3> QED
      BY <2>2, <3>1, <3>3 DEF GetMinOffset, OptionalOffset, list
  <2> QED
    BY <2>1, <2>2
<1> QED
  BY <1>1, <1>3 DEF Owed, EntryType

LEMMA SeekTyped ==
  ASSUME NEW cl \in ClientType, NEW o \in OptionalOffset, o # NoOffset
  PROVE  SeekMessage(cl, o) \in ClientType
<1>1. o \in Positions
  BY OffsetFacts DEF OptionalOffset
<1> QED
  BY <1>1 DEF SeekMessage, ClientType

LEMMA RecycleSeekIInv ==
  ASSUME IInv, RecycleSeek
  PROVE  IInv'
<1>1. /\ Receives("idle")
      /\ client' = SeekMessage(client, Owed(Sender)) /\ Owed(Sender) # NoOffset
      /\ UNCHANGED <<poller, node, shard, actors, procs, history>>
  BY DEF RecycleSeek
<1>2. /\ mailbox' \in Seq(MessageType) /\ Len(mailbox') <= NodeCapacity
      /\ Head(mailbox).command = "idle" /\ Sender \in DOMAIN actors
  BY <1>1, ReceiveFacts
<1>3. /\ \A a \in Actors :
           Reports(a, a \in DOMAIN actors, procs[a].stage, procs[a].out, mailbox')
      /\ \A a \in DOMAIN actors :
           EntryInv(a, actors[a], procs[a], mailbox', history.durable)
  BY <1>1, <1>2, TailKeeps DEF Is
<1>4. client \in ClientType
  BY DEF IInv, TypeOK
<1>5. client' \in ClientType
  BY <1>1, <1>2, <1>4, OwedTyped, SeekTyped
<1>6. TypeOK' /\ Ending' /\ WindowOK(shard.window, Offsets, Owner)'
  BY <1>1, <1>2, <1>5 DEF IInv, TypeOK, Ending, TimedOut
<1> QED
  BY <1>1, <1>3, <1>6 DEF IInv

LEMMA RecycleStopIInv ==
  ASSUME IInv, RecycleStop
  PROVE  IInv'
<1> DEFINE a == Sender
           S == IF actors[a].snapshot = {} THEN {} ELSE WithSnapshot(Actors)
           p == procs[a]
           q == [p EXCEPT !.stop = TRUE]
<1>1. /\ Receives("idle")
      /\ procs' = [procs EXCEPT ![a] = q]
      /\ UNCHANGED <<poller, node>>
  BY DEF RecycleStop, StopActor
<1>2. PICK outcome \in SaveOutcomes(S) :
        /\ Saved(outcome)
        /\ actors' = [Disabled(outcome) EXCEPT ![a].stopping = TRUE]
        /\ shard'  = outcome.next.shard
        /\ client' = outcome.next.client
  BY DEF RecycleStop
<1>3. S \in SUBSET DOMAIN actors /\ \A b \in S : actors[b].snapshot # {}
  BY DEF WithSnapshot
<1>4. /\ mailbox \in Seq(MessageType) /\ mailbox # <<>> /\ mailbox' = Tail(mailbox)
      /\ mailbox' \in Seq(MessageType) /\ Len(mailbox') <= NodeCapacity
      /\ Head(mailbox).command = "idle" /\ a \in Actors /\ a \in DOMAIN actors
  BY <1>1, ReceiveFacts
<1>5. /\ procs \in [Actors -> ProcType] /\ DOMAIN actors \subseteq Actors
      /\ \A b \in Actors : Len(procs[b].mailbox) <= ActorCapacity /\ Len(procs[b].out) <= 3
  BY DEF IInv, TypeOK
<1> HIDE DEF S, a
<1>6. OutcomeOK(S, outcome)
  BY <1>2, <1>3, SaveAttempt
<1> DEFINE f == Disabled(outcome)
<1>7. /\ history' \in HistoryType
      /\ f \in [DOMAIN actors -> EntryType]
      /\ \A b \in DOMAIN actors :
           /\ \A s, t \in f[b].snapshot : s = t
           /\ EntryInv(b, f[b], procs[b], mailbox, history'.durable)
  BY <1>2, <1>3, <1>6, SaveKeeps
<1> HIDE DEF f
<1> DEFINE e == [f[a] EXCEPT !.stopping = TRUE]
<1>8. actors' = [f EXCEPT ![a] = e]
  BY <1>2, <1>4, <1>7 DEF f
<1>9. e \in EntryType /\ e.snapshot = f[a].snapshot /\ e.pause = f[a].pause
  BY <1>4, <1>7 DEF EntryType
<1> HIDE DEF e
<1>10. /\ DOMAIN actors' = DOMAIN actors /\ actors' \in [DOMAIN actors -> EntryType]
       /\ \A b \in DOMAIN actors : /\ actors'[b].snapshot = f[b].snapshot
                                   /\ actors'[b].pause = f[b].pause
  BY <1>4, <1>7, <1>8, <1>9
<1>11. p \in ProcType
  BY <1>4, <1>5
<1> HIDE DEF p
<1>12. /\ q \in ProcType /\ q.stage = p.stage /\ q.out = p.out /\ q.executed = p.executed
       /\ q.mailbox = p.mailbox /\ q.mailFull = p.mailFull
  BY <1>11 DEF ProcType
<1> HIDE DEF q
<1>13. /\ procs' \in [Actors -> ProcType]
       /\ \A b \in Actors :
            /\ procs'[b].stage = procs[b].stage /\ procs'[b].out = procs[b].out
            /\ procs'[b].executed = procs[b].executed
            /\ procs'[b].mailbox = procs[b].mailbox /\ procs'[b].mailFull = procs[b].mailFull
  BY <1>1, <1>4, <1>5, <1>12 DEF p
<1>14. \A b \in Actors :
         Reports(b, b \in DOMAIN actors', procs'[b].stage, procs'[b].out, mailbox')
  <2> TAKE b \in Actors
  <2>1. Reports(b, b \in DOMAIN actors, procs[b].stage, procs[b].out, mailbox')
    BY <1>1, <1>4, TailKeeps DEF Is
  <2> QED
    BY <1>10, <1>13, <2>1
<1>15. \A b \in DOMAIN actors :
         EntryInv(b, actors'[b], procs'[b], mailbox', history'.durable)
  <2> TAKE b \in DOMAIN actors
  <2>1. EntryInv(b, f[b], procs[b], mailbox, history'.durable)
    BY <1>7
  <2>2. EntryInv(b, f[b], procs[b], mailbox', history'.durable)
    BY <1>4, <2>1, EntryShorter DEF Is
  <2> QED
    BY <1>5, <1>10, <1>13, <2>2 DEF EntryInv
<1>16. /\ shard' \in ShardType /\ WindowOK(shard'.window, Offsets, Owner)
       /\ shard'.registered = shard.registered /\ client' \in ClientType
  BY <1>2, <1>6 DEF OutcomeOK
<1>17. \A b \in DOMAIN actors' : \A s, t \in actors'[b].snapshot : s = t
  BY <1>7, <1>10
<1>18. TypeOK'
  BY <1>1, <1>4, <1>5, <1>7, <1>10, <1>13, <1>16, <1>17 DEF IInv, TypeOK
<1>19. Ending'
  BY <1>1, <1>10, <1>16 DEF IInv, Ending, TimedOut
<1> QED
  BY <1>10, <1>14, <1>15, <1>16, <1>18, <1>19 DEF IInv

LEMMA ReadyTakenIInv ==
  ASSUME IInv, ReceiveReady
  PROVE  IInv'
<1> DEFINE a == Sender
           d == actors[a]
           e == [d EXCEPT !.pause = NoOffset]
<1>1. /\ Receives("ready")
      /\ UNCHANGED <<poller, node, shard, procs, history>>
      /\ IF d.pause = NoOffset
         THEN UNCHANGED <<client, actors>>
         ELSE /\ client' = SeekMessage(client, d.pause)
              /\ actors' = [actors EXCEPT ![a] = e]
  BY DEF ReceiveReady
<1>2. /\ mailbox \in Seq(MessageType) /\ mailbox # <<>> /\ mailbox' = Tail(mailbox)
      /\ mailbox' \in Seq(MessageType) /\ Len(mailbox') <= NodeCapacity
      /\ Head(mailbox).command = "ready" /\ Head(mailbox).sender = a
      /\ a \in Actors /\ a \in DOMAIN actors
  BY <1>1, ReceiveFacts DEF From
<1>3. /\ actors \in [DOMAIN actors -> EntryType] /\ DOMAIN actors \subseteq Actors
      /\ client \in ClientType
      /\ \A b \in DOMAIN actors : \A s, t \in actors[b].snapshot : s = t
  BY DEF IInv, TypeOK
<1>4. /\ d \in EntryType /\ d.pause \in OptionalOffset
      /\ EntryInv(a, d, procs[a], mailbox, history.durable)
  BY <1>2, <1>3, OwedTyped DEF IInv
<1>5. /\ \A b \in Actors :
           Reports(b, b \in DOMAIN actors, procs[b].stage, procs[b].out, mailbox')
      /\ \A b \in DOMAIN actors : b # a =>
           EntryInv(b, actors[b], procs[b], mailbox', history.durable)
  BY <1>1, <1>2, TailKeeps DEF Is
<1> HIDE DEF a, d
<1>6. e \in EntryType /\ e.snapshot = d.snapshot /\ e.pause = NoOffset
  BY <1>4 DEF EntryType, OptionalOffset
<1> HIDE DEF e
<1>7. /\ client' \in ClientType
      /\ DOMAIN actors' = DOMAIN actors /\ actors' \in [DOMAIN actors -> EntryType]
      /\ actors'[a].snapshot = d.snapshot /\ actors'[a].pause = NoOffset
      /\ \A b \in DOMAIN actors : b # a => actors'[b] = actors[b]
  <2>1. CASE d.pause = NoOffset
    BY <1>1, <1>3, <2>1 DEF d
  <2>2. CASE d.pause # NoOffset
    <3>1. client' \in ClientType
      BY <1>1, <1>3, <1>4, <2>2, SeekTyped
    <3> QED
      BY <1>1, <1>2, <1>3, <1>6, <2>2, <3>1
  <2> QED
    BY <2>1, <2>2
<1>8. EntryInv(a, actors'[a], procs[a], mailbox', history.durable)
  <2> DEFINE p == procs[a]
             done == Range(p.executed)
  <2>1. LastKept(a, d.snapshot, p.stage, p.out, done, mailbox, history.durable)
    BY <1>4 DEF EntryInv
  <2> HIDE DEF p, done
  <2>2. LastKept(a, d.snapshot, p.stage, p.out, done, mailbox', history.durable)
    BY <1>2, <2>1, LastShorter DEF Is
  <2> QED
    BY <1>7, <2>2 DEF EntryInv, ReadyKept, p, done
<1>9. \A b \in DOMAIN actors :
        EntryInv(b, actors'[b], procs[b], mailbox', history.durable)
  BY <1>5, <1>7, <1>8
<1>10. \A b \in DOMAIN actors : \A s, t \in actors'[b].snapshot : s = t
  BY <1>2, <1>3, <1>7 DEF d
<1>11. TypeOK'
  BY <1>1, <1>2, <1>3, <1>7, <1>10 DEF IInv, TypeOK
<1>12. Ending' /\ WindowOK(shard.window, Offsets, Owner)'
  BY <1>1, <1>7 DEF IInv, Ending, TimedOut
<1> QED
  BY <1>1, <1>5, <1>7, <1>9, <1>11, <1>12 DEF IInv

(***************************************************************************)
(* The report of an actor is the last message of it, so the snapshot the   *)
(* entry holds, if it holds one, is of all that the actor has done.        *)
(***************************************************************************)
LEMMA StoppedFacts ==
  ASSUME IInv, ReceiveStopped
  PROVE  LET a == Sender
             S == WithSnapshot({a})
         IN  /\ Receives("stopped")
             /\ a \in Actors /\ a \in DOMAIN actors
             /\ Is(Head(mailbox), "stopped", a)
             /\ procs[a].stage = "gone"
             /\ Reports(a, FALSE, "gone", <<>>, mailbox')
             /\ LastReceived(a, actors[a].snapshot, Range(procs[a].executed),
                             mailbox, history.durable)
             /\ S \in SUBSET DOMAIN actors /\ \A b \in S : actors[b].snapshot # {}
             /\ \E outcome \in SaveOutcomes(S) :
                  /\ OutcomeOK(S, outcome) /\ Saved(outcome)
                  /\ shard' = outcome.next.shard
                  /\ client' = SoughtAfter(a, outcome.next.client)
<1> DEFINE a == Sender
           S == WithSnapshot({a})
           p == procs[a]
<1>1. /\ Receives("stopped")
      /\ \E outcome \in SaveOutcomes(S) :
           /\ Saved(outcome)
           /\ shard' = outcome.next.shard
           /\ client' = SoughtAfter(a, outcome.next.client)
  BY DEF ReceiveStopped
<1>2. /\ mailbox \in Seq(MessageType) /\ mailbox # <<>> /\ mailbox' = Tail(mailbox)
      /\ Head(mailbox).command = "stopped" /\ Head(mailbox).sender = a
      /\ a \in Actors /\ a \in DOMAIN actors
  BY <1>1, ReceiveFacts DEF From
<1>3. Is(Head(mailbox), "stopped", a)
  BY <1>2 DEF Is
<1>4. /\ Reports(a, TRUE, p.stage, p.out, mailbox)
      /\ EntryInv(a, actors[a], p, mailbox, history.durable)
  <2>1. (a \in DOMAIN actors) = TRUE
    BY <1>2
  <2> QED
    BY <1>2, <2>1 DEF IInv
<1>5. S \in SUBSET DOMAIN actors /\ \A b \in S : actors[b].snapshot # {}
  BY DEF WithSnapshot
<1>6. PICK outcome \in SaveOutcomes(S) :
           /\ Saved(outcome)
           /\ shard' = outcome.next.shard
           /\ client' = SoughtAfter(a, outcome.next.client)
  BY <1>1
<1> HIDE DEF a, S, p
<1>7. /\ p.stage = "gone" /\ p.out = <<>> /\ NoneOf(mailbox, "snapshot", a)
      /\ Reports(a, FALSE, "gone", <<>>, mailbox')
  <2>1. p.stage = "gone"
    <3>1. 1 \in DOMAIN mailbox /\ mailbox[1] = Head(mailbox)
      BY <1>2, Shorter
    <3> QED
      BY <1>3, <1>4, <3>1 DEF Reports, NoneOf
  <2>2. p.out = <<>>
    BY <1>4, <2>1 DEF Reports
  <2>3. Reports(a, TRUE, p.stage, p.out, mailbox)
    BY <1>4
  <2>4. NoneOf(mailbox, "snapshot", a)
    BY <1>2, <1>3, <2>3, ReportTaken
  <2>5. Reports(a, FALSE, "gone", <<>>, Tail(mailbox))
    BY <1>2, <1>3, <2>3, ReportTaken
  <2> QED
    BY <1>2, <2>1, <2>2, <2>4, <2>5
<1>8. LastReceived(a, actors[a].snapshot, Range(p.executed), mailbox, history.durable)
  <2>1. ~ LastSent(a, Range(p.executed), mailbox)
    BY <1>7 DEF LastSent, NoneOf
  <2>2. ~ (Len(p.out) > 1)
    BY <1>7
  <2> QED
    BY <1>4, <1>7, <2>1, <2>2 DEF EntryInv, LastKept
<1>9. OutcomeOK(S, outcome)
  BY <1>5, <1>6, SaveAttempt
<1> QED
  BY <1>1, <1>2, <1>3, <1>5, <1>6, <1>7, <1>8, <1>9 DEF a, S, p

LEMMA StoppedTakenIInv ==
  ASSUME IInv, ReceiveStopped
  PROVE  IInv'
<1> DEFINE a == Sender
           S == WithSnapshot({a})
<1>1. /\ Receives("stopped")
      /\ a \in Actors /\ a \in DOMAIN actors
      /\ Is(Head(mailbox), "stopped", a)
      /\ procs[a].stage = "gone"
      /\ Reports(a, FALSE, "gone", <<>>, mailbox')
      /\ S \in SUBSET DOMAIN actors /\ \A b \in S : actors[b].snapshot # {}
  BY StoppedFacts
<1>2. PICK outcome \in SaveOutcomes(S) :
        /\ OutcomeOK(S, outcome) /\ Saved(outcome)
        /\ shard' = outcome.next.shard
        /\ client' = SoughtAfter(a, outcome.next.client)
  BY StoppedFacts
<1>3. /\ mailbox \in Seq(MessageType) /\ mailbox # <<>> /\ mailbox' = Tail(mailbox)
      /\ mailbox' \in Seq(MessageType) /\ Len(mailbox') <= NodeCapacity
  BY <1>1, ReceiveFacts
<1>4. /\ actors' = Without(a)
      /\ procs' = [procs EXCEPT ![a] = NoProc]
      /\ node' = IF node.stopping THEN HandleEnding(node, DOMAIN actors \ {a}) ELSE node
      /\ UNCHANGED poller
  BY <1>1 DEF ReceiveStopped, Collected
<1>5. /\ actors \in [DOMAIN actors -> EntryType] /\ DOMAIN actors \subseteq Actors
      /\ procs \in [Actors -> ProcType] /\ node \in NodeType
      /\ \A b \in DOMAIN actors : \A s, t \in actors[b].snapshot : s = t
      /\ \A b \in Actors : Len(procs[b].mailbox) <= ActorCapacity /\ Len(procs[b].out) <= 3
  BY DEF IInv, TypeOK
<1>6. \A b \in S : b = a
  BY DEF WithSnapshot
<1> HIDE DEF a, S
<1>7. /\ history' \in HistoryType
      /\ \A b \in DOMAIN actors :
           EntryInv(b, Disabled(outcome)[b], procs[b], mailbox, history'.durable)
  BY <1>1, <1>2, SaveKeeps
<1>8. \A b \in DOMAIN actors : b # a => Disabled(outcome)[b] = actors[b]
  <2>1. \A b \in DOMAIN actors : b # a => b \notin outcome.disabled
    BY <1>2, <1>6 DEF OutcomeOK
  <2> QED
    BY <2>1 DEF Disabled
<1>9. /\ DOMAIN actors' = DOMAIN actors \ {a}
      /\ \A b \in DOMAIN actors' : actors'[b] = actors[b]
      /\ actors' \in [DOMAIN actors' -> EntryType]
  <2>1. DOMAIN actors' = DOMAIN actors \ {a}
        /\ actors' = [b \in DOMAIN actors' |-> actors[b]]
    BY <1>4 DEF Without
  <2> QED
    BY <1>5, <2>1
<1>10. /\ NoProc \in ProcType /\ NoProc.stage = "gone" /\ NoProc.out = <<>>
       /\ NoProc.mailbox = <<>>
  <2>1. /\ <<>> \in Seq(Offsets) /\ <<>> \in Seq(SignalType)
    OBVIOUS
  <2> QED
    BY <2>1 DEF NoProc, ProcType
<1>11. /\ procs' \in [Actors -> ProcType]
       /\ procs'[a] = NoProc /\ \A b \in Actors : b # a => procs'[b] = procs[b]
  BY <1>1, <1>4, <1>5, <1>10
<1>12. \A b \in Actors : Len(procs'[b].mailbox) <= ActorCapacity
                         /\ Len(procs'[b].out) <= 3
  <2>1. Len(<<>>) <= ActorCapacity /\ Len(<<>>) <= 3
    BY BoundsAssumption
  <2> QED
    BY <1>5, <1>10, <1>11, <2>1
<1>13. \A b \in Actors :
         Reports(b, b \in DOMAIN actors', procs'[b].stage, procs'[b].out, mailbox')
  <2> TAKE b \in Actors
  <2>1. CASE b = a
    <3>1. (b \in DOMAIN actors') = FALSE
      BY <1>9, <2>1
    <3> QED
      BY <1>1, <1>10, <1>11, <2>1, <3>1
  <2>2. CASE b # a
    <3>1. ~ Is(Head(mailbox), "stopped", b)
      BY <1>1, <2>2 DEF Is
    <3>2. Reports(b, b \in DOMAIN actors, procs[b].stage, procs[b].out, mailbox')
      BY <1>1, <1>3, <3>1, TailKeeps
    <3>3. (b \in DOMAIN actors') = (b \in DOMAIN actors)
      BY <1>9, <2>2
    <3> QED
      BY <1>11, <2>2, <3>2, <3>3
  <2> QED
    BY <2>1, <2>2
<1>14. \A b \in DOMAIN actors' :
         EntryInv(b, actors'[b], procs'[b], mailbox', history'.durable)
  <2> TAKE b \in DOMAIN actors'
  <2>1. b \in DOMAIN actors /\ b # a /\ b \in Actors /\ actors'[b] = actors[b]
        /\ procs'[b] = procs[b]
    BY <1>5, <1>9, <1>11
  <2>2. EntryInv(b, actors[b], procs[b], mailbox, history'.durable)
    BY <1>7, <1>8, <2>1
  <2>3. ~ Is(Head(mailbox), "snapshot", b) /\ ~ Is(Head(mailbox), "ready", b)
    BY <1>1 DEF Is
  <2> QED
    BY <1>3, <2>1, <2>2, <2>3, EntryShorter
<1>15. client' \in ClientType
  <2>1. outcome.next.client \in ClientType
    BY <1>2 DEF OutcomeOK
  <2>2. actors[a].pending \in OptionalOffset
    BY <1>1, <1>5 DEF EntryType
  <2> QED
    BY <1>2, <2>1, <2>2, SeekTyped DEF SoughtAfter
<1>16. /\ shard' \in ShardType /\ WindowOK(shard'.window, Offsets, Owner)
       /\ shard'.registered = shard.registered
  BY <1>2 DEF OutcomeOK
<1>17. /\ node' \in NodeType /\ node'.stopping = node.stopping
       /\ node'.endTimer = node.endTimer
       /\ node'.end => node.end \/ (node.stopping /\ DOMAIN actors' = {})
       /\ node'.stage = "stopped" => node.stage = "stopped"
  BY <1>4, <1>5, <1>9 DEF HandleEnding, NodeType
<1>18. \A b \in DOMAIN actors' : \A s, t \in actors'[b].snapshot : s = t
  BY <1>5, <1>9
<1>19. TypeOK'
  BY <1>3, <1>4, <1>5, <1>7, <1>9, <1>11, <1>12, <1>15, <1>16, <1>17, <1>18
     DEF IInv, TypeOK
<1>20. Ending'
  BY <1>9, <1>16, <1>17 DEF IInv, Ending, TimedOut
<1> QED
  BY <1>13, <1>14, <1>16, <1>19, <1>20 DEF IInv

-----------------------------------------------------------------------------
(* Stopping, the poll goroutine, and a restart.                            *)

LEMMA BeforeStopIInv ==
  ASSUME IInv, BeforeStop
  PROVE  IInv'
<1>1. /\ poller' = [poller EXCEPT !.cancelled = TRUE]
      /\ client' = [client EXCEPT !.open = FALSE]
      /\ shard' = [shard EXCEPT !.registered = FALSE]
      /\ actors' = [a \in DOMAIN actors |-> [actors[a] EXCEPT !.stopping = TRUE]]
      /\ procs' = [a \in Actors |-> IF a \in DOMAIN actors
                                    THEN [procs[a] EXCEPT !.stop = TRUE] ELSE procs[a]]
      /\ node' = HandleEnding([node EXCEPT !.stopping = TRUE, !.endTimer = "armed"],
                              DOMAIN actors)
      /\ UNCHANGED <<mailbox, history>>
      /\ node.stage = "serving" /\ ~ node.stopping
  BY DEF BeforeStop, Unregistered, StopAll, Serving
<1>2. /\ poller \in PollerType /\ client \in ClientType /\ shard \in ShardType
      /\ node \in NodeType /\ ~ node.end
      /\ actors \in [DOMAIN actors -> EntryType] /\ DOMAIN actors \subseteq Actors
      /\ procs \in [Actors -> ProcType]
      /\ \A b \in DOMAIN actors : \A s, t \in actors[b].snapshot : s = t
      /\ \A b \in Actors : Len(procs[b].mailbox) <= ActorCapacity /\ Len(procs[b].out) <= 3
  BY <1>1 DEF IInv, TypeOK, Ending
<1>3. /\ poller' \in PollerType /\ client' \in ClientType
  BY <1>1, <1>2 DEF PollerType, ClientType
<1>4. /\ shard' \in ShardType /\ shard'.window = shard.window /\ ~ shard'.registered
  BY <1>1, <1>2 DEF ShardType
<1>5. /\ node' \in NodeType /\ node'.stopping /\ node'.stage = "serving"
      /\ node'.end => DOMAIN actors = {}
  <2> DEFINE n == [node EXCEPT !.stopping = TRUE, !.endTimer = "armed"]
  <2>1. n \in NodeType /\ n.stopping /\ ~ n.end /\ n.stage = "serving"
    BY <1>1, <1>2 DEF NodeType
  <2> HIDE DEF n
  <2>2. node' = IF DOMAIN actors # {} THEN n ELSE [n EXCEPT !.end = TRUE]
    BY <1>1, <2>1 DEF HandleEnding, n
  <2> QED
    BY <2>1, <2>2 DEF NodeType
<1>6. /\ DOMAIN actors' = DOMAIN actors
      /\ \A a \in DOMAIN actors :
           /\ actors'[a] \in EntryType
           /\ actors'[a].snapshot = actors[a].snapshot
           /\ actors'[a].pause = actors[a].pause
      /\ actors' \in [DOMAIN actors -> EntryType]
  <2>1. DOMAIN actors' = DOMAIN actors
        /\ actors' = [a \in DOMAIN actors |-> actors'[a]]
    BY <1>1
  <2>2. ASSUME NEW a \in DOMAIN actors
        PROVE  /\ actors'[a] \in EntryType
               /\ actors'[a].snapshot = actors[a].snapshot
               /\ actors'[a].pause = actors[a].pause
    <3>1. actors[a] \in EntryType /\ actors'[a] = [actors[a] EXCEPT !.stopping = TRUE]
      BY <1>1, <1>2
    <3> QED
      BY <3>1 DEF EntryType
  <2> QED
    BY <2>1, <2>2
<1>7. /\ \A a \in Actors :
           /\ procs'[a] \in ProcType
           /\ procs'[a].stage = procs[a].stage /\ procs'[a].out = procs[a].out
           /\ procs'[a].executed = procs[a].executed
           /\ procs'[a].mailbox = procs[a].mailbox /\ procs'[a].mailFull = procs[a].mailFull
      /\ procs' \in [Actors -> ProcType]
  <2>1. ASSUME NEW a \in Actors
        PROVE  /\ procs'[a] \in ProcType
               /\ procs'[a].stage = procs[a].stage /\ procs'[a].out = procs[a].out
               /\ procs'[a].executed = procs[a].executed
               /\ procs'[a].mailbox = procs[a].mailbox
               /\ procs'[a].mailFull = procs[a].mailFull
    <3> DEFINE p == procs[a]
    <3>1. p \in ProcType /\ procs'[a] \in {p, [p EXCEPT !.stop = TRUE]}
      BY <1>1, <1>2
    <3> HIDE DEF p
    <3>2. /\ procs'[a] \in ProcType
          /\ procs'[a].stage = p.stage /\ procs'[a].out = p.out
          /\ procs'[a].executed = p.executed
          /\ procs'[a].mailbox = p.mailbox /\ procs'[a].mailFull = p.mailFull
      BY <3>1 DEF ProcType
    <3> QED
      BY <3>2 DEF p
  <2>2. procs' = [a \in Actors |-> procs'[a]]
    BY <1>1
  <2> QED
    BY <2>1, <2>2
<1>8. \A a \in Actors :
         Reports(a, a \in DOMAIN actors', procs'[a].stage, procs'[a].out, mailbox')
  BY <1>1, <1>6, <1>7 DEF IInv
<1>9. \A a \in DOMAIN actors :
         EntryInv(a, actors'[a], procs'[a], mailbox', history'.durable)
  BY <1>1, <1>2, <1>6, <1>7 DEF IInv, EntryInv
<1>10. \A b \in DOMAIN actors : \A s, t \in actors'[b].snapshot : s = t
  BY <1>2, <1>6
<1>11. TypeOK'
  BY <1>1, <1>2, <1>3, <1>4, <1>5, <1>6, <1>7, <1>10 DEF IInv, TypeOK
<1>12. Ending'
  BY <1>4, <1>5, <1>6 DEF Ending
<1>13. WindowOK(shard.window, Offsets, Owner)'
  BY <1>4 DEF IInv
<1> QED
  BY <1>6, <1>8, <1>9, <1>11, <1>12, <1>13 DEF IInv

LEMMA EndTimerIInv ==
  ASSUME IInv, EndTimer
  PROVE  IInv'
<1>1. /\ node' = [node EXCEPT !.end = TRUE, !.endTimer = "fired"]
      /\ UNCHANGED <<client, poller, mailbox, shard, actors, procs>>
      /\ history.faults < MaxFaults
      /\ history' = [history EXCEPT !.faults = @ + 1]
      /\ node \in NodeType /\ history \in HistoryType /\ node.endTimer = "armed"
  BY DEF EndTimer, Fault, CanFail, IInv, TypeOK
<1>2. history' \in HistoryType /\ history'.durable = history.durable
  BY <1>1, BoundsAssumption DEF HistoryType
<1>3. node' \in NodeType /\ node'.stopping = node.stopping /\ node'.endTimer = "fired"
  BY <1>1 DEF NodeType
<1>4. TypeOK'
  BY <1>1, <1>2, <1>3 DEF IInv, TypeOK
<1>5. Ending'
  BY <1>1, <1>3 DEF IInv, Ending, TimedOut
<1> QED
  BY <1>1, <1>2, <1>4, <1>5 DEF IInv

(* The poll goroutine moves the client's position and its own batch.       *)
LEMMA PollerIInv ==
  ASSUME IInv, UNCHANGED <<mailbox, node, shard, actors, procs>>,
         client' \in ClientType, poller' \in PollerType, history' \in HistoryType,
         history'.durable = history.durable
  PROVE  IInv'
<1>1. TypeOK'
  BY DEF IInv, TypeOK
<1>2. Ending' /\ WindowOK(shard.window, Offsets, Owner)'
  BY DEF IInv, Ending, TimedOut
<1> QED
  BY <1>1, <1>2 DEF IInv

LEMMA FetchTyped ==
  ASSUME IInv, NEW last, Fetchable(last)
  PROVE  /\ [client EXCEPT !.position = last + 1] \in ClientType
         /\ [poller EXCEPT !.batch = Fetched(last)] \in PollerType
<1>1. /\ client \in ClientType /\ poller \in PollerType /\ last \in Offsets
      /\ client.position \in Positions /\ client.position <= last
      /\ FirstOffset \in Nat /\ LastOffset \in Nat
  BY LogAssumption DEF IInv, TypeOK, Fetchable, ClientType
<1>2. last + 1 \in Positions
  BY <1>1, OffsetFacts
<1> DEFINE from == client.position
           n == last - from + 1
<1>3. from \in Nat /\ from >= FirstOffset /\ last \in Nat /\ last <= LastOffset /\ n \in Nat
  BY <1>1 DEF Positions, Offsets
<1>4. Fetched(last) = [i \in 1 .. n |-> from + i - 1]
  BY DEF Fetched
<1> HIDE DEF from
<1>5. \A i \in 1 .. n : from + i - 1 \in Offsets
  BY <1>1, <1>3 DEF Offsets
<1> HIDE DEF n
<1>6. Fetched(last) \in [1 .. n -> Offsets]
  BY <1>4, <1>5
<1>7. Fetched(last) \in Seq(Offsets)
  BY <1>3, <1>6
<1> HIDE DEF Fetched
<1> QED
  BY <1>1, <1>2, <1>7 DEF ClientType, PollerType

LEMMA PollIInv ==
  ASSUME IInv, PollerStep
  PROVE  IInv'
<1>1. client \in ClientType /\ poller \in PollerType /\ history \in HistoryType
  BY DEF IInv, TypeOK
<1>2. ASSUME NEW last \in Offsets, Poll(last) PROVE IInv'
  <2>1. Fetchable(last)
    BY <1>2 DEF Poll
  <2> QED
    BY <1>1, <1>2, <2>1, FetchTyped, PollerIInv DEF Poll
<1>3. ASSUME NEW last \in Offsets, PollError(last) PROVE IInv'
  <2>1. /\ Fetchable(last)
        /\ client' = [client EXCEPT !.position = last + 1]
        /\ UNCHANGED <<poller, mailbox, node, shard, actors, procs>>
    BY <1>3 DEF PollError
  <2>2. history' \in HistoryType /\ history'.durable = history.durable
    <3>1. \/ history' = history
          \/ /\ history.faults < MaxFaults
             /\ history' = [history EXCEPT !.faults = @ + 1]
      BY <1>3 DEF PollError, Fault, CanFail
    <3> QED
      BY <1>1, <3>1, BoundsAssumption DEF HistoryType
  <2> QED
    BY <1>1, <2>1, <2>2, FetchTyped, PollerIInv
<1>4. ASSUME PollerExit PROVE IInv'
  <2>1. /\ poller' = [poller EXCEPT !.running = FALSE, !.batch = <<>>]
        /\ UNCHANGED <<client, mailbox, node, shard, actors, procs, history>>
    BY <1>4 DEF PollerExit
  <2>2. <<>> \in Seq(Offsets)
    OBVIOUS
  <2>3. poller' \in PollerType
    BY <1>1, <2>1, <2>2 DEF PollerType
  <2> QED
    BY <1>1, <2>1, <2>3, PollerIInv
<1> QED
  BY <1>2, <1>3, <1>4, DeliverIInv DEF PollerStep

(* How a node begins, and begins again.                                    *)
Fresh ==
  /\ poller = FreshPoller /\ mailbox = <<>> /\ node = FreshNode /\ shard = FreshShard
  /\ actors = <<>> /\ procs = [a \in Actors |-> NoProc]
  /\ client \in ClientType /\ history \in HistoryType

LEMMA FreshIInv ==
  Fresh => IInv
<1> SUFFICES ASSUME Fresh PROVE IInv
  OBVIOUS
<1> USE DEF Fresh
<1>1. /\ <<>> \in Seq(Offsets) /\ <<>> \in Seq(SignalType) /\ <<>> \in Seq(MessageType)
      /\ Len(<<>>) = 0 /\ DOMAIN <<>> = {}
  OBVIOUS
<1>2. poller \in PollerType /\ node \in NodeType
  BY <1>1 DEF FreshPoller, FreshNode, PollerType, NodeType
<1>3. WindowOK(EmptyWindow, Offsets, Owner)
  BY EmptyIsOK
<1>4. shard \in ShardType /\ shard.window = EmptyWindow
  BY <1>3 DEF FreshShard, ShardType, WindowOK, WindowType, OptionalOffset
<1>5. /\ NoProc \in ProcType /\ NoProc.stage = "gone" /\ NoProc.out = <<>>
      /\ NoProc.mailbox = <<>>
  BY <1>1 DEF NoProc, ProcType
<1>6. /\ procs \in [Actors -> ProcType]
      /\ \A a \in Actors : procs[a] = NoProc
  BY <1>5
<1>7. \A a \in Actors : Len(procs[a].mailbox) <= ActorCapacity /\ Len(procs[a].out) <= 3
  <2>1. Len(<<>>) <= ActorCapacity /\ Len(<<>>) <= 3
    BY <1>1, BoundsAssumption
  <2> QED
    BY <1>5, <1>6, <2>1
<1>8. mailbox \in Seq(MessageType) /\ Len(mailbox) <= NodeCapacity
  BY <1>1, BoundsAssumption
<1>9. /\ DOMAIN actors = {} /\ actors \in [DOMAIN actors -> EntryType]
  BY <1>1
<1>10. TypeOK
  BY <1>2, <1>4, <1>6, <1>7, <1>8, <1>9 DEF TypeOK
<1>11. Ending
  BY <1>9 DEF Ending, FreshNode
<1>12. ASSUME NEW a \in Actors
       PROVE  Reports(a, a \in DOMAIN actors, procs[a].stage, procs[a].out, mailbox)
  <2>1. (a \in DOMAIN actors) = FALSE
    BY <1>9
  <2>2. Reports(a, FALSE, "gone", <<>>, <<>>)
    BY <1>1 DEF Reports
  <2> QED
    BY <1>5, <1>6, <2>1, <2>2
<1> QED
  BY <1>3, <1>4, <1>9, <1>10, <1>11, <1>12 DEF IInv

LEMMA InitIInv ==
  Init => IInv
<1> SUFFICES ASSUME Init PROVE Fresh
  BY FreshIInv
<1>1. client \in ClientType
  BY OffsetFacts DEF Init, ClientType
<1>2. history \in HistoryType
  BY BoundsAssumption DEF Init, HistoryType
<1> QED
  BY <1>1, <1>2 DEF Init, Fresh

LEMMA RestartIInv ==
  ASSUME IInv, Restart
  PROVE  IInv'
<1>1. client \in ClientType /\ history \in HistoryType
  BY DEF IInv, TypeOK
<1>2. client' \in ClientType
  BY <1>1 DEF Restart, ClientType
<1>3. history' \in HistoryType
  BY <1>1, BoundsAssumption DEF Restart, Fault, CanFail, HistoryType
<1>4. Fresh'
  BY <1>2, <1>3 DEF Restart, Fresh
<1>5. Fresh' => IInv'
  BY FreshIInv, PTL
<1> QED
  BY <1>4, <1>5

-----------------------------------------------------------------------------
(* The theorems.                                                           *)

LEMMA NextIInv ==
  IInv /\ [Next]_vars => IInv'
<1> SUFFICES ASSUME IInv, [Next]_vars PROVE IInv'
  OBVIOUS
<1>1. CASE PollerStep
  BY <1>1, PollIInv
<1>2. CASE Dispatcher
  BY <1>2, DropIInv, FullIInv, UndeliveredIInv, StartIInv, SendIInv DEF Dispatcher
<1>3. CASE RecycleSeek \/ RecycleStop
  BY <1>3, RecycleSeekIInv, RecycleStopIInv
<1>4. CASE ReceiveSnapshot \/ ReceiveReady \/ ReceiveAlive \/ ReceiveStopped
  BY <1>4, SnapshotTakenIInv, ReadyTakenIInv, AliveTakenIInv, StoppedTakenIInv
<1>5. CASE SnapshotTimer \/ BeforeStop \/ EndTimer \/ AfterStop
  BY <1>5, TimerIInv, BeforeStopIInv, EndTimerIInv, AfterStopIInv
<1>6. ASSUME NEW a \in Actors, ActorStep(a) PROVE IInv'
  <2>1. CASE ActorReceive(a)
    BY <2>1, SkipIInv, ExecuteIInv, PanicIInv DEF ActorReceive
  <2>2. CASE ActorIdle(a) \/ ActorAlive(a) \/ ActorStop(a)
    BY <2>2, IdleIInv, AliveIInv, StopIInv
  <2>3. CASE ActorFinish(a) \/ ActorSignal(a)
    BY <2>3, FinishIInv, SignalIInv
  <2> QED
    BY <1>6, <2>1, <2>2, <2>3 DEF ActorStep
<1>7. CASE Restart
  BY <1>7, RestartIInv
<1>8. CASE UNCHANGED vars
  <2>1. TypeOK' /\ Ending' /\ WindowOK(shard.window, Offsets, Owner)'
    BY <1>8 DEF vars, IInv, TypeOK, Ending, TimedOut
  <2> QED
    BY <1>8, <2>1 DEF vars, IInv
<1> QED
  BY <1>1, <1>2, <1>3, <1>4, <1>5, <1>6, <1>7, <1>8 DEF Next, NodeReceive, Quiet

LEMMA Invariance ==
  Spec => []IInv
BY InitIInv, NextIInv, PTL DEF Spec

(***************************************************************************)
(* The variables keep their types; among others, no channel holds more     *)
(* than its capacity, offsets stay within the log, and the checkpoint and  *)
(* the position never leave it.                                            *)
(***************************************************************************)
THEOREM NodeTyped ==
  Spec => []TypeOK
<1>1. IInv => TypeOK
  BY DEF IInv
<1> QED
  BY <1>1, Invariance, PTL

(***************************************************************************)
(* An actor has a goroutine or a signal under way only if Node.actors has  *)
(* an entry for it, and an entry whose goroutine has returned is about to  *)
(* be removed: no record ever reaches two goroutines of one actor.         *)
(***************************************************************************)
THEOREM OneLife ==
  Spec => []OneIncarnation
<1>1. ASSUME IInv PROVE OneIncarnation
  <2> SUFFICES ASSUME NEW a \in Actors
               PROVE  IF a \in DOMAIN actors
                      THEN procs[a].stage = "gone" => Signal("stopped", a) \in SignalsOf(a)
                      ELSE procs[a].stage = "gone" /\ SignalsOf(a) = {}
    BY DEF OneIncarnation
  <2>1. mailbox \in Seq(MessageType)
    BY <1>1 DEF IInv, TypeOK
  <2>2. Reports(a, a \in DOMAIN actors, procs[a].stage, procs[a].out, mailbox)
    BY <1>1 DEF IInv
  <2>3. ASSUME a \in DOMAIN actors, procs[a].stage = "gone"
        PROVE  Signal("stopped", a) \in SignalsOf(a)
    <3>1. Reported(a, mailbox)
      BY <2>2, <2>3 DEF Reports
    <3>2. PICK i \in DOMAIN mailbox : Is(mailbox[i], "stopped", a)
      BY <3>1 DEF Reported
    <3>3. mailbox[i] \in MessageType /\ mailbox[i] \in Range(mailbox)
      BY <2>1 DEF Range
    <3>4. mailbox[i] = Signal("stopped", a)
      BY <3>2, <3>3 DEF Is, Signal, MessageType, SignalType
    <3> QED
      BY <3>2, <3>3, <3>4 DEF SignalsOf, Is
  <2>4. ASSUME a \notin DOMAIN actors
        PROVE  procs[a].stage = "gone" /\ SignalsOf(a) = {}
    <3>1. procs[a].stage = "gone" /\ \A i \in DOMAIN mailbox : ~ From(mailbox[i], a)
      BY <2>2, <2>4 DEF Reports
    <3> QED
      BY <3>1 DEF SignalsOf, From, Range
  <2> QED
    BY <2>3, <2>4
<1> QED
  BY <1>1, Invariance, PTL

(***************************************************************************)
(* An actor that still takes records and that the node has paused will say *)
(* that it is ready: a ready signal is under way, or its mailbox is still  *)
(* so full that handling the rest sends one.                               *)
(***************************************************************************)
THEOREM PausedIsTold ==
  Spec => []PausedWillBeReady
<1>1. ASSUME IInv PROVE PausedWillBeReady
  <2> SUFFICES ASSUME NEW a \in DOMAIN actors, actors[a].pause # NoOffset,
                      procs[a].stage \in {"running", "draining"}
               PROVE  ReadyComing(a)
    BY DEF PausedWillBeReady
  <2> DEFINE p == procs[a]
  <2>1. /\ a \in Actors /\ p \in ProcType /\ mailbox \in Seq(MessageType)
        /\ p.out \in Seq(SignalType)
    BY <1>1 DEF IInv, TypeOK, ProcType
  <2>2. ReadyKept(a, actors[a].pause, p.stage, p.out, p.mailbox, p.mailFull, mailbox)
    BY <1>1 DEF IInv, EntryInv
  <2>3. ASSUME NEW m \in MessageType, Is(m, "ready", a)
        PROVE  m = Signal("ready", a) /\ m.command # "record" /\ m.sender = a
    BY <2>3 DEF Is, Signal, MessageType, SignalType
  <2>4. CASE ~ NoneOf(p.out, "ready", a)
    <3>1. PICK i \in DOMAIN p.out : Is(p.out[i], "ready", a)
      BY <2>4 DEF NoneOf
    <3>2. p.out[i] \in MessageType /\ p.out[i] \in Range(p.out)
      BY <2>1 DEF MessageType, Range
    <3> QED
      BY <2>3, <3>1, <3>2 DEF ReadyComing
  <2>5. CASE ~ NoneOf(mailbox, "ready", a)
    <3>1. PICK i \in DOMAIN mailbox : Is(mailbox[i], "ready", a)
      BY <2>5 DEF NoneOf
    <3>2. mailbox[i] \in MessageType /\ mailbox[i] \in Range(mailbox)
      BY <2>1 DEF Range
    <3> QED
      BY <2>3, <3>1, <3>2 DEF ReadyComing, SignalsOf
  <2> QED
    BY <2>2, <2>4, <2>5 DEF ReadyKept, ReadyComing
<1> QED
  BY <1>1, Invariance, PTL

(***************************************************************************)
(* A node that ended without its timeout left no entry and no goroutine of *)
(* an actor behind.                                                        *)
(***************************************************************************)
THEOREM StopsClean ==
  Spec => []StoppedClean
<1>1. ASSUME IInv PROVE StoppedClean
  <2> SUFFICES ASSUME node.stage = "stopped", ~ TimedOut
               PROVE  actors = <<>> /\ \A a \in Actors : procs[a].stage = "gone"
    BY DEF StoppedClean
  <2>1. DOMAIN actors = {} /\ actors \in [DOMAIN actors -> EntryType]
    BY <1>1 DEF IInv, Ending, TypeOK
  <2>2. actors = <<>>
    <3>1. actors \in [{} -> EntryType]
      BY <2>1
    <3>2. <<>> \in [{} -> EntryType]
      OBVIOUS
    <3> QED
      BY <3>1, <3>2
  <2>3. \A a \in Actors :
          Reports(a, a \in DOMAIN actors, procs[a].stage, procs[a].out, mailbox)
    BY <1>1 DEF IInv
  <2> QED
    BY <2>1, <2>2, <2>3 DEF Reports
<1> QED
  BY <1>1, Invariance, PTL

(***************************************************************************)
(* Only the report of an actor, or a restart, removes its entry.  When the *)
(* node takes the report, all that the actor did is stored, or its Save    *)
(* failed just then.                                                       *)
(***************************************************************************)
ForgetsSaved ==
  \A a \in DOMAIN actors \ DOMAIN actors' :
    history'.faults = history.faults => Range(procs[a].executed) \subseteq history'.durable

LEMMA StoppedForgets ==
  ASSUME IInv, ReceiveStopped
  PROVE  ForgetsSaved
<1> DEFINE a == Sender
           S == WithSnapshot({a})
           done == Range(procs[a].executed)
<1>1. /\ a \in DOMAIN actors
      /\ LastReceived(a, actors[a].snapshot, done, mailbox, history.durable)
      /\ S \in SUBSET DOMAIN actors /\ \A b \in S : actors[b].snapshot # {}
  BY StoppedFacts
<1>2. PICK outcome \in SaveOutcomes(S) : OutcomeOK(S, outcome) /\ Saved(outcome)
  BY StoppedFacts
<1>3. actors[a].snapshot # {} => a \in S
  BY <1>1 DEF WithSnapshot
<1>4. DOMAIN actors \ DOMAIN actors' \subseteq {a}
  BY DEF ReceiveStopped, Without
<1>5. history'.faults = outcome.faults
  <2>1. history \in HistoryType
    BY DEF IInv, TypeOK
  <2> QED
    BY <1>2, <2>1 DEF Saved, HistoryType
<1> HIDE DEF S
<1>6. /\ history.durable \subseteq history'.durable
      /\ \A b \in outcome.stored : Snapshot(b).state \subseteq history'.durable
  BY <1>1, <1>2, SaveKeeps
<1>7. ASSUME history'.faults = history.faults PROVE done \subseteq history'.durable
  <2>1. outcome.stored = S
    BY <1>2, <1>5, <1>7 DEF OutcomeOK
  <2>2. CASE actors[a].snapshot = {}
    BY <1>1, <1>6, <2>2 DEF LastReceived
  <2>3. CASE actors[a].snapshot # {}
    <3>1. Snapshot(a) \in actors[a].snapshot
      BY <2>3 DEF Snapshot
    <3>2. Snapshot(a).state = done
      BY <1>1, <3>1 DEF LastReceived
    <3> QED
      BY <1>3, <1>6, <2>1, <2>3, <3>2
  <2> QED
    BY <2>2, <2>3
<1> QED
  BY <1>4, <1>7 DEF ForgetsSaved

LEMMA NextForgets ==
  IInv /\ [Next]_vars => [ForgetsSaved]_vars
<1> SUFFICES ASSUME IInv, Next PROVE ForgetsSaved
  OBVIOUS
<1>0. /\ actors \in [DOMAIN actors -> EntryType]
      /\ history \in HistoryType
  BY DEF IInv, TypeOK
<1>1. ASSUME DOMAIN actors \subseteq DOMAIN actors' PROVE ForgetsSaved
  BY <1>1 DEF ForgetsSaved
<1>2. CASE PollerStep
  BY <1>1, <1>2 DEF PollerStep, Poll, PollError, Deliver, PollerExit
<1>3. CASE Dispatcher
  BY <1>0, <1>1, <1>3 DEF Dispatcher, DispatchDrop, DispatchFull, DispatchUnstartable,
    DispatchPending, DispatchPaused, DispatchMailFull, DispatchStart, DispatchSend, WithEntry
<1>4. CASE RecycleSeek \/ ReceiveSnapshot \/ ReceiveReady \/ ReceiveAlive
  BY <1>0, <1>1, <1>4 DEF RecycleSeek, ReceiveSnapshot, ReceiveReady, ReceiveAlive
<1>5. CASE RecycleStop
  <2>1. PICK outcome : actors' = [Disabled(outcome) EXCEPT ![Sender].stopping = TRUE]
    BY <1>5 DEF RecycleStop
  <2>2. DOMAIN Disabled(outcome) = DOMAIN actors
    BY DEF Disabled
  <2> QED
    BY <1>1, <2>1, <2>2
<1>6. CASE ReceiveStopped
  BY <1>6, StoppedForgets
<1>7. CASE SnapshotTimer \/ AfterStop
  BY <1>1, <1>7, BatchKeeps DEF SnapshotTimer, AfterStop
<1>8. CASE BeforeStop \/ EndTimer
  BY <1>1, <1>8 DEF BeforeStop, StopAll, EndTimer
<1>9. ASSUME NEW a \in Actors, ActorStep(a) PROVE ForgetsSaved
  BY <1>1, <1>9 DEF ActorStep, ActorReceive, ActorSkip, ActorExecute, ActorPanic, ActorIdle,
    ActorAlive, ActorStop, ActorFinish, ActorSignal, SignalSent, Becomes
<1>10. CASE Restart
  <2>1. history'.faults = history.faults + 1 /\ history.faults \in Nat
    BY <1>0, <1>10, BoundsAssumption DEF Restart, Fault, HistoryType
  <2> QED
    BY <2>1 DEF ForgetsSaved
<1>11. CASE UNCHANGED vars
  BY <1>1, <1>11 DEF vars
<1> QED
  BY <1>2, <1>3, <1>4, <1>5, <1>6, <1>7, <1>8, <1>9, <1>10, <1>11 DEF Next, NodeReceive, Quiet

THEOREM LastSnapshotIsSaved ==
  Spec => FinalSnapshotSaved
<1>1. IInv /\ [Next]_vars
        => [\A a \in DOMAIN actors \ DOMAIN actors' :
              history'.faults = history.faults =>
                Range(procs[a].executed) \subseteq history'.durable]_vars
  BY NextForgets DEF ForgetsSaved
<1> QED
  BY <1>1, Invariance, PTL DEF Spec, FinalSnapshotSaved

-----------------------------------------------------------------------------
(* The pauses of the shard and of the client.                             *)

(***************************************************************************)
(* The four steps of the node that save snapshots, as far as the shard and *)
(* the client are concerned.                                               *)
(***************************************************************************)
SavingStep == SnapshotTimer \/ AfterStop \/ RecycleStop \/ ReceiveStopped

Attempt(S, outcome) ==
  /\ \A a \in S : actors[a].snapshot # {}
  /\ OutcomeOK(S, outcome)
  /\ Saved(outcome)
  /\ shard' = outcome.next.shard
  /\ client'.checkpoint = outcome.next.client.checkpoint
  /\ client'.paused = outcome.next.client.paused

LEMMA SavingAttempts ==
  ASSUME IInv, SavingStep
  PROVE  \E S \in SUBSET DOMAIN actors : \E outcome \in SaveOutcomes(S) : Attempt(S, outcome)
<1>1. ASSUME NEW S \in SUBSET DOMAIN actors, \A a \in S : actors[a].snapshot # {},
             NEW outcome \in SaveOutcomes(S), Saved(outcome),
             shard' = outcome.next.shard, client' = outcome.next.client
      PROVE  Attempt(S, outcome)
  BY <1>1, SaveAttempt DEF Attempt
<1>2. CASE SnapshotTimer \/ AfterStop
  <2> DEFINE S == WithSnapshot(Actors)
  <2>1. S \in SUBSET DOMAIN actors /\ \A a \in S : actors[a].snapshot # {}
    BY DEF WithSnapshot
  <2> HIDE DEF S
  <2>2. PICK outcome \in SaveOutcomes(S) :
          Saved(outcome) /\ shard' = outcome.next.shard /\ client' = outcome.next.client
    BY <1>2 DEF SnapshotTimer, AfterStop, SnapshotBatch, S
  <2> QED
    BY <1>1, <2>1, <2>2
<1>3. CASE RecycleStop
  <2> DEFINE S == IF actors[Sender].snapshot = {} THEN {} ELSE WithSnapshot(Actors)
  <2>1. S \in SUBSET DOMAIN actors /\ \A a \in S : actors[a].snapshot # {}
    BY DEF WithSnapshot
  <2>2. PICK outcome \in SaveOutcomes(S) :
          Saved(outcome) /\ shard' = outcome.next.shard /\ client' = outcome.next.client
    BY <1>3 DEF RecycleStop
  <2> HIDE DEF S
  <2> QED
    BY <1>1, <2>1, <2>2
<1>4. CASE ReceiveStopped
  <2> DEFINE a == Sender
             S == WithSnapshot({a})
  <2>1. S \in SUBSET DOMAIN actors /\ \A b \in S : actors[b].snapshot # {}
    BY DEF WithSnapshot
  <2>2. PICK outcome \in SaveOutcomes(S) :
          /\ OutcomeOK(S, outcome) /\ Saved(outcome)
          /\ shard' = outcome.next.shard
          /\ client' = SoughtAfter(a, outcome.next.client)
    BY <1>4, StoppedFacts
  <2> HIDE DEF a, S
  <2>3. /\ client'.checkpoint = outcome.next.client.checkpoint
        /\ client'.paused = outcome.next.client.paused
    BY <2>2 DEF SoughtAfter, SeekMessage, OutcomeOK, ClientType
  <2> QED
    BY <2>1, <2>2, <2>3 DEF Attempt
<1> QED
  BY <1>2, <1>3, <1>4 DEF SavingStep

(* completeOffset and resumeOffset end both pauses or none.                *)
LEMMA OutcomeAgrees ==
  ASSUME IInv, PausedTogether, NEW S, NEW outcome \in SaveOutcomes(S)
  PROVE  outcome.next.client.paused <=> outcome.next.shard.pause # NoOffset
<1>1. shard \in ShardType /\ client \in ClientType
  BY DEF IInv, TypeOK
<1>2. Untouched = [ stored |-> {}, disabled |-> {}, faults |-> history.faults,
                    next |-> [shard |-> shard, client |-> client] ]
  BY DEF Untouched
<1>3. CASE outcome = Untouched
  BY <1>2, <1>3 DEF PausedTogether
<1>4. CASE outcome \in SaveErrors(S)
  <2>1. PICK T \in SUBSET S : outcome = [Untouched EXCEPT !.stored = T, !.faults = @ + 1]
    BY <1>4 DEF SaveErrors
  <2>2. outcome.next.shard = shard /\ outcome.next.client = client
    BY <1>2, <2>1
  <2> QED
    BY <2>2 DEF PausedTogether
<1>5. CASE outcome \in SaveSuccesses(S)
  <2>1. PICK commit \in Commits(S) : outcome.next = CompleteOffset(S, commit)
    BY <1>5 DEF SaveSuccesses
  <2> DEFINE sh == [shard EXCEPT !.window = Completed(S).window]
             cl == CommitOffset(client, Completed(S).next, commit)
             sh2 == [sh EXCEPT !.pause = NoOffset]
             cl2 == ResumePartition(SeekMessage(cl, sh.pause))
  <2>2. sh.pause = shard.pause /\ cl.paused = client.paused
    BY <1>1 DEF ShardType, ClientType, CommitOffset
  <2>3. sh2.pause = NoOffset
    BY <1>1 DEF ShardType
  <2>4. cl = [client EXCEPT !.checkpoint = cl.checkpoint]
    BY <1>1 DEF ClientType, CommitOffset
  <2> HIDE DEF cl
  <2>5. ~ cl2.paused
    BY <1>1, <2>4 DEF ClientType, ResumePartition, SeekMessage
  <2>6. CompleteOffset(S, commit) = IF commit \in {"refused", "lost"}
                                    THEN [shard |-> sh, client |-> cl]
                                    ELSE ResumeOffset(sh, cl)
    BY DEF CompleteOffset, cl
  <2> HIDE DEF sh
  <2>7. \/ outcome.next = [shard |-> sh, client |-> cl]
        \/ outcome.next = [shard |-> sh2, client |-> cl2]
    BY <2>1, <2>6 DEF ResumeOffset
  <2> HIDE DEF sh2, cl2
  <2> QED
    BY <2>2, <2>3, <2>5, <2>7 DEF PausedTogether
<1> QED
  BY <1>3, <1>4, <1>5 DEF SaveOutcomes

LEMMA NextAgrees ==
  IInv /\ PausedTogether /\ [Next]_vars => PausedTogether'
<1> SUFFICES ASSUME IInv, PausedTogether, [Next]_vars PROVE PausedTogether'
  OBVIOUS
<1>1. shard \in ShardType /\ client \in ClientType
  BY DEF IInv, TypeOK
<1>2. ASSUME shard'.pause = shard.pause, client'.paused = client.paused
      PROVE  PausedTogether'
  BY <1>2 DEF PausedTogether
<1>3. CASE SavingStep
  <2>0. PICK S \in SUBSET DOMAIN actors : \E outcome \in SaveOutcomes(S) : Attempt(S, outcome)
    BY <1>3, SavingAttempts
  <2>1. PICK outcome \in SaveOutcomes(S) : Attempt(S, outcome)
    BY <2>0
  <2> QED
    BY <2>1, OutcomeAgrees DEF Attempt, PausedTogether
<1>4. CASE DispatchFull
  <2>1. Offset # NoOffset
    BY <1>4, ReceiveFacts, OffsetFacts DEF DispatchFull
  <2>2. shard'.pause = Offset /\ client'.paused = TRUE
    BY <1>1, <1>4 DEF DispatchFull, PausePartition, ShardType, ClientType
  <2> QED
    BY <2>1, <2>2 DEF PausedTogether
<1>5. CASE Restart
  <2>1. shard'.pause = NoOffset /\ client'.paused = FALSE
    BY <1>1, <1>5 DEF Restart, FreshShard, ClientType
  <2> QED
    BY <2>1 DEF PausedTogether
<1>6. ASSUME UNCHANGED shard, NEW o, client' = SeekMessage(client, o) PROVE PausedTogether'
  BY <1>1, <1>2, <1>6 DEF SeekMessage, ClientType
<1>7. ASSUME UNCHANGED client, NEW overtakes, Tracked(overtakes) PROVE PausedTogether'
  BY <1>1, <1>2, <1>7 DEF Tracked, ShardType
<1>8. ASSUME UNCHANGED <<client, shard>> PROVE PausedTogether'
  BY <1>2, <1>8
<1>9. CASE PollerStep
  <2>1. CASE Deliver \/ PollerExit
    BY <1>8, <2>1 DEF Deliver, PollerExit
  <2>2. ASSUME NEW last \in Offsets, Poll(last) \/ PollError(last) PROVE PausedTogether'
    <3>1. UNCHANGED shard /\ client' = [client EXCEPT !.position = last + 1]
      BY <2>2 DEF Poll, PollError
    <3> QED
      BY <1>1, <1>2, <3>1 DEF ClientType
  <2> QED
    BY <1>9, <2>1, <2>2 DEF PollerStep
<1>10. CASE Dispatcher
  <2>1. CASE DispatchDrop \/ DispatchUnstartable
    BY <1>8, <2>1 DEF DispatchDrop, DispatchUnstartable
  <2>2. CASE DispatchPending \/ DispatchPaused \/ DispatchMailFull \/ DispatchStart \/ DispatchSend
    BY <1>7, <2>2 DEF DispatchPending, DispatchPaused, DispatchMailFull, DispatchStart, DispatchSend
  <2> QED
    BY <1>4, <1>10, <2>1, <2>2 DEF Dispatcher
<1>11. CASE RecycleSeek \/ ReceiveReady
  BY <1>6, <1>8, <1>11 DEF RecycleSeek, ReceiveReady
<1>12. CASE ReceiveSnapshot \/ ReceiveAlive \/ EndTimer
  BY <1>8, <1>12 DEF ReceiveSnapshot, ReceiveAlive, EndTimer
<1>13. CASE BeforeStop
  BY <1>1, <1>2, <1>13 DEF BeforeStop, Unregistered, ShardType, ClientType
<1>14. CASE \E a \in Actors : ActorStep(a)
  BY <1>8, <1>14
     DEF ActorStep, ActorReceive, ActorSkip, ActorExecute, ActorPanic, ActorIdle, ActorAlive,
         ActorStop, ActorFinish, ActorSignal, SignalSent, Becomes
<1>15. CASE UNCHANGED vars
  BY <1>8, <1>15 DEF vars
<1> QED
  BY <1>3, <1>5, <1>9, <1>10, <1>11, <1>12, <1>13, <1>14, <1>15
     DEF Next, NodeReceive, Quiet, SavingStep

(***************************************************************************)
(* The shard and the client always agree whether the partition is paused:  *)
(* whatever the commits answer and whatever seeks come in between, both    *)
(* pauses begin with the same record and end with the same seek.           *)
(***************************************************************************)
THEOREM PausesAgree ==
  Spec => []PausedTogether
<1>1. Init => PausedTogether
  BY DEF Init, FreshShard, PausedTogether
<1> QED
  BY <1>1, Invariance, NextAgrees, PTL DEF Spec

-----------------------------------------------------------------------------
(* What steps leave alone of the entries and the goroutines.               *)

SameProc(p, q) ==
  /\ q.stage = p.stage /\ q.stop = p.stop
  /\ q.executed = p.executed /\ q.out = p.out

SameLives ==
  /\ DOMAIN actors' = DOMAIN actors
  /\ \A a \in DOMAIN actors : actors'[a].stopping = actors[a].stopping
  /\ \A a \in Actors : SameProc(procs[a], procs'[a])

(* The steps that begin, end or stop nothing.                              *)
QuietDispatch ==
  DispatchDrop \/ DispatchFull \/ DispatchUnstartable \/ DispatchPending
    \/ DispatchPaused \/ DispatchMailFull \/ DispatchSend

QuietSignal == RecycleSeek \/ ReceiveReady \/ ReceiveAlive

LEMMA EntriesOnly ==
  ASSUME IInv, UNCHANGED procs, DOMAIN actors' = DOMAIN actors,
         \A a \in DOMAIN actors : actors'[a].stopping = actors[a].stopping
  PROVE  SameLives
BY DEF SameLives, SameProc

LEMMA QuietDispatches ==
  ASSUME IInv, QuietDispatch
  PROVE  /\ SameLives
         /\ \A a \in DOMAIN actors : actors'[a].snapshot = actors[a].snapshot
         /\ UNCHANGED node /\ history'.durable = history.durable
         /\ history'.faults = history.faults /\ Receives("record")
<1>1. /\ actors \in [DOMAIN actors -> EntryType] /\ procs \in [Actors -> ProcType]
      /\ history \in HistoryType
  BY DEF IInv, TypeOK
<1>2. ASSUME NEW overtakes, Tracked(overtakes)
      PROVE  history'.durable = history.durable /\ history'.faults = history.faults
  BY <1>1, <1>2 DEF Tracked, HistoryType
<1>3. ASSUME UNCHANGED <<actors, procs>>
      PROVE  SameLives /\ \A a \in DOMAIN actors : actors'[a].snapshot = actors[a].snapshot
  BY <1>3, EntriesOnly
<1>4. CASE DispatchDrop \/ DispatchFull \/ DispatchUnstartable
  BY <1>3, <1>4 DEF DispatchDrop, DispatchFull, DispatchUnstartable, Accepted
<1>5. CASE DispatchPaused
  BY <1>2, <1>3, <1>5 DEF DispatchPaused, Accepted
<1>6. CASE DispatchPending \/ DispatchMailFull
  <2>0. \/ \E o : actors' = [actors EXCEPT ![Receiver].pending = o]
        \/ \E o : actors' = [actors EXCEPT ![Receiver].pause = o]
    BY <1>6 DEF DispatchPending, DispatchMailFull
  <2>1. \A a \in DOMAIN actors : /\ actors'[a].stopping = actors[a].stopping
                                 /\ actors'[a].snapshot = actors[a].snapshot
    BY <1>1, <2>0 DEF EntryType
  <2>2. DOMAIN actors' = DOMAIN actors
    BY <1>1, <1>6 DEF DispatchPending, DispatchMailFull
  <2> QED
    BY <1>2, <1>6, <2>1, <2>2, EntriesOnly DEF DispatchPending, DispatchMailFull, Accepted
<1>7. CASE DispatchSend
  <2>1. Receiver \in Actors
    BY <1>7, RecordTaken DEF DispatchSend, Accepted
  <2> DEFINE q == [procs[Receiver] EXCEPT !.mailbox = Append(@, Offset)]
  <2>2. procs' = [procs EXCEPT ![Receiver] = q] /\ UNCHANGED actors
    BY <1>7 DEF DispatchSend, Hand
  <2>3. SameProc(procs[Receiver], q)
    BY <1>1, <2>1 DEF SameProc, ProcType
  <2> HIDE DEF q
  <2>4. \A a \in Actors : SameProc(procs[a], procs'[a])
    BY <1>1, <2>1, <2>2, <2>3 DEF SameProc
  <2> QED
    BY <1>2, <1>7, <2>2, <2>4 DEF SameLives, DispatchSend, Accepted
<1> QED
  BY <1>4, <1>5, <1>6, <1>7 DEF QuietDispatch

LEMMA QuietSignals ==
  ASSUME IInv, QuietSignal
  PROVE  /\ SameLives
         /\ \A a \in DOMAIN actors : actors'[a].snapshot = actors[a].snapshot
         /\ UNCHANGED <<node, history>>
         /\ mailbox # <<>> /\ mailbox' = Tail(mailbox)
<1>1. actors \in [DOMAIN actors -> EntryType]
  BY DEF IInv, TypeOK
<1>2. CASE UNCHANGED actors
  BY <1>2, EntriesOnly
     DEF QuietSignal, RecycleSeek, ReceiveReady, ReceiveAlive, Receives
<1>3. CASE ReceiveReady /\ actors' = [actors EXCEPT ![Sender].pause = NoOffset]
  <2>1. \A a \in DOMAIN actors : /\ actors'[a].stopping = actors[a].stopping
                                 /\ actors'[a].snapshot = actors[a].snapshot
    BY <1>1, <1>3 DEF EntryType
  <2>2. DOMAIN actors' = DOMAIN actors
    BY <1>1, <1>3
  <2> QED
    BY <1>3, <2>1, <2>2, EntriesOnly DEF ReceiveReady, Receives
<1> QED
  BY <1>2, <1>3 DEF QuietSignal, RecycleSeek, ReceiveReady, ReceiveAlive

LEMMA PollerQuiet ==
  ASSUME IInv, PollerStep
  PROVE  /\ UNCHANGED <<node, actors, procs>> /\ SameLives
         /\ history'.durable = history.durable
         /\ history'.faults \in {history.faults, history.faults + 1}
         /\ \/ UNCHANGED mailbox
            \/ \E o \in Offsets : mailbox' = Append(mailbox, Record(o))
<1>1. history \in HistoryType /\ poller \in PollerType
  BY DEF IInv, TypeOK
<1>2. UNCHANGED <<node, actors, procs>>
  BY DEF PollerStep, Poll, PollError, Deliver, PollerExit
<1>3. CASE Deliver
  <2>1. Head(poller.batch) \in Offsets
    BY <1>1, <1>3, Shorter DEF Deliver, PollerType
  <2> QED
    BY <1>2, <1>3, <2>1, EntriesOnly DEF Deliver
<1>4. CASE UNCHANGED <<mailbox, history>>
  BY <1>2, <1>4, EntriesOnly
<1>5. CASE UNCHANGED mailbox /\ Fault("poll")
  BY <1>1, <1>2, <1>5, EntriesOnly DEF Fault, HistoryType
<1> QED
  BY <1>3, <1>4, <1>5 DEF PollerStep, Poll, PollError, PollerExit

(* What saving may add to the store, and which snapshots it leaves.        *)
StatesHeld == UNION {UNION {s.state : s \in actors[a].snapshot} : a \in DOMAIN actors}

LEMMA SavedMore ==
  ASSUME IInv, NEW S \in SUBSET DOMAIN actors, \A a \in S : actors[a].snapshot # {},
         NEW outcome \in SaveOutcomes(S), Saved(outcome)
  PROVE  /\ history.durable \subseteq history'.durable
         /\ history'.durable \subseteq history.durable \union StatesHeld
         /\ history'.faults \in {history.faults, history.faults + 1}
         /\ DOMAIN Disabled(outcome) = DOMAIN actors
         /\ \A a \in DOMAIN actors :
              /\ Disabled(outcome)[a].stopping = actors[a].stopping
              /\ Disabled(outcome)[a].snapshot \subseteq actors[a].snapshot
<1>1. history \in HistoryType /\ actors \in [DOMAIN actors -> EntryType]
  BY DEF IInv, TypeOK
<1>2. OutcomeOK(S, outcome)
  BY SaveAttempt
<1> DEFINE new == UNION {Snapshot(a).state : a \in outcome.stored}
<1>3. history'.durable = history.durable \union new /\ history'.faults = outcome.faults
  BY <1>1 DEF Saved, HistoryType
<1>4. new \subseteq StatesHeld
  <2> SUFFICES ASSUME NEW a \in outcome.stored, NEW o \in Snapshot(a).state
               PROVE  o \in StatesHeld
    OBVIOUS
  <2>1. a \in DOMAIN actors /\ actors[a].snapshot # {}
    BY <1>2 DEF OutcomeOK
  <2>2. Snapshot(a) \in actors[a].snapshot
    BY <2>1 DEF Snapshot
  <2>3. o \in UNION {s.state : s \in actors[a].snapshot}
    BY <2>2
  <2> QED
    BY <2>1, <2>3 DEF StatesHeld
<1> HIDE DEF new
<1>5. outcome.faults \in {history.faults, history.faults + 1}
  <2>1. Untouched.faults = history.faults
        /\ Untouched = [ stored |-> {}, disabled |-> {}, faults |-> history.faults,
                         next |-> [shard |-> shard, client |-> client] ]
    BY DEF Untouched
  <2>2. CASE outcome = Untouched
    BY <2>1, <2>2
  <2>3. CASE outcome \in SaveErrors(S)
    <3>1. PICK T \in SUBSET S : outcome = [Untouched EXCEPT !.stored = T, !.faults = @ + 1]
      BY <2>3 DEF SaveErrors
    <3> QED
      BY <2>1, <3>1
  <2>4. CASE outcome \in SaveSuccesses(S)
    BY <2>4 DEF SaveSuccesses
  <2> QED
    BY <2>2, <2>3, <2>4 DEF SaveOutcomes
<1>6. /\ DOMAIN Disabled(outcome) = DOMAIN actors
      /\ \A a \in DOMAIN actors :
           /\ Disabled(outcome)[a].stopping = actors[a].stopping
           /\ Disabled(outcome)[a].snapshot \subseteq actors[a].snapshot
  BY <1>1 DEF Disabled, EntryType
<1> QED
  BY <1>3, <1>4, <1>5, <1>6

LEMMA BatchQuiet ==
  ASSUME IInv, SnapshotBatch, UNCHANGED procs
  PROVE  /\ SameLives
         /\ \A a \in DOMAIN actors : actors'[a].snapshot \subseteq actors[a].snapshot
         /\ history.durable \subseteq history'.durable
         /\ history'.durable \subseteq history.durable \union StatesHeld
         /\ history'.faults \in {history.faults, history.faults + 1}
<1> DEFINE S == WithSnapshot(Actors)
<1>1. S \in SUBSET DOMAIN actors /\ \A a \in S : actors[a].snapshot # {}
  BY DEF WithSnapshot
<1>2. PICK outcome \in SaveOutcomes(S) : Saved(outcome) /\ actors' = Disabled(outcome)
  BY DEF SnapshotBatch
<1> HIDE DEF S
<1> QED
  BY <1>1, <1>2, SavedMore, EntriesOnly

LEMMA RecycleStopFacts ==
  ASSUME IInv, RecycleStop
  PROVE  /\ Receives("idle") /\ Sender \in DOMAIN actors /\ Sender \in Actors
         /\ UNCHANGED node
         /\ DOMAIN actors' = DOMAIN actors /\ actors'[Sender].stopping
         /\ \A a \in DOMAIN actors : /\ a # Sender => actors'[a].stopping = actors[a].stopping
                                     /\ actors'[a].snapshot \subseteq actors[a].snapshot
         /\ procs'[Sender].stop
         /\ \A a \in Actors : /\ procs'[a].executed = procs[a].executed
                              /\ procs'[a].out = procs[a].out
                              /\ procs'[a].stage = procs[a].stage
                              /\ procs[a].stop => procs'[a].stop
         /\ history.durable \subseteq history'.durable
         /\ history'.durable \subseteq history.durable \union StatesHeld
         /\ history'.faults \in {history.faults, history.faults + 1}
<1> DEFINE a == Sender
           S == IF actors[a].snapshot = {} THEN {} ELSE WithSnapshot(Actors)
<1>1. S \in SUBSET DOMAIN actors /\ \A b \in S : actors[b].snapshot # {}
  BY DEF WithSnapshot
<1>2. Receives("idle") /\ procs' = [procs EXCEPT ![a].stop = TRUE] /\ UNCHANGED node
  BY DEF RecycleStop, StopActor
<1>3. PICK outcome \in SaveOutcomes(S) :
        Saved(outcome) /\ actors' = [Disabled(outcome) EXCEPT ![a].stopping = TRUE]
  BY DEF RecycleStop
<1>4. a \in Actors /\ a \in DOMAIN actors
  BY <1>2, ReceiveFacts
<1>5. procs \in [Actors -> ProcType] /\ actors \in [DOMAIN actors -> EntryType]
  BY DEF IInv, TypeOK
<1> HIDE DEF a, S
<1>6. /\ procs'[a].stop
      /\ \A b \in Actors : /\ procs'[b].executed = procs[b].executed
                           /\ procs'[b].out = procs[b].out
                           /\ procs'[b].stage = procs[b].stage
                           /\ procs[b].stop => procs'[b].stop
  BY <1>2, <1>4, <1>5 DEF ProcType
<1> DEFINE f == Disabled(outcome)
<1>7. /\ history.durable \subseteq history'.durable
      /\ history'.durable \subseteq history.durable \union StatesHeld
      /\ history'.faults \in {history.faults, history.faults + 1}
      /\ DOMAIN f = DOMAIN actors
      /\ \A b \in DOMAIN actors : /\ f[b].stopping = actors[b].stopping
                                  /\ f[b].snapshot \subseteq actors[b].snapshot
  BY <1>1, <1>3, SavedMore
<1>8. f \in [DOMAIN actors -> EntryType]
  BY <1>1, <1>3, SaveAttempt, SaveKeeps
<1> HIDE DEF f
<1>9. /\ DOMAIN actors' = DOMAIN actors /\ actors'[a].stopping
      /\ \A b \in DOMAIN actors : /\ b # a => actors'[b] = f[b]
                                  /\ actors'[b].snapshot = f[b].snapshot
  BY <1>3, <1>4, <1>8 DEF EntryType, f
<1> QED
  BY <1>2, <1>4, <1>6, <1>7, <1>9 DEF a

(* Messages of which every snapshot of the actor shows what it has done.   *)
Shows(messages, a, done) ==
  \A i \in DOMAIN messages :
    Is(messages[i], "snapshot", a) => messages[i].snapshot.state \subseteq done

(* What a goroutine makes of its state: a request to stop is not lost, it  *)
(* executes one record at most, and it sends what it did.                  *)
Works(a, p, q) ==
  /\ p.stop \/ p.stage # "running" => q.stop \/ q.stage # "running"
  /\ q.executed = p.executed \/ \E o \in Offsets : q.executed = Append(p.executed, o)
  /\ \/ Shows(q.out, a, Range(p.executed))
     \/ p.out # <<>> /\ q.out = Tail(p.out)

LEMMA TwoMore ==
  ASSUME NEW T, NEW seq \in Seq(T), NEW x \in T, NEW y \in T
  PROVE  \A i \in DOMAIN (seq \o <<x, y>>) :
           \/ i \in DOMAIN seq /\ (seq \o <<x, y>>)[i] = seq[i]
           \/ (seq \o <<x, y>>)[i] = x \/ (seq \o <<x, y>>)[i] = y
<1> DEFINE two == <<x, y>>
           all == seq \o two
<1>1. two \in Seq(T) /\ Len(two) = 2 /\ two[1] = x /\ two[2] = y
  OBVIOUS
<1> HIDE DEF two
<1>2. /\ all \in Seq(T) /\ Len(all) = Len(seq) + Len(two)
      /\ \A i \in 1 .. Len(seq) + Len(two) :
           all[i] = IF i <= Len(seq) THEN seq[i] ELSE two[i - Len(seq)]
  <2> HIDE DEF all
  <2>1. two \in Seq(T)
    BY <1>1
  <2> QED
    BY ONLY <2>1, seq \in Seq(T), ConcatProperties DEF all
<1> HIDE DEF all
<1>3. /\ Len(seq) \in Nat /\ DOMAIN seq = 1 .. Len(seq)
      /\ DOMAIN all = 1 .. Len(seq) + 2
  BY <1>1, <1>2
<1>4. \A i \in DOMAIN all : (i \in DOMAIN seq /\ all[i] = seq[i]) \/ all[i] = x \/ all[i] = y
  BY <1>1, <1>2, <1>3
<1> QED
  BY <1>4 DEF all, two

LEMMA FinishingWorks ==
  ASSUME NEW a \in Actors, NEW p \in ProcType, NEW r \in ProcType, r.executed = p.executed,
         r.out \in {<<>>, <<Signal("ready", a)>>}
  PROVE  Works(a, p, Finishing(a, r))
<1> DEFINE s == SnapshotSignal(a, r)
           z == Signal("stopped", a)
           out == r.out \o <<s, z>>
           q == Finishing(a, r)
           done == Range(p.executed)
<1>1. q = [r EXCEPT !.stage = "finishing", !.out = out]
  BY DEF Finishing
<1>2. /\ s.snapshot.state = done /\ ~ Is(z, "snapshot", a)
      /\ \A i \in DOMAIN r.out : ~ Is(r.out[i], "snapshot", a)
  BY DEF SnapshotSignal, SnapshotOf, Signal, Is
<1>3. s \in SignalType /\ z \in SignalType /\ r.out \in Seq(SignalType)
  BY SnapshotTyped, SignalTyped DEF ProcType
<1> HIDE DEF s, z, done
<1>5. \A i \in DOMAIN out : \/ i \in DOMAIN r.out /\ out[i] = r.out[i]
                            \/ out[i] = s \/ out[i] = z
  BY <1>3, TwoMore
<1> HIDE DEF out
<1>6. Shows(out, a, done)
  BY <1>2, <1>5 DEF Shows
<1>7. q.stage = "finishing" /\ q.executed = r.executed /\ q.out = out
  BY <1>1 DEF ProcType
<1> HIDE DEF q
<1> QED
  BY <1>6, <1>7 DEF Works, q, done

(* A step of an actor's goroutine.                                         *)
LEMMA OwnWork ==
  ASSUME IInv, NEW a \in Actors, ActorStep(a)
  PROVE  /\ a \in DOMAIN actors
         /\ UNCHANGED <<node, shard, actors>>
         /\ history'.durable = history.durable /\ history'.faults = history.faults
         /\ \A b \in Actors : b # a => procs'[b] = procs[b]
         /\ Works(a, procs[a], procs'[a])
         /\ \/ UNCHANGED mailbox
            \/ /\ procs[a].out # <<>> /\ mailbox' = Append(mailbox, Head(procs[a].out))
               /\ procs'[a].executed = procs[a].executed
<1> DEFINE p == procs[a]
           r == Relieved(a)
<1>1. /\ procs \in [Actors -> ProcType] /\ p \in ProcType /\ history \in HistoryType
  BY DEF IInv, TypeOK
<1>2. UNCHANGED <<node, shard, actors>>
  BY DEF ActorStep, ActorReceive, ActorSkip, ActorExecute, ActorPanic, ActorIdle, ActorAlive,
         ActorStop, ActorFinish, ActorSignal, SignalSent, Becomes
<1>3. history'.durable = history.durable /\ history'.faults = history.faults
  <2>1. UNCHANGED history \/ history' = [history EXCEPT !.timers = @ + 1]
    BY DEF ActorStep, ActorReceive, ActorSkip, ActorExecute, ActorPanic, ActorIdle,
           ActorAlive, ActorStop, ActorFinish, ActorSignal, SignalSent, Becomes
  <2> QED
    BY <1>1, <2>1 DEF HistoryType
<1>4. a \in DOMAIN actors
  <2>1. Reports(a, a \in DOMAIN actors, p.stage, p.out, mailbox)
    BY DEF IInv
  <2>2. p.out # <<>> => p.stage # "gone"
    BY <2>1 DEF Reports
  <2>3. p.out = <<>> => p.stage # "gone"
    BY DEF ActorStep, ActorReceive, ActorSkip, ActorExecute, ActorPanic, ActorIdle,
           ActorAlive, ActorStop, ActorFinish, ActorSignal, Takes
  <2> QED
    BY <2>2, <2>3, RunningIsHere
<1>5. ASSUME NEW q, procs' = [procs EXCEPT ![a] = q]
      PROVE  procs'[a] = q /\ \A b \in Actors : b # a => procs'[b] = procs[b]
  BY <1>1, <1>5
<1>6. ASSUME NEW q, procs' = [procs EXCEPT ![a] = q], Works(a, p, q),
             \/ UNCHANGED mailbox
             \/ /\ p.out # <<>> /\ mailbox' = Append(mailbox, Head(p.out))
                /\ q.executed = p.executed
      PROVE  /\ \A b \in Actors : b # a => procs'[b] = procs[b]
             /\ Works(a, p, procs'[a])
             /\ \/ UNCHANGED mailbox
                \/ /\ p.out # <<>> /\ mailbox' = Append(mailbox, Head(p.out))
                   /\ procs'[a].executed = p.executed
  BY <1>5, <1>6
<1>7. ASSUME Takes(a)
      PROVE  /\ r \in ProcType /\ r.stage = p.stage /\ r.executed = p.executed
             /\ r.stop = p.stop /\ Taken(a) \in Offsets
             /\ r.out \in {<<>>, <<Signal("ready", a)>>}
             /\ Shows(r.out, a, Range(p.executed))
  <2>1. r.stop = p.stop
    BY <1>1 DEF Relieved, ProcType
  <2>2. \A out \in {<<>>, <<Signal("ready", a)>>} : Shows(out, a, Range(p.executed))
    BY DEF Shows, Signal, Is
  <2>3. TypeOK
    BY DEF IInv
  <2> QED
    BY <1>7, <2>1, <2>2, <2>3, RelievedIsReady
<1> HIDE DEF p, r
<1>8. CASE ActorSkip(a)
  <2>1. Works(a, p, r)
    BY <1>7, <1>8 DEF ActorSkip, Works
  <2> QED
    BY <1>2, <1>3, <1>4, <1>6, <1>8, <2>1 DEF ActorSkip, Becomes, p, r
<1>9. CASE ActorExecute(a)
  <2> DEFINE q == [r EXCEPT !.executed = Append(@, Taken(a))]
  <2>1. Takes(a)
    BY <1>9 DEF ActorExecute
  <2>2. /\ q.executed = Append(p.executed, Taken(a)) /\ q.out = r.out
        /\ q.stage = p.stage /\ q.stop = p.stop
    BY <1>7, <2>1 DEF ProcType
  <2> HIDE DEF q
  <2>3. Works(a, p, q)
    BY <1>7, <2>1, <2>2 DEF Works
  <2>4. procs' = [procs EXCEPT ![a] = q] /\ UNCHANGED mailbox
    BY <1>9 DEF ActorExecute, Becomes, q, r
  <2> QED
    BY <1>2, <1>3, <1>4, <1>6, <2>3, <2>4 DEF p
<1>10. CASE ActorPanic(a)
  <2>1. Works(a, p, Finishing(a, r))
    BY <1>1, <1>7, <1>10, FinishingWorks DEF ActorPanic
  <2> QED
    BY <1>2, <1>3, <1>4, <1>6, <1>10, <2>1 DEF ActorPanic, Becomes, p, r
<1>11. CASE ActorFinish(a)
  <2>1. p.out = <<>>
    BY <1>11 DEF ActorFinish, p
  <2>2. Works(a, p, Finishing(a, p))
    BY <1>1, <2>1, FinishingWorks
  <2> QED
    BY <1>2, <1>3, <1>4, <1>6, <1>11, <2>2 DEF ActorFinish, Becomes, p
<1>12. CASE ActorIdle(a) \/ ActorAlive(a)
  <2> DEFINE s == SnapshotSignal(a, p)
  <2>1. s.snapshot.state = Range(p.executed)
    BY DEF SnapshotSignal, SnapshotOf
  <2> HIDE DEF s
  <2>2. PICK out \in {<<s, Signal("idle", a)>>, <<Signal("alive", a)>>} :
          procs' = [procs EXCEPT ![a].out = out]
    BY <1>12 DEF ActorIdle, ActorAlive, s, p
  <2> DEFINE q == [p EXCEPT !.out = out]
  <2>3. Shows(out, a, Range(p.executed))
    <3>1. \A i \in DOMAIN out : out[i] = s \/ ~ Is(out[i], "snapshot", a)
      BY DEF Signal, Is
    <3> QED
      BY <2>1, <3>1 DEF Shows
  <2>4. q.executed = p.executed /\ q.out = out /\ q.stage = p.stage /\ q.stop = p.stop
    BY <1>1 DEF ProcType
  <2>5. procs' = [procs EXCEPT ![a] = q]
    BY <1>1, <2>2 DEF p
  <2> HIDE DEF q
  <2>6. Works(a, p, q)
    BY <2>3, <2>4 DEF Works
  <2>7. UNCHANGED mailbox
    BY <1>12 DEF ActorIdle, ActorAlive
  <2> QED
    BY <1>2, <1>3, <1>4, <1>6, <2>5, <2>6, <2>7 DEF p
<1>13. CASE ActorStop(a)
  <2> DEFINE q == [p EXCEPT !.stage = "draining", !.stop = FALSE]
  <2>1. q.executed = p.executed /\ q.out = p.out /\ q.stage = "draining"
    BY <1>1 DEF ProcType
  <2>2. procs' = [procs EXCEPT ![a] = q] /\ UNCHANGED mailbox /\ p.out = <<>>
    BY <1>13 DEF ActorStop, Becomes, p
  <2> HIDE DEF q
  <2>3. Works(a, p, q)
    BY <2>1, <2>2 DEF Works, Shows
  <2> QED
    BY <1>2, <1>3, <1>4, <1>6, <2>2, <2>3 DEF p
<1>14. CASE ActorSignal(a)
  <2> DEFINE q == [p EXCEPT !.out = Tail(@), !.stage = Left(p.stage, p.out)]
  <2>1. /\ q.executed = p.executed /\ q.out = Tail(p.out) /\ q.stop = p.stop
        /\ q.stage = Left(p.stage, p.out)
    BY <1>1 DEF ProcType
  <2>2. /\ procs' = [procs EXCEPT ![a].out = Tail(@),
                                  ![a].stage = IF @ = "finishing" /\ Len(p.out) = 1
                                               THEN "gone" ELSE @]
        /\ p.out # <<>> /\ mailbox' = Append(mailbox, Head(p.out))
    BY <1>14 DEF ActorSignal, SignalSent, p
  <2>3. procs' = [procs EXCEPT ![a] = q]
    BY <1>1, <2>2 DEF Left, p
  <2> HIDE DEF q
  <2>4. Works(a, p, q)
    BY <2>1, <2>2 DEF Works, Left
  <2> QED
    BY <1>2, <1>3, <1>4, <1>6, <2>1, <2>2, <2>3, <2>4 DEF p
<1> QED
  BY <1>8, <1>9, <1>10, <1>11, <1>12, <1>13, <1>14 DEF ActorStep, ActorReceive

(* The steps that begin a life, end one, or ask all of them to end.        *)
LEMMA StartFacts ==
  ASSUME IInv, DispatchStart
  PROVE  /\ Receives("record") /\ Receiver \in Actors /\ Receiver \notin DOMAIN actors
         /\ ~ node.stopping /\ UNCHANGED node
         /\ DOMAIN actors' = DOMAIN actors \union {Receiver}
         /\ ~ actors'[Receiver].stopping /\ actors'[Receiver].snapshot = {}
         /\ \A a \in DOMAIN actors : actors'[a] = actors[a]
         /\ procs'[Receiver].executed = <<>> /\ procs'[Receiver].out = <<>>
         /\ \A a \in Actors : a # Receiver => procs'[a] = procs[a]
         /\ history'.durable = history.durable /\ history'.faults = history.faults
<1> DEFINE a == Receiver
           q == [NewProc EXCEPT !.mailbox = Append(@, Offset)]
<1>1. /\ Receives("record") /\ a \notin DOMAIN actors /\ shard.registered
      /\ UNCHANGED node /\ procs' = [procs EXCEPT ![a] = q]
      /\ actors' = WithEntry(a, NewEntry)
      /\ history' = [history EXCEPT !.overtaken = @ \/ Leaps(Offset) \/ Overtakes(Offset, NewProc)]
  BY DEF DispatchStart, Accepted, Routable, Hand, Tracked
<1>2. a \in Actors
  BY <1>1, RecordTaken
<1>3. procs \in [Actors -> ProcType] /\ history \in HistoryType
  BY DEF IInv, TypeOK
<1>4. history'.durable = history.durable /\ history'.faults = history.faults
  BY <1>1, <1>3 DEF HistoryType
<1>5. ~ node.stopping
  BY <1>1 DEF IInv, Ending
<1>6. q.executed = <<>> /\ q.out = <<>>
  BY DEF NewProc, NoProc
<1> HIDE DEF a, q
<1>7. /\ DOMAIN actors' = DOMAIN actors \union {a} /\ actors'[a] = NewEntry
      /\ \A b \in DOMAIN actors : actors'[b] = actors[b]
  BY <1>1 DEF WithEntry
<1>8. /\ procs'[a] = q
      /\ \A b \in Actors : b # a => procs'[b] = procs[b]
  BY <1>1, <1>2, <1>3
<1>9. ~ NewEntry.stopping /\ NewEntry.snapshot = {}
  BY DEF NewEntry
<1> QED
  BY <1>1, <1>2, <1>4, <1>5, <1>6, <1>7, <1>8, <1>9 DEF a

LEMMA EndFacts ==
  ASSUME IInv, ReceiveStopped
  PROVE  /\ Receives("stopped") /\ Sender \in Actors /\ Sender \in DOMAIN actors
         /\ DOMAIN actors' = DOMAIN actors \ {Sender}
         /\ \A a \in DOMAIN actors' : actors'[a] = actors[a]
         /\ procs'[Sender] = NoProc
         /\ \A a \in Actors : a # Sender => procs'[a] = procs[a]
         /\ Reports(Sender, FALSE, "gone", <<>>, mailbox')
         /\ node' = IF node.stopping THEN HandleEnding(node, DOMAIN actors') ELSE node
         /\ history.durable \subseteq history'.durable
         /\ history'.durable \subseteq history.durable \union StatesHeld
         /\ history'.faults \in {history.faults, history.faults + 1}
<1> DEFINE a == Sender
           S == WithSnapshot({a})
<1>1. /\ Receives("stopped") /\ a \in Actors /\ a \in DOMAIN actors
      /\ procs[a].stage = "gone" /\ Reports(a, FALSE, "gone", <<>>, mailbox')
      /\ S \in SUBSET DOMAIN actors /\ \A b \in S : actors[b].snapshot # {}
  BY StoppedFacts
<1>2. \E outcome \in SaveOutcomes(S) : Saved(outcome)
  BY StoppedFacts
<1>3. /\ actors' = Without(a) /\ procs' = [procs EXCEPT ![a] = NoProc]
      /\ node' = IF node.stopping THEN HandleEnding(node, DOMAIN actors \ {a}) ELSE node
  BY <1>1 DEF ReceiveStopped, Collected
<1>4. procs \in [Actors -> ProcType]
  BY DEF IInv, TypeOK
<1> HIDE DEF a, S
<1>5. /\ history.durable \subseteq history'.durable
      /\ history'.durable \subseteq history.durable \union StatesHeld
      /\ history'.faults \in {history.faults, history.faults + 1}
  BY <1>1, <1>2, SavedMore
<1>6. /\ DOMAIN actors' = DOMAIN actors \ {a}
      /\ \A b \in DOMAIN actors' : actors'[b] = actors[b]
  BY <1>3 DEF Without
<1>7. procs'[a] = NoProc /\ \A b \in Actors : b # a => procs'[b] = procs[b]
  BY <1>1, <1>3, <1>4
<1> QED
  BY <1>1, <1>3, <1>5, <1>6, <1>7 DEF a

LEMMA AllAsked ==
  ASSUME IInv, BeforeStop
  PROVE  /\ node.stage = "serving" /\ ~ node.stopping /\ node.endTimer = "unset"
         /\ node'.stage = "serving" /\ node'.stopping /\ node'.endTimer = "armed"
         /\ ~ node'.end => DOMAIN actors # {}
         /\ DOMAIN actors' = DOMAIN actors
         /\ \A a \in DOMAIN actors : /\ actors'[a].stopping /\ procs'[a].stop
                                     /\ actors'[a].snapshot = actors[a].snapshot
         /\ \A a \in Actors : /\ procs'[a].executed = procs[a].executed
                              /\ procs'[a].out = procs[a].out
         /\ UNCHANGED <<mailbox, history>>
<1>1. /\ actors' = [a \in DOMAIN actors |-> [actors[a] EXCEPT !.stopping = TRUE]]
      /\ procs' = [a \in Actors |-> IF a \in DOMAIN actors
                                    THEN [procs[a] EXCEPT !.stop = TRUE] ELSE procs[a]]
      /\ node' = HandleEnding([node EXCEPT !.stopping = TRUE, !.endTimer = "armed"],
                              DOMAIN actors)
      /\ UNCHANGED <<mailbox, history>>
      /\ node.stage = "serving" /\ ~ node.stopping
  BY DEF BeforeStop, StopAll, Serving
<1>2. /\ node \in NodeType /\ ~ node.end /\ node.endTimer = "unset"
      /\ actors \in [DOMAIN actors -> EntryType] /\ DOMAIN actors \subseteq Actors
      /\ procs \in [Actors -> ProcType]
  BY <1>1 DEF IInv, TypeOK, Ending
<1>3. /\ node'.stage = "serving" /\ node'.stopping /\ node'.endTimer = "armed"
      /\ ~ node'.end => DOMAIN actors # {}
  <2> DEFINE n == [node EXCEPT !.stopping = TRUE, !.endTimer = "armed"]
  <2>1. n \in NodeType /\ n.stopping /\ ~ n.end /\ n.stage = "serving" /\ n.endTimer = "armed"
    BY <1>1, <1>2 DEF NodeType
  <2> HIDE DEF n
  <2>2. node' = IF DOMAIN actors # {} THEN n ELSE [n EXCEPT !.end = TRUE]
    BY <1>1, <2>1 DEF HandleEnding, n
  <2> QED
    BY <2>1, <2>2 DEF NodeType
<1>4. /\ DOMAIN actors' = DOMAIN actors
      /\ \A a \in DOMAIN actors : /\ actors'[a].stopping
                                  /\ actors'[a].snapshot = actors[a].snapshot
  BY <1>1, <1>2 DEF EntryType
<1>5. ASSUME NEW a \in Actors
      PROVE  /\ a \in DOMAIN actors => procs'[a].stop
             /\ procs'[a].executed = procs[a].executed /\ procs'[a].out = procs[a].out
  <2>1. /\ [procs[a] EXCEPT !.stop = TRUE].stop
        /\ [procs[a] EXCEPT !.stop = TRUE].executed = procs[a].executed
        /\ [procs[a] EXCEPT !.stop = TRUE].out = procs[a].out
    BY <1>2 DEF ProcType
  <2> QED
    BY <1>1, <2>1
<1> QED
  BY <1>1, <1>2, <1>3, <1>4, <1>5

-----------------------------------------------------------------------------
(* Nobody is waited for who was not told.                                  *)

AllTold ==
  /\ \A a \in DOMAIN actors : actors[a].stopping => Told(a)
  /\ node.stopping => \A a \in DOMAIN actors : actors[a].stopping
  /\ node.stopping /\ node.stage = "serving" /\ ~ node.end => DOMAIN actors # {}

LEMMA NextAllTold ==
  IInv /\ AllTold /\ [Next]_vars => AllTold'
<1> SUFFICES ASSUME IInv, AllTold, [Next]_vars PROVE AllTold'
  OBVIOUS
<1>1. DOMAIN actors \subseteq Actors /\ node \in NodeType
  BY DEF IInv, TypeOK
<1>2. ASSUME SameLives, UNCHANGED node PROVE AllTold'
  BY <1>1, <1>2 DEF SameLives, SameProc, AllTold, Told
<1>3. CASE PollerStep
  BY <1>2, <1>3, PollerQuiet
<1>4. CASE QuietDispatch \/ QuietSignal
  BY <1>2, <1>4, QuietDispatches, QuietSignals
<1>5. CASE DispatchStart
  <2>1. /\ Receiver \notin DOMAIN actors /\ ~ node.stopping /\ UNCHANGED node
        /\ DOMAIN actors' = DOMAIN actors \union {Receiver}
        /\ ~ actors'[Receiver].stopping
        /\ \A a \in DOMAIN actors : actors'[a] = actors[a]
        /\ \A a \in Actors : a # Receiver => procs'[a] = procs[a]
    BY <1>5, StartFacts
  <2> QED
    BY <1>1, <2>1 DEF AllTold, Told
<1>6. CASE ReceiveSnapshot
  <2>1. actors \in [DOMAIN actors -> EntryType]
    BY DEF IInv, TypeOK
  <2>2. UNCHANGED <<node, procs>> /\ DOMAIN actors' = DOMAIN actors
        /\ \A a \in DOMAIN actors : actors'[a].stopping = actors[a].stopping
    BY <1>6, <2>1 DEF ReceiveSnapshot, EntryType
  <2> QED
    BY <1>2, <2>2, EntriesOnly
<1>7. CASE RecycleStop
  <2>1. /\ UNCHANGED node /\ Sender \in DOMAIN actors
        /\ DOMAIN actors' = DOMAIN actors /\ actors'[Sender].stopping
        /\ \A a \in DOMAIN actors : a # Sender => actors'[a].stopping = actors[a].stopping
        /\ procs'[Sender].stop
        /\ \A a \in Actors : /\ procs'[a].stage = procs[a].stage
                             /\ procs[a].stop => procs'[a].stop
    BY <1>7, RecycleStopFacts
  <2> QED
    BY <1>1, <2>1 DEF AllTold, Told
<1>8. CASE ReceiveStopped
  <2>1. /\ node.stage = "serving"
        /\ DOMAIN actors' \subseteq DOMAIN actors /\ Sender \notin DOMAIN actors'
        /\ \A a \in DOMAIN actors' : actors'[a] = actors[a]
        /\ \A a \in Actors : a # Sender => procs'[a] = procs[a]
        /\ node' = IF node.stopping THEN HandleEnding(node, DOMAIN actors') ELSE node
    BY <1>8, EndFacts DEF Receives, Serving
  <2>2. /\ node'.stopping = node.stopping
        /\ node'.stopping /\ node'.stage = "serving" /\ ~ node'.end => DOMAIN actors' # {}
    BY <1>1, <2>1 DEF HandleEnding, NodeType
  <2> QED
    BY <1>1, <2>1, <2>2 DEF AllTold, Told
<1>9. CASE BeforeStop
  BY <1>1, <1>9, AllAsked DEF AllTold, Told
<1>10. CASE SnapshotTimer
  BY <1>2, <1>10, BatchQuiet DEF SnapshotTimer
<1>11. CASE AfterStop \/ EndTimer
  <2>1. SameLives
    BY <1>11, BatchQuiet, EntriesOnly DEF AfterStop, EndTimer
  <2>2. node'.stopping = node.stopping /\ (node'.stage # "serving" \/ node'.end)
    BY <1>1, <1>11 DEF AfterStop, EndTimer, NodeType
  <2> QED
    BY <1>1, <2>1, <2>2 DEF SameLives, SameProc, AllTold, Told
<1>12. ASSUME NEW a \in Actors, ActorStep(a) PROVE AllTold'
  <2>1. /\ UNCHANGED <<node, actors>>
        /\ \A b \in Actors : b # a => procs'[b] = procs[b]
        /\ Works(a, procs[a], procs'[a])
    BY <1>12, OwnWork
  <2> QED
    BY <1>1, <2>1 DEF Works, AllTold, Told
<1>13. CASE Restart
  <2>1. actors' = <<>> /\ ~ node'.stopping
    BY <1>13 DEF Restart, FreshNode
  <2>2. DOMAIN <<>> = {}
    OBVIOUS
  <2> QED
    BY <2>1, <2>2 DEF AllTold
<1>14. CASE UNCHANGED vars
  BY <1>2, <1>14, EntriesOnly DEF vars
<1> QED
  BY <1>3, <1>4, <1>5, <1>6, <1>7, <1>8, <1>9, <1>10, <1>11, <1>12, <1>13, <1>14
     DEF Next, NodeReceive, Dispatcher, QuietDispatch, QuietSignal, Quiet

(***************************************************************************)
(* The node waits for nobody who was not told: an actor whose entry is     *)
(* marked as stopping has the request or has taken it, a node that stops   *)
(* has marked every entry, and while it waits there is one.                *)
(***************************************************************************)
THEOREM EveryoneIsTold ==
  Spec => []StopIsAnswered
<1>1. Init => AllTold
  <2>1. DOMAIN <<>> = {}
    OBVIOUS
  <2> QED
    BY <2>1 DEF Init, FreshNode, AllTold
<1>2. AllTold => StopIsAnswered
  <2>1. DOMAIN actors # {} => actors # <<>>
    OBVIOUS
  <2> QED
    BY <2>1 DEF AllTold, StopIsAnswered, Serving
<1> QED
  BY <1>1, <1>2, Invariance, NextAllTold, PTL DEF Spec

-----------------------------------------------------------------------------
(* Every snapshot under way or held shows only what its actor has done.    *)

Held(a) == IF a \in DOMAIN actors THEN actors[a].snapshot ELSE {}

TrueTo(a, p, mb, held) ==
  LET done == Range(p.executed)
  IN  /\ Shows(p.out, a, done)
      /\ Shows(mb, a, done)
      /\ \A s \in held : s.state \subseteq done

Truth == \A a \in Actors : TrueTo(a, procs[a], mailbox, Held(a))

LEMMA ShowsLonger ==
  ASSUME NEW T, NEW mb \in Seq(T), NEW m \in T, NEW a, NEW done, Shows(mb, a, done),
         Is(m, "snapshot", a) => m.snapshot.state \subseteq done
  PROVE  Shows(Append(mb, m), a, done)
<1> DEFINE l == Append(mb, m)
<1>1. /\ Len(mb) \in Nat /\ DOMAIN mb = 1 .. Len(mb) /\ DOMAIN l = 1 .. Len(mb) + 1
      /\ \A i \in DOMAIN mb : l[i] = mb[i]
      /\ l[Len(mb) + 1] = m
  BY Longer
<1> HIDE DEF l
<1>2. \A i \in DOMAIN l : i \in DOMAIN mb \/ i = Len(mb) + 1
  BY <1>1
<1>3. Shows(l, a, done)
  BY <1>1, <1>2 DEF Shows
<1> QED
  BY <1>3 DEF l

LEMMA ShowsShorter ==
  ASSUME NEW T, NEW mb \in Seq(T), mb # <<>>, NEW a, NEW done, Shows(mb, a, done)
  PROVE  /\ Shows(Tail(mb), a, done)
         /\ Is(Head(mb), "snapshot", a) => Head(mb).snapshot.state \subseteq done
<1> DEFINE l == Tail(mb)
<1>1. /\ Head(mb) = mb[1] /\ 1 \in DOMAIN mb
      /\ \A i \in DOMAIN l : l[i] = mb[i + 1] /\ i + 1 \in DOMAIN mb
  BY Shorter
<1> HIDE DEF l
<1>2. Shows(l, a, done)
  BY <1>1 DEF Shows
<1> QED
  BY <1>1, <1>2 DEF Shows, l

(* An actor of which nothing is left, or that begins.                      *)
Blank(a) ==
  /\ procs'[a].out = <<>>
  /\ \A i \in DOMAIN mailbox' : ~ From(mailbox'[i], a)
  /\ Held(a)' = {}

(* An actor whose goroutine the step leaves alone.                         *)
Idles(a) ==
  /\ procs'[a].executed = procs[a].executed /\ procs'[a].out = procs[a].out
  /\ \/ Held(a)' \subseteq Held(a)
     \/ /\ mailbox # <<>> /\ Is(Head(mailbox), "snapshot", a)
        /\ Held(a)' = {Head(mailbox).snapshot}

LEMMA TruthIdles ==
  ASSUME IInv, Truth,
         \/ UNCHANGED mailbox
         \/ mailbox # <<>> /\ mailbox' = Tail(mailbox)
         \/ \E o \in Offsets : mailbox' = Append(mailbox, Record(o)),
         \A a \in Actors : Blank(a) \/ Idles(a)
  PROVE  Truth'
<1> SUFFICES ASSUME NEW a \in Actors
             PROVE  TrueTo(a, procs[a], mailbox, Held(a))'
  BY DEF Truth
<1>1. CASE Blank(a)
  <2>1. DOMAIN procs'[a].out = {}
    BY <1>1 DEF Blank
  <2>2. \A i \in DOMAIN mailbox' : ~ Is(mailbox'[i], "snapshot", a)
    BY <1>1 DEF Blank, From, Is
  <2>3. Held(a)' = {}
    BY <1>1 DEF Blank
  <2> QED
    BY <2>1, <2>2, <2>3 DEF TrueTo, Shows
<1>2. CASE Idles(a)
  <2> DEFINE done == Range(procs[a].executed)
  <2>1. /\ Shows(procs[a].out, a, done) /\ Shows(mailbox, a, done)
        /\ \A s \in Held(a) : s.state \subseteq done
    BY DEF Truth, TrueTo
  <2>2. mailbox \in Seq(MessageType)
    BY DEF IInv, TypeOK
  <2>3. Range(procs'[a].executed) = done /\ procs'[a].out = procs[a].out
    BY <1>2 DEF Idles
  <2> HIDE DEF done
  <2>4. Shows(mailbox', a, done)
    <3>1. ASSUME NEW o \in Offsets PROVE Shows(Append(mailbox, Record(o)), a, done)
      <4>1. Record(o) \in MessageType /\ ~ Is(Record(o), "snapshot", a)
        BY DEF Record, MessageType, Is
      <4> QED
        BY <2>1, <2>2, <4>1, ShowsLonger
    <3>2. mailbox # <<>> => Shows(Tail(mailbox), a, done)
      BY <2>1, <2>2, ShowsShorter
    <3> QED
      BY <2>1, <3>1, <3>2
  <2>5. \A s \in Held(a)' : s.state \subseteq done
    <3>1. mailbox # <<>> /\ Is(Head(mailbox), "snapshot", a)
            => Head(mailbox).snapshot.state \subseteq done
      BY <2>1, <2>2, ShowsShorter
    <3> QED
      BY <1>2, <2>1, <3>1 DEF Idles
  <2> QED
    BY <2>1, <2>3, <2>4, <2>5 DEF TrueTo
<1> QED
  BY <1>1, <1>2

LEMMA RangeGrows ==
  ASSUME NEW done \in Seq(Offsets), NEW o \in Offsets
  PROVE  Range(Append(done, o)) = Range(done) \union {o}
<1> DEFINE l == Append(done, o)
<1>1. /\ Len(done) \in Nat /\ DOMAIN done = 1 .. Len(done) /\ DOMAIN l = 1 .. Len(done) + 1
      /\ \A i \in DOMAIN done : l[i] = done[i]
      /\ l[Len(done) + 1] = o
  BY Longer
<1> HIDE DEF l
<1>2. \A i \in DOMAIN l : i \in DOMAIN done \/ i = Len(done) + 1
  BY <1>1
<1>3. \A i \in DOMAIN done : i \in DOMAIN l
  BY <1>1
<1>4. Len(done) + 1 \in DOMAIN l
  BY <1>1
<1>5. Range(l) = Range(done) \union {o}
  BY <1>1, <1>2, <1>3, <1>4 DEF Range
<1> QED
  BY <1>5 DEF l

LEMMA TruthWorks ==
  ASSUME IInv, Truth, NEW a \in Actors, ActorStep(a)
  PROVE  Truth'
<1> DEFINE p == procs[a]
           q == procs'[a]
<1>1. /\ UNCHANGED actors
      /\ \A b \in Actors : b # a => procs'[b] = procs[b]
      /\ Works(a, p, q)
      /\ \/ UNCHANGED mailbox
         \/ /\ p.out # <<>> /\ mailbox' = Append(mailbox, Head(p.out))
            /\ q.executed = p.executed
  BY OwnWork
<1>2. /\ p \in ProcType /\ p.executed \in Seq(Offsets) /\ p.out \in Seq(SignalType)
      /\ mailbox \in Seq(MessageType)
  BY DEF IInv, TypeOK, ProcType
<1>3. \A b \in Actors : Held(b)' = Held(b)
  BY <1>1 DEF Held
<1>4. Range(p.executed) \subseteq Range(q.executed)
  BY <1>1, <1>2, RangeGrows DEF Works
<1>5. TrueTo(a, p, mailbox, Held(a))
  BY DEF Truth
<1>6. Shows(q.out, a, Range(q.executed))
  <2>1. CASE Shows(q.out, a, Range(p.executed))
    BY <1>4, <2>1 DEF Shows
  <2>2. CASE p.out # <<>> /\ q.out = Tail(p.out)
    <3>1. Shows(q.out, a, Range(p.executed))
      BY <1>2, <1>5, <2>2, ShowsShorter DEF TrueTo
    <3> QED
      BY <1>4, <3>1 DEF Shows
  <2> QED
    BY <1>1, <2>1, <2>2 DEF Works
<1>7. ASSUME p.out # <<>>, mailbox' = Append(mailbox, Head(p.out)), NEW b \in Actors
      PROVE  Shows(mailbox', b, Range(procs[b].executed))
  <2>1. /\ Head(p.out) \in MessageType /\ Head(p.out) = p.out[1] /\ 1 \in DOMAIN p.out
    BY <1>2, <1>7, Shorter DEF MessageType
  <2>2. Head(p.out).sender = a
    <3>1. Reports(a, a \in DOMAIN actors, p.stage, p.out, mailbox)
      BY DEF IInv
    <3> QED
      BY <2>1, <3>1 DEF Reports
  <2>3. Is(Head(p.out), "snapshot", b) => Head(p.out).snapshot.state \subseteq Range(procs[b].executed)
    BY <1>5, <2>1, <2>2 DEF TrueTo, Shows, Is
  <2>4. Shows(mailbox, b, Range(procs[b].executed))
    BY DEF Truth, TrueTo
  <2> QED
    BY <1>2, <1>7, <2>1, <2>3, <2>4, ShowsLonger
<1>8. \A b \in Actors : Shows(mailbox', b, Range(procs[b].executed))
  BY <1>1, <1>7 DEF Truth, TrueTo
<1> HIDE DEF p, q
<1>9. ASSUME NEW b \in Actors PROVE TrueTo(b, procs'[b], mailbox', Held(b)')
  <2>1. CASE b = a
    <3>1. Shows(mailbox', a, Range(q.executed))
      BY <1>4, <1>8 DEF Shows, p
    <3>2. \A s \in Held(a)' : s.state \subseteq Range(q.executed)
      BY <1>3, <1>4, <1>5 DEF TrueTo
    <3> QED
      BY <1>6, <2>1, <3>1, <3>2 DEF TrueTo, q
  <2>2. CASE b # a
    BY <1>1, <1>3, <1>8, <2>2 DEF Truth, TrueTo
  <2> QED
    BY <2>1, <2>2
<1> QED
  BY <1>9 DEF Truth

LEMMA HeldShrinks ==
  ASSUME SameLives, \A a \in DOMAIN actors : actors'[a].snapshot \subseteq actors[a].snapshot
  PROVE  \A a \in Actors : Idles(a)
<1> SUFFICES ASSUME NEW a \in Actors PROVE Idles(a)
  OBVIOUS
<1>1. DOMAIN actors' = DOMAIN actors /\ SameProc(procs[a], procs'[a])
  BY DEF SameLives
<1>2. Held(a)' \subseteq Held(a)
  BY <1>1 DEF Held
<1> QED
  BY <1>1, <1>2 DEF Idles, SameProc

LEMMA NextTruth ==
  IInv /\ Truth /\ [Next]_vars => Truth'
<1> SUFFICES ASSUME IInv, Truth, [Next]_vars PROVE Truth'
  OBVIOUS
<1>1. /\ DOMAIN actors \subseteq Actors /\ mailbox \in Seq(MessageType)
      /\ actors \in [DOMAIN actors -> EntryType]
  BY DEF IInv, TypeOK
<1>2. ASSUME SameLives,
             \A a \in DOMAIN actors : actors'[a].snapshot \subseteq actors[a].snapshot,
             \/ UNCHANGED mailbox
             \/ mailbox # <<>> /\ mailbox' = Tail(mailbox)
             \/ \E o \in Offsets : mailbox' = Append(mailbox, Record(o))
      PROVE  Truth'
  BY <1>2, HeldShrinks, TruthIdles
<1>3. CASE PollerStep
  BY <1>2, <1>3, PollerQuiet
<1>4. CASE QuietDispatch
  <2>1. mailbox # <<>> /\ mailbox' = Tail(mailbox)
    BY <1>4, QuietDispatches DEF Receives
  <2> QED
    BY <1>2, <1>4, <2>1, QuietDispatches
<1>5. CASE QuietSignal
  BY <1>2, <1>5, QuietSignals
<1>6. CASE DispatchStart
  <2>0. PICK r \in Actors : r = Receiver
    BY <1>6, StartFacts
  <2>1. /\ Receives("record") /\ r \in Actors /\ r \notin DOMAIN actors
        /\ DOMAIN actors' = DOMAIN actors \union {r}
        /\ actors'[r].snapshot = {}
        /\ \A a \in DOMAIN actors : actors'[a] = actors[a]
        /\ procs'[r].out = <<>>
        /\ \A a \in Actors : a # r => procs'[a] = procs[a]
    BY <1>6, <2>0, StartFacts
  <2>2. mailbox # <<>> /\ mailbox' = Tail(mailbox)
    BY <2>1 DEF Receives
  <2>3. Blank(r)
    <3>1. \A i \in DOMAIN mailbox : ~ From(mailbox[i], r)
      BY <2>1 DEF IInv, Reports
    <3>2. \A i \in DOMAIN mailbox' : ~ From(mailbox'[i], r)
      BY <1>1, <2>2, <3>1, Shorter
    <3> QED
      BY <2>1, <3>2 DEF Blank, Held
  <2>4. \A a \in Actors : a # r => Idles(a)
    BY <2>1 DEF Idles, Held
  <2> QED
    BY <2>2, <2>3, <2>4, TruthIdles
<1>7. CASE ReceiveSnapshot
  <2>0. PICK s \in Actors : s = Sender
    BY <1>7, ReceiveFacts DEF ReceiveSnapshot
  <2> DEFINE m == Head(mailbox)
             e == [actors[s] EXCEPT !.snapshot = {m.snapshot}]
  <2>1. /\ Receives("snapshot") /\ UNCHANGED procs /\ actors' = [actors EXCEPT ![s] = e]
    BY <1>7, <2>0 DEF ReceiveSnapshot
  <2>2. /\ mailbox # <<>> /\ mailbox' = Tail(mailbox) /\ s \in DOMAIN actors
        /\ m.command = "snapshot" /\ m.sender = s
    BY <2>0, <2>1, ReceiveFacts DEF From
  <2>3. e.snapshot = {m.snapshot}
    BY <1>1, <2>2 DEF EntryType
  <2> HIDE DEF e, m
  <2>4. DOMAIN actors' = DOMAIN actors /\ actors'[s] = e
        /\ \A a \in DOMAIN actors : a # s => actors'[a] = actors[a]
    BY <1>1, <2>1, <2>2
  <2>5. Idles(s)
    <3>1. Held(s)' = {m.snapshot}
      BY <2>2, <2>3, <2>4 DEF Held
    <3> QED
      BY <2>1, <2>2, <3>1 DEF Idles, Is, m
  <2>6. \A a \in Actors : a # s => Idles(a)
    BY <2>1, <2>4 DEF Idles, Held
  <2> QED
    BY <2>2, <2>5, <2>6, TruthIdles
<1>8. CASE RecycleStop
  <2>1. /\ Receives("idle") /\ DOMAIN actors' = DOMAIN actors
        /\ Sender \in DOMAIN actors
        /\ \A a \in DOMAIN actors : actors'[a].snapshot \subseteq actors[a].snapshot
        /\ \A a \in Actors : /\ procs'[a].executed = procs[a].executed
                             /\ procs'[a].out = procs[a].out
    BY <1>8, RecycleStopFacts
  <2>2. mailbox # <<>> /\ mailbox' = Tail(mailbox)
    BY <2>1 DEF Receives
  <2>3. \A a \in Actors : Idles(a)
    BY <2>1 DEF Idles, Held
  <2> QED
    BY <2>2, <2>3, TruthIdles
<1>9. CASE ReceiveStopped
  <2>0. PICK s \in Actors : s = Sender
    BY <1>9, EndFacts
  <2>1. /\ Receives("stopped") /\ s \in Actors
        /\ DOMAIN actors' = DOMAIN actors \ {s}
        /\ \A a \in DOMAIN actors' : actors'[a] = actors[a]
        /\ procs'[s] = NoProc
        /\ \A a \in Actors : a # s => procs'[a] = procs[a]
        /\ Reports(s, FALSE, "gone", <<>>, mailbox')
    BY <1>9, <2>0, EndFacts
  <2>2. mailbox # <<>> /\ mailbox' = Tail(mailbox)
    BY <2>1 DEF Receives
  <2>3. Blank(s)
    <3>1. \A i \in DOMAIN mailbox' : ~ From(mailbox'[i], s)
      BY <2>1 DEF Reports
    <3>2. NoProc.out = <<>>
      BY DEF NoProc
    <3> QED
      BY <2>1, <3>1, <3>2 DEF Blank, Held
  <2>4. \A a \in Actors : a # s => Idles(a)
    BY <2>1 DEF Idles, Held
  <2> QED
    BY <2>2, <2>3, <2>4, TruthIdles
<1>10. CASE BeforeStop
  <2>1. \A a \in Actors : Idles(a)
    BY <1>10, AllAsked DEF Idles, Held
  <2> QED
    BY <1>10, <2>1, AllAsked, TruthIdles
<1>11. CASE SnapshotTimer \/ AfterStop
  BY <1>2, <1>11, BatchQuiet DEF SnapshotTimer, AfterStop
<1>12. CASE UNCHANGED <<actors, procs, mailbox>>
  BY <1>2, <1>12, EntriesOnly
<1>13. ASSUME NEW a \in Actors, ActorStep(a) PROVE Truth'
  BY <1>13, TruthWorks
<1>14. CASE Restart
  <2>1. actors' = <<>> /\ mailbox' = <<>> /\ procs' = [a \in Actors |-> NoProc]
    BY <1>14 DEF Restart
  <2>2. DOMAIN <<>> = {} /\ NoProc.out = <<>>
    BY DEF NoProc
  <2>3. ASSUME NEW a \in Actors PROVE TrueTo(a, procs[a], mailbox, Held(a))'
    BY <2>1, <2>2 DEF TrueTo, Shows, Held
  <2> QED
    BY <2>3 DEF Truth
<1> QED
  BY <1>3, <1>4, <1>5, <1>6, <1>7, <1>8, <1>9, <1>10, <1>11, <1>12, <1>13, <1>14
     DEF Next, NodeReceive, Dispatcher, QuietDispatch, QuietSignal, Quiet, EndTimer, vars

LEMMA InitTruth == Init => Truth
<1> SUFFICES ASSUME Init PROVE Truth
  OBVIOUS
<1>1. actors = <<>> /\ mailbox = <<>> /\ procs = [a \in Actors |-> NoProc]
  BY DEF Init
<1>2. DOMAIN <<>> = {} /\ NoProc.out = <<>>
  BY DEF NoProc
<1> QED
  BY <1>1, <1>2 DEF Truth, TrueTo, Shows, Held

LEMMA SavedIsDone ==
  ASSUME IInv, Truth
  PROVE  StatesHeld \subseteq UNION {DoneBy(a) : a \in DOMAIN actors}
<1> SUFFICES ASSUME NEW a \in DOMAIN actors, NEW s \in actors[a].snapshot, NEW o \in s.state
             PROVE  o \in UNION {DoneBy(b) : b \in DOMAIN actors}
  BY DEF StatesHeld
<1>1. a \in Actors
  BY DEF IInv, TypeOK
<1>2. s \in Held(a)
  BY DEF Held
<1>3. s.state \subseteq Range(procs[a].executed)
  BY <1>1, <1>2 DEF Truth, TrueTo
<1>4. o \in DoneBy(a)
  BY <1>3 DEF DoneBy
<1> QED
  BY <1>4

-----------------------------------------------------------------------------
(* Each step keeps the promise of Activations.                             *)

(* What the actors have done, as Activations sees it.                      *)
AllDone == [a \in Actors |-> DoneBy(a)]

Saves ==
  /\ history.durable \subseteq history'.durable
  /\ history'.durable \subseteq history.durable \union StatesHeld
  /\ history'.faults \in {history.faults, history.faults + 1}

SameEnd == Phase' = Phase /\ (node'.endTimer = "fired" <=> node.endTimer = "fired")

LEMMA SavesMap ==
  ASSUME IInv, Truth, Saves
  PROVE  Lives!Save
<1>1. DOMAIN actors \subseteq Actors
  BY DEF IInv, TypeOK
<1>2. \A a \in DOMAIN actors : AllDone[a] = DoneBy(a)
  BY <1>1 DEF AllDone
<1>3. UNION {DoneBy(a) : a \in DOMAIN actors} \subseteq UNION {AllDone[a] : a \in DOMAIN actors}
  BY <1>2
<1>4. history'.durable \subseteq history.durable \union UNION {AllDone[a] : a \in DOMAIN actors}
  BY <1>3, SavedIsDone DEF Saves
<1> QED
  BY <1>4 DEF Lives!Save, Saves, AllDone

LEMMA SameDone ==
  ASSUME IInv, DOMAIN actors' = DOMAIN actors,
         \A a \in Actors : procs'[a].executed = procs[a].executed
  PROVE  AllDone' = AllDone
<1>1. ASSUME NEW a \in Actors PROVE DoneBy(a)' = DoneBy(a)
  BY DEF DoneBy
<1> QED
  BY <1>1 DEF AllDone

LEMMA SavingMaps ==
  ASSUME IInv, Truth, Saves, SameEnd, DOMAIN actors' = DOMAIN actors,
         \A a \in Actors : procs'[a].executed = procs[a].executed
  PROVE  Lives!Next
<1>1. Lives!Save /\ AllDone' = AllDone
  BY SavesMap, SameDone
<1> QED
  BY <1>1 DEF SameEnd, AllDone, Lives!SaveSome, Lives!Next

LEMMA StutterMaps ==
  ASSUME IInv, SameEnd, DOMAIN actors' = DOMAIN actors,
         \A a \in Actors : procs'[a].executed = procs[a].executed,
         history'.durable = history.durable, history'.faults = history.faults
  PROVE  UNCHANGED Lives!vars
<1>1. AllDone' = AllDone
  BY SameDone
<1> QED
  BY <1>1 DEF SameEnd, AllDone, Lives!vars

LEMMA StartMaps ==
  ASSUME IInv, DispatchStart
  PROVE  Lives!Next
<1>0. PICK r \in Actors : r = Receiver
  BY StartFacts
<1>1. /\ r \notin DOMAIN actors /\ ~ node.stopping /\ UNCHANGED node
      /\ DOMAIN actors' = DOMAIN actors \union {r}
      /\ procs'[r].executed = <<>>
      /\ \A a \in Actors : a # r => procs'[a] = procs[a]
      /\ history'.durable = history.durable /\ history'.faults = history.faults
  BY <1>0, StartFacts
<1>2. node.stage = "serving"
  BY DEF DispatchStart, Accepted, Receives, Serving
<1>3. Phase = "serving" /\ Phase' = Phase
  BY <1>1, <1>2 DEF Phase
<1>4. AllDone' = AllDone
  <2>1. Range(<<>>) = {}
    BY DEF Range
  <2>2. ASSUME NEW a \in Actors PROVE DoneBy(a)' = DoneBy(a)
    BY <1>1, <2>1 DEF DoneBy
  <2> QED
    BY <2>2 DEF AllDone
<1>5. Lives!Activate(r)
  BY <1>1, <1>3, <1>4 DEF AllDone, Lives!Activate
<1> QED
  BY <1>5 DEF Lives!Next

LEMMA WorkMaps ==
  ASSUME IInv, NEW a \in Actors, ActorStep(a)
  PROVE  [Lives!Next]_Lives!vars
<1>1. /\ a \in DOMAIN actors /\ UNCHANGED <<node, actors>>
      /\ history'.durable = history.durable /\ history'.faults = history.faults
      /\ \A b \in Actors : b # a => procs'[b] = procs[b]
      /\ \/ procs'[a].executed = procs[a].executed
         \/ \E o \in Offsets : procs'[a].executed = Append(procs[a].executed, o)
  BY OwnWork DEF Works
<1>2. SameEnd
  BY <1>1 DEF SameEnd, Phase
<1>3. CASE procs'[a].executed = procs[a].executed
  <2>1. \A b \in Actors : procs'[b].executed = procs[b].executed
    BY <1>1, <1>3
  <2> QED
    BY <1>1, <1>2, <2>1, StutterMaps
<1>4. ASSUME NEW o \in Offsets, procs'[a].executed = Append(procs[a].executed, o)
      PROVE  Lives!Next
  <2>1. procs[a].executed \in Seq(Offsets)
    BY DEF IInv, TypeOK, ProcType
  <2>2. Range(procs'[a].executed) = Range(procs[a].executed) \union {o}
    BY <1>4, <2>1, RangeGrows
  <2>3. DoneBy(a)' = DoneBy(a) \union {o}
    BY <1>1, <2>2 DEF DoneBy
  <2>4. \A b \in Actors : b # a => DoneBy(b)' = DoneBy(b)
    BY <1>1 DEF DoneBy
  <2>5. AllDone' = [AllDone EXCEPT ![a] = @ \union {o}]
    BY <2>3, <2>4 DEF AllDone
  <2>6. Lives!Handle(a, o)
    BY <1>1, <1>2, <2>5 DEF SameEnd, AllDone, Lives!Handle
  <2> QED
    BY <2>6 DEF Lives!Next
<1> QED
  BY <1>1, <1>3, <1>4

LEMMA EndMaps ==
  ASSUME IInv, Truth, ReceiveStopped
  PROVE  Lives!Next
<1>0. PICK s \in Actors : s = Sender
  BY EndFacts
<1>1. /\ Receives("stopped") /\ s \in DOMAIN actors
      /\ DOMAIN actors' = DOMAIN actors \ {s}
      /\ \A a \in Actors : a # s => procs'[a] = procs[a]
      /\ node' = IF node.stopping THEN HandleEnding(node, DOMAIN actors') ELSE node
      /\ Saves
  BY <1>0, EndFacts DEF Saves
<1>2. SameEnd
  <2>1. node \in NodeType /\ node.stage = "serving"
    BY <1>1 DEF IInv, TypeOK, Receives, Serving
  <2>2. node'.stage # "stopped" /\ node'.stopping = node.stopping
        /\ node'.endTimer = node.endTimer
    BY <1>1, <2>1 DEF HandleEnding, NodeType
  <2> QED
    BY <2>1, <2>2 DEF SameEnd, Phase
<1>3. AllDone' = [AllDone EXCEPT ![s] = {}]
  <2>1. DoneBy(s)' = {}
    BY <1>1 DEF DoneBy
  <2>2. \A a \in Actors : a # s => DoneBy(a)' = DoneBy(a)
    BY <1>1 DEF DoneBy
  <2> QED
    BY <2>1, <2>2 DEF AllDone
<1>4. AllDone[s] \subseteq history'.durable \/ history'.faults > history.faults
  <2>1. history'.faults = history.faults => Range(procs[s].executed) \subseteq history'.durable
    BY <1>1, StoppedForgets DEF ForgetsSaved
  <2>2. history.faults \in Int
    BY BoundsAssumption DEF IInv, TypeOK, HistoryType
  <2> QED
    BY <1>1, <2>1, <2>2 DEF Saves, AllDone, DoneBy
<1>5. Lives!Save
  BY <1>1, SavesMap
<1>6. Lives!Forget(s)
  BY <1>1, <1>2, <1>3, <1>4, <1>5 DEF SameEnd, AllDone, Lives!Forget
<1> QED
  BY <1>6 DEF Lives!Next

LEMMA StopMaps ==
  ASSUME IInv, BeforeStop \/ EndTimer
  PROVE  Lives!Next
<1>1. CASE BeforeStop
  <2>1. /\ node.stage = "serving" /\ ~ node.stopping /\ node.endTimer = "unset"
        /\ node'.stage = "serving" /\ node'.stopping /\ node'.endTimer = "armed"
        /\ DOMAIN actors' = DOMAIN actors /\ UNCHANGED history
        /\ \A a \in Actors : procs'[a].executed = procs[a].executed
    BY <1>1, AllAsked
  <2>2. AllDone' = AllDone
    BY <2>1, SameDone
  <2>3. Lives!Stop
    BY <2>1, <2>2 DEF Phase, AllDone, Lives!Stop
  <2> QED
    BY <2>3 DEF Lives!Next
<1>2. CASE EndTimer
  <2>1. /\ node \in NodeType /\ history \in HistoryType
        /\ node.endTimer = "armed" => node.stopping
    BY DEF IInv, TypeOK, Ending
  <2>2. /\ node.stage = "serving" /\ node.stopping
        /\ node'.stage = "serving" /\ node'.stopping /\ node'.endTimer = "fired"
        /\ history'.durable = history.durable /\ history'.faults = history.faults + 1
        /\ UNCHANGED <<actors, procs>>
    BY <1>2, <2>1 DEF EndTimer, Serving, Fault, NodeType, HistoryType
  <2>3. AllDone' = AllDone
    BY <2>2, SameDone
  <2>4. Lives!GiveUp
    BY <2>2, <2>3 DEF Phase, AllDone, Lives!GiveUp
  <2> QED
    BY <2>4 DEF Lives!Next
<1> QED
  BY <1>1, <1>2

LEMMA AfterStopMaps ==
  ASSUME IInv, Truth, AfterStop
  PROVE  Lives!Next
<1>1. /\ node.stage = "serving" /\ node.end /\ SnapshotBatch /\ UNCHANGED procs
      /\ node' = [node EXCEPT !.stage = "stopped", !.end = FALSE]
  BY DEF AfterStop, Serving
<1>2. /\ node \in NodeType /\ node.stopping
      /\ DOMAIN actors = {} \/ node.endTimer = "fired"
  BY <1>1 DEF IInv, TypeOK, Ending, TimedOut
<1>3. SameLives /\ Saves
  BY <1>1, BatchQuiet DEF Saves
<1>4. AllDone' = AllDone /\ Lives!Save
  BY <1>3, SameDone, SavesMap DEF SameLives, SameProc
<1>5. Phase = "stopping" /\ Phase' = "ended" /\ node'.endTimer = node.endTimer
  BY <1>1, <1>2 DEF Phase, NodeType
<1>6. Lives!End
  BY <1>2, <1>3, <1>4, <1>5 DEF SameLives, AllDone, Lives!End
<1> QED
  BY <1>6 DEF Lives!Next

LEMMA RestartMaps ==
  ASSUME IInv, Restart
  PROVE  Lives!Next
<1>1. /\ node' = FreshNode
      /\ history' = [history EXCEPT !.faults = @ + 1] /\ actors' = <<>>
  BY DEF Restart, Fault
<1>2. history \in HistoryType
  BY DEF IInv, TypeOK
<1>3. history'.durable = history.durable /\ history'.faults = history.faults + 1
  BY <1>1, <1>2 DEF HistoryType
<1>4. Phase' = "serving" /\ node'.endTimer = "unset"
  BY <1>1 DEF Phase, FreshNode
<1>5. DOMAIN actors' = {}
  <2>1. DOMAIN <<>> = {}
    OBVIOUS
  <2> QED
    BY <1>1, <2>1
<1>6. AllDone' = [a \in Actors |-> {}]
  BY <1>5 DEF AllDone, DoneBy
<1>7. Lives!Die
  BY <1>3, <1>4, <1>5, <1>6 DEF AllDone, Lives!Die
<1> QED
  BY <1>7 DEF Lives!Next

LEMMA NextKeepsLives ==
  IInv /\ Truth /\ [Next]_vars => [Lives!Next]_Lives!vars
<1> SUFFICES ASSUME IInv, Truth, [Next]_vars PROVE [Lives!Next]_Lives!vars
  OBVIOUS
<1>1. UNCHANGED node => SameEnd
  BY DEF SameEnd, Phase
<1>2. ASSUME SameLives, Saves, UNCHANGED node PROVE Lives!Next
  BY <1>1, <1>2, SavingMaps DEF SameLives, SameProc
<1>3. ASSUME SameLives, UNCHANGED node,
             history'.durable = history.durable, history'.faults = history.faults
      PROVE  UNCHANGED Lives!vars
  BY <1>1, <1>3, StutterMaps DEF SameLives, SameProc
<1>4. CASE PollerStep
  BY <1>2, <1>4, PollerQuiet DEF Saves
<1>5. CASE QuietDispatch \/ QuietSignal
  BY <1>3, <1>5, QuietDispatches, QuietSignals
<1>6. CASE ReceiveSnapshot
  <2>1. /\ UNCHANGED <<node, procs, history>> /\ DOMAIN actors' = DOMAIN actors
        /\ \A a \in DOMAIN actors : actors'[a].stopping = actors[a].stopping
    <3>1. actors \in [DOMAIN actors -> EntryType]
      BY DEF IInv, TypeOK
    <3> QED
      BY <1>6, <3>1 DEF ReceiveSnapshot, EntryType
  <2> QED
    BY <1>3, <2>1, EntriesOnly
<1>7. CASE RecycleStop
  <2>1. /\ UNCHANGED node /\ DOMAIN actors' = DOMAIN actors /\ Saves
        /\ \A a \in Actors : procs'[a].executed = procs[a].executed
    BY <1>7, RecycleStopFacts DEF Saves
  <2> QED
    BY <1>1, <2>1, SavingMaps
<1>8. CASE SnapshotTimer
  BY <1>2, <1>8, BatchQuiet DEF SnapshotTimer, Saves
<1>9. CASE UNCHANGED vars
  BY <1>3, <1>9, EntriesOnly DEF vars
<1> QED
  BY <1>4, <1>5, <1>6, <1>7, <1>8, <1>9, StartMaps, EndMaps, StopMaps, AfterStopMaps,
     RestartMaps, WorkMaps
     DEF Next, NodeReceive, Dispatcher, QuietDispatch, QuietSignal, Quiet

(***************************************************************************)
(* The node keeps the promise of Activations.                              *)
(***************************************************************************)
THEOREM LivesRefined ==
  Spec => LivesAreKept
<1>1. Init => Lives!Init
  <2> SUFFICES ASSUME Init PROVE Lives!Init
    OBVIOUS
  <2>1. actors = <<>> /\ node = FreshNode /\ history.durable = {} /\ history.faults = 0
    BY DEF Init
  <2>2. DOMAIN <<>> = {}
    OBVIOUS
  <2>3. Phase = "serving" /\ node.endTimer = "unset" /\ DOMAIN actors = {}
    BY <2>1, <2>2 DEF Phase, FreshNode
  <2> QED
    BY <2>1, <2>3 DEF Lives!Init, DoneBy
<1> QED
  BY <1>1, Invariance, InitTruth, NextTruth, NextKeepsLives, PTL DEF Spec, LivesAreKept, Lives!Spec
=============================================================================
