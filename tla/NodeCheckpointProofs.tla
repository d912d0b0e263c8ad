------------------------ MODULE NodeCheckpointProofs ------------------------
(***************************************************************************)
(* The theorem that a restart of the node loses nothing, for every log,    *)
(* every set of actors, every capacity and all faults: as long as no       *)
(* record overtook another one, the effects of all records below the       *)
(* committed offset are stored.                                            *)
(* And what a commit never passes, in whatever order the records come.     *)
(***************************************************************************)
EXTENDS NodeProofs

-----------------------------------------------------------------------------
(* The inductive invariant: a chain from a record of the log over the      *)
(* window, the actor's mailbox, what the actor has handled and the         *)
(* snapshots under way to what is stored, without a gap in it.             *)

(* The records of an actor whose effects a checkpoint must not pass.       *)
Mine(a) == {o \in Effective \ {0} : Log[o].actor = a}

(* What is missing when the effects in durable are stored.                 *)
Lacking(durable) == {o \in Effective \ {0} : ~ Among(o, durable)}

(***************************************************************************)
(* What a snapshot of actor a is taken for: with what is stored already,   *)
(* it covers all records of the actor up to its offset.                    *)
(***************************************************************************)
Tells(a, s, durable) ==
  \A d \in Mine(a) : d <= s.offset => Among(d, durable \union s.state)

Honest(messages, durable) ==
  \A i \in DOMAIN messages :
    messages[i].command = "snapshot" =>
      Tells(messages[i].sender, messages[i].snapshot, durable)

(* Nothing of the actor is missing up to a record it has handled, or ahead *)
(* of a record in its mailbox.                                             *)
Ran(a, done, durable) ==
  \A x \in Range(done) :
    /\ x \in Effective /\ Log[x].actor = a
    /\ \A d \in Mine(a) : d <= x => Among(d, durable \union Range(done))

Ahead(box, i) == {box[j] : j \in 1 .. i - 1}

Queued(a, done, box, durable) ==
  \A i \in DOMAIN box :
    /\ Log[box[i]].actor = a
    /\ \A d \in Mine(a) :
         d < box[i] => Among(d, durable \union Range(done) \union Ahead(box, i))

InOrder(a, p, durable) ==
  /\ Ran(a, p.executed, durable)
  /\ Queued(a, p.executed, p.mailbox, durable)
  /\ Honest(p.out, durable)

(* Goroutines pr, mailbox mb and entries ac of a node.                     *)
AllInOrder(pr, mb, ac, durable) ==
  /\ \A a \in Actors : InOrder(a, pr[a], durable)
  /\ Honest(mb, durable)
  /\ \A a \in DOMAIN ac : \A s \in ac[a].snapshot : Tells(a, s, durable)

Covers(w, checkpoint, durable) ==
  /\ NoGap(w, Lacking(durable))
  /\ \A d \in Lacking(durable) : d >= checkpoint

Chain ==
  /\ AllInOrder(procs, mailbox, actors, history.durable)
  /\ Covers(shard.window, client.checkpoint, history.durable)

(* Once a record has overtaken another one nothing is claimed any more.    *)
CInv == ~ history.overtaken => Chain

-----------------------------------------------------------------------------
(* What is stored stays stored, so nothing is lost when more is.           *)

LEMMA AmongGrows ==
  ASSUME NEW D, NEW E, D \subseteq E, NEW o, Among(o, D)
  PROVE  Among(o, E)
BY DEF Among

LEMMA TellsGrows ==
  ASSUME NEW D, NEW E, D \subseteq E, NEW a, NEW s, Tells(a, s, D)
  PROVE  Tells(a, s, E)
<1>1. D \union s.state \subseteq E \union s.state
  OBVIOUS
<1> QED
  BY <1>1, AmongGrows DEF Tells

LEMMA HonestGrows ==
  ASSUME NEW D, NEW E, D \subseteq E, NEW messages, Honest(messages, D)
  PROVE  Honest(messages, E)
BY TellsGrows DEF Honest

LEMMA InOrderGrows ==
  ASSUME NEW D, NEW E, D \subseteq E, NEW a, NEW p, InOrder(a, p, D)
  PROVE  InOrder(a, p, E)
<1>1. Ran(a, p.executed, E)
  <2>1. D \union Range(p.executed) \subseteq E \union Range(p.executed)
    OBVIOUS
  <2> QED
    BY <2>1, AmongGrows DEF InOrder, Ran
<1>2. Queued(a, p.executed, p.mailbox, E)
  <2>1. \A i : D \union Range(p.executed) \union Ahead(p.mailbox, i)
                 \subseteq E \union Range(p.executed) \union Ahead(p.mailbox, i)
    OBVIOUS
  <2> QED
    BY <2>1, AmongGrows DEF InOrder, Queued
<1> QED
  BY <1>1, <1>2, HonestGrows DEF InOrder

LEMMA AllGrows ==
  ASSUME NEW D, NEW E, D \subseteq E, NEW pr, NEW mb, NEW ac,
         AllInOrder(pr, mb, ac, D)
  PROVE  AllInOrder(pr, mb, ac, E)
<1>1. \A a \in Actors : InOrder(a, pr[a], E)
  BY InOrderGrows DEF AllInOrder
<1>2. \A a \in DOMAIN ac : \A s \in ac[a].snapshot : Tells(a, s, E)
  BY TellsGrows DEF AllInOrder
<1> QED
  BY <1>1, <1>2, HonestGrows DEF AllInOrder

LEMMA LackingShrinks ==
  ASSUME NEW D, NEW E, D \subseteq E
  PROVE  Lacking(E) \subseteq Lacking(D) /\ Lacking(D) \subseteq Offsets
BY AmongGrows DEF Lacking, Effective

LEMMA CoversGrows ==
  ASSUME NEW D, NEW E, D \subseteq E, NEW w, NEW checkpoint, Covers(w, checkpoint, D)
  PROVE  Covers(w, checkpoint, E)
BY LackingShrinks DEF Covers, NoGap

-----------------------------------------------------------------------------
(* The messages of the node and of the actors.                             *)

LEMMA HonestShorter ==
  ASSUME NEW T, NEW mb \in Seq(T), mb # <<>>, NEW D, Honest(mb, D)
  PROVE  /\ Honest(Tail(mb), D)
         /\ Head(mb).command = "snapshot" => Tells(Head(mb).sender, Head(mb).snapshot, D)
<1>1. /\ Head(mb) = mb[1] /\ 1 \in DOMAIN mb
      /\ \A i \in DOMAIN Tail(mb) : Tail(mb)[i] = mb[i + 1] /\ i + 1 \in DOMAIN mb
  BY Shorter
<1> DEFINE rest == Tail(mb)
<1> HIDE DEF rest
<1>2. Honest(rest, D)
  BY <1>1 DEF Honest, rest
<1> QED
  BY <1>1, <1>2 DEF Honest, rest

LEMMA HonestLonger ==
  ASSUME NEW T, NEW mb \in Seq(T), NEW m \in T, NEW D, Honest(mb, D),
         m.command = "snapshot" => Tells(m.sender, m.snapshot, D)
  PROVE  Honest(Append(mb, m), D)
<1> DEFINE l == Append(mb, m)
<1>1. /\ Len(mb) \in Nat /\ DOMAIN mb = 1 .. Len(mb) /\ DOMAIN l = 1 .. Len(mb) + 1
      /\ \A i \in DOMAIN mb : l[i] = mb[i]
      /\ l[Len(mb) + 1] = m
  BY Longer
<1> HIDE DEF l
<1>2. \A i \in DOMAIN l : i \in DOMAIN mb \/ i = Len(mb) + 1
  BY <1>1
<1>3. Honest(l, D)
  BY <1>1, <1>2 DEF Honest
<1> QED
  BY <1>3 DEF l

LEMMA SnapshotTells ==
  ASSUME NEW a \in Actors, NEW p \in ProcType, NEW D, Ran(a, p.executed, D)
  PROVE  Tells(a, SnapshotOf(p), D)
<1> DEFINE done == p.executed
           s == SnapshotOf(p)
<1>1. done \in Seq(Offsets)
  BY DEF ProcType
<1>2. s.state = Range(done) /\ s.offset = IF done = <<>> THEN 0 ELSE Last(done)
  BY DEF SnapshotOf
<1> HIDE DEF s
<1>3. CASE done = <<>>
  <2>1. ASSUME NEW d \in Mine(a), d <= s.offset PROVE FALSE
    <3>1. s.offset = 0
      BY <1>2, <1>3
    <3>2. d \in Nat /\ d # 0
      BY OffsetFacts DEF Mine, Effective
    <3> QED
      BY <2>1, <3>1, <3>2
  <2> QED
    BY <2>1 DEF Tells, s
<1>4. CASE done # <<>>
  <2> HIDE DEF done
  <2>1. Last(done) \in Range(done)
    <3>1. Len(done) \in DOMAIN done /\ Last(done) = done[Len(done)]
      BY <1>1, <1>4 DEF Last
    <3> QED
      BY <3>1 DEF Range
  <2>2. s.offset \in Range(done)
    BY <1>2, <1>4, <2>1
  <2>3. Tells(a, s, D)
    BY <1>2, <2>2 DEF Ran, Tells, done
  <2> QED
    BY <2>3 DEF s
<1> QED
  BY <1>3, <1>4

(* The signals an actor may have to send.                                  *)
LEMMA HonestSignals ==
  ASSUME NEW a \in Actors, NEW p \in ProcType, NEW D, Ran(a, p.executed, D), NEW out,
         \A i \in DOMAIN out : out[i].command = "snapshot" => out[i] = SnapshotSignal(a, p)
  PROVE  Honest(out, D)
<1>1. Tells(a, SnapshotOf(p), D)
  BY SnapshotTells
<1>2. SnapshotSignal(a, p).sender = a /\ SnapshotSignal(a, p).snapshot = SnapshotOf(p)
  BY DEF SnapshotSignal
<1> QED
  BY <1>1, <1>2 DEF Honest

-----------------------------------------------------------------------------
(* An actor takes a record from its mailbox.                               *)

LEMMA AmongUnion ==
  ASSUME NEW A, NEW B, NEW o, Among(o, A \union B)
  PROVE  Among(o, A) \/ Among(o, B)
BY DEF Among

(* What stood in the mailbox ahead of the others has been handled, or is   *)
(* nothing anyone misses.                                                  *)
LEMMA QueuedShorter ==
  ASSUME NEW a, NEW box \in Seq(Offsets), box # <<>>, NEW done, NEW later, NEW D,
         Queued(a, done, box, D), Range(done) \subseteq Range(later),
         \A d : Among(d, {Head(box)}) => Among(d, Range(later))
  PROVE  Queued(a, later, Tail(box), D)
<1> DEFINE rest == Tail(box)
<1>1. /\ Head(box) = box[1] /\ 1 \in DOMAIN box /\ Len(box) \in Nat
      /\ DOMAIN rest = 1 .. Len(box) - 1
      /\ \A i \in DOMAIN rest : rest[i] = box[i + 1] /\ i + 1 \in DOMAIN box
      /\ DOMAIN box = 1 .. Len(box)
      /\ \A i \in DOMAIN box : i # 1 => i - 1 \in DOMAIN rest /\ box[i] = rest[i - 1]
  BY Shorter
<1> HIDE DEF rest
<1>2. ASSUME NEW i \in DOMAIN rest
      PROVE  Ahead(box, i + 1) \subseteq {Head(box)} \union Ahead(rest, i)
  <2> SUFFICES ASSUME NEW j \in 1 .. (i + 1) - 1
               PROVE  box[j] = Head(box) \/ box[j] \in Ahead(rest, i)
    BY DEF Ahead
  <2>1. i \in 1 .. Len(box) - 1 /\ i \in Nat /\ j \in 1 .. i
    BY <1>1
  <2>2. j \in DOMAIN box
    BY <1>1, <2>1
  <2>3. CASE j = 1
    BY <1>1, <2>3
  <2>4. CASE j # 1
    <3>1. j - 1 \in 1 .. i - 1 /\ box[j] = rest[j - 1]
      BY <1>1, <2>1, <2>2, <2>4
    <3> QED
      BY <3>1 DEF Ahead
  <2> QED
    BY <2>3, <2>4
<1>3. ASSUME NEW i \in DOMAIN rest
      PROVE  /\ Log[rest[i]].actor = a
             /\ \A d \in Mine(a) :
                  d < rest[i] => Among(d, D \union Range(later) \union Ahead(rest, i))
  <2>1. rest[i] = box[i + 1] /\ i + 1 \in DOMAIN box
    BY <1>1
  <2>2. /\ Log[rest[i]].actor = a
        /\ \A d \in Mine(a) :
             d < rest[i] => Among(d, D \union Range(done) \union Ahead(box, i + 1))
    BY <2>1 DEF Queued
  <2>3. ASSUME NEW d, Among(d, D \union Range(done) \union Ahead(box, i + 1))
        PROVE  Among(d, D \union Range(later) \union Ahead(rest, i))
    <3> DEFINE covered == D \union Range(later) \union Ahead(rest, i)
    <3>1. Among(d, covered \union {Head(box)})
      <4>1. D \union Range(done) \union Ahead(box, i + 1)
              \subseteq covered \union {Head(box)}
        BY <1>2
      <4> QED
        BY <2>3, <4>1, AmongGrows
    <3>2. CASE Among(d, covered)
      BY <3>2
    <3>3. CASE Among(d, {Head(box)})
      <4>1. Range(later) \subseteq covered
        OBVIOUS
      <4> QED
        BY <3>3, <4>1, AmongGrows
    <3> HIDE DEF covered
    <3> QED
      BY <3>1, <3>2, <3>3, AmongUnion DEF covered
  <2> QED
    BY <2>2, <2>3
<1> QED
  BY <1>3 DEF Queued, rest

LEMMA RanLonger ==
  ASSUME NEW a, NEW done \in Seq(Offsets), NEW x \in Effective, Log[x].actor = a, NEW D,
         Ran(a, done, D),
         \A d \in Mine(a) : d < x => Among(d, D \union Range(done))
  PROVE  /\ Ran(a, Append(done, x), D)
         /\ Range(done) \subseteq Range(Append(done, x))
         /\ \A d : Among(d, {x}) => Among(d, Range(Append(done, x)))
<1> DEFINE l == Append(done, x)
<1>1. x \in Offsets /\ x \in Nat
  BY OffsetFacts DEF Effective
<1>2. /\ Len(done) \in Nat /\ DOMAIN done = 1 .. Len(done) /\ DOMAIN l = 1 .. Len(done) + 1
      /\ \A i \in DOMAIN done : l[i] = done[i]
      /\ l[Len(done) + 1] = x
  BY <1>1, Longer
<1> HIDE DEF l
<1>3. Range(l) = Range(done) \union {x}
  <2>1. \A i \in DOMAIN l : i \in DOMAIN done \/ i = Len(done) + 1
    BY <1>2
  <2>2. \A i \in DOMAIN done : i \in DOMAIN l
    BY <1>2
  <2>3. Len(done) + 1 \in DOMAIN l
    BY <1>2
  <2>4. Range(l) \subseteq Range(done) \union {x}
    BY <1>2, <2>1 DEF Range
  <2>5. Range(done) \union {x} \subseteq Range(l)
    BY <1>2, <2>2, <2>3 DEF Range
  <2> QED
    BY <2>4, <2>5
<1>4. Range(done) \subseteq Range(l) /\ {x} \subseteq Range(l)
      /\ D \union Range(done) \subseteq D \union Range(l)
  BY <1>3
<1>5. \A d : Among(d, {x}) => Among(d, Range(l))
  BY <1>4, AmongGrows
<1>6. ASSUME NEW d \in Mine(a), d <= x PROVE Among(d, D \union Range(l))
  <2>1. d \in Effective /\ d \in Nat
    BY OffsetFacts DEF Mine, Effective
  <2>2. CASE d < x
    BY <1>4, <2>2, AmongGrows
  <2>3. CASE d = x
    BY <1>3, <2>1, <2>3 DEF Among
  <2> QED
    BY <1>1, <1>6, <2>1, <2>2, <2>3
<1>7. ASSUME NEW y \in Range(done)
      PROVE  /\ y \in Effective /\ Log[y].actor = a
             /\ \A d \in Mine(a) : d <= y => Among(d, D \union Range(l))
  BY <1>4, AmongGrows DEF Ran
<1>8. Ran(a, l, D)
  BY <1>3, <1>6, <1>7 DEF Ran
<1> QED
  BY <1>4, <1>5, <1>8 DEF l

LEMMA TakenFacts ==
  ASSUME TypeOK, NEW a \in Actors, Takes(a), NEW D, InOrder(a, procs[a], D)
  PROVE  /\ procs[a] \in ProcType /\ procs[a].mailbox \in Seq(Offsets)
         /\ procs[a].executed \in Seq(Offsets)
         /\ Taken(a) \in Offsets /\ Log[Taken(a)].actor = a
         /\ \A d \in Mine(a) : d < Taken(a) => Among(d, D \union Range(procs[a].executed))
<1> DEFINE box == procs[a].mailbox
           done == procs[a].executed
<1>1. procs[a] \in ProcType /\ box \in Seq(Offsets) /\ done \in Seq(Offsets)
  BY DEF TypeOK, ProcType
<1>2. box # <<>> /\ Taken(a) = Head(box)
  BY DEF Takes, Taken
<1>3. Head(box) \in Offsets /\ Head(box) = box[1] /\ 1 \in DOMAIN box
  <2> HIDE DEF box
  <2> QED
    BY <1>1, <1>2, Shorter
<1>4. Ahead(box, 1) = {}
  BY DEF Ahead
<1>5. /\ Log[box[1]].actor = a
      /\ \A d \in Mine(a) :
           d < box[1] => Among(d, D \union Range(done) \union Ahead(box, 1))
  BY <1>3 DEF InOrder, Queued
<1>6. D \union Range(done) \union Ahead(box, 1) = D \union Range(done)
  BY <1>4
<1> HIDE DEF box, done
<1>7. \A d \in Mine(a) : d < box[1] => Among(d, D \union Range(done))
  BY <1>5, <1>6
<1> QED
  BY <1>1, <1>2, <1>3, <1>5, <1>7 DEF box, done

(* What an actor drops as a duplicate, or cannot handle, is not missed.    *)
LEMMA DroppedIsNotMissed ==
  ASSUME TypeOK, NEW a \in Actors, Takes(a), NEW D, InOrder(a, procs[a], D),
         Duplicate(a) \/ Log[Taken(a)].kind # "handled"
  PROVE  Queued(a, procs[a].executed, Tail(procs[a].mailbox), D)
<1> DEFINE done == procs[a].executed
           x == Taken(a)
<1>1. /\ done \in Seq(Offsets) /\ procs[a].mailbox \in Seq(Offsets)
      /\ Log[x].actor = a /\ procs[a].mailbox # <<>> /\ x = Head(procs[a].mailbox)
  BY TakenFacts DEF Takes, Taken
<1>2. ASSUME NEW d, Among(d, {x})
      PROVE  Among(d, Range(done))
  <2>1. x \in Effective /\ Log[x].actor = Log[d].actor /\ Log[x].id = Log[d].id
    BY <1>2 DEF Among
  <2>2. Duplicate(a)
    BY <2>1 DEF Effective
  <2>3. PICK i \in DOMAIN done : Log[done[i]].id = Log[x].id
    BY <2>2 DEF Duplicate, Seen
  <2>4. done[i] \in Range(done)
    BY DEF Range
  <2>5. done[i] \in Effective /\ Log[done[i]].actor = a
    BY <2>4 DEF InOrder, Ran
  <2> HIDE DEF done, x
  <2> QED
    BY <1>1, <2>1, <2>3, <2>4, <2>5 DEF Among
<1>3. Queued(a, done, procs[a].mailbox, D)
  BY DEF InOrder
<1> HIDE DEF done, x
<1> QED
  BY <1>1, <1>2, <1>3, QueuedShorter DEF done

-----------------------------------------------------------------------------
(* The steps of an actor.                                                  *)

LEMMA OwnChain ==
  ASSUME IInv, Chain, NEW a \in Actors, NEW q, InOrder(a, q, history.durable),
         procs' = [procs EXCEPT ![a] = q],
         UNCHANGED <<client, mailbox, shard, actors>>,
         history'.durable = history.durable
  PROVE  Chain'
<1>1. procs \in [Actors -> ProcType]
  BY DEF IInv, TypeOK
<1>2. procs'[a] = q /\ \A b \in Actors : b # a => procs'[b] = procs[b]
  BY <1>1
<1>3. \A b \in Actors : InOrder(b, procs'[b], history.durable)
  BY <1>2 DEF Chain, AllInOrder
<1>4. AllInOrder(procs', mailbox', actors', history'.durable)
  BY <1>3 DEF Chain, AllInOrder
<1>5. Covers(shard'.window, client'.checkpoint, history'.durable)
  BY DEF Chain
<1> QED
  BY <1>4, <1>5 DEF Chain

(* The actor's own order, and what it may say of it.                       *)
LEMMA OwnOrder ==
  ASSUME IInv, Chain, NEW a \in Actors
  PROVE  /\ TypeOK /\ procs[a] \in ProcType
         /\ InOrder(a, procs[a], history.durable)
         /\ Ran(a, procs[a].executed, history.durable)
         /\ Queued(a, procs[a].executed, procs[a].mailbox, history.durable)
         /\ Honest(procs[a].out, history.durable)
BY DEF IInv, TypeOK, Chain, AllInOrder, InOrder

LEMMA ReadyIsHonest ==
  ASSUME NEW a, NEW out \in {<<>>, <<Signal("ready", a)>>}, NEW D
  PROVE  Honest(out, D)
<1>1. Signal("ready", a).command # "snapshot"
  BY DEF Signal
<1>2. \A i \in DOMAIN out : out[i].command # "snapshot"
  BY <1>1
<1> QED
  BY <1>2 DEF Honest

LEMMA SkipChain ==
  ASSUME IInv, Chain, NEW a \in Actors, ActorSkip(a)
  PROVE  Chain'
<1> DEFINE q == Relieved(a)
<1>1. Takes(a) /\ (Duplicate(a) \/ Log[Taken(a)].kind # "handled") /\ Becomes(a, q)
  BY DEF ActorSkip
<1>2. /\ q.executed = procs[a].executed /\ q.mailbox = Tail(procs[a].mailbox)
      /\ q.out \in {<<>>, <<Signal("ready", a)>>}
  BY <1>1, OwnOrder, RelievedIsReady
<1>3. Queued(a, procs[a].executed, Tail(procs[a].mailbox), history.durable)
  BY <1>1, OwnOrder, DroppedIsNotMissed
<1> HIDE DEF q
<1>4. InOrder(a, q, history.durable)
  BY <1>2, <1>3, OwnOrder, ReadyIsHonest DEF InOrder
<1> QED
  BY <1>1, <1>4, OwnChain DEF Becomes

LEMMA ExecuteChain ==
  ASSUME IInv, Chain, NEW a \in Actors, ActorExecute(a)
  PROVE  Chain'
<1> DEFINE r == Relieved(a)
           q == [r EXCEPT !.executed = Append(@, Taken(a))]
           done == procs[a].executed
           later == Append(done, Taken(a))
<1>1. Takes(a) /\ Log[Taken(a)].kind = "handled" /\ Becomes(a, q)
  BY DEF ActorExecute
<1>2. /\ r \in ProcType /\ r.executed = done /\ r.mailbox = Tail(procs[a].mailbox)
      /\ r.out \in {<<>>, <<Signal("ready", a)>>}
  BY <1>1, OwnOrder, RelievedIsReady
<1>3. /\ procs[a].mailbox \in Seq(Offsets) /\ procs[a].mailbox # <<>>
      /\ done \in Seq(Offsets)
      /\ Taken(a) \in Effective /\ Log[Taken(a)].actor = a
      /\ Taken(a) = Head(procs[a].mailbox)
      /\ \A d \in Mine(a) : d < Taken(a) => Among(d, history.durable \union Range(done))
  BY <1>1, OwnOrder, TakenFacts DEF Takes, Taken, Effective
<1> HIDE DEF r
<1>4. q.executed = later /\ q.mailbox = r.mailbox /\ q.out = r.out
  BY <1>2 DEF ProcType
<1> HIDE DEF q, done
<1>5. /\ Ran(a, later, history.durable)
      /\ Range(done) \subseteq Range(later)
      /\ \A d : Among(d, {Taken(a)}) => Among(d, Range(later))
  <2>1. Ran(a, done, history.durable)
    BY OwnOrder DEF done
  <2> QED
    BY <1>3, <2>1, RanLonger
<1> HIDE DEF later
<1>6. Queued(a, later, Tail(procs[a].mailbox), history.durable)
  <2>1. Queued(a, done, procs[a].mailbox, history.durable)
    BY OwnOrder DEF done
  <2> QED
    BY <1>3, <1>5, <2>1, QueuedShorter
<1>7. InOrder(a, q, history.durable)
  BY <1>2, <1>4, <1>5, <1>6, ReadyIsHonest DEF InOrder
<1> QED
  BY <1>1, <1>7, OwnChain DEF Becomes, q, r, later, done

(* The last two signals of an actor.                                       *)
LEMMA FinishingInOrder ==
  ASSUME NEW a \in Actors, NEW r \in ProcType, NEW D,
         r.out \in {<<>>, <<Signal("ready", a)>>},
         Ran(a, r.executed, D), Queued(a, r.executed, r.mailbox, D)
  PROVE  InOrder(a, Finishing(a, r), D)
<1> DEFINE q == Finishing(a, r)
<1>1. /\ q.executed = r.executed /\ q.mailbox = r.mailbox
      /\ q.out = r.out \o <<SnapshotSignal(a, r), Signal("stopped", a)>>
  BY DEF Finishing, ProcType
<1>2. Signal("ready", a).command # "snapshot" /\ Signal("stopped", a).command # "snapshot"
  BY DEF Signal
<1> HIDE DEF q
<1>3. \A i \in DOMAIN q.out : q.out[i].command = "snapshot" => q.out[i] = SnapshotSignal(a, r)
  <2> DEFINE s == SnapshotSignal(a, r)
             t == Signal("stopped", a)
             u == Signal("ready", a)
  <2> HIDE DEF s, t, u
  <2>1. r.out \in Seq({s, t, u}) /\ <<s, t>> \in Seq({s, t, u})
    <3>1. r.out = <<>> \/ r.out = <<u>>
      BY DEF u
    <3>2. <<>> \in Seq({s, t, u}) /\ <<u>> \in Seq({s, t, u}) /\ <<s, t>> \in Seq({s, t, u})
      OBVIOUS
    <3> QED
      BY <3>1, <3>2
  <2>2. q.out = r.out \o <<s, t>>
    BY <1>1 DEF s, t
  <2>3. q.out \in Seq({s, t, u})
    BY <2>1, <2>2, ConcatProperties
  <2>4. \A i \in DOMAIN q.out : q.out[i] \in {s, t, u}
    BY <2>3
  <2>5. u.command # "snapshot" /\ t.command # "snapshot"
    BY <1>2 DEF t, u
  <2> QED
    BY <2>4, <2>5 DEF s
<1>4. Honest(q.out, D)
  BY <1>3, HonestSignals
<1>5. InOrder(a, q, D)
  BY <1>1, <1>4 DEF InOrder
<1> QED
  BY <1>5 DEF q

LEMMA PanicChain ==
  ASSUME IInv, Chain, NEW a \in Actors, ActorPanic(a)
  PROVE  Chain'
<1> DEFINE r == Relieved(a)
           q == Finishing(a, r)
<1>1. Takes(a) /\ Log[Taken(a)].kind # "handled" /\ Becomes(a, q)
  BY DEF ActorPanic
<1>2. /\ r \in ProcType /\ r.executed = procs[a].executed
      /\ r.mailbox = Tail(procs[a].mailbox)
      /\ r.out \in {<<>>, <<Signal("ready", a)>>}
  BY <1>1, OwnOrder, RelievedIsReady
<1>3. Queued(a, procs[a].executed, Tail(procs[a].mailbox), history.durable)
  BY <1>1, OwnOrder, DroppedIsNotMissed
<1> HIDE DEF r
<1>4. InOrder(a, q, history.durable)
  <2>1. Ran(a, r.executed, history.durable) /\ Queued(a, r.executed, r.mailbox, history.durable)
    BY <1>2, <1>3, OwnOrder
  <2> QED
    BY <1>2, <2>1, FinishingInOrder
<1> HIDE DEF q
<1> QED
  BY <1>1, <1>4, OwnChain DEF Becomes

LEMMA FinishChain ==
  ASSUME IInv, Chain, NEW a \in Actors, ActorFinish(a)
  PROVE  Chain'
<1> DEFINE q == Finishing(a, procs[a])
<1>1. procs[a].out = <<>> /\ Becomes(a, q)
  BY DEF ActorFinish
<1>2. InOrder(a, q, history.durable)
  BY <1>1, OwnOrder, FinishingInOrder
<1> HIDE DEF q
<1> QED
  BY <1>1, <1>2, OwnChain DEF Becomes

LEMMA IdleChain ==
  ASSUME IInv, Chain, NEW a \in Actors, ActorIdle(a) \/ ActorAlive(a)
  PROVE  Chain'
<1> DEFINE p == procs[a]
           s == SnapshotSignal(a, p)
<1>1. /\ UNCHANGED <<client, mailbox, shard, actors>>
      /\ history'.durable = history.durable
      /\ \/ procs' = [procs EXCEPT ![a].out = <<s, Signal("idle", a)>>]
         \/ procs' = [procs EXCEPT ![a].out = <<Signal("alive", a)>>]
  BY DEF ActorIdle, ActorAlive, IInv, TypeOK, HistoryType
<1>2. PICK out \in {<<s, Signal("idle", a)>>, <<Signal("alive", a)>>} :
        procs' = [procs EXCEPT ![a] = [p EXCEPT !.out = out]]
  BY <1>1
<1>3. Signal("idle", a).command # "snapshot" /\ Signal("alive", a).command # "snapshot"
  BY DEF Signal
<1>4. \A i \in DOMAIN out : out[i].command = "snapshot" => out[i] = s
  <2> HIDE DEF s
  <2> QED
    BY <1>3
<1>5. Honest(out, history.durable)
  BY <1>4, OwnOrder, HonestSignals
<1> DEFINE q == [p EXCEPT !.out = out]
<1>6. q.executed = p.executed /\ q.mailbox = p.mailbox /\ q.out = out
  BY OwnOrder DEF ProcType
<1> HIDE DEF q
<1>7. InOrder(a, q, history.durable)
  BY <1>5, <1>6, OwnOrder DEF InOrder
<1> QED
  BY <1>1, <1>2, <1>7, OwnChain DEF q

LEMMA StopChain ==
  ASSUME IInv, Chain, NEW a \in Actors, ActorStop(a)
  PROVE  Chain'
<1> DEFINE q == [procs[a] EXCEPT !.stage = "draining", !.stop = FALSE]
<1>1. Becomes(a, q)
  BY DEF ActorStop
<1>2. q.executed = procs[a].executed /\ q.mailbox = procs[a].mailbox /\ q.out = procs[a].out
  BY OwnOrder DEF ProcType
<1> HIDE DEF q
<1>3. InOrder(a, q, history.durable)
  BY <1>2, OwnOrder DEF InOrder
<1> QED
  BY <1>1, <1>3, OwnChain DEF Becomes

LEMMA SignalChain ==
  ASSUME IInv, Chain, NEW a \in Actors, ActorSignal(a)
  PROVE  Chain'
<1> DEFINE p == procs[a]
           stage == IF p.stage = "finishing" /\ Len(p.out) = 1 THEN "gone" ELSE p.stage
           q == [p EXCEPT !.out = Tail(p.out), !.stage = stage]
<1>1. p.out # <<>> /\ mailbox' = Append(mailbox, Head(p.out))
      /\ UNCHANGED <<client, shard, actors, history>>
  BY DEF ActorSignal, SignalSent
<1>2. p \in ProcType /\ p.out \in Seq(SignalType) /\ mailbox \in Seq(MessageType)
      /\ procs \in [Actors -> ProcType]
  BY DEF IInv, TypeOK, ProcType
<1>3. procs' = [procs EXCEPT ![a] = q]
  BY <1>2 DEF ActorSignal, SignalSent
<1>4. q.executed = p.executed /\ q.mailbox = p.mailbox /\ q.out = Tail(p.out)
  BY <1>2 DEF ProcType
<1> HIDE DEF q
<1>5. /\ Honest(Tail(p.out), history.durable)
      /\ Head(p.out).command = "snapshot" =>
           Tells(Head(p.out).sender, Head(p.out).snapshot, history.durable)
  BY <1>1, <1>2, OwnOrder, HonestShorter
<1>6. InOrder(a, q, history.durable)
  BY <1>4, <1>5, OwnOrder DEF InOrder
<1>7. Head(p.out) \in MessageType
  BY <1>1, <1>2, Shorter DEF MessageType
<1>8. Honest(mailbox', history.durable)
  <2>1. Honest(mailbox, history.durable)
    BY DEF Chain, AllInOrder
  <2> QED
    BY <1>1, <1>2, <1>5, <1>7, <2>1, HonestLonger
<1>9. \A b \in Actors : InOrder(b, procs'[b], history.durable)
  <2>1. procs'[a] = q /\ \A b \in Actors : b # a => procs'[b] = procs[b]
    BY <1>2, <1>3
  <2> QED
    BY <1>6, <2>1 DEF Chain, AllInOrder
<1>10. AllInOrder(procs', mailbox', actors', history'.durable)
  BY <1>1, <1>8, <1>9 DEF Chain, AllInOrder
<1>11. Covers(shard'.window, client'.checkpoint, history'.durable)
  BY <1>1 DEF Chain
<1> QED
  BY <1>10, <1>11 DEF Chain

-----------------------------------------------------------------------------
(* The node saves snapshots and commits what they complete.                *)

(* What CompleteOffset does to the window and the checkpoint.              *)
LEMMA CompletesTo ==
  ASSUME IInv, NEW S, NEW commit \in Commits(S)
  PROVE  LET r == CompleteOffset(S, commit)
         IN  /\ r.shard.window = Completed(S).window
             /\ \/ r.client.checkpoint = client.checkpoint
                \/ Completed(S).advanced /\ r.client.checkpoint = Completed(S).next
<1> DEFINE done == Completed(S)
           sh == [shard EXCEPT !.window = done.window]
           cl == CommitOffset(client, done.next, commit)
           r == CompleteOffset(S, commit)
<1>1. shard \in ShardType /\ client \in ClientType
  BY DEF IInv, TypeOK
<1>2. sh.window = done.window
  BY <1>1 DEF ShardType
<1>3. commit \in {"acknowledged", "lost"} => done.advanced
  BY DEF Commits
<1> HIDE DEF done
<1>4. /\ cl.checkpoint = client.checkpoint \/ (done.advanced /\ cl.checkpoint = done.next)
      /\ cl = [client EXCEPT !.checkpoint = cl.checkpoint]
  BY <1>1, <1>3 DEF CommitOffset, ClientType
<1>5. r = IF commit \in {"refused", "lost"}
          THEN [shard |-> sh, client |-> cl]
          ELSE ResumeOffset(sh, cl)
  BY DEF CompleteOffset, done
<1>6. /\ [sh EXCEPT !.pause = NoOffset].window = sh.window
      /\ ResumePartition(SeekMessage(cl, sh.pause)).checkpoint = cl.checkpoint
  BY <1>1, <1>4 DEF ShardType, ClientType, ResumePartition, SeekMessage
<1> HIDE DEF sh, cl, r
<1>7. r.shard.window = sh.window /\ r.client.checkpoint = cl.checkpoint
  BY <1>5, <1>6 DEF ResumeOffset
<1> QED
  BY <1>2, <1>4, <1>7 DEF r, done

LEMMA OutcomeIs ==
  ASSUME IInv, NEW S, NEW outcome \in SaveOutcomes(S)
  PROVE  \/ /\ outcome.next.shard.window = shard.window
            /\ outcome.next.client.checkpoint = client.checkpoint
         \/ /\ outcome.stored = S
            /\ outcome.next.shard.window = Completed(S).window
            /\ \/ outcome.next.client.checkpoint = client.checkpoint
               \/ /\ Completed(S).advanced
                  /\ outcome.next.client.checkpoint = Completed(S).next
<1>1. Untouched = [ stored |-> {}, disabled |-> {}, faults |-> history.faults,
                    next |-> [shard |-> shard, client |-> client] ]
  BY DEF Untouched
<1>2. CASE outcome = Untouched
  BY <1>1, <1>2
<1>3. CASE outcome \in SaveErrors(S)
  <2>1. PICK T \in SUBSET S : outcome = [Untouched EXCEPT !.stored = T, !.faults = @ + 1]
    BY <1>3 DEF SaveErrors
  <2>2. outcome.next.shard = shard /\ outcome.next.client = client
    BY <1>1, <2>1
  <2> QED
    BY <2>2
<1>4. CASE outcome \in SaveSuccesses(S)
  <2>1. PICK commit \in Commits(S) : outcome =
          [ stored   |-> S,
            disabled |-> S,
            faults   |-> IF client.open /\ commit \in {"refused", "lost"}
                         THEN history.faults + 1 ELSE history.faults,
            next     |-> CompleteOffset(S, commit) ]
    BY <1>4 DEF SaveSuccesses
  <2> DEFINE r == CompleteOffset(S, commit)
  <2>2. /\ r.shard.window = Completed(S).window
        /\ \/ r.client.checkpoint = client.checkpoint
           \/ Completed(S).advanced /\ r.client.checkpoint = Completed(S).next
    BY CompletesTo
  <2> HIDE DEF r
  <2>3. outcome.stored = S /\ outcome.next = r
    BY <2>1 DEF r
  <2> QED
    BY <2>2, <2>3
<1> QED
  BY <1>2, <1>3, <1>4 DEF SaveOutcomes

LEMMA SaveChain ==
  ASSUME IInv, Chain, NEW S \in SUBSET DOMAIN actors,
         \A a \in S : actors[a].snapshot # {},
         NEW outcome \in SaveOutcomes(S), Saved(outcome)
  PROVE  /\ AllInOrder(procs, mailbox, actors, history'.durable)
         /\ Covers(outcome.next.shard.window, outcome.next.client.checkpoint,
                   history'.durable)
<1> DEFINE D == history.durable
           E == history'.durable
           upTo == [a \in S |-> Snapshot(a).offset]
           w == shard.window
<1>1. OutcomeOK(S, outcome)
  BY SaveAttempt
<1>2. D \subseteq E /\ \A a \in outcome.stored : Snapshot(a).state \subseteq E
  BY <1>1, SaveKeeps
<1>3. AllInOrder(procs, mailbox, actors, E)
  BY <1>2, AllGrows DEF Chain
<1>4. Covers(w, client.checkpoint, E)
  BY <1>2, CoversGrows DEF Chain
<1>5. ASSUME outcome.stored = S
      PROVE  LET r == Complete(w, upTo)
             IN  /\ NoGap(r.window, Lacking(E))
                 /\ r.advanced => \A d \in Lacking(E) : d >= r.next
  <2>1. DOMAIN upTo \subseteq Actors /\ \A a \in DOMAIN upTo : upTo[a] \in Nat
    <3> SUFFICES ASSUME NEW a \in S PROVE a \in Actors /\ Snapshot(a).offset \in Nat
      OBVIOUS
    <3>0. DOMAIN actors \subseteq Actors /\ actors \in [DOMAIN actors -> EntryType]
      BY DEF IInv, TypeOK
    <3>1. a \in Actors /\ actors[a].snapshot \subseteq SnapshotType
      BY <3>0 DEF EntryType
    <3>2. Snapshot(a) \in actors[a].snapshot
      BY DEF Snapshot
    <3>3. Snapshot(a) \in SnapshotType
      BY <3>1, <3>2
    <3>4. Snapshot(a).offset \in Offsets \union {0}
      BY <3>3 DEF SnapshotType
    <3>5. Offsets \in SUBSET Nat
      BY OffsetFacts
    <3>6. Snapshot(a).offset \in Nat
      <4>1. 0 \in Nat
        OBVIOUS
      <4> QED
        BY <3>4, <3>5, <4>1, Zenon
    <3> QED
      BY <3>1, <3>6
  <2>2. ASSUME NEW d \in Lacking(E), Owner[d] \in DOMAIN upTo, d <= upTo[Owner[d]]
        PROVE  FALSE
    <3> DEFINE a == Owner[d]
               s == Snapshot(a)
    <3>1. a \in S /\ upTo[a] = s.offset
      BY <2>2
    <3>2. s \in actors[a].snapshot
      BY <3>1 DEF Snapshot
    <3>3. Tells(a, s, D)
      BY <3>1, <3>2 DEF Chain, AllInOrder
    <3>4. d \in Mine(a)
      BY DEF Lacking, Mine, Owner, Effective
    <3>5. s.state \subseteq E
      BY <1>2, <1>5, <3>1
    <3> HIDE DEF a, s, D, E
    <3>6. Among(d, D \union s.state)
      BY <2>2, <3>1, <3>3, <3>4 DEF Tells, a
    <3>7. D \union s.state \subseteq E
      BY <1>2, <3>5 DEF D, E
    <3>8. Among(d, E)
      BY <3>6, <3>7, AmongGrows
    <3> QED
      BY <3>8 DEF Lacking, E
  <2>3. /\ WindowOK(w, Offsets, Owner)
        /\ NoGap(w, Lacking(D))
    BY DEF IInv, Chain, Covers
  <2>4. Lacking(E) \subseteq Lacking(D) /\ Lacking(D) \in SUBSET Offsets
    BY <1>2, LackingShrinks
  <2> HIDE DEF upTo, w, D, E
  <2>5. \A d \in Lacking(E) : Owner[d] \in DOMAIN upTo => ~ (d <= upTo[Owner[d]])
    BY <2>2
  <2> QED
    BY <2>1, <2>3, <2>4, <2>5, OffsetFacts, CommitPassesNothing
<1>6. Complete(w, upTo) = Completed(S)
  BY DEF Completed
<1>7. \/ /\ outcome.next.shard.window = w
         /\ outcome.next.client.checkpoint = client.checkpoint
      \/ /\ outcome.stored = S
         /\ outcome.next.shard.window = Completed(S).window
         /\ \/ outcome.next.client.checkpoint = client.checkpoint
            \/ /\ Completed(S).advanced
               /\ outcome.next.client.checkpoint = Completed(S).next
  BY OutcomeIs
<1> DEFINE c == Completed(S)
<1>8. outcome.stored = S => /\ NoGap(c.window, Lacking(E))
                            /\ c.advanced => \A d \in Lacking(E) : d >= c.next
  BY <1>5, <1>6
<1> HIDE DEF c, w, upTo, D, E
<1>9. Covers(outcome.next.shard.window, outcome.next.client.checkpoint, E)
  BY <1>4, <1>7, <1>8 DEF Covers, c
<1> QED
  BY <1>3, <1>9 DEF E

-----------------------------------------------------------------------------
(* What the node does to goroutines, mailbox and entries.                  *)

(* An actor that does what it did, or has done nothing yet.                *)
Still(p, q) ==
  q.executed = p.executed /\ q.mailbox = p.mailbox /\ q.out = p.out

LEMMA NothingIsInOrder ==
  ASSUME NEW a, NEW p \in {NoProc, NewProc}, NEW D
  PROVE  InOrder(a, p, D)
<1>1. p.executed = <<>> /\ p.mailbox = <<>> /\ p.out = <<>>
  BY DEF NewProc, NoProc
<1>2. Range(<<>>) = {} /\ DOMAIN <<>> = {}
  BY DEF Range
<1> QED
  BY <1>1, <1>2 DEF InOrder, Ran, Queued, Honest

LEMMA AllShrinks ==
  ASSUME NEW pr, NEW mb, NEW ac, NEW D, AllInOrder(pr, mb, ac, D),
         NEW pr2, \A a \in Actors : Still(pr[a], pr2[a]) \/ pr2[a] = NoProc,
         NEW mb2, Honest(mb2, D),
         NEW ac2, DOMAIN ac2 \subseteq DOMAIN ac,
         \A a \in DOMAIN ac2 : ac2[a].snapshot \subseteq ac[a].snapshot
  PROVE  AllInOrder(pr2, mb2, ac2, D)
<1>1. \A a \in Actors : InOrder(a, pr2[a], D)
  <2> SUFFICES ASSUME NEW a \in Actors PROVE InOrder(a, pr2[a], D)
    OBVIOUS
  <2>1. CASE Still(pr[a], pr2[a])
    BY <2>1 DEF Still, AllInOrder, InOrder
  <2>2. CASE pr2[a] = NoProc
    BY <2>2, NothingIsInOrder
  <2> QED
    BY <2>1, <2>2
<1>2. \A a \in DOMAIN ac2 : \A s \in ac2[a].snapshot : Tells(a, s, D)
  BY DEF AllInOrder
<1> QED
  BY <1>1, <1>2 DEF AllInOrder

(* An outcome keeps an actor's snapshot or drops it.                       *)
LEMMA DisabledHolds ==
  ASSUME IInv, NEW outcome
  PROVE  /\ DOMAIN Disabled(outcome) = DOMAIN actors
         /\ \A a \in DOMAIN actors :
              Disabled(outcome)[a].snapshot \subseteq actors[a].snapshot
<1>1. actors \in [DOMAIN actors -> EntryType]
  BY DEF IInv, TypeOK
<1>2. ASSUME NEW a \in DOMAIN actors
      PROVE  Disabled(outcome)[a].snapshot \subseteq actors[a].snapshot
  <2>1. [actors[a] EXCEPT !.snapshot = {}].snapshot = {}
    BY <1>1 DEF EntryType
  <2> QED
    BY <2>1 DEF Disabled
<1> QED
  BY <1>2 DEF Disabled

LEMMA BatchChain ==
  ASSUME IInv, Chain, SnapshotBatch, UNCHANGED <<procs, mailbox>>
  PROVE  Chain'
<1> DEFINE S == WithSnapshot(Actors)
<1>1. S \in SUBSET DOMAIN actors /\ \A a \in S : actors[a].snapshot # {}
  BY DEF WithSnapshot
<1> HIDE DEF S
<1>2. PICK outcome \in SaveOutcomes(S) :
        /\ Saved(outcome)
        /\ actors' = Disabled(outcome)
        /\ shard'  = outcome.next.shard
        /\ client' = outcome.next.client
  BY DEF SnapshotBatch, S
<1>3. /\ AllInOrder(procs, mailbox, actors, history'.durable)
      /\ Covers(outcome.next.shard.window, outcome.next.client.checkpoint,
                history'.durable)
  BY <1>1, <1>2, SaveChain
<1>4. AllInOrder(procs', mailbox', actors', history'.durable)
  <2>1. /\ DOMAIN actors' = DOMAIN actors
        /\ \A a \in DOMAIN actors' : actors'[a].snapshot \subseteq actors[a].snapshot
    BY <1>2, DisabledHolds
  <2>2. Honest(mailbox, history'.durable)
    BY <1>3 DEF AllInOrder
  <2> QED
    BY <1>3, <2>1, <2>2, AllShrinks DEF Still
<1> QED
  BY <1>2, <1>3, <1>4 DEF Chain

LEMMA ChainShrinks ==
  ASSUME Chain, history'.durable = history.durable,
         shard'.window = shard.window, client'.checkpoint = client.checkpoint,
         Honest(mailbox', history.durable),
         \A a \in Actors : Still(procs[a], procs'[a]) \/ procs'[a] = NoProc,
         DOMAIN actors' \subseteq DOMAIN actors,
         \A a \in DOMAIN actors' : actors'[a].snapshot \subseteq actors[a].snapshot
  PROVE  Chain'
<1>1. AllInOrder(procs, mailbox, actors, history.durable)
  BY DEF Chain
<1>2. AllInOrder(procs', mailbox', actors', history.durable)
  BY <1>1, AllShrinks
<1> QED
  BY <1>2 DEF Chain

(* Receiving a message, before anything is made of it.                     *)
LEMMA ReceivedChain ==
  ASSUME IInv, Chain, NEW command, Receives(command)
  PROVE  /\ Honest(mailbox', history.durable)
         /\ command = "snapshot" =>
              Tells(Sender, Head(mailbox).snapshot, history.durable)
<1>1. /\ mailbox \in Seq(MessageType) /\ mailbox # <<>>
      /\ mailbox' = Tail(mailbox) /\ Head(mailbox).command = command
  BY ReceiveFacts
<1>2. Honest(mailbox, history.durable)
  BY DEF Chain, AllInOrder
<1>3. /\ Honest(Tail(mailbox), history.durable)
      /\ Head(mailbox).command = "snapshot" =>
           Tells(Head(mailbox).sender, Head(mailbox).snapshot, history.durable)
  BY <1>1, <1>2, HonestShorter
<1> QED
  BY <1>1, <1>3 DEF Sender

-----------------------------------------------------------------------------
(* Dispatcher.                                                             *)

LEMMA DropChain ==
  ASSUME IInv, Chain, DispatchDrop \/ DispatchUnstartable \/ DispatchFull
  PROVE  Chain'
<1>1. Receives("record") /\ UNCHANGED <<actors, procs, history>>
  BY DEF DispatchDrop, DispatchUnstartable, DispatchFull, Accepted
<1>2. shard'.window = shard.window /\ client'.checkpoint = client.checkpoint
  BY DEF DispatchDrop, DispatchUnstartable, DispatchFull, PausePartition,
         IInv, TypeOK, ShardType, ClientType
<1>3. Honest(mailbox', history.durable)
  BY <1>1, ReceivedChain
<1>4. \A a \in Actors : Still(procs[a], procs'[a])
  BY <1>1 DEF Still
<1> QED
  BY <1>1, <1>2, <1>3, <1>4, ChainShrinks

(* The window comes to track a record that leaps over none.                *)
LEMMA TrackedCovers ==
  ASSUME IInv, Chain, Accepted, NEW overtakes, Tracked(overtakes),
         ~ history'.overtaken, UNCHANGED client
  PROVE  /\ ~ overtakes /\ history'.durable = history.durable
         /\ Covers(shard'.window, client'.checkpoint, history'.durable)
<1> DEFINE o == Offset
           missing == Lacking(history.durable)
           w == shard.window
<1>1. history \in HistoryType /\ shard \in ShardType
  BY DEF IInv, TypeOK
<1>2. /\ history' = [history EXCEPT !.overtaken = @ \/ Leaps(o) \/ overtakes]
      /\ shard' = [shard EXCEPT !.window = Add(@, o, Receiver)]
  BY DEF Tracked
<1>3. history'.durable = history.durable /\ shard'.window = Add(w, o, Receiver)
  BY <1>1, <1>2 DEF HistoryType, ShardType
<1>4. ~ Leaps(o) /\ ~ overtakes
  <2>1. history'.overtaken = (history.overtaken \/ Leaps(o) \/ overtakes)
    BY <1>1, <1>2 DEF HistoryType
  <2> QED
    BY <2>1
<1>5. \A d \in missing : d < o => d \in w.offsetActor
  BY <1>4 DEF Leaps, Missing, Lacking
<1>6. o \in Offsets /\ Receiver = Owner[o]
  BY ReceiveFacts DEF Accepted
<1>7. WindowOK(w, Offsets, Owner) /\ NoGap(w, missing)
  BY DEF IInv, Chain, Covers
<1>8. missing \in SUBSET Offsets
  BY LackingShrinks
<1> HIDE DEF o, missing, w
<1>9. NoGap(Add(w, o, Owner[o]), missing)
  BY <1>5, <1>6, <1>7, <1>8, OffsetFacts, AddLeavesNoGap
<1>10. \A d \in missing : d >= client.checkpoint
  BY DEF Chain, Covers, missing
<1>11. NoGap(shard'.window, missing)
  BY <1>3, <1>6, <1>9
<1>12. missing = Lacking(history'.durable)
  BY <1>3 DEF missing
<1> QED
  BY <1>3, <1>4, <1>10, <1>11, <1>12 DEF Covers

LEMMA UndeliveredChain ==
  ASSUME IInv, Chain, ~ history'.overtaken,
         DispatchPending \/ DispatchPaused \/ DispatchMailFull
  PROVE  Chain'
<1>1. Accepted /\ Tracked(FALSE) /\ UNCHANGED <<client, procs>> /\ Receives("record")
  BY DEF DispatchPending, DispatchPaused, DispatchMailFull, Accepted
<1>2. /\ history'.durable = history.durable
      /\ Covers(shard'.window, client'.checkpoint, history'.durable)
  BY <1>1, TrackedCovers
<1>3. Honest(mailbox', history.durable)
  BY <1>1, ReceivedChain
<1>4. actors \in [DOMAIN actors -> EntryType]
  BY DEF IInv, TypeOK
<1>5. /\ DOMAIN actors' \subseteq DOMAIN actors
      /\ \A a \in DOMAIN actors' : actors'[a].snapshot \subseteq actors[a].snapshot
  <2>1. CASE actors' = actors
    BY <2>1
  <2>2. CASE DispatchPending
    BY <1>4, <2>2 DEF DispatchPending, EntryType
  <2>3. CASE DispatchMailFull
    BY <1>4, <2>3 DEF DispatchMailFull, EntryType
  <2> QED
    BY <2>1, <2>2, <2>3 DEF DispatchPaused
<1>6. \A a \in Actors : Still(procs[a], procs'[a])
  BY <1>1 DEF Still
<1>7. AllInOrder(procs, mailbox, actors, history.durable)
  BY DEF Chain
<1>8. AllInOrder(procs', mailbox', actors', history.durable)
  BY <1>3, <1>5, <1>6, <1>7, AllShrinks
<1> QED
  BY <1>2, <1>8 DEF Chain

(* A record is handed to an actor that has, or will have, handled all that *)
(* come before it.                                                         *)
LEMMA HandedInOrder ==
  ASSUME NEW a \in Actors, NEW o \in Offsets, Log[o].actor = a,
         NEW p \in ProcType, InOrder(a, p, history.durable), ~ Overtakes(o, p)
  PROVE  InOrder(a, [p EXCEPT !.mailbox = Append(@, o)], history.durable)
<1> DEFINE D == history.durable
           q == [p EXCEPT !.mailbox = Append(@, o)]
           box == p.mailbox
           l == Append(box, o)
           done == p.executed
<1>1. q.executed = done /\ q.mailbox = l /\ q.out = p.out /\ box \in Seq(Offsets)
  BY DEF ProcType
<1>2. /\ Len(box) \in Nat /\ DOMAIN box = 1 .. Len(box) /\ DOMAIN l = 1 .. Len(box) + 1
      /\ \A i \in DOMAIN box : l[i] = box[i]
      /\ l[Len(box) + 1] = o
  <2> HIDE DEF box
  <2> QED
    BY <1>1, Longer
<1>3. \A d \in Mine(a) : d < o => Among(d, D) \/ Among(d, Holds(p))
  BY DEF Overtakes, Missing, Mine
<1>4. Ran(a, done, D) /\ Queued(a, done, box, D) /\ Honest(p.out, D)
  BY DEF InOrder
<1>5. Holds(p) = Range(done) \union Range(box)
  BY DEF Holds
<1> HIDE DEF D, q, l, done, box
<1>6. ASSUME NEW i \in DOMAIN box
      PROVE  Ahead(l, i) = Ahead(box, i)
  <2>1. \A j \in 1 .. i - 1 : l[j] = box[j]
    BY <1>2
  <2> QED
    BY <2>1 DEF Ahead
<1>7. Range(box) \subseteq Ahead(l, Len(box) + 1)
  <2> SUFFICES ASSUME NEW i \in DOMAIN box PROVE box[i] \in Ahead(l, Len(box) + 1)
    BY DEF Range
  <2>1. i \in 1 .. (Len(box) + 1) - 1 /\ box[i] = l[i]
    BY <1>2
  <2> QED
    BY <2>1 DEF Ahead
<1>8. ASSUME NEW i \in DOMAIN l
      PROVE  /\ Log[l[i]].actor = a
             /\ \A d \in Mine(a) :
                  d < l[i] => Among(d, D \union Range(done) \union Ahead(l, i))
  <2>1. CASE i \in DOMAIN box
    <3>1. l[i] = box[i] /\ Ahead(l, i) = Ahead(box, i)
      BY <1>2, <1>6, <2>1
    <3>2. /\ Log[box[i]].actor = a
          /\ \A d \in Mine(a) :
               d < box[i] => Among(d, D \union Range(done) \union Ahead(box, i))
      BY <1>4, <2>1 DEF Queued
    <3> QED
      BY <3>1, <3>2
  <2>2. CASE i = Len(box) + 1
    <3> DEFINE covered == D \union Range(done) \union Ahead(l, i)
    <3>1. D \subseteq covered /\ Holds(p) \subseteq covered
      BY <1>5, <1>7, <2>2
    <3> HIDE DEF covered
    <3>2. \A d \in Mine(a) : d < o => Among(d, covered)
      BY <1>3, <3>1, AmongGrows
    <3> QED
      BY <1>2, <2>2, <3>2 DEF covered
  <2>3. i \in DOMAIN box \/ i = Len(box) + 1
    BY <1>2
  <2> QED
    BY <2>1, <2>2, <2>3
<1>9. Queued(a, done, l, D)
  BY <1>8 DEF Queued
<1> QED
  BY <1>1, <1>4, <1>9 DEF InOrder, q, D

LEMMA HandedChain ==
  ASSUME IInv, Chain, Accepted, UNCHANGED client, ~ history'.overtaken,
         NEW p \in ProcType, InOrder(Receiver, p, history.durable),
         Tracked(Overtakes(Offset, p)), Hand(p),
         \A b \in DOMAIN actors' : \A s \in actors'[b].snapshot :
           Tells(b, s, history.durable)
  PROVE  Chain'
<1> DEFINE a == Receiver
           o == Offset
           q == [p EXCEPT !.mailbox = Append(@, o)]
<1>1. o \in Offsets /\ a \in Actors /\ a = Owner[o] /\ Receives("record")
  BY ReceiveFacts DEF Accepted
<1>2. /\ ~ Overtakes(o, p) /\ history'.durable = history.durable
      /\ Covers(shard'.window, client'.checkpoint, history'.durable)
  BY TrackedCovers
<1>3. Log[o].actor = a
  BY DEF Receiver
<1>4. procs \in [Actors -> ProcType] /\ procs' = [procs EXCEPT ![a] = q]
  BY DEF IInv, TypeOK, Hand
<1> HIDE DEF a, o
<1>5. InOrder(a, q, history.durable)
  BY <1>1, <1>2, <1>3, HandedInOrder DEF a
<1> HIDE DEF q
<1>6. procs'[a] = q /\ \A b \in Actors : b # a => procs'[b] = procs[b]
  BY <1>1, <1>4
<1>7. \A b \in Actors : InOrder(b, procs'[b], history.durable)
  BY <1>5, <1>6 DEF Chain, AllInOrder
<1>8. Honest(mailbox', history.durable)
  BY <1>1, ReceivedChain
<1>9. AllInOrder(procs', mailbox', actors', history'.durable)
  BY <1>2, <1>7, <1>8 DEF AllInOrder
<1> QED
  BY <1>2, <1>9 DEF Chain

LEMMA StartChain ==
  ASSUME IInv, Chain, DispatchStart, ~ history'.overtaken
  PROVE  Chain'
<1>1. /\ Accepted /\ UNCHANGED client /\ Hand(NewProc)
      /\ Tracked(Overtakes(Offset, NewProc))
      /\ actors' = WithEntry(Receiver, NewEntry)
  BY DEF DispatchStart
<1>2. NewProc \in ProcType
  <2>1. <<>> \in Seq(Offsets) /\ <<>> \in Seq(SignalType)
    OBVIOUS
  <2> QED
    BY <2>1 DEF NewProc, NoProc, ProcType
<1>3. InOrder(Receiver, NewProc, history.durable)
  BY NothingIsInOrder
<1>4. \A b \in DOMAIN actors' : \A s \in actors'[b].snapshot : Tells(b, s, history.durable)
  <2>1. NewEntry.snapshot = {}
    BY DEF NewEntry
  <2>2. \A b \in DOMAIN actors' : b \in DOMAIN actors \/ b = Receiver
    BY <1>1 DEF WithEntry
  <2>3. \A b \in DOMAIN actors' :
          actors'[b] = IF b = Receiver THEN NewEntry ELSE actors[b]
    BY <1>1 DEF WithEntry
  <2> QED
    BY <2>1, <2>2, <2>3 DEF Chain, AllInOrder
<1> QED
  BY <1>1, <1>2, <1>3, <1>4, HandedChain

LEMMA SendChain ==
  ASSUME IInv, Chain, DispatchSend, ~ history'.overtaken
  PROVE  Chain'
<1> DEFINE p == procs[Receiver]
<1>1. Accepted /\ UNCHANGED <<client, actors>> /\ Hand(p) /\ Tracked(Overtakes(Offset, p))
  BY DEF DispatchSend
<1>2. Receiver \in Actors
  BY <1>1, ReceiveFacts DEF Accepted
<1>3. p \in ProcType /\ InOrder(Receiver, p, history.durable)
  BY <1>2 DEF IInv, TypeOK, Chain, AllInOrder
<1>4. \A b \in DOMAIN actors' : \A s \in actors'[b].snapshot : Tells(b, s, history.durable)
  BY <1>1 DEF Chain, AllInOrder
<1> HIDE DEF p
<1> QED
  BY <1>1, <1>3, <1>4, HandedChain

-----------------------------------------------------------------------------
(* Signals.                                                                *)

LEMMA QuietSignalChain ==
  ASSUME IInv, Chain, RecycleSeek \/ ReceiveReady \/ ReceiveAlive
  PROVE  Chain'
<1>1. /\ UNCHANGED <<shard, procs, history>>
      /\ \E command \in {"idle", "ready", "alive"} : Receives(command)
  BY DEF RecycleSeek, ReceiveReady, ReceiveAlive
<1>2. Honest(mailbox', history.durable)
  BY <1>1, ReceivedChain
<1>3. client'.checkpoint = client.checkpoint
  BY DEF RecycleSeek, ReceiveReady, ReceiveAlive, SeekMessage, IInv, TypeOK, ClientType
<1>4. actors \in [DOMAIN actors -> EntryType]
  BY DEF IInv, TypeOK
<1>5. \/ actors' = actors
      \/ actors' = [actors EXCEPT ![Sender].pause = NoOffset]
  BY DEF RecycleSeek, ReceiveReady, ReceiveAlive
<1>6. /\ DOMAIN actors' \subseteq DOMAIN actors
      /\ \A a \in DOMAIN actors' : actors'[a].snapshot \subseteq actors[a].snapshot
  BY <1>4, <1>5 DEF EntryType
<1>7. \A a \in Actors : Still(procs[a], procs'[a])
  BY <1>1 DEF Still
<1> QED
  BY <1>1, <1>2, <1>3, <1>6, <1>7, ChainShrinks

LEMMA SnapshotTakenChain ==
  ASSUME IInv, Chain, ReceiveSnapshot
  PROVE  Chain'
<1> DEFINE s == Head(mailbox).snapshot
<1>1. /\ Receives("snapshot") /\ UNCHANGED <<client, shard, procs, history>>
      /\ actors' = [actors EXCEPT ![Sender].snapshot = {s}]
  BY DEF ReceiveSnapshot
<1>2. /\ Honest(mailbox', history.durable)
      /\ Tells(Sender, s, history.durable)
  BY <1>1, ReceivedChain
<1>3. actors \in [DOMAIN actors -> EntryType]
  BY DEF IInv, TypeOK
<1> HIDE DEF s
<1>4. ASSUME NEW a \in DOMAIN actors', NEW t \in actors'[a].snapshot
      PROVE  Tells(a, t, history.durable)
  <2>1. a \in DOMAIN actors
    BY <1>1, <1>3
  <2>2. CASE a = Sender
    <3>1. actors'[a].snapshot = {s}
      BY <1>1, <1>3, <2>1, <2>2 DEF EntryType
    <3> QED
      BY <1>2, <2>2, <3>1
  <2>3. CASE a # Sender
    <3>1. actors'[a] = actors[a]
      BY <1>1, <1>3, <2>1, <2>3
    <3> QED
      BY <2>1, <3>1 DEF Chain, AllInOrder
  <2> QED
    BY <2>2, <2>3
<1>5. AllInOrder(procs', mailbox', actors', history'.durable)
  BY <1>1, <1>2, <1>4 DEF Chain, AllInOrder
<1>6. Covers(shard'.window, client'.checkpoint, history'.durable)
  BY <1>1 DEF Chain
<1> QED
  BY <1>5, <1>6 DEF Chain

(* A handler that saves, with the message it took.                         *)
LEMMA SavingChain ==
  ASSUME IInv, Chain, NEW command, Receives(command), NEW S \in SUBSET DOMAIN actors,
         \A a \in S : actors[a].snapshot # {},
         NEW outcome \in SaveOutcomes(S), Saved(outcome),
         shard' = outcome.next.shard,
         client'.checkpoint = outcome.next.client.checkpoint,
         \A a \in Actors : Still(procs[a], procs'[a]) \/ procs'[a] = NoProc,
         DOMAIN actors' \subseteq DOMAIN actors,
         \A a \in DOMAIN actors' : actors'[a].snapshot \subseteq actors[a].snapshot
  PROVE  Chain'
<1>1. /\ AllInOrder(procs, mailbox, actors, history'.durable)
      /\ Covers(outcome.next.shard.window, outcome.next.client.checkpoint,
                history'.durable)
  BY SaveChain
<1>2. OutcomeOK(S, outcome)
  BY SaveAttempt
<1>3. history.durable \subseteq history'.durable
  BY <1>2, SaveKeeps
<1>4. Honest(mailbox', history'.durable)
  <2>1. Honest(mailbox', history.durable)
    BY ReceivedChain
  <2> QED
    BY <1>3, <2>1, HonestGrows
<1>5. AllInOrder(procs', mailbox', actors', history'.durable)
  BY <1>1, <1>4, AllShrinks
<1> QED
  BY <1>1, <1>5 DEF Chain

LEMMA RecycleStopChain ==
  ASSUME IInv, Chain, RecycleStop
  PROVE  Chain'
<1> DEFINE S == IF actors[Sender].snapshot = {} THEN {} ELSE WithSnapshot(Actors)
<1>1. S \in SUBSET DOMAIN actors /\ \A a \in S : actors[a].snapshot # {}
  BY DEF WithSnapshot
<1>2. Receives("idle") /\ procs' = [procs EXCEPT ![Sender].stop = TRUE]
  BY DEF RecycleStop, StopActor
<1>3. PICK outcome \in SaveOutcomes(S) :
        /\ Saved(outcome)
        /\ actors' = [Disabled(outcome) EXCEPT ![Sender].stopping = TRUE]
        /\ shard'  = outcome.next.shard
        /\ client' = outcome.next.client
  BY DEF RecycleStop
<1> HIDE DEF S
<1>4. procs \in [Actors -> ProcType]
  BY DEF IInv, TypeOK
<1>5. \A a \in Actors : Still(procs[a], procs'[a])
  BY <1>2, <1>4 DEF Still, ProcType
<1>6. Disabled(outcome) \in [DOMAIN actors -> EntryType]
  BY <1>1, <1>3, SaveAttempt, SaveKeeps
<1>7. /\ DOMAIN actors' \subseteq DOMAIN actors
      /\ \A a \in DOMAIN actors' : actors'[a].snapshot \subseteq actors[a].snapshot
  <2>1. \A a \in DOMAIN actors : Disabled(outcome)[a].snapshot \subseteq actors[a].snapshot
    BY DisabledHolds
  <2>2. DOMAIN actors' = DOMAIN actors
    BY <1>3, <1>6
  <2>3. \A a \in DOMAIN actors : actors'[a].snapshot = Disabled(outcome)[a].snapshot
    BY <1>3, <1>6 DEF EntryType
  <2> QED
    BY <2>1, <2>2, <2>3
<1> QED
  BY <1>1, <1>2, <1>3, <1>5, <1>7, SavingChain

LEMMA StoppedTakenChain ==
  ASSUME IInv, Chain, ReceiveStopped
  PROVE  Chain'
<1> DEFINE a == Sender
           S == WithSnapshot({a})
<1>1. /\ Receives("stopped") /\ a \in DOMAIN actors
      /\ S \in SUBSET DOMAIN actors /\ \A b \in S : actors[b].snapshot # {}
  BY StoppedFacts
<1>2. PICK outcome \in SaveOutcomes(S) :
        /\ OutcomeOK(S, outcome) /\ Saved(outcome)
        /\ shard' = outcome.next.shard
        /\ client' = SoughtAfter(a, outcome.next.client)
  BY StoppedFacts
<1>3. actors' = Without(a) /\ procs' = [procs EXCEPT ![a] = Collected(a)]
  BY DEF ReceiveStopped
<1> HIDE DEF a, S
<1>4. client'.checkpoint = outcome.next.client.checkpoint
  BY <1>2 DEF SoughtAfter, SeekMessage, OutcomeOK, ClientType
<1>5. \A b \in Actors : Still(procs[b], procs'[b]) \/ procs'[b] = NoProc
  <2>1. procs \in [Actors -> ProcType]
    BY DEF IInv, TypeOK
  <2>2. \A b \in Actors : procs'[b] \in {procs[b], NoProc}
    BY <1>3, <2>1 DEF Collected
  <2> QED
    BY <2>2 DEF Still
<1>6. /\ DOMAIN actors' \subseteq DOMAIN actors
      /\ \A b \in DOMAIN actors' : actors'[b].snapshot \subseteq actors[b].snapshot
  BY <1>3 DEF Without
<1> QED
  BY <1>1, <1>2, <1>4, <1>5, <1>6, SavingChain

-----------------------------------------------------------------------------
(* The poll goroutine, stopping, restarts.                                 *)

LEMMA PollerChain ==
  ASSUME IInv, Chain, PollerStep
  PROVE  Chain'
<1>1. /\ UNCHANGED <<shard, actors, procs>>
      /\ history'.durable = history.durable
      /\ client'.checkpoint = client.checkpoint
  BY DEF PollerStep, Poll, PollError, Deliver, PollerExit, Fault,
         IInv, TypeOK, ClientType, HistoryType
<1>2. Honest(mailbox, history.durable)
  BY DEF Chain, AllInOrder
<1>3. Honest(mailbox', history.durable)
  <2>1. CASE mailbox' = mailbox
    BY <1>2, <2>1
  <2>2. CASE Deliver
    <3> DEFINE m == Record(Head(poller.batch))
    <3>1. mailbox' = Append(mailbox, m) /\ poller.batch # <<>>
      BY <2>2 DEF Deliver
    <3>2. poller.batch \in Seq(Offsets) /\ mailbox \in Seq(MessageType)
      BY DEF IInv, TypeOK, PollerType
    <3>3. m \in MessageType /\ m.command # "snapshot"
      <4>1. Head(poller.batch) \in Offsets
        BY <3>1, <3>2, Shorter
      <4> QED
        BY <4>1 DEF Record, MessageType
    <3> HIDE DEF m
    <3> QED
      BY <1>2, <3>1, <3>2, <3>3, HonestLonger
  <2> QED
    BY <2>1, <2>2 DEF PollerStep, Poll, PollError, PollerExit
<1>4. \A a \in Actors : Still(procs[a], procs'[a])
  BY <1>1 DEF Still
<1> QED
  BY <1>1, <1>3, <1>4, ChainShrinks

LEMMA StoppingChain ==
  ASSUME IInv, Chain, BeforeStop \/ EndTimer
  PROVE  Chain'
<1>1. mailbox' = mailbox /\ history'.durable = history.durable
  BY DEF BeforeStop, EndTimer, Fault, IInv, TypeOK, HistoryType
<1>2. shard'.window = shard.window /\ client'.checkpoint = client.checkpoint
  BY DEF BeforeStop, Unregistered, EndTimer, IInv, TypeOK, ShardType, ClientType
<1>3. procs \in [Actors -> ProcType] /\ actors \in [DOMAIN actors -> EntryType]
  BY DEF IInv, TypeOK
<1>4. \A a \in Actors : Still(procs[a], procs'[a])
  <2>1. CASE procs' = procs
    BY <2>1 DEF Still
  <2>2. CASE StopAll
    <3>1. \A a \in Actors : [procs[a] EXCEPT !.stop = TRUE].executed = procs[a].executed
                            /\ [procs[a] EXCEPT !.stop = TRUE].mailbox = procs[a].mailbox
                            /\ [procs[a] EXCEPT !.stop = TRUE].out = procs[a].out
      BY <1>3 DEF ProcType
    <3> QED
      BY <2>2, <3>1 DEF StopAll, Still
  <2> QED
    BY <2>1, <2>2 DEF BeforeStop, EndTimer
<1>5. /\ DOMAIN actors' \subseteq DOMAIN actors
      /\ \A a \in DOMAIN actors' : actors'[a].snapshot \subseteq actors[a].snapshot
  <2>1. CASE actors' = actors
    BY <2>1
  <2>2. CASE StopAll
    <3>1. \A a \in DOMAIN actors :
            [actors[a] EXCEPT !.stopping = TRUE].snapshot = actors[a].snapshot
      BY <1>3 DEF EntryType
    <3> QED
      BY <2>2, <3>1 DEF StopAll
  <2> QED
    BY <2>1, <2>2 DEF BeforeStop, EndTimer
<1>6. Honest(mailbox', history.durable)
  BY <1>1 DEF Chain, AllInOrder
<1> QED
  BY <1>1, <1>2, <1>4, <1>5, <1>6, ChainShrinks

(* A node that has just started claims nothing but what is stored.         *)
LEMMA FreshChain ==
  ASSUME shard = FreshShard, mailbox = <<>>, actors = <<>>,
         procs = [a \in Actors |-> NoProc],
         \A d \in Lacking(history.durable) : d >= client.checkpoint
  PROVE  Chain
<1>1. DOMAIN <<>> = {}
  OBVIOUS
<1>2. Honest(mailbox, history.durable) /\ DOMAIN actors = {}
  BY <1>1 DEF Honest
<1>3. \A a \in Actors : InOrder(a, procs[a], history.durable)
  BY NothingIsInOrder
<1>4. NoGap(shard.window, Lacking(history.durable))
  BY DEF NoGap, FreshShard, EmptyWindow
<1> QED
  BY <1>2, <1>3, <1>4 DEF Chain, AllInOrder, Covers

LEMMA InitCInv == Init => CInv
<1> SUFFICES ASSUME Init PROVE Chain
  BY DEF CInv
<1>1. \A d \in Offsets : d >= FirstOffset
  BY LogAssumption DEF Offsets
<1>2. client.checkpoint = FirstOffset
  BY DEF Init
<1>3. \A d \in Lacking(history.durable) : d >= client.checkpoint
  BY <1>1, <1>2 DEF Lacking, Effective
<1> QED
  BY <1>3, FreshChain DEF Init

LEMMA RestartChain ==
  ASSUME IInv, Chain, Restart
  PROVE  Chain'
<1>1. /\ shard' = FreshShard /\ mailbox' = <<>> /\ actors' = <<>>
      /\ procs' = [a \in Actors |-> NoProc]
  BY DEF Restart
<1>2. history'.durable = history.durable /\ client'.checkpoint = client.checkpoint
  BY DEF Restart, Fault, IInv, TypeOK, HistoryType, ClientType
<1>3. \A d \in Lacking(history'.durable) : d >= client'.checkpoint
  BY <1>2 DEF Chain, Covers
<1>4. DOMAIN <<>> = {}
  OBVIOUS
<1>5. Honest(mailbox', history'.durable) /\ DOMAIN actors' = {}
  BY <1>1, <1>4 DEF Honest
<1>6. \A a \in Actors : InOrder(a, procs'[a], history'.durable)
  BY <1>1, NothingIsInOrder
<1>7. NoGap(shard'.window, Lacking(history'.durable))
  BY <1>1 DEF NoGap, FreshShard, EmptyWindow
<1> QED
  BY <1>3, <1>5, <1>6, <1>7 DEF Chain, AllInOrder, Covers

(* What has overtaken stays overtaken: nothing takes the mark away.        *)
LEMMA OvertakenStays ==
  ASSUME IInv, [Next]_vars, history.overtaken
  PROVE  history'.overtaken
<1>1. history \in HistoryType
  BY DEF IInv, TypeOK
<1>2. CASE \E kind : Fault(kind)
  BY <1>1, <1>2 DEF Fault, HistoryType
<1>3. CASE UNCHANGED history
  BY <1>3
<1>4. CASE \E overtakes : Tracked(overtakes)
  BY <1>1, <1>4 DEF Tracked, HistoryType
<1>5. CASE \E outcome : Saved(outcome)
  BY <1>1, <1>5 DEF Saved, HistoryType
<1>6. CASE \E a \in Actors : ActorIdle(a) \/ ActorAlive(a)
  BY <1>1, <1>6 DEF ActorIdle, ActorAlive, HistoryType
<1>7. CASE PollerStep
  BY <1>2, <1>3, <1>7 DEF PollerStep, Poll, PollError, Deliver, PollerExit
<1>8. CASE Dispatcher
  BY <1>3, <1>4, <1>8
     DEF Dispatcher, DispatchDrop, DispatchFull, DispatchUnstartable, DispatchPending,
         DispatchPaused, DispatchMailFull, DispatchStart, DispatchSend
<1>9. CASE NodeReceive
  BY <1>3, <1>5, <1>8, <1>9
     DEF NodeReceive, RecycleSeek, RecycleStop, ReceiveSnapshot, ReceiveReady,
         ReceiveAlive, ReceiveStopped
<1>10. CASE SnapshotTimer \/ BeforeStop \/ EndTimer \/ AfterStop \/ Restart
  BY <1>2, <1>3, <1>5, <1>10
     DEF SnapshotTimer, SnapshotBatch, BeforeStop, EndTimer, AfterStop, Restart
<1>11. CASE \E a \in Actors : ActorStep(a)
  BY <1>3, <1>6, <1>11
     DEF ActorStep, ActorReceive, ActorSkip, ActorExecute, ActorPanic, ActorStop,
         ActorFinish, ActorSignal, SignalSent, Becomes
<1>12. CASE UNCHANGED vars
  BY <1>3, <1>12 DEF vars
<1> QED
  BY <1>7, <1>9, <1>10, <1>11, <1>12 DEF Next, Quiet

LEMMA NextCInv ==
  IInv /\ CInv /\ [Next]_vars => CInv'
<1> SUFFICES ASSUME IInv, CInv, [Next]_vars, ~ history'.overtaken PROVE Chain'
  BY DEF CInv
<1>1. Chain
  BY OvertakenStays DEF CInv
<1>2. CASE PollerStep
  BY <1>1, <1>2, PollerChain
<1>3. CASE Dispatcher
  BY <1>1, <1>3, DropChain, UndeliveredChain, StartChain, SendChain DEF Dispatcher
<1>4. CASE RecycleSeek \/ ReceiveReady \/ ReceiveAlive
  BY <1>1, <1>4, QuietSignalChain
<1>5. CASE ReceiveSnapshot \/ RecycleStop \/ ReceiveStopped
  BY <1>1, <1>5, SnapshotTakenChain, RecycleStopChain, StoppedTakenChain
<1>6. CASE SnapshotTimer \/ AfterStop
  BY <1>1, <1>6, BatchChain DEF SnapshotTimer, AfterStop
<1>7. CASE BeforeStop \/ EndTimer
  BY <1>1, <1>7, StoppingChain
<1>8. ASSUME NEW a \in Actors, ActorStep(a) PROVE Chain'
  <2>1. CASE ActorReceive(a)
    BY <1>1, <2>1, SkipChain, ExecuteChain, PanicChain DEF ActorReceive
  <2>2. CASE ActorIdle(a) \/ ActorAlive(a) \/ ActorStop(a)
    BY <1>1, <2>2, IdleChain, StopChain
  <2>3. CASE ActorFinish(a) \/ ActorSignal(a)
    BY <1>1, <2>3, FinishChain, SignalChain
  <2> QED
    BY <1>8, <2>1, <2>2, <2>3 DEF ActorStep
<1>9. CASE Restart
  BY <1>1, <1>9, RestartChain
<1>10. CASE UNCHANGED vars
  BY <1>1, <1>10 DEF vars, Chain
<1> QED
  BY <1>2, <1>3, <1>4, <1>5, <1>6, <1>7, <1>8, <1>9, <1>10 DEF Next, NodeReceive, Quiet

(***************************************************************************)
(* As long as no record overtook one that comes before it, the effects of  *)
(* all records below the committed offset are stored: whatever snapshots   *)
(* and commits failed or were lost, whatever was read again, and whenever  *)
(* the process died, a restart from the checkpoint misses no record.       *)
(***************************************************************************)
THEOREM CheckpointIsCovered ==
  Spec => []CheckpointCovered
<1>1. CInv => CheckpointCovered
  BY DEF CInv, Chain, Covers, CheckpointCovered, Missing, Lacking
<1> QED
  BY <1>1, Invariance, InitCInv, NextCInv, PTL DEF Spec

-----------------------------------------------------------------------------
(* What a commit passes.                                                   *)

(* What an attempt to save commits passes no record that stays open.       *)
LEMMA OutcomeIsBelow ==
  ASSUME IInv, NEW S \in SUBSET DOMAIN actors, \A a \in S : actors[a].snapshot # {},
         NEW outcome \in SaveOutcomes(S),
         outcome.next.client.checkpoint # client.checkpoint,
         NEW o \in outcome.next.shard.window.offsetActor
  PROVE  outcome.next.client.checkpoint <= o
<1> DEFINE upTo == [a \in S |-> Snapshot(a).offset]
           w == shard.window
           c == Complete(w, upTo)
<1>1. DOMAIN upTo \subseteq Actors /\ \A a \in DOMAIN upTo : upTo[a] \in Nat
  <2> SUFFICES ASSUME NEW a \in S PROVE a \in Actors /\ Snapshot(a).offset \in Nat
    OBVIOUS
  <2>1. /\ DOMAIN actors \subseteq Actors
        /\ actors \in [DOMAIN actors -> EntryType]
    BY DEF IInv, TypeOK
  <2>2. Snapshot(a) \in actors[a].snapshot
    BY DEF Snapshot
  <2>3. actors[a].snapshot \subseteq SnapshotType
    BY <2>1 DEF EntryType
  <2> QED
    BY <2>1, <2>2, <2>3, OffsetFacts DEF SnapshotType
<1>2. Completed(S) = c
  BY DEF Completed
<1>3. WindowOK(w, Offsets, Owner)
  BY DEF IInv
<1> HIDE DEF upTo, w
<1>4. c.advanced => \A x \in c.window.offsetActor : c.next <= x
  BY <1>1, <1>3, OffsetFacts, CompleteKeeps
<1>5. /\ outcome.next.shard.window = Completed(S).window
      /\ Completed(S).advanced /\ outcome.next.client.checkpoint = Completed(S).next
  BY OutcomeIs
<1> QED
  BY <1>2, <1>4, <1>5

BelowOpen ==
  client'.checkpoint # client.checkpoint =>
    \A o \in shard'.window.offsetActor : client'.checkpoint <= o

LEMMA NextBelowOpen ==
  IInv /\ [Next]_vars => [BelowOpen]_vars
<1> SUFFICES ASSUME IInv, Next PROVE BelowOpen
  OBVIOUS
<1>1. client \in ClientType
  BY DEF IInv, TypeOK
<1>2. ASSUME client'.checkpoint = client.checkpoint PROVE BelowOpen
  BY <1>2 DEF BelowOpen
<1>3. CASE SavingStep
  <2>0. PICK S \in SUBSET DOMAIN actors : \E outcome \in SaveOutcomes(S) : Attempt(S, outcome)
    BY <1>3, SavingAttempts
  <2>1. PICK outcome \in SaveOutcomes(S) : Attempt(S, outcome)
    BY <2>0
  <2> QED
    BY <2>1, OutcomeIsBelow DEF Attempt, BelowOpen
<1>4. CASE UNCHANGED client
  BY <1>2, <1>4
<1>5. CASE \E o : client' = SeekMessage(client, o)
  BY <1>1, <1>2, <1>5 DEF SeekMessage, ClientType
<1>6. CASE PollerStep
  BY <1>1, <1>2, <1>4, <1>6 DEF PollerStep, Poll, PollError, Deliver, PollerExit, ClientType
<1>7. CASE DispatchFull
  BY <1>1, <1>2, <1>7 DEF DispatchFull, PausePartition, ClientType
<1>8. CASE Dispatcher
  BY <1>4, <1>7, <1>8
     DEF Dispatcher, DispatchDrop, DispatchUnstartable, DispatchPending, DispatchPaused,
         DispatchMailFull, DispatchStart, DispatchSend
<1>9. CASE RecycleSeek \/ ReceiveReady \/ ReceiveSnapshot \/ ReceiveAlive \/ EndTimer
  BY <1>4, <1>5, <1>9 DEF RecycleSeek, ReceiveReady, ReceiveSnapshot, ReceiveAlive, EndTimer
<1>10. CASE BeforeStop \/ Restart
  BY <1>1, <1>2, <1>10 DEF BeforeStop, Restart, ClientType
<1>11. CASE \E a \in Actors : ActorStep(a)
  BY <1>4, <1>11
     DEF ActorStep, ActorReceive, ActorSkip, ActorExecute, ActorPanic, ActorIdle, ActorAlive,
         ActorStop, ActorFinish, ActorSignal, SignalSent, Becomes
<1> QED
  BY <1>3, <1>4, <1>6, <1>8, <1>9, <1>10, <1>11 DEF Next, NodeReceive, Quiet, SavingStep, vars

(***************************************************************************)
(* No commit passes a record that is open: the checkpoint moves only to an *)
(* offset at or below every record that is tracked and not yet covered by  *)
(* a saved snapshot, whatever order the records came in.                   *)
(***************************************************************************)
THEOREM CommitsPassNoOpenRecord ==
  Spec => CommitBelowOpen
<1>1. IInv /\ [Next]_vars
        => [client'.checkpoint # client.checkpoint =>
              \A o \in shard'.window.offsetActor : client'.checkpoint <= o]_vars
  BY NextBelowOpen DEF BelowOpen
<1> QED
  BY <1>1, Invariance, PTL DEF Spec, CommitBelowOpen
=============================================================================
