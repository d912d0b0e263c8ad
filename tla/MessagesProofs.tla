--------------------------- MODULE MessagesProofs ---------------------------
(***************************************************************************)
(* Proofs about Messages: an identifier stands for one message, whatever   *)
(* handlers ran again and wherever they were interrupted, so that nothing  *)
(* is dropped that was not handled and nothing is handled twice; and what  *)
(* was read goes on unchanged.                                             *)
(***************************************************************************)
EXTENDS Messages, FiniteSetTheorems, TLAPS

(***************************************************************************)
(* Where messages come from.  Among the messages that can be handled are   *)
(* those others wrote, those of timers, and those that a handler of such a *)
(* message made.                                                           *)
(***************************************************************************)
TimerMetadata ==
  UNION {{Metadata(TimerMessage(a, timer)) : timer \in Timers[a]} : a \in Actors}

AllLogged(l) == UNION {Logged(l[p]) : p \in Partitions}

Origins(l) == AllLogged(l) \union TimerMetadata

(* How many of the first n messages of a handler go to actor x: the number *)
(* that the next one to x gets.                                            *)
Sends(command, n, x) ==
  {i \in 1 .. n : i \in DOMAIN Scripts[command] /\ Scripts[command][i].to = x}

Before(command, n, x) == Cardinality(Sends(command, n, x))

(* The handler of parent makes meta at its step s.                         *)
Child(meta, parent, s) ==
  LET send == Scripts[parent.command][s]
  IN  /\ parent.command \in DOMAIN Scripts
      /\ s \in DOMAIN Scripts[parent.command]
      /\ meta = [ receiver |-> send.to, type |-> send.type,
                  id |-> GenerateMessageID(parent.id, parent.receiver, send.to,
                                           Before(parent.command, s - 1, send.to)),
                  command |-> send.command, cause |-> <<parent.cause, s>> ]

Steps(parent) == IF parent.command \in DOMAIN Scripts THEN DOMAIN Scripts[parent.command] ELSE {}

IsChild(l, meta) == \E parent \in Origins(l) : \E s \in Steps(parent) : Child(meta, parent, s)

Traced(l) ==
  \A meta \in Origins(l) : meta \in RootMetadata \/ meta \in TimerMetadata \/ IsChild(l, meta)

(* Identifiers and causes correspond: neither stands for two messages.     *)
OneMeaning(l) ==
  \A meta, other \in Origins(l) :
    meta.id = other.id \/ meta.cause = other.cause => meta = other

LogOK(l) ==
  /\ l = [p \in Partitions |-> l[p]]
  /\ \A p \in Partitions : IsSequence(l[p]) /\ \A r \in Range(l[p]) : RecordOK(r)

(***************************************************************************)
(* An actor x, given log l.  What it handles it has read, and not seen, or *)
(* is a timer's; what it is about to publish is its handler's next send;   *)
(* its numbers are those of the sends so far; and what the ring has seen   *)
(* is the last of what it handled.                                         *)
(***************************************************************************)
IsRead(l, a, x, m) ==
  LET r == l[ShardOf[a]][m.offset]
  IN  /\ m.offset \in DOMAIN l[ShardOf[a]]
      /\ Decodable(r)
      /\ m = Decoded(r, r.headers, m.offset)
      /\ m.type = "network"
      /\ m.id \notin Range(x.seen)

IsTimer(a, m) == \E timer \in Timers[a] : m = TimerMessage(a, timer)

HandlingOK(l, a, x) ==
  \A m \in x.context.handling :
    /\ m.receiver = a
    /\ m.command \in DOMAIN Scripts
    /\ IsRead(l, a, x, m) \/ IsTimer(a, m)
    /\ x.context.step \in 1 .. Len(Scripts[m.command]) + 1

SendingOK(x) ==
  \A m \in x.context.handling : \A out \in x.context.sending :
    /\ Child(Metadata(out), Metadata(m), x.context.step)
    /\ IsSequence(out.headers)

SendsMade(x) == IF x.context.sending = None THEN x.context.step - 1 ELSE x.context.step

Numbered(x) ==
  \A m \in x.context.handling : \A y \in Actors \union {Empty} :
    x.sequences[y] = Before(m.command, SendsMade(x), y)

SeenIsHandled(l, x) ==
  /\ Len(x.seen) <= Len(x.handled)
  /\ Len(x.seen) < DedupCapacity => Len(x.seen) = Len(x.handled)
  /\ \A j \in DOMAIN x.seen : \E meta \in Origins(l) :
       /\ x.seen[j] = meta.id
       /\ x.handled[Len(x.handled) - Len(x.seen) + j] = meta.cause

Once(x) ==
  \A i, j \in DOMAIN x.handled :
    i < j /\ x.handled[i] = x.handled[j] => j - i > DedupCapacity

ActorInv(l, a, x) ==
  /\ ActorOK(a, x)
  /\ x.next \in 1 .. Len(l[ShardOf[a]]) + 1
  /\ HandlingOK(l, a, x)
  /\ SendingOK(x)
  /\ Numbered(x)
  /\ SeenIsHandled(l, x)
  /\ Once(x)

(* The dead letters, given log l.                                          *)
DeadOK(l, d) ==
  /\ IsSequence(d)
  /\ \A i \in DOMAIN d :
       LET source == Last(d[i].headers)
       IN  /\ d[i].key \in Actors
           /\ source.partition \in Partitions
           /\ source.offset \in DOMAIN l[source.partition]
           /\ [d[i] EXCEPT !.headers = Front(@)] = l[source.partition][source.offset]

IInv ==
  /\ LogOK(log)
  /\ Traced(log)
  /\ OneMeaning(log)
  /\ DeadOK(log, dead)
  /\ actors = [a \in Actors |-> actors[a]]
  /\ \A a \in Actors : ActorInv(log, a, actors[a])
  /\ faults \in 0 .. MaxFaults

-----------------------------------------------------------------------------
(* Sequences and optional values.                                          *)

LEMMA SequenceIndex ==
  ASSUME NEW s, IsSequence(s)
  PROVE  /\ Len(s) \in Nat
         /\ DOMAIN s = 1 .. Len(s)
         /\ \A i \in 1 .. Len(s) : s[i] \in Range(s)
         /\ \A x \in Range(s) : \E i \in 1 .. Len(s) : x = s[i]
  BY DEF IsSequence, Range

LEMMA IndexedIsSequence ==
  ASSUME NEW S, NEW s \in Seq(S)
  PROVE  IsSequence(s)
<1>1. \A i \in 1 .. Len(s) : s[i] \in Range(s)
  BY DEF Range
<1> QED
  BY <1>1 DEF IsSequence

LEMMA NoneIsSequence == IsSequence(<<>>) /\ Len(<<>>) = 0 /\ Range(<<>>) = {}
  BY DEF IsSequence, Range

LEMMA OneIsSequence ==
  ASSUME NEW x
  PROVE  /\ IsSequence(<<x>>) /\ Range(<<x>>) = {x}
         /\ Len(<<x>>) = 1 /\ DOMAIN <<x>> = {1} /\ <<x>>[1] = x
<1>1. <<x>> \in Seq({x})
  OBVIOUS
<1>2. Range(<<x>>) = {x} /\ Len(<<x>>) = 1 /\ DOMAIN <<x>> = {1} /\ <<x>>[1] = x
  BY DEF Range
<1> QED
  BY <1>1, <1>2, IndexedIsSequence

LEMMA AppendIsSequence ==
  ASSUME NEW s, IsSequence(s), NEW x
  PROVE  /\ IsSequence(Append(s, x))
         /\ Len(Append(s, x)) = Len(s) + 1
         /\ \A i \in 1 .. Len(s) : Append(s, x)[i] = s[i]
         /\ Append(s, x)[Len(s) + 1] = x
         /\ Range(Append(s, x)) = Range(s) \union {x}
<1> DEFINE S == Range(s) \union {x}
           t == Append(s, x)
<1>1. s \in Seq(S)
  BY DEF IsSequence
<1>2. t \in Seq(S)
  BY <1>1
<1>3. /\ Len(t) = Len(s) + 1
      /\ \A i \in 1 .. Len(s) : t[i] = s[i]
      /\ t[Len(s) + 1] = x
  BY <1>1
<1>4. DOMAIN t = 1 .. Len(s) + 1 /\ DOMAIN s = 1 .. Len(s) /\ Len(s) \in Nat
  BY <1>1, <1>2, <1>3
<1>5. Range(t) = Range(s) \union {x}
  <2>1. \A y \in Range(t) : y \in Range(s) \union {x}
    BY <1>2, <1>1, <1>3, <1>4 DEF Range
  <2>2. ASSUME NEW y \in Range(s)
        PROVE  y \in Range(t)
    <3>1. PICK i \in 1 .. Len(s) : y = s[i]
      BY <1>4 DEF Range
    <3>2. i \in DOMAIN t /\ t[i] = y
      BY <1>3, <1>4, <3>1
    <3> QED
      BY <3>2 DEF Range
  <2>3. x \in Range(t)
    BY <1>3, <1>4 DEF Range
  <2> QED
    BY <2>1, <2>2, <2>3
<1> QED
  BY <1>2, <1>3, <1>5, IndexedIsSequence

LEMMA TailIsSequence ==
  ASSUME NEW s, IsSequence(s), Len(s) > 0
  PROVE  /\ IsSequence(Tail(s))
         /\ Len(Tail(s)) = Len(s) - 1
         /\ \A i \in 1 .. Len(s) - 1 : Tail(s)[i] = s[i + 1]
<1>1. s \in Seq(Range(s)) /\ s # <<>>
  BY DEF IsSequence
<1>2. Tail(s) \in Seq(Range(s))
  BY <1>1
<1>3. /\ Len(Tail(s)) = Len(s) - 1
      /\ \A i \in 1 .. Len(s) - 1 : Tail(s)[i] = s[i + 1]
  BY <1>1
<1> QED
  BY <1>2, <1>3, IndexedIsSequence

LEMMA FrontOfAppend ==
  ASSUME NEW s, IsSequence(s), NEW x
  PROVE  Front(Append(s, x)) = s /\ Last(Append(s, x)) = x
<1> DEFINE t == Append(s, x)
<1>1. s \in Seq(Range(s)) /\ Len(s) \in Nat /\ DOMAIN s = 1 .. Len(s)
  BY SequenceIndex DEF IsSequence
<1>2. Len(t) = Len(s) + 1 /\ (\A i \in 1 .. Len(s) : t[i] = s[i]) /\ t[Len(t)] = x
  BY AppendIsSequence
<1>3. Front(t) = SubSeq(t, 1, Len(s))
  BY <1>1, <1>2 DEF Front
<1>4. SubSeq(t, 1, Len(s)) = [i \in 1 .. Len(s) |-> t[i]]
  BY <1>1, <1>2
<1>5. s = [i \in 1 .. Len(s) |-> s[i]]
  BY <1>1
<1>6. [i \in 1 .. Len(s) |-> t[i]] = [i \in 1 .. Len(s) |-> s[i]]
  BY <1>2
<1> QED
  BY <1>2, <1>3, <1>4, <1>5, <1>6 DEF Last

LEMMA OnlyOne ==
  ASSUME NEW S, AtMostOne(S), NEW x \in S
  PROVE  S = {x} /\ (CHOOSE y \in S : TRUE) = x
<1>1. S = {x}
  BY DEF AtMostOne
<1>2. (CHOOSE y \in S : TRUE) \in S
  OBVIOUS
<1> QED
  BY <1>1, <1>2

LEMMA AtMostSingle == AtMostOne({}) /\ \A x : AtMostOne({x})
  BY DEF AtMostOne

-----------------------------------------------------------------------------
(* The numbers of a handler's sends.                                       *)

LEMMA SendsFinite ==
  ASSUME NEW command, NEW n \in Nat, NEW x
  PROVE  IsFiniteSet(Sends(command, n, x)) /\ Before(command, n, x) \in Nat
<1>1. IsFiniteSet(1 .. n)
  BY FS_Interval
<1>2. Sends(command, n, x) \in SUBSET (1 .. n)
  BY DEF Sends
<1> QED
  BY <1>1, <1>2, FS_Subset, FS_CardinalityType DEF Before

LEMMA FirstNumber == \A command, x : Before(command, 0, x) = 0
<1>1. \A command, x : Sends(command, 0, x) = {}
  BY DEF Sends
<1> QED
  BY <1>1, FS_EmptySet DEF Before

LEMMA NextNumber ==
  ASSUME NEW command \in DOMAIN Scripts, NEW s \in DOMAIN Scripts[command], NEW x
  PROVE  /\ s \in Nat \ {0}
         /\ Before(command, s, x) = IF Scripts[command][s].to = x
                                    THEN Before(command, s - 1, x) + 1
                                    ELSE Before(command, s - 1, x)
<1>1. s \in Nat \ {0}
  BY MessagesAssumption, SequenceIndex
<1>2. IsFiniteSet(Sends(command, s - 1, x)) /\ s \notin Sends(command, s - 1, x)
  BY <1>1, SendsFinite DEF Sends
<1>3. Scripts[command][s].to = x => Sends(command, s, x) = Sends(command, s - 1, x) \union {s}
  BY <1>1 DEF Sends
<1>4. Scripts[command][s].to # x => Sends(command, s, x) = Sends(command, s - 1, x)
  BY <1>1 DEF Sends
<1> QED
  BY <1>1, <1>2, <1>3, <1>4, FS_AddElement DEF Before

(* Two sends of one handler to one actor have different numbers.           *)
LEMMA NumbersDiffer ==
  ASSUME NEW command \in DOMAIN Scripts,
         NEW s \in DOMAIN Scripts[command], NEW t \in DOMAIN Scripts[command],
         Scripts[command][s].to = Scripts[command][t].to,
         s < t
  PROVE  LET x == Scripts[command][s].to
         IN  Before(command, s - 1, x) # Before(command, t - 1, x)
<1> DEFINE x == Scripts[command][s].to
<1>1. s \in Nat \ {0} /\ t \in Nat \ {0}
  BY NextNumber
<1>2. Before(command, s, x) = Before(command, s - 1, x) + 1
  BY NextNumber
<1>3. Sends(command, s, x) \in SUBSET Sends(command, t - 1, x)
  BY <1>1 DEF Sends
<1>4. Before(command, s, x) <= Before(command, t - 1, x)
  BY <1>1, <1>3, SendsFinite, FS_Subset DEF Before
<1>5. Before(command, s - 1, x) \in Nat /\ Before(command, t - 1, x) \in Nat
  BY <1>1, SendsFinite
<1> QED
  BY <1>2, <1>4, <1>5

-----------------------------------------------------------------------------
(* Messages with different origins are told apart.                         *)

LEMMA ChildShape ==
  ASSUME NEW meta, NEW parent, NEW s, Child(meta, parent, s)
  PROVE  /\ Len(meta.id) = 4 /\ Len(meta.cause) = 2
         /\ s \in Steps(parent)
         /\ meta.receiver \in Actors \union {Empty}
  BY MessagesAssumption DEF Child, GenerateMessageID, Steps, Range

LEMMA OneParent ==
  ASSUME NEW l, OneMeaning(l),
         NEW p \in Origins(l), NEW q \in Origins(l), NEW s, NEW t,
         NEW meta, Child(meta, p, s), NEW other, Child(other, q, t),
         meta.id = other.id \/ meta.cause = other.cause
  PROVE  meta = other
<1> DEFINE x == Scripts[p.command][s].to
           y == Scripts[q.command][t].to
<1>1. meta.id = <<p.id, p.receiver, x, Before(p.command, s - 1, x)>> /\ meta.cause = <<p.cause, s>>
  BY DEF Child, GenerateMessageID
<1>2. other.id = <<q.id, q.receiver, y, Before(q.command, t - 1, y)>> /\ other.cause = <<q.cause, t>>
  BY DEF Child, GenerateMessageID
<1>3. p.id = q.id \/ p.cause = q.cause
  BY <1>1, <1>2
<1>4. p = q
  BY <1>3 DEF OneMeaning
<1>5. /\ p.command \in DOMAIN Scripts
      /\ s \in DOMAIN Scripts[p.command] /\ t \in DOMAIN Scripts[p.command]
  BY <1>4 DEF Child
<1>6. s \in Nat /\ t \in Nat
  BY <1>5, NextNumber
<1>7. s = t
  <2>1. CASE meta.cause = other.cause
    BY <1>1, <1>2, <2>1
  <2>2. CASE meta.id = other.id
    <3>1. x = y /\ Before(p.command, s - 1, x) = Before(q.command, t - 1, y)
      BY <1>1, <1>2, <2>2
    <3>2. ~ s < t /\ ~ t < s
      BY <1>4, <1>5, <3>1, NumbersDiffer
    <3> QED
      BY <1>6, <3>2
  <2> QED
    BY <2>1, <2>2
<1> QED
  BY <1>4, <1>7 DEF Child

LEMMA TimerShape ==
  ASSUME NEW meta \in TimerMetadata
  PROVE  /\ Len(meta.id) = 4 /\ Len(meta.cause) = 3
         /\ \E a \in Actors : \E timer \in Timers[a] :
              /\ meta.id = <<timer[1], a, a, timer[2]>>
              /\ meta.cause = <<a, timer[1], timer[2]>>
              /\ meta = Metadata(TimerMessage(a, timer))
              /\ timer = <<timer[1], timer[2]>>
              /\ Len(timer[1]) # 4
              /\ \A root \in RootMetadata : root.id # timer[1]
<1>1. PICK a \in Actors : \E timer \in Timers[a] : meta = Metadata(TimerMessage(a, timer))
  BY DEF TimerMetadata
<1>2. PICK timer \in Timers[a] : meta = Metadata(TimerMessage(a, timer))
  BY <1>1
<1>3. meta.id = <<timer[1], a, a, timer[2]>> /\ meta.cause = <<a, timer[1], timer[2]>>
  BY <1>2 DEF Metadata, TimerMessage, GenerateMessageID
<1> QED
  BY <1>2, <1>3, RootsAssumption

(* A root, a timer's message and a handler's have different identifiers    *)
(* and causes; so do two roots, and two timers.                            *)
LEMMA RootIsNoOther ==
  ASSUME NEW meta \in RootMetadata, NEW other,
         other \in RootMetadata \/ other \in TimerMetadata \/ \E p, s : Child(other, p, s),
         meta.id = other.id \/ meta.cause = other.cause
  PROVE  meta = other
<1>1. Len(meta.id) # 4 /\ Len(meta.cause) = 1
  BY RootsAssumption
<1>2. CASE other \in RootMetadata
  BY <1>2, RootsAssumption
<1>3. ASSUME other \in TimerMetadata
      PROVE  Len(other.id) = 4 /\ Len(other.cause) = 3
  BY <1>3, TimerShape
<1>4. ASSUME NEW p, NEW s, Child(other, p, s)
      PROVE  Len(other.id) = 4 /\ Len(other.cause) = 2
  BY <1>4, ChildShape
<1> QED
  BY <1>1, <1>2, <1>3, <1>4

LEMMA OneTimer ==
  ASSUME NEW meta \in TimerMetadata, NEW other \in TimerMetadata,
         meta.id = other.id \/ meta.cause = other.cause
  PROVE  meta = other
<1>1. PICK a \in Actors : \E timer \in Timers[a] :
           /\ meta.id = <<timer[1], a, a, timer[2]>>
           /\ meta.cause = <<a, timer[1], timer[2]>>
           /\ meta = Metadata(TimerMessage(a, timer))
           /\ timer = <<timer[1], timer[2]>>
  BY TimerShape
<1>2. PICK timer \in Timers[a] :
           /\ meta.id = <<timer[1], a, a, timer[2]>>
           /\ meta.cause = <<a, timer[1], timer[2]>>
           /\ meta = Metadata(TimerMessage(a, timer))
           /\ timer = <<timer[1], timer[2]>>
  BY <1>1
<1>3. PICK b \in Actors : \E alarm \in Timers[b] :
           /\ other.id = <<alarm[1], b, b, alarm[2]>>
           /\ other.cause = <<b, alarm[1], alarm[2]>>
           /\ other = Metadata(TimerMessage(b, alarm))
           /\ alarm = <<alarm[1], alarm[2]>>
  BY TimerShape
<1>4. PICK alarm \in Timers[b] :
           /\ other.id = <<alarm[1], b, b, alarm[2]>>
           /\ other.cause = <<b, alarm[1], alarm[2]>>
           /\ other = Metadata(TimerMessage(b, alarm))
           /\ alarm = <<alarm[1], alarm[2]>>
  BY <1>3
<1>5. a = b /\ timer[1] = alarm[1] /\ timer[2] = alarm[2]
  BY <1>2, <1>4
<1> QED
  BY <1>2, <1>4, <1>5

LEMMA TimerIsNoChild ==
  ASSUME NEW l, Traced(l), NEW meta \in TimerMetadata,
         NEW p \in Origins(l), NEW s, NEW other, Child(other, p, s)
  PROVE  meta.id # other.id /\ meta.cause # other.cause
<1> DEFINE key == meta.id[1]
<1>1. /\ Len(key) # 4
      /\ \A root \in RootMetadata : root.id # key
      /\ Len(meta.cause) = 3
  <2>1. PICK a \in Actors : \E timer \in Timers[a] :
              /\ meta.id = <<timer[1], a, a, timer[2]>>
              /\ Len(timer[1]) # 4
              /\ \A root \in RootMetadata : root.id # timer[1]
    BY TimerShape
  <2>2. PICK timer \in Timers[a] :
              /\ meta.id = <<timer[1], a, a, timer[2]>>
              /\ Len(timer[1]) # 4
              /\ \A root \in RootMetadata : root.id # timer[1]
    BY <2>1
  <2>3. key = timer[1]
    BY <2>2
  <2> QED
    BY <2>2, <2>3, TimerShape
<1>2. Len(other.cause) = 2
  BY ChildShape
<1>3. p.id # key
  <2>1. CASE p \in RootMetadata
    BY <1>1, <2>1
  <2>2. CASE p \in TimerMetadata
    BY <1>1, <2>2, TimerShape
  <2>3. CASE IsChild(l, p)
    BY <1>1, <2>3, ChildShape DEF IsChild
  <2> QED
    BY <2>1, <2>2, <2>3 DEF Traced
<1>4. other.id[1] = p.id
  BY DEF Child, GenerateMessageID
<1> QED
  BY <1>1, <1>2, <1>3, <1>4

-----------------------------------------------------------------------------
(* The log: it only grows, and every record in it that can be handled has  *)
(* its origin.                                                             *)

LEMMA HasOrigin ==
  ASSUME NEW l, NEW p \in Partitions, NEW i \in DOMAIN l[p], Decodable(l[p][i])
  PROVE  l[p][i].framework[1] \in Origins(l)
<1>1. i \in {j \in DOMAIN l[p] : Decodable(l[p][j])}
  OBVIOUS
<1>2. l[p][i].framework[1] \in Logged(l[p])
  BY <1>1 DEF Logged
<1>3. l[p][i].framework[1] \in AllLogged(l)
  BY <1>2 DEF AllLogged
<1> QED
  BY <1>3 DEF Origins

LEMMA TimerHasOrigin ==
  ASSUME NEW l, NEW a \in Actors, NEW timer \in Timers[a]
  PROVE  /\ Metadata(TimerMessage(a, timer)) \in TimerMetadata
         /\ Metadata(TimerMessage(a, timer)) \in Origins(l)
<1>1. Metadata(TimerMessage(a, timer)) \in {Metadata(TimerMessage(a, alarm)) : alarm \in Timers[a]}
  OBVIOUS
<1>2. Metadata(TimerMessage(a, timer)) \in TimerMetadata
  BY <1>1 DEF TimerMetadata
<1> QED
  BY <1>2 DEF Origins

LEMMA OriginCases ==
  ASSUME NEW l, NEW meta \in Origins(l)
  PROVE  \/ meta \in TimerMetadata
         \/ \E p \in Partitions : \E i \in DOMAIN l[p] :
              Decodable(l[p][i]) /\ meta = l[p][i].framework[1]
<1>1. CASE meta \in TimerMetadata
  BY <1>1
<1>2. CASE meta \in AllLogged(l)
  <2>1. PICK p \in Partitions : meta \in Logged(l[p])
    BY <1>2 DEF AllLogged
  <2>2. \E i \in DOMAIN l[p] : Decodable(l[p][i]) /\ meta = l[p][i].framework[1]
    BY <2>1 DEF Logged
  <2> QED
    BY <2>2
<1> QED
  BY <1>1, <1>2 DEF Origins

LEMMA NewOrigin ==
  ASSUME NEW l, Traced(l), OneMeaning(l),
         NEW parent \in Origins(l), NEW s, NEW meta, Child(meta, parent, s),
         NEW k, Origins(k) = Origins(l) \union {meta}
  PROVE  Traced(k) /\ OneMeaning(k)
<1>1. IsChild(k, meta)
  BY ChildShape DEF IsChild
<1>2. Traced(k)
  <2>1. ASSUME NEW other \in Origins(l), IsChild(l, other)
        PROVE  IsChild(k, other)
    BY <2>1 DEF IsChild
  <2> QED
    BY <1>1, <2>1 DEF Traced
<1>3. ASSUME NEW other \in Origins(l), meta.id = other.id \/ meta.cause = other.cause
      PROVE  meta = other
  <2>1. CASE other \in RootMetadata
    BY <1>3, <2>1, RootIsNoOther
  <2>2. CASE other \in TimerMetadata
    BY <1>3, <2>2, TimerIsNoChild
  <2>3. CASE IsChild(l, other)
    <3>1. PICK q \in Origins(l) : \E t \in Steps(q) : Child(other, q, t)
      BY <2>3 DEF IsChild
    <3>2. PICK t \in Steps(q) : Child(other, q, t)
      BY <3>1
    <3> QED
      BY <1>3, <3>2, OneParent
  <2> QED
    BY <2>1, <2>2, <2>3 DEF Traced
<1>4. OneMeaning(k)
  BY <1>3 DEF OneMeaning
<1> QED
  BY <1>2, <1>4

LEMMA NoOtherOrigin ==
  ASSUME NEW l, NEW k, NEW r,
         \A q \in Partitions : \A i \in DOMAIN k[q] :
           (i \in DOMAIN l[q] /\ k[q][i] = l[q][i]) \/ k[q][i] = r
  PROVE  Origins(k) \subseteq Origins(l) \union {r.framework[1]}
<1> SUFFICES ASSUME NEW meta \in Origins(k)
             PROVE  meta \in Origins(l) \union {r.framework[1]}
  OBVIOUS
<1>1. CASE meta \in TimerMetadata
  BY <1>1 DEF Origins
<1>2. ASSUME NEW q \in Partitions, NEW i \in DOMAIN k[q],
             Decodable(k[q][i]), meta = k[q][i].framework[1]
      PROVE  meta \in Origins(l) \union {r.framework[1]}
  BY <1>2, HasOrigin
<1> QED
  BY <1>1, <1>2, OriginCases

Stored(l, p, r, k) == k = [l EXCEPT ![p] = Append(@, r)]

LEMMA LogGrows ==
  ASSUME NEW l, LogOK(l), NEW p \in Partitions, NEW r, RecordOK(r), Decodable(r),
         NEW k, Stored(l, p, r, k)
  PROVE  /\ LogOK(k)
         /\ \A q \in Partitions :
              /\ Len(l[q]) \in Nat /\ Len(k[q]) \in Nat /\ Len(l[q]) <= Len(k[q])
              /\ DOMAIN l[q] \subseteq DOMAIN k[q]
              /\ \A i \in DOMAIN l[q] : k[q][i] = l[q][i]
         /\ Origins(k) = Origins(l) \union {r.framework[1]}
<1>1. \A q \in Partitions : /\ IsSequence(l[q])
                            /\ Len(l[q]) \in Nat
                            /\ DOMAIN l[q] = 1 .. Len(l[q])
  BY SequenceIndex DEF LogOK
<1>2. k[p] = Append(l[p], r) /\ (\A q \in Partitions : q # p => k[q] = l[q])
  BY DEF LogOK, Stored
<1>3. /\ IsSequence(k[p]) /\ Len(k[p]) = Len(l[p]) + 1
      /\ \A i \in 1 .. Len(l[p]) : k[p][i] = l[p][i]
      /\ k[p][Len(l[p]) + 1] = r
      /\ Range(k[p]) = Range(l[p]) \union {r}
  BY <1>1, <1>2, AppendIsSequence
<1>4. DOMAIN k[p] = 1 .. Len(l[p]) + 1
  BY <1>3, SequenceIndex
<1>5. k = [q \in Partitions |-> k[q]]
  BY DEF LogOK, Stored
<1>6. LogOK(k)
  BY <1>1, <1>2, <1>3, <1>5 DEF LogOK
<1>7. ASSUME NEW q \in Partitions
      PROVE  /\ Len(l[q]) \in Nat /\ Len(k[q]) \in Nat /\ Len(l[q]) <= Len(k[q])
             /\ DOMAIN l[q] \subseteq DOMAIN k[q]
             /\ \A i \in DOMAIN l[q] : k[q][i] = l[q][i]
  <2>1. CASE q = p
    BY <1>1, <1>3, <1>4, <2>1
  <2>2. CASE q # p
    BY <1>1, <1>2, <2>2
  <2> QED
    BY <2>1, <2>2
<1>8. ASSUME NEW meta \in Origins(l)
      PROVE  meta \in Origins(k)
  <2>1. CASE meta \in TimerMetadata
    BY <2>1 DEF Origins
  <2>2. ASSUME NEW q \in Partitions, NEW i \in DOMAIN l[q],
               Decodable(l[q][i]), meta = l[q][i].framework[1]
        PROVE  meta \in Origins(k)
    <3>1. i \in DOMAIN k[q] /\ k[q][i] = l[q][i]
      BY <1>7
    <3> QED
      BY <2>2, <3>1, HasOrigin
  <2> QED
    BY <2>1, <2>2, OriginCases
<1>9. r.framework[1] \in Origins(k)
  <2>1. Len(l[p]) + 1 \in DOMAIN k[p] /\ k[p][Len(l[p]) + 1] = r
    BY <1>1, <1>3, <1>4
  <2> QED
    BY <2>1, HasOrigin
<1>10. ASSUME NEW q \in Partitions, NEW i \in DOMAIN k[q]
       PROVE  (i \in DOMAIN l[q] /\ k[q][i] = l[q][i]) \/ k[q][i] = r
  <2>1. CASE i \in DOMAIN l[q]
    BY <1>7, <2>1
  <2>2. CASE i \notin DOMAIN l[q]
    <3>1. q = p
      BY <1>2, <2>2
    <3>2. i = Len(l[p]) + 1
      BY <1>1, <1>4, <2>2, <3>1
    <3> QED
      BY <1>3, <3>1, <3>2
  <2> QED
    BY <2>1, <2>2
<1>11. Origins(k) \subseteq Origins(l) \union {r.framework[1]}
  BY <1>10, NoOtherOrigin
<1> QED
  BY <1>6, <1>7, <1>8, <1>9, <1>11

(* What grows leaves an actor as it was, and the dead letters.             *)
LEMMA ActorStays ==
  ASSUME NEW l, NEW k, NEW a \in Actors, NEW x, ActorInv(l, a, x),
         LET p == ShardOf[a]
         IN  /\ Len(l[p]) \in Nat /\ Len(k[p]) \in Nat /\ Len(l[p]) <= Len(k[p])
             /\ DOMAIN l[p] \subseteq DOMAIN k[p]
             /\ \A i \in DOMAIN l[p] : k[p][i] = l[p][i],
         Origins(l) \subseteq Origins(k)
  PROVE  ActorInv(k, a, x)
<1>1. x.next \in 1 .. Len(k[ShardOf[a]]) + 1
  BY DEF ActorInv
<1>2. HandlingOK(k, a, x)
  <2>1. ASSUME NEW m, IsRead(l, a, x, m)
        PROVE  IsRead(k, a, x, m)
    BY <2>1 DEF IsRead
  <2> QED
    BY <2>1 DEF HandlingOK, ActorInv
<1>3. SeenIsHandled(k, x)
  BY DEF SeenIsHandled, ActorInv
<1> QED
  BY <1>1, <1>2, <1>3 DEF ActorInv

LEMMA DeadStay ==
  ASSUME NEW l, NEW k, NEW d, DeadOK(l, d),
         \A p \in Partitions : /\ DOMAIN l[p] \subseteq DOMAIN k[p]
                               /\ \A i \in DOMAIN l[p] : k[p][i] = l[p][i]
  PROVE  DeadOK(k, d)
  BY DEF DeadOK

-----------------------------------------------------------------------------
(* What an actor handles.                                                  *)

LEMMA RecordAt ==
  ASSUME NEW l, LogOK(l), NEW p \in Partitions, NEW i \in DOMAIN l[p]
  PROVE  /\ i \in 1 .. Len(l[p]) /\ Len(l[p]) \in Nat
         /\ RecordOK(l[p][i])
<1>1. IsSequence(l[p])
  BY DEF LogOK
<1>2. i \in 1 .. Len(l[p]) /\ l[p][i] \in Range(l[p]) /\ Len(l[p]) \in Nat
  BY <1>1, SequenceIndex
<1> QED
  BY <1>2 DEF LogOK

(* A record is decoded, encoded again and is the same.                     *)
LEMMA SameAgain ==
  ASSUME NEW r, RecordOK(r), Decodable(r), NEW i
  PROVE  LET m == Decoded(r, r.headers, i)
         IN  Metadata(m) = r.framework[1] /\ FromMMMessage(m) = {r}
<1> DEFINE m == Decoded(r, r.headers, i)
           meta == r.framework[1]
<1>1. /\ IsSequence(r.framework) /\ Len(r.framework) = 1
      /\ meta \in Range(r.framework)
  BY SequenceIndex DEF RecordOK, Decodable
<1>2. meta = [receiver |-> meta.receiver, type |-> meta.type, id |-> meta.id,
              command |-> meta.command, cause |-> meta.cause]
  BY <1>1 DEF RecordOK, MetadataOK
<1>3. Metadata(m) = meta
  BY <1>2 DEF Metadata, Decoded
<1>4. r.framework = <<meta>>
  BY <1>1 DEF IsSequence
<1>5. /\ m.receiver = r.key /\ m.headers = r.headers
      /\ m.payload = [bytes |-> TRUE, of |-> r.value]
  BY DEF Decoded, Decodable
<1>6. Value(m.payload) = r.value
  BY <1>5 DEF Value
<1>7. ValidMetadata(Metadata(m)) /\ Reserved \notin Range(m.headers)
  BY <1>3, <1>5 DEF Decodable, RecordOK
<1>8. [key |-> m.receiver, framework |-> <<Metadata(m)>>,
       headers |-> m.headers, value |-> Value(m.payload)] = r
  BY <1>3, <1>4, <1>5, <1>6 DEF RecordOK
<1> QED
  BY <1>3, <1>7, <1>8 DEF FromMMMessage

LEMMA HandledHasOrigin ==
  ASSUME NEW l, LogOK(l), NEW a \in Actors, NEW x, HandlingOK(l, a, x),
         NEW m \in x.context.handling
  PROVE  Metadata(m) \in Origins(l)
<1>1. CASE IsRead(l, a, x, m)
  <2>1. ShardOf[a] \in Partitions
    BY MessagesAssumption
  <2> DEFINE r == l[ShardOf[a]][m.offset]
  <2>2. RecordOK(r) /\ Decodable(r) /\ m = Decoded(r, r.headers, m.offset)
    BY <1>1, <2>1, RecordAt DEF IsRead
  <2>3. Metadata(m) = r.framework[1]
    BY <2>2, SameAgain
  <2> QED
    BY <1>1, <2>1, <2>2, <2>3, HasOrigin DEF IsRead
<1>2. CASE IsTimer(a, m)
  BY <1>2, TimerHasOrigin DEF IsTimer
<1> QED
  BY <1>1, <1>2 DEF HandlingOK

(* Only a timer's message is at offset 0.                                  *)
LEMMA OffsetTells ==
  ASSUME NEW l, LogOK(l), NEW a \in Actors, NEW x, NEW m
  PROVE  /\ IsRead(l, a, x, m) => m.offset \in Nat \ {0} /\ m.type = "network"
         /\ IsTimer(a, m) => m.offset = 0 /\ m.type = "timer" /\ m.command = "tick" /\ m.receiver = a
<1>1. ShardOf[a] \in Partitions
  BY MessagesAssumption
<1>2. IsTimer(a, m) => m.offset = 0 /\ m.type = "timer" /\ m.command = "tick" /\ m.receiver = a
  BY DEF IsTimer, TimerMessage
<1>3. IsRead(l, a, x, m) => m.offset \in Nat \ {0} /\ m.type = "network"
  BY <1>1, RecordAt DEF IsRead
<1> QED
  BY <1>2, <1>3

-----------------------------------------------------------------------------
(* The steps of an actor, each for the record x that it is.                *)

Agent(n, s, q, f, c, h) ==
  [next |-> n, seen |-> s, sequences |-> q, fired |-> f, context |-> c, handled |-> h]

Work(h, out, s) == [handling |-> h, sending |-> out, step |-> s]

LEMMA AgentFields ==
  ASSUME NEW n, NEW s, NEW q, NEW f, NEW c, NEW h, NEW x, x = Agent(n, s, q, f, c, h)
  PROVE  /\ x.next = n /\ x.seen = s /\ x.sequences = q
         /\ x.fired = f /\ x.context = c /\ x.handled = h
         /\ \A v : [x EXCEPT !.next = v] = Agent(v, s, q, f, c, h)
         /\ \A v : [x EXCEPT !.seen = v] = Agent(n, v, q, f, c, h)
         /\ \A v : [x EXCEPT !.sequences = v] = Agent(n, s, v, f, c, h)
         /\ \A v : [x EXCEPT !.fired = v] = Agent(n, s, q, v, c, h)
         /\ \A v : [x EXCEPT !.context = v] = Agent(n, s, q, f, v, h)
         /\ \A v : [x EXCEPT !.handled = v] = Agent(n, s, q, f, c, v)
  BY DEF Agent

LEMMA WorkFields ==
  ASSUME NEW h, NEW out, NEW s, NEW c, c = Work(h, out, s)
  PROVE  /\ c.handling = h /\ c.sending = out /\ c.step = s
         /\ \A v : [c EXCEPT !.handling = v] = Work(v, out, s)
         /\ \A v : [c EXCEPT !.sending = v] = Work(h, v, s)
         /\ \A v : [c EXCEPT !.step = v] = Work(h, out, v)
  BY DEF Work

LEMMA ActorFields ==
  ASSUME NEW l, NEW a \in Actors, NEW x, ActorInv(l, a, x)
  PROVE  /\ x = Agent(x.next, x.seen, x.sequences, x.fired, x.context, x.handled)
         /\ x.context = Work(x.context.handling, x.context.sending, x.context.step)
         /\ AtMostOne(x.context.handling) /\ AtMostOne(x.context.sending)
         /\ x.context.handling = None <=> x.context = Idle
  BY DEF ActorInv, ActorOK, ContextOK, Agent, Work

(* The same as facts without an equation.                                  *)
IsAgent(x, n, s, q, f, c, h) == x = Agent(n, s, q, f, c, h)

IsWork(c, h, out, s) == c = Work(h, out, s)

LEMMA IsAgentFields ==
  ASSUME NEW n, NEW s, NEW q, NEW f, NEW c, NEW h, NEW x, IsAgent(x, n, s, q, f, c, h)
  PROVE  /\ x.next = n /\ x.seen = s /\ x.sequences = q
         /\ x.fired = f /\ x.context = c /\ x.handled = h
         /\ x = Agent(x.next, x.seen, x.sequences, x.fired, x.context, x.handled)
  BY AgentFields DEF IsAgent

LEMMA IsWorkFields ==
  ASSUME NEW h, NEW out, NEW s, NEW c, IsWork(c, h, out, s)
  PROVE  /\ c.handling = h /\ c.sending = out /\ c.step = s
         /\ c = Work(c.handling, c.sending, c.step)
  BY WorkFields DEF IsWork

LEMMA IdleWork == Idle = Work(None, None, 1)
  BY DEF Idle, Work

(* It goes on reading elsewhere.                                           *)
LEMMA Repositioned ==
  ASSUME NEW l, NEW a \in Actors, NEW x, ActorInv(l, a, x),
         NEW o \in 1 .. Len(l[ShardOf[a]]) + 1
  PROVE  ActorInv(l, a, [x EXCEPT !.next = o])
<1> DEFINE y == [x EXCEPT !.next = o]
<1>1. y = Agent(o, x.seen, x.sequences, x.fired, x.context, x.handled)
  BY ActorFields, AgentFields
<1> HIDE DEF y
<1>2. /\ y.next = o /\ y.seen = x.seen /\ y.sequences = x.sequences
      /\ y.fired = x.fired /\ y.context = x.context /\ y.handled = x.handled
  BY <1>1, AgentFields
<1>3. ActorOK(a, y)
  <2>1. y = Agent(y.next, y.seen, y.sequences, y.fired, y.context, y.handled)
    BY <1>1, <1>2
  <2> QED
    BY <1>2, <2>1 DEF ActorInv, ActorOK, Agent
<1>4. HandlingOK(l, a, y) /\ SendingOK(y) /\ Numbered(y) /\ SeenIsHandled(l, y) /\ Once(y)
  BY <1>2 DEF ActorInv, HandlingOK, IsRead, SendingOK, Numbered, SendsMade, SeenIsHandled, Once
<1>5. ActorInv(l, a, y)
  BY <1>2, <1>3, <1>4 DEF ActorInv
<1> QED
  BY <1>5 DEF y

LEMMA Fired ==
  ASSUME NEW l, NEW a \in Actors, NEW x, ActorInv(l, a, x), NEW timer \in Timers[a]
  PROVE  ActorInv(l, a, [x EXCEPT !.fired = @ \union {timer}])
<1> DEFINE f == x.fired \union {timer}
           y == [x EXCEPT !.fired = f]
<1> HIDE DEF f
<1>1. y = Agent(x.next, x.seen, x.sequences, f, x.context, x.handled)
  BY ActorFields, AgentFields
<1> USE DEF f
<1> HIDE DEF y
<1>2. /\ y.next = x.next /\ y.seen = x.seen /\ y.sequences = x.sequences
      /\ y.fired = x.fired \union {timer} /\ y.context = x.context /\ y.handled = x.handled
  BY <1>1, AgentFields
<1>3. ActorOK(a, y)
  <2>1. y = Agent(y.next, y.seen, y.sequences, y.fired, y.context, y.handled)
    BY <1>1, <1>2
  <2> QED
    BY <1>2, <2>1 DEF ActorInv, ActorOK, Agent
<1>4. HandlingOK(l, a, y) /\ SendingOK(y) /\ Numbered(y) /\ SeenIsHandled(l, y) /\ Once(y)
  BY <1>2 DEF ActorInv, HandlingOK, IsRead, SendingOK, Numbered, SendsMade, SeenIsHandled, Once
<1>5. ActorInv(l, a, y)
  BY <1>2, <1>3, <1>4 DEF ActorInv
<1> QED
  BY <1>5 DEF y

(* A new activation knows nothing.                                         *)
LEMMA NewActorInv ==
  ASSUME NEW l, LogOK(l), NEW a \in Actors, NEW o \in 1 .. Len(l[ShardOf[a]]) + 1
  PROVE  ActorInv(l, a, [NewActor EXCEPT !.next = o])
<1> DEFINE y == [NewActor EXCEPT !.next = o]
<1>1. y = Agent(o, <<>>, NoSequences, {}, Idle, <<>>)
  <2>1. NewActor = Agent(1, <<>>, NoSequences, {}, Idle, <<>>)
    BY DEF NewActor, Agent
  <2> QED
    BY <2>1, AgentFields
<1> HIDE DEF y
<1>2. /\ y.next = o /\ y.seen = <<>> /\ y.sequences = NoSequences
      /\ y.fired = {} /\ y.context = Idle /\ y.handled = <<>>
  BY <1>1, AgentFields
<1>3. Idle.handling = {} /\ Idle.sending = {}
  BY IdleWork, WorkFields DEF None
<1>4. ContextOK(Idle)
  BY <1>3, AtMostSingle, IdleWork, WorkFields DEF ContextOK, None, Work
<1>5. ActorOK(a, y)
  <2>1. NoSequences \in [Actors \union {Empty} -> Nat] /\ 0 <= DedupCapacity
    BY MessagesAssumption DEF NoSequences
  <2>2. y = Agent(y.next, y.seen, y.sequences, y.fired, y.context, y.handled)
    BY <1>1, <1>2
  <2> QED
    BY <1>2, <1>4, <2>1, <2>2, NoneIsSequence DEF ActorOK, Agent
<1>6. HandlingOK(l, a, y) /\ SendingOK(y) /\ Numbered(y)
  BY <1>2, <1>3 DEF HandlingOK, SendingOK, Numbered
<1>7. SeenIsHandled(l, y) /\ Once(y)
  BY <1>2 DEF SeenIsHandled, Once
<1>8. ActorInv(l, a, y)
  BY <1>2, <1>5, <1>6, <1>7 DEF ActorInv
<1> QED
  BY <1>8 DEF y

(* A handler starts.                                                       *)
LEMMA Starts ==
  ASSUME NEW l, NEW a \in Actors, NEW x, ActorInv(l, a, x),
         NEW m, m.receiver = a, m.command \in DOMAIN Scripts,
         IsRead(l, a, x, m) \/ IsTimer(a, m)
  PROVE  ActorInv(l, a, Running(x, m))
<1> DEFINE y == Running(x, m)
           c == Work({m}, None, 1)
<1>1. y = Agent(x.next, x.seen, NoSequences, x.fired, c, x.handled)
  <2> DEFINE h == {m}
  <2> HIDE DEF h
  <2>1. [Idle EXCEPT !.handling = h] = Work(h, None, 1)
    BY IdleWork, WorkFields
  <2> USE DEF h
  <2>2. y = [[x EXCEPT !.context = c] EXCEPT !.sequences = NoSequences]
    BY <2>1 DEF Running, NewSequences
  <2> DEFINE z == [x EXCEPT !.context = c]
  <2> HIDE DEF c
  <2>3. z = Agent(x.next, x.seen, x.sequences, x.fired, c, x.handled)
    BY ActorFields, AgentFields
  <2>4. y = [z EXCEPT !.sequences = NoSequences]
    BY <2>2
  <2> HIDE DEF z, y
  <2> QED
    BY <2>3, <2>4, AgentFields
<1> HIDE DEF y
<1>2. /\ y.next = x.next /\ y.seen = x.seen /\ y.sequences = NoSequences
      /\ y.fired = x.fired /\ y.context = c /\ y.handled = x.handled
  BY <1>1, AgentFields
<1>3. c.handling = {m} /\ c.sending = {} /\ c.step = 1
  BY WorkFields DEF None
<1>4. c = [handling |-> c.handling, sending |-> c.sending, step |-> c.step] /\ c # Idle
  BY <1>3, IdleWork, WorkFields DEF Work, None
<1> HIDE DEF c
<1>5. ContextOK(c)
  BY <1>3, <1>4, AtMostSingle DEF ContextOK, None
<1>6. ActorOK(a, y)
  <2>1. NoSequences \in [Actors \union {Empty} -> Nat]
    BY DEF NoSequences
  <2>2. y = Agent(y.next, y.seen, y.sequences, y.fired, y.context, y.handled)
    BY <1>1, <1>2
  <2> QED
    BY <1>2, <1>5, <2>1, <2>2 DEF ActorInv, ActorOK, Agent
<1>7. 1 \in 1 .. Len(Scripts[m.command]) + 1
  BY MessagesAssumption, SequenceIndex
<1>8. HandlingOK(l, a, y)
  BY <1>2, <1>3, <1>7 DEF HandlingOK, IsRead
<1>9. SendingOK(y)
  BY <1>2, <1>3 DEF SendingOK
<1>10. Numbered(y)
  BY <1>2, <1>3, FirstNumber DEF Numbered, SendsMade, NoSequences, None
<1>11. SeenIsHandled(l, y) /\ Once(y)
  BY <1>2 DEF ActorInv, SeenIsHandled, Once
<1>12. ActorInv(l, a, y)
  BY <1>2, <1>6, <1>8, <1>9, <1>10, <1>11 DEF ActorInv
<1> QED
  BY <1>12 DEF y

(* A handler makes a message.                                              *)
LEMMA Makes ==
  ASSUME NEW l, NEW a \in Actors, NEW x, ActorInv(l, a, x),
         NEW m \in x.context.handling,
         x.context.step <= Len(Scripts[m.command]),
         x.context.sending = None,
         NEW out, Child(Metadata(out), Metadata(m), x.context.step), IsSequence(out.headers),
         NEW q \in [Actors \union {Empty} -> Nat],
         \A w \in Actors \union {Empty} :
           q[w] = IF out.receiver = w THEN x.sequences[w] + 1 ELSE x.sequences[w],
         NEW c, IsWork(c, {m}, {out}, x.context.step),
         NEW y, IsAgent(y, x.next, x.seen, q, x.fired, c, x.handled)
  PROVE  ActorInv(l, a, y)
<1> DEFINE step == x.context.step
           send == Scripts[m.command][step]
<1>2. /\ y.next = x.next /\ y.seen = x.seen /\ y.sequences = q
      /\ y.fired = x.fired /\ y.context = c /\ y.handled = x.handled
  BY IsAgentFields
<1>3. /\ x.context.handling = {m}
      /\ m.receiver = a /\ m.command \in DOMAIN Scripts
      /\ step \in 1 .. Len(Scripts[m.command]) + 1
      /\ IsRead(l, a, x, m) \/ IsTimer(a, m)
  BY OnlyOne, ActorFields DEF ActorInv, HandlingOK
<1>5. c.handling = {m} /\ c.sending = {out} /\ c.step = step
  BY IsWorkFields
<1>6. step \in DOMAIN Scripts[m.command]
  BY <1>3, MessagesAssumption, SequenceIndex
<1>7. /\ out.receiver = send.to /\ send.to \in Actors \union {Empty}
  BY <1>6, <1>3, MessagesAssumption DEF Child, Metadata, Range
<1>8. ContextOK(c)
  <2>1. c = Work(c.handling, c.sending, c.step)
    BY IsWorkFields
  <2>2. c # Idle
    <3>1. Idle.handling = {}
      BY DEF Idle, None
    <3> QED
      BY <1>5, <3>1
  <2>3. AtMostOne(c.handling) /\ AtMostOne(c.sending)
    BY <1>5 DEF AtMostOne
  <2>4. c.handling # {}
    BY <1>5
  <2>5. c = [handling |-> c.handling, sending |-> c.sending, step |-> c.step]
    BY <2>1, Zenon DEF Work
  <2> QED
    BY <2>2, <2>3, <2>4, <2>5, Zenon DEF ContextOK, None
<1>10. ActorOK(a, y)
  <2>1. y = Agent(y.next, y.seen, y.sequences, y.fired, y.context, y.handled)
    BY IsAgentFields
  <2> QED
    BY <1>2, <1>8, <2>1 DEF ActorInv, ActorOK, Agent
<1>11. HandlingOK(l, a, y)
  BY <1>2, <1>3, <1>5 DEF HandlingOK, IsRead
<1>12. SendingOK(y)
  BY <1>2, <1>5 DEF SendingOK
<1>13. Numbered(y)
  <2>1. SendsMade(y) = step /\ SendsMade(x) = step - 1
    BY <1>2, <1>5 DEF SendsMade, None
  <2>2. ASSUME NEW w \in Actors \union {Empty}
        PROVE  q[w] = Before(m.command, step, w)
    <3>1. x.sequences[w] = Before(m.command, step - 1, w)
      BY <2>1 DEF ActorInv, Numbered
    <3>2. q[w] = IF send.to = w THEN x.sequences[w] + 1 ELSE x.sequences[w]
      BY <1>7
    <3> QED
      BY <1>3, <1>6, <3>1, <3>2, NextNumber
  <2> QED
    BY <1>2, <1>5, <2>1, <2>2 DEF Numbered
<1>14. SeenIsHandled(l, y) /\ Once(y)
  BY <1>2 DEF ActorInv, SeenIsHandled, Once
<1>15. y.next \in 1 .. Len(l[ShardOf[a]]) + 1
  BY <1>2 DEF ActorInv
<1> QED
  BY <1>10, <1>11, <1>12, <1>13, <1>14, <1>15 DEF ActorInv

(* It has published it.                                                    *)
LEMMA Sent ==
  ASSUME NEW l, NEW a \in Actors, NEW x, ActorInv(l, a, x),
         NEW m \in x.context.handling, NEW out \in x.context.sending,
         NEW c, IsWork(c, {m}, None, x.context.step + 1),
         NEW y, IsAgent(y, x.next, x.seen, x.sequences, x.fired, c, x.handled)
  PROVE  ActorInv(l, a, y)
<1> DEFINE step == x.context.step
<1>2. /\ y.next = x.next /\ y.seen = x.seen /\ y.sequences = x.sequences
      /\ y.fired = x.fired /\ y.context = c /\ y.handled = x.handled
  BY IsAgentFields
<1>3. /\ x.context.handling = {m} /\ x.context.sending # None
      /\ m.receiver = a /\ m.command \in DOMAIN Scripts
      /\ IsRead(l, a, x, m) \/ IsTimer(a, m)
  BY OnlyOne, ActorFields DEF ActorInv, HandlingOK, None
<1>5. c.handling = {m} /\ c.sending = {} /\ c.step = step + 1
  BY IsWorkFields DEF None
<1>6. /\ step \in DOMAIN Scripts[m.command]
      /\ step \in 1 .. Len(Scripts[m.command])
  <2>1. Metadata(m).command = m.command
    BY DEF Metadata
  <2>2. step \in DOMAIN Scripts[m.command]
    BY <2>1 DEF ActorInv, SendingOK, Child
  <2> QED
    BY <1>3, <2>2, MessagesAssumption, SequenceIndex
<1>7. ContextOK(c)
  <2>1. c = Work(c.handling, c.sending, c.step)
    BY IsWorkFields
  <2>2. c # Idle
    <3>1. Idle.handling = {}
      BY DEF Idle, None
    <3> QED
      BY <1>5, <3>1
  <2> QED
    BY <1>5, <2>1, <2>2, AtMostSingle DEF ContextOK, Work, None
<1>8. ActorOK(a, y)
  <2>1. y = Agent(y.next, y.seen, y.sequences, y.fired, y.context, y.handled)
    BY IsAgentFields
  <2> QED
    BY <1>2, <1>7, <2>1 DEF ActorInv, ActorOK, Agent
<1>9. HandlingOK(l, a, y)
  <2>1. step + 1 \in 1 .. Len(Scripts[m.command]) + 1
    BY <1>3, <1>6, MessagesAssumption, SequenceIndex
  <2> QED
    BY <1>2, <1>3, <1>5, <2>1 DEF HandlingOK, IsRead
<1>10. SendingOK(y)
  BY <1>2, <1>5 DEF SendingOK
<1>11. Numbered(y)
  <2>1. SendsMade(x) = step /\ SendsMade(y) = step
    BY <1>2, <1>3, <1>5, <1>6 DEF SendsMade, None
  <2> QED
    BY <1>2, <1>5, <2>1 DEF ActorInv, Numbered
<1>12. SeenIsHandled(l, y) /\ Once(y)
  BY <1>2 DEF ActorInv, SeenIsHandled, Once
<1>13. y.next \in 1 .. Len(l[ShardOf[a]]) + 1
  BY <1>2 DEF ActorInv
<1> QED
  BY <1>8, <1>9, <1>10, <1>11, <1>12, <1>13 DEF ActorInv

(* It is idle again, and remembers nothing new.                            *)
LEMMA Rests ==
  ASSUME NEW l, NEW a \in Actors, NEW x, ActorInv(l, a, x),
         NEW y, IsAgent(y, x.next, x.seen, x.sequences, x.fired, Idle, x.handled)
  PROVE  ActorInv(l, a, y)
<1>1. /\ y.next = x.next /\ y.seen = x.seen /\ y.sequences = x.sequences
      /\ y.fired = x.fired /\ y.context = Idle /\ y.handled = x.handled
      /\ y = Agent(y.next, y.seen, y.sequences, y.fired, y.context, y.handled)
  BY IsAgentFields
<1>2. Idle.handling = {} /\ Idle.sending = {} /\ ContextOK(Idle)
  BY AtMostSingle, IdleWork, WorkFields DEF ContextOK, None, Work
<1>3. ActorOK(a, y)
  BY <1>1, <1>2 DEF ActorInv, ActorOK, Agent
<1>4. HandlingOK(l, a, y) /\ SendingOK(y) /\ Numbered(y)
  BY <1>1, <1>2 DEF HandlingOK, SendingOK, Numbered
<1>5. SeenIsHandled(l, y) /\ Once(y) /\ y.next \in 1 .. Len(l[ShardOf[a]]) + 1
  BY <1>1 DEF ActorInv, SeenIsHandled, Once
<1> QED
  BY <1>3, <1>4, <1>5 DEF ActorInv

(* The ring takes the identifier of what was handled.                      *)
IsLatest(t, s, id) == t = Latest(Append(s, id))

IsLonger(g, h, c) == g = Append(h, c)

LEMMA LongerBy ==
  ASSUME NEW h, IsSequence(h), NEW c, NEW g, IsLonger(g, h, c)
  PROVE  /\ IsSequence(g) /\ Len(g) = Len(h) + 1 /\ DOMAIN g = 1 .. Len(h) + 1
         /\ \A i \in 1 .. Len(h) : g[i] = h[i]
         /\ g[Len(h) + 1] = c
  BY AppendIsSequence, SequenceIndex DEF IsLonger

LEMMA RingTakes ==
  ASSUME NEW s, IsSequence(s), Len(s) <= DedupCapacity, NEW id, NEW t, IsLatest(t, s, id)
  PROVE  /\ IsSequence(t) /\ Len(t) \in 1 .. DedupCapacity /\ t[Len(t)] = id
         /\ \E k \in {0, 1} :
              /\ Len(t) = Len(s) + 1 - k
              /\ Len(s) < DedupCapacity => k = 0
              /\ \A j \in 1 .. Len(t) - 1 : j + k \in 1 .. Len(s) /\ t[j] = s[j + k]
<1> DEFINE u == Append(s, id)
<1>1. /\ IsSequence(u) /\ Len(u) = Len(s) + 1 /\ Len(s) \in Nat
      /\ \A i \in 1 .. Len(s) : u[i] = s[i]
      /\ u[Len(s) + 1] = id
  BY AppendIsSequence, SequenceIndex
<1>2. DedupCapacity \in Nat \ {0}
  BY MessagesAssumption
<1>3. t = Latest(u)
  BY DEF IsLatest
<1> HIDE DEF u
<1>4. CASE Len(u) > DedupCapacity
  <2>1. /\ IsSequence(Tail(u)) /\ Len(Tail(u)) = Len(s)
        /\ \A i \in 1 .. Len(s) : Tail(u)[i] = u[i + 1]
    BY <1>1, TailIsSequence
  <2>2. Len(s) = DedupCapacity
    BY <1>1, <1>2, <1>4
  <2>3. t = Tail(u)
    BY <1>3, <1>4 DEF Latest
  <2>4. IsSequence(t) /\ Len(t) = Len(s) /\ \A i \in 1 .. Len(s) : t[i] = u[i + 1]
    BY <2>1, <2>3
  <2>5. t[Len(t)] = id
    BY <1>1, <1>2, <2>2, <2>4
  <2>6. \A j \in 1 .. Len(t) - 1 : j + 1 \in 1 .. Len(s) /\ t[j] = s[j + 1]
    BY <1>1, <1>2, <2>4
  <2> QED
    BY <1>1, <1>2, <2>2, <2>4, <2>5, <2>6
<1>5. CASE ~ Len(u) > DedupCapacity
  <2>1. t = u
    BY <1>3, <1>5 DEF Latest
  <2>2. IsSequence(t) /\ Len(t) = Len(s) + 1 /\ t[Len(t)] = id
    BY <1>1, <2>1
  <2>3. \A j \in 1 .. Len(t) - 1 : j + 0 \in 1 .. Len(s) /\ t[j] = s[j + 0]
    BY <1>1, <2>1, <2>2
  <2>4. Len(t) <= DedupCapacity
    BY <1>1, <1>2, <1>5, <2>2
  <2> QED
    BY <1>1, <1>2, <2>2, <2>3, <2>4
<1> QED
  BY <1>4, <1>5

LEMMA Remembers ==
  ASSUME NEW l, LogOK(l), OneMeaning(l), NEW a \in Actors, NEW x, ActorInv(l, a, x),
         NEW m \in x.context.handling, IsRead(l, a, x, m),
         NEW t, IsLatest(t, x.seen, m.id),
         NEW g, IsLonger(g, x.handled, m.cause),
         NEW y, IsAgent(y, x.next, t, x.sequences, x.fired, Idle, g)
  PROVE  ActorInv(l, a, y)
<1> DEFINE s == x.seen
           h == x.handled
           n == Len(h)
           meta == Metadata(m)
<1>1. /\ y.next = x.next /\ y.seen = t /\ y.sequences = x.sequences
      /\ y.fired = x.fired /\ y.context = Idle /\ y.handled = g
      /\ y = Agent(y.next, y.seen, y.sequences, y.fired, y.context, y.handled)
  BY IsAgentFields
<1>2. Idle.handling = {} /\ Idle.sending = {} /\ ContextOK(Idle)
  BY AtMostSingle, IdleWork, WorkFields DEF ContextOK, None, Work
<1>3. /\ IsSequence(s) /\ IsSequence(h) /\ Len(s) <= DedupCapacity
      /\ Len(s) \in Nat /\ n \in Nat /\ DOMAIN s = 1 .. Len(s) /\ DOMAIN h = 1 .. n
      /\ DedupCapacity \in Nat \ {0}
  BY SequenceIndex, MessagesAssumption DEF ActorInv, ActorOK
<1>4. /\ IsSequence(g) /\ Len(g) = n + 1 /\ DOMAIN g = 1 .. n + 1
      /\ \A i \in 1 .. n : g[i] = h[i]
      /\ g[n + 1] = m.cause
  BY <1>3, LongerBy
<1>12. PICK k \in {0, 1} :
        /\ Len(t) = Len(s) + 1 - k
        /\ Len(s) < DedupCapacity => k = 0
        /\ \A j \in 1 .. Len(t) - 1 : j + k \in 1 .. Len(s) /\ t[j] = s[j + k]
  BY <1>3, RingTakes
<1>5. /\ IsSequence(t) /\ Len(t) \in 1 .. DedupCapacity /\ DOMAIN t = 1 .. Len(t)
      /\ t[Len(t)] = m.id
  BY <1>3, RingTakes, SequenceIndex
<1>6. \A j \in 1 .. Len(s) : \E other \in Origins(l) :
        s[j] = other.id /\ h[n - Len(s) + j] = other.cause
  BY <1>3 DEF ActorInv, SeenIsHandled
<1>13. Len(s) <= n /\ (Len(s) < DedupCapacity => Len(s) = n)
  BY <1>3 DEF ActorInv, SeenIsHandled
<1>14. Len(s) \in Nat /\ n \in Nat /\ DedupCapacity \in Nat
  BY <1>3
<1>7. meta \in Origins(l) /\ meta.id = m.id /\ meta.cause = m.cause
  BY HandledHasOrigin DEF ActorInv, Metadata
<1> HIDE DEF n, s, h, meta
<1>8. ActorOK(a, y)
  BY <1>1, <1>2, <1>4, <1>5 DEF ActorInv, ActorOK, Agent
<1>9. HandlingOK(l, a, y) /\ SendingOK(y) /\ Numbered(y)
  BY <1>1, <1>2 DEF HandlingOK, SendingOK, Numbered
<1>10. SeenIsHandled(l, y)
  <2>1. Len(t) <= n + 1 /\ (Len(t) < DedupCapacity => Len(t) = n + 1)
    BY <1>5, <1>12, <1>13, <1>14
  <2>2. ASSUME NEW j \in 1 .. Len(t)
        PROVE  \E other \in Origins(l) : t[j] = other.id /\ g[n + 1 - Len(t) + j] = other.cause
    <3>1. CASE j = Len(t)
      <4>1. n + 1 - Len(t) + j = n + 1
        BY <1>14, <1>5, <3>1
      <4> QED
        BY <1>4, <1>5, <1>7, <3>1, <4>1
    <3>2. CASE j # Len(t)
      <4>1. j + k \in 1 .. Len(s) /\ t[j] = s[j + k]
        BY <1>5, <1>12, <3>2
      <4>2. PICK other \in Origins(l) : s[j + k] = other.id /\ h[n - Len(s) + (j + k)] = other.cause
        BY <1>6, <4>1
      <4>3. n + 1 - Len(t) + j = n - Len(s) + (j + k)
        BY <1>14, <1>5, <1>12
      <4>4. n - Len(s) + (j + k) \in 1 .. n
        BY <1>13, <1>14, <4>1
      <4> QED
        BY <1>4, <4>1, <4>2, <4>3, <4>4
    <3> QED
      BY <3>1, <3>2
  <2> QED
    <3>1. Len(y.seen) = Len(t) /\ Len(y.handled) = n + 1 /\ DOMAIN y.seen = 1 .. Len(t)
      BY <1>1, <1>4, <1>5
    <3>2. ASSUME NEW j \in DOMAIN y.seen
          PROVE  \E other \in Origins(l) :
                   /\ y.seen[j] = other.id
                   /\ y.handled[Len(y.handled) - Len(y.seen) + j] = other.cause
      <4>1. j \in 1 .. Len(t)
        BY <3>1
      <4>2. PICK other \in Origins(l) : t[j] = other.id /\ g[n + 1 - Len(t) + j] = other.cause
        BY <2>2, <4>1
      <4>3. Len(y.handled) - Len(y.seen) + j = n + 1 - Len(t) + j
        BY <1>5, <1>14, <3>1, <4>1
      <4>4. y.seen[j] = t[j] /\ y.handled[Len(y.handled) - Len(y.seen) + j] = g[n + 1 - Len(t) + j]
        BY <1>1, <4>3
      <4> QED
        BY <4>2, <4>4
    <3> QED
      BY <2>1, <3>1, <3>2 DEF SeenIsHandled
<1>11. Once(y)
  <2>1. ASSUME NEW i \in 1 .. n, h[i] = m.cause
        PROVE  n + 1 - i > DedupCapacity
    <3>1. SUFFICES ASSUME n + 1 - i <= DedupCapacity
                   PROVE  FALSE
      BY <1>14
    <3> DEFINE j == i - (n - Len(s))
    <3>2. j \in 1 .. Len(s) /\ n - Len(s) + j = i
      BY <1>13, <1>14, <3>1
    <3>3. PICK other \in Origins(l) : s[j] = other.id /\ h[n - Len(s) + j] = other.cause
      BY <1>6, <3>2
    <3>4. other = meta
      BY <1>7, <2>1, <3>2, <3>3 DEF OneMeaning
    <3>5. m.id \in Range(s)
      BY <1>3, <1>7, <3>2, <3>3, <3>4, SequenceIndex
    <3> QED
      BY <3>5 DEF IsRead, s
  <2>2. ASSUME NEW i \in 1 .. n + 1, NEW j \in 1 .. n + 1, i < j, g[i] = g[j]
        PROVE  j - i > DedupCapacity
    <3>1. i \in 1 .. n /\ g[i] = h[i]
      BY <1>14, <1>4, <2>2
    <3>2. CASE j = n + 1
      <4>1. h[i] = m.cause
        BY <1>4, <2>2, <3>1, <3>2
      <4>2. n + 1 - i > DedupCapacity
        BY <2>1, <3>1, <4>1
      <4> QED
        BY <1>14, <3>1, <3>2, <4>2
    <3>3. CASE j # n + 1
      <4>1. j \in 1 .. n /\ h[i] = h[j]
        <5>1. j \in 1 .. n
          BY <1>14, <2>2, <3>3
        <5> QED
          BY <1>4, <2>2, <3>1, <5>1
      <4> QED
        <5>1. i \in DOMAIN x.handled /\ j \in DOMAIN x.handled /\ x.handled[i] = x.handled[j]
          BY <1>3, <3>1, <4>1 DEF h
        <5>2. Once(x) /\ i \in Nat /\ j \in Nat
          BY <1>14, <2>2 DEF ActorInv
        <5> QED
          BY <2>2, <5>1, <5>2 DEF Once
    <3> QED
      BY <3>2, <3>3
  <2> QED
    BY <1>1, <1>4, <2>2 DEF Once
<1> QED
  BY <1>1, <1>8, <1>9, <1>10, <1>11 DEF ActorInv

(* The records that the actions write, as agents.                          *)
LEMMA AsMade ==
  ASSUME NEW x, x = Agent(x.next, x.seen, x.sequences, x.fired, x.context, x.handled),
         x.context = Work(x.context.handling, x.context.sending, x.context.step),
         NEW to, NEW out
  PROVE  \E q, c :
           /\ q = [x.sequences EXCEPT ![to] = @ + 1]
           /\ IsWork(c, x.context.handling, {out}, x.context.step)
           /\ IsAgent([x EXCEPT !.sequences[to] = @ + 1, !.context.sending = {out}],
                      x.next, x.seen, q, x.fired, c, x.handled)
<1> DEFINE o == {out}
           q == [x.sequences EXCEPT ![to] = @ + 1]
           c == [x.context EXCEPT !.sending = o]
           w == [x EXCEPT !.sequences = q]
           y == [x EXCEPT !.sequences[to] = @ + 1, !.context.sending = {out}]
<1>1. y = [w EXCEPT !.context = c]
  OBVIOUS
<1> HIDE DEF o
<1>2. c = Work(x.context.handling, o, x.context.step)
  BY WorkFields
<1> USE DEF o
<1> HIDE DEF q
<1>3. w = Agent(x.next, x.seen, q, x.fired, x.context, x.handled)
  BY AgentFields
<1> HIDE DEF w, c, y
<1>4. y = Agent(x.next, x.seen, q, x.fired, c, x.handled)
  BY <1>1, <1>3, AgentFields
<1>5. IsWork(c, x.context.handling, {out}, x.context.step)
  BY <1>2 DEF IsWork
<1>6. IsAgent(y, x.next, x.seen, q, x.fired, c, x.handled)
  BY <1>4 DEF IsAgent
<1> QED
  BY <1>5, <1>6 DEF q, y

LEMMA AsSent ==
  ASSUME NEW x, x = Agent(x.next, x.seen, x.sequences, x.fired, x.context, x.handled),
         x.context = Work(x.context.handling, x.context.sending, x.context.step)
  PROVE  \E c :
           /\ IsWork(c, x.context.handling, None, x.context.step + 1)
           /\ IsAgent([x EXCEPT !.context.sending = None, !.context.step = @ + 1],
                      x.next, x.seen, x.sequences, x.fired, c, x.handled)
<1> DEFINE t == x.context.step + 1
           w == [x.context EXCEPT !.sending = None]
           c == [w EXCEPT !.step = t]
           y == [x EXCEPT !.context.sending = None, !.context.step = @ + 1]
<1>1. w = Work(x.context.handling, None, x.context.step)
  BY WorkFields
<1>2. y = [x EXCEPT !.context = c]
  <2>1. w.step = x.context.step
    BY <1>1, WorkFields
  <2> QED
    BY <2>1
<1> HIDE DEF t, w
<1>3. c = Work(x.context.handling, None, t)
  BY <1>1, WorkFields
<1> HIDE DEF c, y
<1>4. y = Agent(x.next, x.seen, x.sequences, x.fired, c, x.handled)
  BY <1>2, AgentFields
<1>5. IsWork(c, x.context.handling, None, x.context.step + 1)
  BY <1>3 DEF IsWork, t
<1>6. IsAgent(y, x.next, x.seen, x.sequences, x.fired, c, x.handled)
  BY <1>4 DEF IsAgent
<1> QED
  BY <1>5, <1>6 DEF y

LEMMA AsRested ==
  ASSUME NEW x, x = Agent(x.next, x.seen, x.sequences, x.fired, x.context, x.handled)
  PROVE  IsAgent([x EXCEPT !.context = Idle],
                 x.next, x.seen, x.sequences, x.fired, Idle, x.handled)
  BY AgentFields DEF IsAgent

LEMMA AsRemembered ==
  ASSUME NEW x, x = Agent(x.next, x.seen, x.sequences, x.fired, x.context, x.handled),
         NEW t, NEW g
  PROVE  IsAgent([[x EXCEPT !.context = Idle] EXCEPT !.seen = t, !.handled = g],
                 x.next, t, x.sequences, x.fired, Idle, g)
<1> DEFINE w == [x EXCEPT !.context = Idle]
           v == [w EXCEPT !.seen = t]
           y == [w EXCEPT !.seen = t, !.handled = g]
<1>1. w = Agent(x.next, x.seen, x.sequences, x.fired, Idle, x.handled)
  BY AgentFields
<1>2. y = [v EXCEPT !.handled = g]
  OBVIOUS
<1> HIDE DEF w
<1>3. v = Agent(x.next, t, x.sequences, x.fired, Idle, x.handled)
  BY <1>1, AgentFields
<1> HIDE DEF v, y
<1>4. y = Agent(x.next, t, x.sequences, x.fired, Idle, g)
  BY <1>2, <1>3, AgentFields
<1> QED
  BY <1>4 DEF IsAgent, y, w

-----------------------------------------------------------------------------
(* The actions.                                                            *)

LEMMA BecomesKeeps ==
  ASSUME IInv, NEW a \in Actors, NEW y, ActorInv(log, a, y), Becomes(a, y),
         UNCHANGED log, DeadOK(log, dead'), faults' \in 0 .. MaxFaults
  PROVE  IInv'
<1>1. /\ actors' = [b \in Actors |-> actors'[b]]
      /\ actors'[a] = y
      /\ \A b \in Actors : b # a => actors'[b] = actors[b]
  BY DEF IInv, Becomes
<1>2. \A b \in Actors : ActorInv(log, b, actors'[b])
  BY <1>1 DEF IInv
<1>3. LogOK(log') /\ Traced(log') /\ OneMeaning(log') /\ DeadOK(log', dead')
  BY DEF IInv
<1>4. \A b \in Actors : ActorInv(log', b, actors'[b])
  BY <1>2
<1> QED
  BY <1>1, <1>3, <1>4 DEF IInv

LEMMA IsHandling ==
  ASSUME IInv, NEW a \in Actors, Busy(a)
  PROVE  /\ Handling(a) \in actors[a].context.handling
         /\ actors[a].context.handling = {Handling(a)}
         /\ IsRead(log, a, actors[a], Handling(a)) \/ IsTimer(a, Handling(a))
         /\ Handling(a).receiver = a
         /\ Metadata(Handling(a)) \in Origins(log)
<1>1. ActorInv(log, a, actors[a]) /\ LogOK(log)
  BY DEF IInv
<1>2. PICK m : m \in actors[a].context.handling
  BY <1>1, ActorFields DEF Busy, None
<1>3. Handling(a) = m /\ actors[a].context.handling = {m}
  BY <1>1, <1>2, ActorFields, OnlyOne DEF Handling
<1> QED
  BY <1>1, <1>2, <1>3, HandledHasOrigin DEF ActorInv, HandlingOK

LEMMA IsSending ==
  ASSUME IInv, NEW a \in Actors, Publishing(a)
  PROVE  /\ Sending(a) \in actors[a].context.sending
         /\ Child(Metadata(Sending(a)), Metadata(Handling(a)), actors[a].context.step)
         /\ IsSequence(Sending(a).headers)
<1>1. ActorInv(log, a, actors[a])
  BY DEF IInv
<1>2. PICK out : out \in actors[a].context.sending
  BY DEF Publishing, None
<1>3. Sending(a) = out
  BY <1>1, <1>2, ActorFields, OnlyOne DEF Sending
<1>4. Handling(a) \in actors[a].context.handling
  BY IsHandling DEF Publishing
<1> QED
  BY <1>1, <1>2, <1>3, <1>4 DEF ActorInv, SendingOK

LEMMA OffsetTyped ==
  ASSUME IInv, NEW a \in Actors
  PROVE  /\ Offset(a) \in 1 .. Len(log[ShardOf[a]]) + 1
         /\ ShardOf[a] \in Partitions
         /\ Len(log[ShardOf[a]]) \in Nat
         /\ DOMAIN log[ShardOf[a]] = 1 .. Len(log[ShardOf[a]])
<1>1. ShardOf[a] \in Partitions
  BY MessagesAssumption
<1> QED
  BY <1>1, SequenceIndex DEF IInv, ActorInv, LogOK, Offset

LEMMA SkipKeeps ==
  ASSUME IInv, NEW a \in Actors, Skip(a)
  PROVE  IInv'
<1>1. Offset(a) + 1 \in 1 .. Len(log[ShardOf[a]]) + 1
  BY OffsetTyped DEF Skip, Reads
<1>2. ActorInv(log, a, [actors[a] EXCEPT !.next = @ + 1])
  BY <1>1, Repositioned DEF IInv, Offset
<1> QED
  BY <1>2, BecomesKeeps DEF Skip, IInv

LEMMA BeginKeeps ==
  ASSUME IInv, NEW a \in Actors, Begin(a)
  PROVE  IInv'
<1> DEFINE o == Offset(a)
           x == [actors[a] EXCEPT !.next = @ + 1]
<1>1. PICK m \in Received(a) : /\ Reaches(a, m) /\ ~ Known(a, m.id) /\ Registered(m)
                               /\ Becomes(a, Running(x, m))
  BY DEF Begin
<1>2. o \in 1 .. Len(log[ShardOf[a]]) /\ o + 1 \in 1 .. Len(log[ShardOf[a]]) + 1
  BY OffsetTyped DEF Begin, Reads
<1>3. ActorInv(log, a, x)
  BY <1>2, Repositioned DEF IInv, Offset
<1>4. x.seen = actors[a].seen
  BY ActorFields, AgentFields DEF IInv
<1>5. LET r == log[ShardOf[a]][o] IN Decodable(r) /\ m = Decoded(r, r.headers, o)
  BY <1>1 DEF Received, ToMMMessage
<1>6. m.offset = o
  BY <1>5 DEF Decoded
<1>7. IsRead(log, a, x, m)
  BY <1>1, <1>2, <1>4, <1>5, <1>6, OffsetTyped DEF IsRead, Reaches, Known
<1>8. ActorInv(log, a, Running(x, m))
  BY <1>1, <1>3, <1>7, Starts DEF Reaches, Registered
<1> QED
  BY <1>1, <1>8, BecomesKeeps DEF Begin, IInv

LEMMA BeginTimerKeeps ==
  ASSUME IInv, NEW a \in Actors, BeginTimer(a)
  PROVE  IInv'
<1>1. PICK timer \in Timers[a] :
        Becomes(a, Running([actors[a] EXCEPT !.fired = @ \union {timer}], TimerMessage(a, timer)))
  BY DEF BeginTimer
<1> DEFINE x == [actors[a] EXCEPT !.fired = @ \union {timer}]
           m == TimerMessage(a, timer)
<1>2. ActorInv(log, a, x)
  BY Fired DEF IInv
<1>3. IsTimer(a, m)
  BY DEF IsTimer
<1>4. m.receiver = a /\ m.command \in DOMAIN Scripts
  BY MessagesAssumption DEF TimerMessage
<1> HIDE DEF x, m
<1>5. ActorInv(log, a, Running(x, m))
  BY <1>2, <1>3, <1>4, Starts
<1> QED
  BY <1>1, <1>5, BecomesKeeps DEF BeginTimer, IInv, x, m

LEMMA ScriptStep ==
  ASSUME IInv, NEW a \in Actors, Busy(a), ~ Finished(a)
  PROVE  LET s == actors[a].context.step
         IN  /\ s \in DOMAIN Script(a) /\ s <= Len(Script(a))
             /\ Script(a)[s] \in Range(Script(a))
             /\ Handling(a).command \in DOMAIN Scripts
<1>1. /\ Handling(a).command \in DOMAIN Scripts
      /\ actors[a].context.step \in 1 .. Len(Script(a)) + 1
  BY IsHandling DEF IInv, ActorInv, HandlingOK, Script
<1>2. IsSequence(Script(a))
  BY <1>1, MessagesAssumption DEF Script
<1>3. Len(Script(a)) \in Nat /\ DOMAIN Script(a) = 1 .. Len(Script(a))
  BY <1>2, SequenceIndex
<1>4. actors[a].context.step \in 1 .. Len(Script(a))
  BY <1>1, <1>3 DEF Finished
<1> QED
  BY <1>1, <1>2, <1>3, <1>4, SequenceIndex

LEMMA NewMessageKeeps ==
  ASSUME IInv, NEW a \in Actors, NewMessage(a)
  PROVE  IInv'
<1> DEFINE x == actors[a]
           m == Handling(a)
           s == x.context.step
           send == Script(a)[s]
           out == Made(a, send)
           y == [x EXCEPT !.sequences[send.to] = @ + 1, !.context.sending = {out}]
<1>1. Busy(a) /\ ~ Finished(a) /\ x.context.sending = None /\ Becomes(a, y)
  BY DEF NewMessage
<1>2. ActorInv(log, a, x) /\ m \in x.context.handling /\ x.context.handling = {m} /\ m.receiver = a
  BY <1>1, IsHandling DEF IInv
<1>3. /\ s \in DOMAIN Scripts[m.command] /\ s <= Len(Scripts[m.command])
      /\ send \in Range(Scripts[m.command]) /\ m.command \in DOMAIN Scripts
      /\ send = Scripts[m.command][s]
  BY <1>1, ScriptStep DEF Script
<1>4. send.to \in Actors \union {Empty} /\ IsSequence(send.headers)
  BY <1>3, MessagesAssumption
<1>5. x.sequences \in [Actors \union {Empty} -> Nat]
  BY <1>2 DEF ActorInv, ActorOK
<1>6. x.sequences[send.to] = Before(m.command, s - 1, send.to)
  BY <1>1, <1>2, <1>4 DEF ActorInv, Numbered, SendsMade
<1>7. Child(Metadata(out), Metadata(m), s) /\ out.headers = send.headers /\ out.receiver = send.to
  <2>1. Metadata(out) = [ receiver |-> send.to, type |-> send.type,
                          id |-> GenerateMessageID(m.id, a, send.to, x.sequences[send.to]),
                          command |-> send.command, cause |-> <<m.cause, s>> ]
    BY DEF Metadata, Made
  <2>2. /\ Metadata(m).id = m.id /\ Metadata(m).receiver = a
        /\ Metadata(m).command = m.command /\ Metadata(m).cause = m.cause
    BY <1>2 DEF Metadata
  <2>3. out.headers = send.headers /\ out.receiver = send.to
    BY DEF Made
  <2> HIDE DEF send, out, x, m
  <2>4. Child(Metadata(out), Metadata(m), s)
    BY <1>3, <1>6, <2>1, <2>2 DEF Child
  <2> QED
    BY <2>3, <2>4
<1> HIDE DEF send, out, m, s
<1>8. PICK q, c : /\ q = [x.sequences EXCEPT ![send.to] = @ + 1]
                  /\ IsWork(c, x.context.handling, {out}, x.context.step)
                  /\ IsAgent(y, x.next, x.seen, q, x.fired, c, x.handled)
  <2>1. /\ x = Agent(x.next, x.seen, x.sequences, x.fired, x.context, x.handled)
        /\ x.context = Work(x.context.handling, x.context.sending, x.context.step)
    BY <1>2, ActorFields
  <2> DEFINE to == send.to
  <2> HIDE DEF x, to
  <2> QED
    BY <2>1, AsMade DEF to
<1>9. /\ q \in [Actors \union {Empty} -> Nat]
      /\ \A w \in Actors \union {Empty} :
           q[w] = IF out.receiver = w THEN x.sequences[w] + 1 ELSE x.sequences[w]
  BY <1>4, <1>5, <1>7, <1>8
<1> HIDE DEF y, x
<1>10. /\ IsWork(c, {m}, {out}, x.context.step)
       /\ x.context.step <= Len(Scripts[m.command]) /\ IsSequence(out.headers)
       /\ Child(Metadata(out), Metadata(m), x.context.step)
  BY <1>2, <1>3, <1>4, <1>7, <1>8 DEF s
<1>11. ActorInv(log, a, y)
  BY <1>1, <1>2, <1>8, <1>9, <1>10, Makes
<1> QED
  BY <1>1, <1>11, BecomesKeeps DEF NewMessage, IInv

(* What a handler publishes.                                               *)
LEMMA PublishedRecord ==
  ASSUME IInv, NEW a \in Actors, Publishing(a), NEW r \in FromMMMessage(Sending(a))
  PROVE  /\ RecordOK(r) /\ Decodable(r) /\ ShardOf[r.key] \in Partitions
         /\ \E s : Child(r.framework[1], Metadata(Handling(a)), s)
<1> DEFINE out == Sending(a)
           meta == Metadata(out)
<1>1. /\ ValidMetadata(meta) /\ Reserved \notin Range(out.headers)
      /\ r = [key |-> out.receiver, framework |-> <<meta>>,
              headers |-> out.headers, value |-> Value(out.payload)]
  BY DEF FromMMMessage
<1>2. /\ Child(meta, Metadata(Handling(a)), actors[a].context.step)
      /\ IsSequence(out.headers)
  BY IsSending
<1>3. /\ meta = [receiver |-> meta.receiver, type |-> meta.type, id |-> meta.id,
                 command |-> meta.command, cause |-> meta.cause]
      /\ meta.receiver = out.receiver
  BY DEF Metadata
<1>4. meta.receiver \in Actors \union {Empty} /\ meta.receiver # Empty
  BY <1>1, <1>2, ChildShape DEF ValidMetadata
<1> HIDE DEF meta
<1>5. /\ IsSequence(<<meta>>) /\ Range(<<meta>>) = {meta}
      /\ Len(<<meta>>) = 1 /\ <<meta>>[1] = meta
  BY OneIsSequence
<1> DEFINE f == <<meta>>
<1> HIDE DEF f
<1>6. /\ r.key = out.receiver /\ r.framework = f /\ r.headers = out.headers
      /\ r = [key |-> r.key, framework |-> r.framework, headers |-> r.headers, value |-> r.value]
  BY <1>1 DEF f
<1>7. MetadataOK(meta)
  BY <1>3, <1>4 DEF MetadataOK
<1>8. RecordOK(r)
  BY <1>1, <1>2, <1>3, <1>4, <1>5, <1>6, <1>7 DEF RecordOK, f
<1>9. Decodable(r)
  BY <1>1, <1>3, <1>5, <1>6 DEF Decodable, f
<1>10. ShardOf[r.key] \in Partitions
  BY <1>3, <1>4, <1>6, MessagesAssumption
<1> QED
  BY <1>2, <1>5, <1>6, <1>8, <1>9, <1>10 DEF f

LEMMA StoresKeeps ==
  ASSUME IInv, NEW a \in Actors, Publishing(a), NEW r \in FromMMMessage(Sending(a)), Stores(r)
  PROVE  /\ LogOK(log') /\ Traced(log') /\ OneMeaning(log') /\ DeadOK(log', dead)
         /\ \A b \in Actors : ActorInv(log', b, actors[b])
<1> DEFINE p == ShardOf[r.key]
<1>1. /\ RecordOK(r) /\ Decodable(r) /\ p \in Partitions
  BY PublishedRecord
<1>2. PICK s : Child(r.framework[1], Metadata(Handling(a)), s)
  BY PublishedRecord
<1>3. Stored(log, p, r, log')
  BY DEF Stores, Stored
<1>4. Metadata(Handling(a)) \in Origins(log)
  BY IsHandling DEF Publishing
<1>5. LogOK(log) /\ Traced(log) /\ OneMeaning(log) /\ DeadOK(log, dead)
  BY DEF IInv
<1> HIDE DEF p
<1>6. /\ LogOK(log')
      /\ \A q \in Partitions :
           /\ Len(log[q]) \in Nat /\ Len(log'[q]) \in Nat /\ Len(log[q]) <= Len(log'[q])
           /\ DOMAIN log[q] \subseteq DOMAIN log'[q]
           /\ \A i \in DOMAIN log[q] : log'[q][i] = log[q][i]
      /\ Origins(log') = Origins(log) \union {r.framework[1]}
  BY <1>1, <1>3, <1>5, LogGrows
<1>7. Traced(log') /\ OneMeaning(log')
  BY <1>2, <1>4, <1>5, <1>6, NewOrigin
<1>8. DeadOK(log', dead)
  BY <1>5, <1>6, DeadStay
<1>9. ASSUME NEW b \in Actors
      PROVE  ActorInv(log', b, actors[b])
  <2>1. ShardOf[b] \in Partitions /\ ActorInv(log, b, actors[b])
    BY MessagesAssumption DEF IInv
  <2> QED
    BY <1>6, <2>1, ActorStays
<1> QED
  BY <1>6, <1>7, <1>8, <1>9

LEMMA PublishKeeps ==
  ASSUME IInv, NEW a \in Actors, Publish(a)
  PROVE  IInv'
<1> DEFINE x == actors[a]
           y == [x EXCEPT !.context.sending = None, !.context.step = @ + 1]
<1>1. PICK r \in FromMMMessage(Sending(a)) : Stores(r)
  BY DEF Publish
<1>2. Publishing(a) /\ Becomes(a, y) /\ UNCHANGED <<dead, faults>>
  BY DEF Publish
<1>3. /\ LogOK(log') /\ Traced(log') /\ OneMeaning(log') /\ DeadOK(log', dead)
      /\ \A b \in Actors : ActorInv(log', b, actors[b])
  BY <1>1, <1>2, StoresKeeps
<1>4. /\ Handling(a) \in x.context.handling /\ x.context.handling = {Handling(a)}
      /\ Sending(a) \in x.context.sending
  BY <1>2, IsHandling, IsSending DEF Publishing
<1>5. PICK c : /\ IsWork(c, x.context.handling, None, x.context.step + 1)
               /\ IsAgent(y, x.next, x.seen, x.sequences, x.fired, c, x.handled)
  BY <1>3, ActorFields, AsSent
<1> HIDE DEF y
<1>6. ActorInv(log', a, y)
  BY <1>3, <1>4, <1>5, Sent
<1>7. /\ actors' = [b \in Actors |-> actors'[b]]
      /\ actors'[a] = y
      /\ \A b \in Actors : b # a => actors'[b] = actors[b]
  BY <1>2 DEF IInv, Becomes
<1>8. \A b \in Actors : ActorInv(log', b, actors'[b])
  BY <1>3, <1>6, <1>7
<1> QED
  BY <1>2, <1>3, <1>7, <1>8 DEF IInv

LEMMA PublishUnansweredKeeps ==
  ASSUME IInv, NEW a \in Actors, PublishUnanswered(a)
  PROVE  IInv'
<1>1. PICK r \in FromMMMessage(Sending(a)) : Stores(r)
  BY DEF PublishUnanswered
<1>2. Publishing(a) /\ UNCHANGED <<dead, actors>> /\ faults' \in 0 .. MaxFaults
  BY MessagesAssumption DEF PublishUnanswered, Fault, IInv
<1>3. /\ LogOK(log') /\ Traced(log') /\ OneMeaning(log') /\ DeadOK(log', dead)
      /\ \A b \in Actors : ActorInv(log', b, actors[b])
  BY <1>1, <1>2, StoresKeeps
<1>4. actors = [b \in Actors |-> actors[b]]
  BY DEF IInv
<1> QED
  BY <1>2, <1>3, <1>4 DEF IInv

LEMMA ReturnedKeeps ==
  ASSUME IInv, NEW a \in Actors, Busy(a)
  PROVE  ActorInv(log, a, Returned(a))
<1> DEFINE x == actors[a]
           m == Handling(a)
           w == [x EXCEPT !.context = Idle]
           t == Latest(Append(x.seen, m.id))
           g == Append(x.handled, m.cause)
<1>1. ActorInv(log, a, x) /\ LogOK(log) /\ OneMeaning(log)
  BY DEF IInv
<1>2. m \in x.context.handling /\ (IsRead(log, a, x, m) \/ IsTimer(a, m))
  BY IsHandling
<1>3. /\ IsRead(log, a, x, m) => m.type = "network"
      /\ IsTimer(a, m) => m.type = "timer"
  BY <1>1, OffsetTells
<1>4. IsAgent(w, x.next, x.seen, x.sequences, x.fired, Idle, x.handled)
  BY <1>1, ActorFields, AsRested
<1>5. CASE m.type = "timer"
  <2>1. Returned(a) = w
    BY <1>5 DEF Returned
  <2> QED
    BY <1>1, <1>4, <2>1, Rests
<1>6. CASE m.type # "timer"
  <2>1. w.seen = x.seen /\ w.handled = x.handled
    BY <1>4, IsAgentFields
  <2>2. Returned(a) = [w EXCEPT !.seen = t, !.handled = g]
    BY <1>6, <2>1 DEF Returned
  <2> DEFINE y == [w EXCEPT !.seen = t, !.handled = g]
  <2>3. IsLatest(t, x.seen, m.id) /\ IsLonger(g, x.handled, m.cause)
    BY DEF IsLatest, IsLonger
  <2> HIDE DEF t, g, m
  <2>4. IsAgent(y, x.next, t, x.sequences, x.fired, Idle, g)
    BY <1>1, ActorFields, AsRemembered
  <2> HIDE DEF y, x
  <2>5. ActorInv(log, a, y)
    BY <1>1, <1>2, <1>3, <1>6, <2>3, <2>4, Remembers
  <2> QED
    BY <2>2, <2>5 DEF y
<1> QED
  BY <1>5, <1>6

LEMMA ReturnKeeps ==
  ASSUME IInv, NEW a \in Actors, Return(a)
  PROVE  IInv'
  BY ReturnedKeeps, BecomesKeeps DEF Return, IInv

LEMMA GivesUpKeeps ==
  ASSUME IInv, NEW a \in Actors, GivesUp(a), UNCHANGED log, DeadOK(log, dead')
  PROVE  IInv'
<1>1. Busy(a) /\ Becomes(a, Returned(a))
  BY DEF GivesUp, Publishing
<1>2. faults' \in 0 .. MaxFaults
  BY MessagesAssumption DEF GivesUp, Fault, IInv
<1> QED
  BY <1>1, <1>2, ReturnedKeeps, BecomesKeeps

LEMMA GiveUpKeeps ==
  ASSUME IInv, NEW a \in Actors, GiveUp(a)
  PROVE  IInv'
  BY GivesUpKeeps DEF GiveUp, IInv

(* A message that was read is its record again.                            *)
LEMMA ReadIsRecord ==
  ASSUME IInv, NEW a \in Actors, Busy(a), Handling(a).offset > 0
  PROVE  LET m == Handling(a)
         IN  /\ m.receiver = a
             /\ m.offset \in DOMAIN log[ShardOf[a]]
             /\ FromMMMessage(m) = {log[ShardOf[a]][m.offset]}
             /\ RecordOK(log[ShardOf[a]][m.offset])
             /\ log[ShardOf[a]][m.offset].key = a
<1> DEFINE m == Handling(a)
           r == log[ShardOf[a]][m.offset]
<1>1. IsRead(log, a, actors[a], m) /\ m.receiver = a
  BY IsHandling, OffsetTells DEF IInv
<1>2. /\ m.offset \in DOMAIN log[ShardOf[a]] /\ Decodable(r)
      /\ m = Decoded(r, r.headers, m.offset)
  BY <1>1 DEF IsRead
<1>3. RecordOK(r)
  BY <1>2, RecordAt, OffsetTyped DEF IInv
<1>4. FromMMMessage(m) = {r}
  BY <1>2, <1>3, SameAgain
<1>5. r.key = m.receiver
  <2> HIDE DEF m, r
  <2>1. Decoded(r, r.headers, m.offset).receiver = r.framework[1].receiver
    BY DEF Decoded
  <2>2. r.key = r.framework[1].receiver
    BY <1>2 DEF Decodable
  <2> QED
    BY <1>2, <2>1, <2>2
<1> QED
  BY <1>1, <1>2, <1>3, <1>4, <1>5

LEMMA GiveUpDeadKeeps ==
  ASSUME IInv, NEW a \in Actors, GiveUpDead(a)
  PROVE  IInv'
<1> DEFINE m == Handling(a)
           r == log[ShardOf[a]][m.offset]
           hs == Append(r.headers, Source(m))
           d == [r EXCEPT !.headers = hs]
<1>1. GivesUp(a) /\ Busy(a) /\ m.offset > 0 /\ UNCHANGED log
  BY DEF GiveUpDead, GivesUp, Publishing
<1>2. /\ m.receiver = a /\ m.offset \in DOMAIN log[ShardOf[a]]
      /\ FromMMMessage(m) = {r} /\ RecordOK(r) /\ r.key = a
  BY <1>1, ReadIsRecord
<1>3. dead' = Append(dead, d)
  BY <1>2 DEF GiveUpDead, DLQ
<1>4. Source(m) = [partition |-> ShardOf[a], offset |-> m.offset] /\ ShardOf[a] \in Partitions
  BY <1>2, OffsetTyped DEF Source
<1> DEFINE source == Source(m)
<1>5. Front(hs) = r.headers /\ Last(hs) = source
  BY <1>2, FrontOfAppend DEF RecordOK
<1> HIDE DEF hs, source
<1>6. /\ d = [key |-> r.key, framework |-> r.framework, headers |-> hs, value |-> r.value]
      /\ [d EXCEPT !.headers = r.headers] = r
  <2> DEFINE k == r.key  f == r.framework  h == r.headers  v == r.value
  <2>1. r = [key |-> k, framework |-> f, headers |-> h, value |-> v]
    BY <1>2 DEF RecordOK
  <2> HIDE DEF r, k, f, h, v
  <2>2. d = [key |-> k, framework |-> f, headers |-> hs, value |-> v]
    BY <2>1
  <2> HIDE DEF d
  <2>3. [d EXCEPT !.headers = h] = [key |-> k, framework |-> f, headers |-> h, value |-> v]
    BY <2>2
  <2> QED
    BY <2>1, <2>2, <2>3 DEF k, f, h, v
<1>7. d.key = a /\ d.headers = hs
  BY <1>2, <1>6
<1>8. /\ d.key \in Actors
      /\ Last(d.headers).partition \in Partitions
      /\ Last(d.headers).offset \in DOMAIN log[Last(d.headers).partition]
      /\ [d EXCEPT !.headers = Front(@)] = log[Last(d.headers).partition][Last(d.headers).offset]
  <2>1. Last(d.headers) = [partition |-> ShardOf[a], offset |-> m.offset]
    BY <1>4, <1>5, <1>7 DEF source
  <2>2. Front(d.headers) = r.headers
    BY <1>5, <1>7
  <2>3. [d EXCEPT !.headers = Front(@)] = [d EXCEPT !.headers = Front(d.headers)]
    OBVIOUS
  <2> HIDE DEF d
  <2>4. [d EXCEPT !.headers = Front(@)] = r
    BY <1>6, <2>2, <2>3
  <2> QED
    BY <1>2, <1>4, <1>7, <2>1, <2>4
<1> HIDE DEF d
<1>9. DeadOK(log, dead')
  <2>1. IsSequence(dead) /\ DOMAIN dead = 1 .. Len(dead) /\ Len(dead) \in Nat
    BY SequenceIndex DEF IInv, DeadOK
  <2>2. /\ IsSequence(dead') /\ Len(dead') = Len(dead) + 1
        /\ \A i \in 1 .. Len(dead) : dead'[i] = dead[i]
        /\ dead'[Len(dead) + 1] = d
    BY <1>3, <2>1, AppendIsSequence
  <2>3. DOMAIN dead' = 1 .. Len(dead) + 1
    BY <2>2, SequenceIndex
  <2>4. ASSUME NEW i \in DOMAIN dead'
        PROVE  (i \in DOMAIN dead /\ dead'[i] = dead[i]) \/ dead'[i] = d
    BY <2>1, <2>2, <2>3
  <2> QED
    BY <1>8, <2>2, <2>4 DEF IInv, DeadOK
<1> QED
  BY <1>1, <1>9, GivesUpKeeps

LEMMA SeekKeeps ==
  ASSUME IInv, NEW a \in Actors, Seek(a)
  PROVE  IInv'
<1>1. PICK o \in 1 .. Offset(a) - 1 : Becomes(a, [actors[a] EXCEPT !.next = o])
  BY DEF Seek
<1>2. o \in 1 .. Len(log[ShardOf[a]]) + 1
  BY OffsetTyped
<1>3. ActorInv(log, a, [actors[a] EXCEPT !.next = o])
  BY <1>2, Repositioned DEF IInv
<1>4. faults' \in 0 .. MaxFaults
  BY MessagesAssumption DEF Seek, Fault, IInv
<1> QED
  BY <1>1, <1>3, <1>4, BecomesKeeps DEF Seek, IInv

LEMMA RestartKeeps ==
  ASSUME IInv, NEW a \in Actors, Restart(a)
  PROVE  IInv'
<1>1. PICK o \in 1 .. Offset(a) : Becomes(a, [NewActor EXCEPT !.next = o])
  BY DEF Restart
<1>2. o \in 1 .. Len(log[ShardOf[a]]) + 1
  BY OffsetTyped
<1>3. ActorInv(log, a, [NewActor EXCEPT !.next = o])
  BY <1>2, NewActorInv DEF IInv
<1>4. faults' \in 0 .. MaxFaults
  BY MessagesAssumption DEF Restart, Fault, IInv
<1> QED
  BY <1>1, <1>3, <1>4, BecomesKeeps DEF Restart, IInv

LEMMA InvInit == Init => IInv
<1> SUFFICES ASSUME Init PROVE IInv
  OBVIOUS
<1>1. log = Roots /\ dead = <<>> /\ actors = [a \in Actors |-> NewActor] /\ faults = 0
  BY DEF Init
<1>2. LogOK(Roots)
  BY MessagesAssumption, RootsAssumption DEF LogOK
<1>3. Origins(Roots) = RootMetadata \union TimerMetadata
  BY DEF Origins, AllLogged, RootMetadata
<1>4. Traced(Roots)
  BY <1>3 DEF Traced
<1>5. OneMeaning(Roots)
  <2>1. ASSUME NEW meta \in Origins(Roots), NEW other \in Origins(Roots),
               meta.id = other.id \/ meta.cause = other.cause
        PROVE  meta = other
    <3>1. CASE meta \in RootMetadata
      BY <1>3, <2>1, <3>1, RootIsNoOther
    <3>2. CASE other \in RootMetadata
      BY <1>3, <2>1, <3>2, RootIsNoOther
    <3>3. CASE meta \in TimerMetadata /\ other \in TimerMetadata
      BY <2>1, <3>3, OneTimer
    <3> QED
      BY <1>3, <3>1, <3>2, <3>3
  <2> QED
    BY <2>1 DEF OneMeaning
<1>6. DeadOK(log, dead)
  BY <1>1, NoneIsSequence DEF DeadOK
<1>7. ASSUME NEW a \in Actors
      PROVE  ActorInv(log, a, actors[a])
  <2>1. 1 \in 1 .. Len(Roots[ShardOf[a]]) + 1
    BY <1>2, MessagesAssumption, SequenceIndex DEF LogOK
  <2>2. NewActor = [NewActor EXCEPT !.next = 1]
    <3>1. NewActor = Agent(1, <<>>, NoSequences, {}, Idle, <<>>)
      BY DEF NewActor, Agent
    <3> QED
      BY <3>1, AgentFields
  <2> QED
    BY <1>1, <1>2, <2>1, <2>2, NewActorInv
<1> QED
  BY <1>1, <1>2, <1>4, <1>5, <1>6, <1>7, MessagesAssumption DEF IInv

LEMMA InvStep == IInv /\ [Next]_vars => IInv'
<1> SUFFICES ASSUME IInv, [Next]_vars PROVE IInv'
  OBVIOUS
<1>1. ASSUME NEW a \in Actors,
             \/ Skip(a) \/ Begin(a) \/ BeginTimer(a)
             \/ NewMessage(a) \/ Publish(a) \/ PublishUnanswered(a)
             \/ Return(a) \/ GiveUp(a) \/ GiveUpDead(a)
             \/ Seek(a) \/ Restart(a)
      PROVE  IInv'
  BY <1>1, SkipKeeps, BeginKeeps, BeginTimerKeeps, NewMessageKeeps, PublishKeeps,
     PublishUnansweredKeeps, ReturnKeeps, GiveUpKeeps, GiveUpDeadKeeps, SeekKeeps, RestartKeeps
<1>2. CASE UNCHANGED vars
  BY <1>2 DEF vars, IInv
<1> QED
  BY <1>1, <1>2 DEF Next, Quiet

-----------------------------------------------------------------------------
(* The theorems.                                                           *)

(* The log's records, the contexts and the rings keep their types, however *)
(* handlers are interrupted, and a handler stays within its script.        *)
THEOREM MessagesTyped == Spec => []TypeOK
<1>1. IInv => TypeOK
  <2> SUFFICES ASSUME IInv PROVE TypeOK
    OBVIOUS
  <2>1. ASSUME NEW a \in Actors, Busy(a)
        PROVE  actors[a].context.step \in 1 .. Len(Script(a)) + 1
    BY <2>1, IsHandling DEF IInv, ActorInv, HandlingOK, Script
  <2>2. \A r \in Range(dead) : r.key \in Actors
    <3>1. IsSequence(dead) /\ \A i \in DOMAIN dead : dead[i].key \in Actors
      BY DEF IInv, DeadOK
    <3> QED
      BY <3>1 DEF Range
  <2>3. \A a \in Actors : Offset(a) \in 1 .. Len(log[ShardOf[a]]) + 1 /\ ActorOK(a, actors[a])
    BY OffsetTyped DEF IInv, ActorInv
  <2> QED
    BY <2>1, <2>2, <2>3 DEF TypeOK, IInv, LogOK, DeadOK
<1> QED
  BY <1>1, InvInit, InvStep, PTL DEF Spec

(* An identifier in the ring is that of no message but the one that was    *)
(* handled: whatever is dropped as known has been handled.                 *)
THEOREM NothingIsSwallowed == Spec => []NothingSwallowed
<1>1. IInv => NothingSwallowed
  <2> SUFFICES ASSUME IInv,
                      NEW a \in Actors, NEW r \in Range(log[ShardOf[a]]),
                      NEW m \in ToMMMessage(r, 0), Reaches(a, m), Known(a, m.id)
               PROVE  m.cause \in Range(actors[a].handled)
    BY DEF NothingSwallowed
  <2> DEFINE x == actors[a]
             s == x.seen
             h == x.handled
  <2>1. ActorInv(log, a, x) /\ LogOK(log) /\ OneMeaning(log) /\ ShardOf[a] \in Partitions
    BY OffsetTyped DEF IInv
  <2>2. /\ IsSequence(s) /\ IsSequence(h) /\ Len(s) \in Nat /\ Len(h) \in Nat
        /\ DOMAIN s = 1 .. Len(s) /\ DOMAIN h = 1 .. Len(h)
    BY <2>1, SequenceIndex DEF ActorInv, ActorOK
  <2>3. Decodable(r) /\ m = Decoded(r, r.headers, 0)
    BY DEF ToMMMessage
  <2>4. PICK i \in DOMAIN log[ShardOf[a]] : r = log[ShardOf[a]][i]
    BY DEF Range
  <2> DEFINE meta == r.framework[1]
  <2>5. meta \in Origins(log) /\ meta.id = m.id /\ meta.cause = m.cause
    BY <2>1, <2>3, <2>4, HasOrigin DEF Decoded
  <2>6. PICK j \in 1 .. Len(s) : s[j] = m.id
    BY <2>2, SequenceIndex DEF Known
  <2>7. Len(s) <= Len(h)
    BY <2>1 DEF ActorInv, SeenIsHandled
  <2>8. PICK other \in Origins(log) : s[j] = other.id /\ h[Len(h) - Len(s) + j] = other.cause
    BY <2>1, <2>2, <2>6 DEF ActorInv, SeenIsHandled
  <2>9. other = meta
    BY <2>1, <2>5, <2>6, <2>8 DEF OneMeaning
  <2>10. Len(h) - Len(s) + j \in 1 .. Len(h)
    <3> DEFINE k == Len(s)
               n == Len(h)
    <3>1. k \in Nat /\ n \in Nat /\ k <= n /\ j \in 1 .. k
      BY <2>2, <2>6, <2>7
    <3> HIDE DEF k, n
    <3>2. n - k + j \in 1 .. n
      BY <3>1
    <3> QED
      BY <3>2 DEF k, n
  <2> QED
    BY <2>2, <2>5, <2>8, <2>9, <2>10, SequenceIndex
<1> QED
  BY <1>1, InvInit, InvStep, PTL DEF Spec

(* Two messages handled in one activation within DedupCapacity of each     *)
(* other are different messages, however often each was published.         *)
THEOREM EachHandledOnce == Spec => []HandledOnce
<1>1. IInv => HandledOnce
  BY DEF IInv, ActorInv, Once, HandledOnce
<1> QED
  BY <1>1, InvInit, InvStep, PTL DEF Spec

(* The conversion gives back, from what it made of any record that a       *)
(* producer can write, the same record; and a dead letter is that record   *)
(* with its place in a last header.                                        *)
THEOREM SentOn == Spec => []SentOnUnchanged
<1>1. IInv => SentOnUnchanged
  <2> SUFFICES ASSUME IInv PROVE SentOnUnchanged
    OBVIOUS
  <2>1. ASSUME NEW a \in Actors, Busy(a), Handling(a).offset > 0
        PROVE  FromMMMessage(Handling(a)) = {log[ShardOf[a]][Handling(a).offset]}
    BY <2>1, ReadIsRecord
  <2> QED
    BY <2>1 DEF SentOnUnchanged, IInv, DeadOK
<1> QED
  BY <1>1, InvInit, InvStep, PTL DEF Spec
=============================================================================
