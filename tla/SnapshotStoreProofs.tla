------------------------- MODULE SnapshotStoreProofs -------------------------
(***************************************************************************)
(* Theorems about the store of the snapshots, for every set of actors and  *)
(* nodes, both backends and any number of faults: the version in a row is  *)
(* a fence (FencedStore), and what Save confirmed is kept.                 *)
(***************************************************************************)
EXTENDS SnapshotStore, TLAPS

-----------------------------------------------------------------------------
(* The inductive invariant behind the fence.                               *)

(* An activation's version is that which its Load made, so it is at most   *)
(* the fence; nodes and requests carry the version of their activation.    *)
Of(a, epoch, version) ==
  /\ epoch \in DOMAIN history.versions[a]
  /\ history.versions[a][epoch] = version

VersionsBelowFence ==
  \A a \in Actors : \A e \in DOMAIN history.versions[a] :
    history.versions[a][e] <= Fence(a)

ActiveVersions ==
  \A n \in Nodes, a \in Actors :
    Active(n, a) => Of(a, active[n][a].epoch, active[n][a].version)

Sent(r) == r.todo \union r.inserting

RequestsInFlight == late \union {calls[n] : n \in Nodes}

SentVersions ==
  \A r \in RequestsInFlight : \A s \in Sent(r) : Of(s.actor, s.epoch, s.version)

(* There is a snapshot to save only of an actor that runs.                 *)
EnabledActive ==
  \A n \in Nodes, a \in Actors : active[n][a].enabled => Active(n, a)

TypeInv == TypeOK /\ EnabledActive

FenceInv == TypeInv /\ VersionsBelowFence /\ ActiveVersions /\ SentVersions

-----------------------------------------------------------------------------
(* Lemmas about one step of the database.                                  *)

(* What is written has a place in the row's type, and NoRow is not of it.  *)
LEMMA RowTypes ==
  /\ NoRow \notin Rows /\ NoRow.version = -1 /\ NoRow.epoch = 0 /\ NoRow.state = {}
  /\ \A s \in Documents : RowOf(s) \in Rows /\ s.actor \in Actors
BY DEF NoRow, Rows, RowOf, Documents

(* One operation of MongoDB's bulk: a document is written, or moves on     *)
(* without a trace in the table.                                           *)
Written(r, step, s) ==
  /\ rows[s.actor].version <= s.version
  /\ step.rows = [rows EXCEPT ![s.actor] = RowOf(s)]
  /\ step.request.stored = r.stored \union {s}
  /\ \/ /\ s \in r.todo
        /\ step.request.todo = r.todo \ {s}
        /\ step.request.inserting = r.inserting
     \/ /\ s \in r.inserting
        /\ step.request.todo = r.todo
        /\ step.request.inserting = r.inserting \ {s}

PassedOver(r, step, s) ==
  /\ step.rows = rows
  /\ step.request.stored = r.stored
  /\ \/ /\ s \in r.todo
        /\ step.request.todo = r.todo \ {s}
        /\ step.request.inserting = r.inserting \union {s}
     \/ /\ s \in r.inserting
        /\ step.request.todo = r.todo
        /\ step.request.inserting = r.inserting \ {s}

SameCaller(r, step) ==
  step.request \in Requests /\ step.request.open = r.open /\ step.request.leaving = r.leaving

LEMMA MongoStep ==
  ASSUME rows \in [Actors -> Rows \union {NoRow}],
         NEW r \in Requests, NEW step \in MongoSteps(r)
  PROVE  /\ SameCaller(r, step)
         /\ \E s \in Sent(r) : Written(r, step, s) \/ PassedOver(r, step, s)
<1>1. r.todo \subseteq Documents /\ r.inserting \subseteq Documents
  BY DEF Requests
<1>2. ASSUME NEW s \in r.todo,
             step = IF rows[s.actor] # NoRow /\ Accepts(s)
                    THEN [ rows |-> [rows EXCEPT ![s.actor] = RowOf(s)],
                           request |-> [r EXCEPT !.todo = @ \ {s}, !.stored = @ \union {s}] ]
                    ELSE [ rows |-> rows,
                           request |-> [r EXCEPT !.todo = @ \ {s}, !.inserting = @ \union {s}] ]
      PROVE  SameCaller(r, step) /\ (Written(r, step, s) \/ PassedOver(r, step, s))
  <2>1. s \in Documents
    BY <1>1
  <2>2. CASE rows[s.actor] # NoRow /\ Accepts(s)
    <3>1. /\ step.rows = [rows EXCEPT ![s.actor] = RowOf(s)]
          /\ step.request = [r EXCEPT !.todo = @ \ {s}, !.stored = @ \union {s}]
      BY <1>2, <2>2
    <3>2. SameCaller(r, step)
      <4>1. r.todo \ {s} \in SUBSET Documents /\ r.stored \union {s} \in SUBSET Documents
        BY <2>1 DEF Requests
      <4>2. step.request \in Requests
        BY <3>1, <4>1 DEF Requests
      <4>3. step.request.open = r.open /\ step.request.leaving = r.leaving
        BY <3>1 DEF Requests
      <4> QED
        BY <4>2, <4>3 DEF SameCaller
    <3>3. Written(r, step, s)
      BY <2>2, <3>1 DEF Requests, Written, Accepts
    <3> QED
      BY <3>2, <3>3
  <2>3. CASE ~ (rows[s.actor] # NoRow /\ Accepts(s))
    <3>1. /\ step.rows = rows
          /\ step.request = [r EXCEPT !.todo = @ \ {s}, !.inserting = @ \union {s}]
      BY <1>2, <2>3
    <3>2. SameCaller(r, step)
      <4>1. r.todo \ {s} \in SUBSET Documents /\ r.inserting \union {s} \in SUBSET Documents
        BY <2>1 DEF Requests
      <4>2. step.request \in Requests
        BY <3>1, <4>1 DEF Requests
      <4>3. step.request.open = r.open /\ step.request.leaving = r.leaving
        BY <3>1 DEF Requests
      <4> QED
        BY <4>2, <4>3 DEF SameCaller
    <3>3. PassedOver(r, step, s)
      BY <3>1 DEF Requests, PassedOver
    <3> QED
      BY <3>2, <3>3
  <2> QED
    BY <2>2, <2>3
<1>3. ASSUME NEW s \in r.inserting,
             step = IF rows[s.actor] = NoRow
                    THEN [ rows |-> [rows EXCEPT ![s.actor] = RowOf(s)],
                           request |-> [r EXCEPT !.inserting = @ \ {s}, !.stored = @ \union {s}] ]
                    ELSE [ rows |-> rows,
                           request |-> [r EXCEPT !.inserting = @ \ {s}, !.stale = @ \union {s}] ]
      PROVE  SameCaller(r, step) /\ (Written(r, step, s) \/ PassedOver(r, step, s))
  <2>1. s \in Documents
    BY <1>1
  <2>2. CASE rows[s.actor] = NoRow
    <3>1. /\ step.rows = [rows EXCEPT ![s.actor] = RowOf(s)]
          /\ step.request = [r EXCEPT !.inserting = @ \ {s}, !.stored = @ \union {s}]
      BY <1>3, <2>2
    <3>2. SameCaller(r, step)
      <4>1. r.inserting \ {s} \in SUBSET Documents /\ r.stored \union {s} \in SUBSET Documents
        BY <2>1 DEF Requests
      <4>2. step.request \in Requests
        BY <3>1, <4>1 DEF Requests
      <4>3. step.request.open = r.open /\ step.request.leaving = r.leaving
        BY <3>1 DEF Requests
      <4> QED
        BY <4>2, <4>3 DEF SameCaller
    <3>3. rows[s.actor].version = -1 /\ s.version \in Nat
      BY <2>1, <2>2, RowTypes DEF Documents
    <3>4. Written(r, step, s)
      BY <3>1, <3>3 DEF Requests, Written
    <3> QED
      BY <3>2, <3>4
  <2>3. CASE rows[s.actor] # NoRow
    <3>1. /\ step.rows = rows
          /\ step.request = [r EXCEPT !.inserting = @ \ {s}, !.stale = @ \union {s}]
      BY <1>3, <2>3
    <3>2. SameCaller(r, step)
      <4>1. r.inserting \ {s} \in SUBSET Documents /\ r.stale \union {s} \in SUBSET Documents
        BY <2>1 DEF Requests
      <4>2. step.request \in Requests
        BY <3>1, <4>1 DEF Requests
      <4>3. step.request.open = r.open /\ step.request.leaving = r.leaving
        BY <3>1 DEF Requests
      <4> QED
        BY <4>2, <4>3 DEF SameCaller
    <3>3. PassedOver(r, step, s)
      BY <3>1 DEF Requests, PassedOver
    <3> QED
      BY <3>2, <3>3
  <2> QED
    BY <2>2, <2>3
<1> QED
  BY <1>2, <1>3, Zenon DEF MongoSteps, Sent

(* PostgreSQL's statement writes, for each actor that has an accepted      *)
(* document in the request, one such document.                             *)
LEMMA PostgresStep ==
  ASSUME rows \in [Actors -> Rows \union {NoRow}],
         NEW r \in Requests, NEW step \in PostgresSteps(r)
  PROVE  /\ SameCaller(r, step)
         /\ step.request.todo = {}
         /\ step.request.inserting = r.inserting
         /\ step.request.stored = {s \in r.todo : Accepts(s)}
         /\ step.rows \in [Actors -> Rows \union {NoRow}]
         /\ \A a \in Actors :
              \/ /\ step.rows[a] = rows[a]
                 /\ ~ \E s \in r.todo : Accepts(s) /\ s.actor = a
              \/ \E s \in r.todo : Accepts(s) /\ s.actor = a /\ step.rows[a] = RowOf(s)
<1> DEFINE kept == {s \in r.todo : Accepts(s)}
           of(a) == CHOOSE s \in kept : s.actor = a
           new == [a \in Actors |-> IF \E s \in kept : s.actor = a
                                   THEN RowOf(of(a)) ELSE rows[a]]
           req == [r EXCEPT !.todo = {}, !.stored = kept, !.stale = r.todo \ kept]
<1>1. step = [rows |-> new, request |-> req]
  <2>1. r.todo # {}
    BY DEF PostgresSteps
  <2> QED
    BY <2>1, Zenon DEF PostgresSteps
<1>2. step.rows = new /\ step.request = req
  <2> HIDE DEF new, req
  <2> QED
    BY <1>1
<1>3. kept \subseteq r.todo /\ r.todo \subseteq Documents
  BY DEF Requests
<1>4. /\ req \in Requests /\ req.todo = {} /\ req.inserting = r.inserting
      /\ req.open = r.open /\ req.leaving = r.leaving /\ req.stored = kept
  <2> HIDE DEF kept
  <2> QED
    BY <1>3 DEF Requests
<1>5. ASSUME NEW a \in Actors
      PROVE  /\ new[a] \in Rows \union {NoRow}
             /\ \/ new[a] = rows[a] /\ ~ \E s \in kept : s.actor = a
                \/ \E s \in kept : s.actor = a /\ new[a] = RowOf(s)
  <2>1. CASE \E s \in kept : s.actor = a
    <3>1. new[a] = RowOf(of(a))
      BY <2>1
    <3>2. of(a) \in kept /\ of(a).actor = a
      BY <2>1
    <3> HIDE DEF new, of
    <3> QED
      BY <1>3, <3>1, <3>2, RowTypes
  <2>2. CASE ~ \E s \in kept : s.actor = a
    BY <2>2
  <2> QED
    BY <2>1, <2>2
<1>6. new \in [Actors -> Rows \union {NoRow}]
  <2>1. \A a \in Actors : new[a] \in Rows \union {NoRow}
    BY <1>5
  <2> QED
    BY <2>1
<1> HIDE DEF new, req
<1> QED
  BY <1>2, <1>4, <1>5, <1>6 DEF SameCaller

(* An action of the database on request r: of an actor's row either nothing *)
(* changes or a document of the request that the row does not outrank      *)
(* takes its place.                                                        *)
LEMMA StepWrites ==
  ASSUME rows \in [Actors -> Rows \union {NoRow}],
         NEW r \in Requests, NEW step \in Steps(r)
  PROVE  /\ SameCaller(r, step)
         /\ step.rows \in [Actors -> Rows \union {NoRow}]
         /\ Sent(step.request) \subseteq Sent(r)
         /\ \A a \in Actors :
              \/ step.rows[a] = rows[a]
              \/ \E s \in Sent(r) : /\ s.actor = a
                                    /\ step.rows[a] = RowOf(s)
                                    /\ rows[a].version <= s.version
<1>1. CASE step \in PostgresSteps(r)
  BY <1>1, PostgresStep DEF Sent, Accepts
<1>2. CASE step \in MongoSteps(r)
  <2>1. SameCaller(r, step)
    BY <1>2, MongoStep
  <2>2. PICK s \in Sent(r) : Written(r, step, s) \/ PassedOver(r, step, s)
    BY <1>2, MongoStep
  <2>3. s \in Documents /\ s.actor \in Actors /\ RowOf(s) \in Rows
    BY RowTypes DEF Sent, Requests
  <2>4. CASE Written(r, step, s)
    BY <2>1, <2>3, <2>4 DEF Written, Sent
  <2>5. CASE PassedOver(r, step, s)
    BY <2>1, <2>5 DEF PassedOver, Sent
  <2> QED
    BY <2>2, <2>4, <2>5
<1> QED
  BY <1>1, <1>2, Zenon DEF Steps

(* A request that has each actor at one place only keeps to that; what it  *)
(* writes it does not send again, and what it counts as stored is in the   *)
(* row.                                                                    *)
OnePlace(r) ==
  /\ r.todo \intersect r.inserting = {}
  /\ \A s, t \in Sent(r) : s.actor = t.actor => s = t

LEMMA StepWritesOnce ==
  ASSUME rows \in [Actors -> Rows \union {NoRow}],
         NEW r \in Requests, OnePlace(r), NEW step \in Steps(r)
  PROVE  /\ OnePlace(step.request)
         /\ \A a \in Actors :
              \/ step.rows[a] = rows[a]
              \/ \E s \in Sent(r) \ Sent(step.request) :
                   /\ s.actor = a
                   /\ step.rows[a] = RowOf(s)
                   /\ rows[a].version <= s.version
         /\ \A s \in step.request.stored :
              \/ s \in r.stored
              \/ s \in Sent(r) /\ step.rows[s.actor] = RowOf(s)
<1>1. CASE step \in PostgresSteps(r)
  <2>1. OnePlace(step.request) /\ Sent(step.request) = r.inserting
    BY <1>1, PostgresStep DEF Sent, OnePlace
  <2>2. ASSUME NEW a \in Actors, step.rows[a] # rows[a]
        PROVE  \E s \in Sent(r) \ Sent(step.request) :
                   /\ s.actor = a
                   /\ step.rows[a] = RowOf(s)
                   /\ rows[a].version <= s.version
    BY <1>1, <2>1, <2>2, PostgresStep DEF Sent, Accepts, OnePlace
  <2>3. ASSUME NEW s \in step.request.stored
        PROVE  s \in Sent(r) /\ step.rows[s.actor] = RowOf(s)
    <3>1. s \in r.todo /\ Accepts(s) /\ s.actor \in Actors
      BY <1>1, <2>3, PostgresStep, RowTypes DEF Requests
    <3>2. PICK t \in r.todo : t.actor = s.actor /\ step.rows[s.actor] = RowOf(t)
      BY <1>1, <3>1, PostgresStep
    <3> QED
      BY <3>1, <3>2 DEF Sent, OnePlace
  <2> QED
    BY <2>1, <2>2, <2>3
<1>2. CASE step \in MongoSteps(r)
  <2>1. PICK s \in Sent(r) : Written(r, step, s) \/ PassedOver(r, step, s)
    BY <1>2, MongoStep
  <2>2. s \in Documents /\ s.actor \in Actors /\ RowOf(s) \in Rows
    BY RowTypes DEF Sent, Requests
  <2>3. CASE Written(r, step, s)
    <3>1. Sent(step.request) = Sent(r) \ {s} /\ OnePlace(step.request)
      BY <2>3 DEF Written, Sent, OnePlace
    <3>2. step.rows = [rows EXCEPT ![s.actor] = RowOf(s)] /\ rows[s.actor].version <= s.version
      BY <2>3 DEF Written
    <3>3. step.request.stored = r.stored \union {s}
      BY <2>3 DEF Written
    <3> QED
      BY <2>1, <2>2, <3>1, <3>2, <3>3
  <2>4. CASE PassedOver(r, step, s)
    <3>1. Sent(step.request) \subseteq Sent(r) /\ OnePlace(step.request)
      BY <2>4 DEF PassedOver, Sent, OnePlace
    <3> QED
      BY <2>4, <3>1 DEF PassedOver
  <2> QED
    BY <2>1, <2>3, <2>4
<1> QED
  BY <1>1, <1>2, Zenon DEF Steps

-----------------------------------------------------------------------------
(* Type correctness.                                                       *)

LEMMA StateTypes ==
  /\ {} \in States
  /\ \A S, T \in States : S \union T \in States
  /\ \A X \in SUBSET States : UNION X \in States
BY DEF States

LEMMA RequestTypes ==
  /\ NoCall \in Requests /\ Sent(NoCall) = {}
  /\ \A r \in Requests : GivenUp(r) \subseteq Requests
  /\ \A r \in Requests : \A q \in GivenUp(r) :
       q.todo = r.todo /\ q.inserting = r.inserting /\ q.stored = {} /\ Sent(q) = Sent(r)
<1>1. NoCall \in Requests /\ Sent(NoCall) = {}
  BY DEF NoCall, Requests, Sent
<1>2. ASSUME NEW r \in Requests, NEW q \in GivenUp(r)
      PROVE  /\ q \in Requests /\ q.stored = {}
             /\ q.todo = r.todo /\ q.inserting = r.inserting /\ Sent(q) = Sent(r)
  <2>1. q = [NoCall EXCEPT !.todo = r.todo, !.inserting = r.inserting]
    BY <1>2 DEF GivenUp
  <2> QED
    BY <1>1, <2>1 DEF NoCall, Requests, Sent
<1> QED
  BY <1>1, <1>2

(* What a node sends, and its type.                                        *)
LEMMA RequestSends ==
  ASSUME NEW n \in Nodes, NEW S, NEW L
  PROVE  \A s : s \in Sent(Request(n, S, L)) <=> \E a \in S : s = Document(n, a)
<1> DEFINE D == {Document(n, a) : a \in S}
<1>1. Request(n, S, L) = [NoCall EXCEPT !.open = TRUE, !.leaving = L, !.todo = D]
  BY DEF Request
<1>2. \A s : s \in D <=> \E a \in S : s = Document(n, a)
  BY DEF D
<1> HIDE DEF D
<1>3. Sent(Request(n, S, L)) = D
  BY <1>1 DEF NoCall, Sent
<1> QED
  BY <1>2, <1>3

LEMMA RequestMade ==
  ASSUME TypeInv, NEW n \in Nodes, NEW S \in SUBSET Enabled(n), NEW L \in SUBSET Actors
  PROVE  /\ Request(n, S, L) \in Requests
         /\ Request(n, S, L).open = TRUE
         /\ Request(n, S, L).inserting = {}
         /\ Request(n, S, L).stored = {}
         /\ Request(n, S, L).leaving = L
<1>1. ASSUME NEW a \in S
      PROVE  Document(n, a) \in Documents
  <2>1. a \in Actors /\ active[n][a] \in Activations /\ active[n][a].epoch # 0
    BY DEF Enabled, TypeInv, TypeOK, EnabledActive, Active
  <2> QED
    BY <2>1 DEF Document, Documents, Activations
<1>2. {Document(n, a) : a \in S} \in SUBSET Documents
  BY <1>1
<1> DEFINE D == {Document(n, a) : a \in S}
<1>3. Request(n, S, L) = [NoCall EXCEPT !.open = TRUE, !.leaving = L, !.todo = D]
  BY DEF Request
<1> HIDE DEF D
<1>4. Request(n, S, L) = [open |-> TRUE, todo |-> D, inserting |-> {}, stored |-> {},
                          stale |-> {}, leaving |-> L]
  BY <1>3 DEF NoCall
<1>5. D \in SUBSET Documents
  BY <1>2 DEF D
<1> QED
  BY <1>4, <1>5 DEF Requests

(* How an activation starts.                                               *)
LEMMA StartedTypes ==
  ASSUME NEW row \in Rows \union {NoRow}, NEW epoch \in Nat \ {0}
  PROVE  /\ Load(row) \in Rows \union {NoRow}
         /\ (Load(row) = NoRow) = (row = NoRow)
         /\ row # NoRow => /\ Load(row).version = row.version + 1
                           /\ Load(row).epoch = row.epoch
                           /\ Load(row).state = row.state
         /\ Started(row, epoch) \in Activations
         /\ Started(row, epoch).epoch = epoch
         /\ Started(row, epoch).enabled = FALSE
<1>1. CASE row = NoRow
  BY <1>1, StateTypes DEF Load, Started, NoRow, Activations
<1>2. CASE row # NoRow
  <2>1. row \in Rows
    BY <1>2
  <2>2. /\ Load(row) = [row EXCEPT !.version = row.version + 1]
        /\ Started(row, epoch) = [epoch |-> epoch, version |-> row.version,
                                  state |-> row.state, enabled |-> FALSE]
    BY <1>2 DEF Load, Started
  <2>3. Load(row) \in Rows /\ Load(row).version = row.version + 1
        /\ Load(row).epoch = row.epoch /\ Load(row).state = row.state
    BY <2>1, <2>2 DEF Rows
  <2>4. Started(row, epoch) \in Activations
    BY <2>1, <2>2 DEF Rows, Activations
  <2> QED
    BY <1>2, <2>2, <2>3, <2>4, RowTypes
<1> QED
  BY <1>1, <1>2

LEMMA InactiveType == Inactive \in Activations /\ Inactive.epoch = 0 /\ ~ Inactive.enabled
  BY StateTypes DEF Inactive, Activations

(* Init, and each action in turn.                                          *)
LEMMA TypeInit == Init => TypeInv
<1> SUFFICES ASSUME Init PROVE TypeInv
  OBVIOUS
<1>1. active \in [Nodes -> [Actors -> Activations]] /\ EnabledActive
  BY InactiveType DEF Init, EnabledActive, Active
<1>2. /\ calls \in [Nodes -> Requests] /\ late \subseteq Requests
      /\ rows \in [Actors -> Rows \union {NoRow}] /\ backend \in Backends
  BY RequestTypes DEF Init
<1>3. /\ history \in Histories
      /\ \A a \in Actors : Len(history.versions[a]) <= MaxActivations[a]
  <2>1. [a \in Actors |-> {}] \in [Actors -> States]
    BY StateTypes
  <2>2. [a \in Actors |-> <<>>] \in [Actors -> Seq(Nat)]
    OBVIOUS
  <2>3. 0 \in 0 .. MaxEffects /\ 0 \in 0 .. MaxFaults
    BY StoreAssumption
  <2>4. history \in Histories
    BY <2>1, <2>2, <2>3 DEF Init, Histories
  <2>5. \A a \in Actors : Len(history.versions[a]) = 0
    BY DEF Init
  <2> QED
    BY <2>4, <2>5, StoreAssumption
<1> QED
  BY <1>1, <1>2, <1>3 DEF TypeInv, TypeOK

LEMMA TypeActivate ==
  ASSUME TypeInv, NEW n \in Nodes, NEW a \in Actors, Activate(n, a)
  PROVE  TypeInv'
<1> DEFINE loaded == IF Loading THEN Load(rows[a]) ELSE NoRow
           epoch == Len(history.versions[a]) + 1
           new == Started(loaded, epoch)
<1>1. /\ rows' = IF Loading THEN [rows EXCEPT ![a] = loaded] ELSE rows
      /\ active' = [active EXCEPT ![n][a] = new]
      /\ history' = [history EXCEPT
              !.versions[a] = Append(@, new.version),
              !.unfenced = IF loaded = NoRow /\ AnotherWriter(a) THEN @ \union {a} ELSE @]
      /\ Len(history.versions[a]) < MaxActivations[a]
      /\ UNCHANGED <<backend, calls, late>>
  BY DEF Activate
<1>2. rows[a] \in Rows \union {NoRow} /\ history \in Histories /\ epoch \in Nat \ {0}
  BY DEF TypeInv, TypeOK, Histories
<1>3. loaded \in Rows \union {NoRow}
  BY <1>2, StartedTypes
<1> HIDE DEF loaded, epoch
<1>4. new \in Activations /\ new.enabled = FALSE /\ new.version \in Nat
  BY <1>2, <1>3, StartedTypes DEF Activations
<1> HIDE DEF new
<1>5. rows' \in [Actors -> Rows \union {NoRow}]
  BY <1>1, <1>3 DEF TypeInv, TypeOK
<1>6. active' \in [Nodes -> [Actors -> Activations]]
  BY <1>1, <1>4 DEF TypeInv, TypeOK
<1>7. EnabledActive'
  BY <1>1, <1>4 DEF TypeInv, TypeOK, EnabledActive, Active
<1>8. /\ history' \in Histories
      /\ \A b \in Actors : Len(history'.versions[b]) <= MaxActivations[b]
  <2> DEFINE v == [history.versions EXCEPT ![a] = Append(history.versions[a], new.version)]
             u == IF loaded = NoRow /\ AnotherWriter(a) THEN history.unfenced \union {a}
                  ELSE history.unfenced
  <2>1. history' = [history EXCEPT !.versions = v, !.unfenced = u]
    BY <1>1, <1>2 DEF Histories
  <2>2. v \in [Actors -> Seq(Nat)]
    BY <1>2, <1>4 DEF Histories
  <2>3. u \in SUBSET Actors
    BY <1>2 DEF Histories
  <2>4. \A b \in Actors : Len(v[b]) <= MaxActivations[b]
    BY <1>1, <1>2, <1>4, StoreAssumption DEF TypeInv, TypeOK, Histories
  <2> HIDE DEF v, u
  <2> QED
    BY <1>2, <2>1, <2>2, <2>3, <2>4 DEF Histories
<1> QED
  BY <1>1, <1>5, <1>6, <1>7, <1>8 DEF TypeInv, TypeOK

(* Fault counts within its bound.                                          *)
LEMMA FaultCounted ==
  ASSUME TypeInv, Fault
  PROVE  /\ history.faults + 1 \in 0 .. MaxFaults
         /\ \A U \in SUBSET Actors :
              [history EXCEPT !.faults = history.faults + 1, !.unfenced = U] \in Histories
         /\ [history EXCEPT !.faults = history.faults + 1] \in Histories
<1>1. history \in Histories
  BY DEF TypeInv, TypeOK
<1>2. history.faults + 1 \in 0 .. MaxFaults
  BY <1>1, StoreAssumption DEF Fault, Histories
<1> QED
  BY <1>1, <1>2 DEF Histories

LEMMA TypeStep ==
  TypeInv /\ [Next]_vars => TypeInv'
<1> SUFFICES ASSUME TypeInv, [Next]_vars
             PROVE  TypeInv'
  OBVIOUS
<1> USE DEF TypeInv
<1>1. ASSUME NEW a \in Actors, LoadFails(a)
      PROVE  TypeInv'
  <2>1. Load(rows[a]) \in Rows \union {NoRow}
    BY StartedTypes, 1 \in Nat \ {0} DEF TypeOK
  <2>2. rows' \in [Actors -> Rows \union {NoRow}]
    BY <1>1, <2>1 DEF LoadFails, TypeOK
  <2>3. history' \in Histories /\ history'.versions = history.versions
    BY <1>1, FaultCounted DEF LoadFails, TypeOK, Histories
  <2> QED
    BY <1>1, <2>2, <2>3 DEF LoadFails, TypeOK, EnabledActive, Active
<1>2. ASSUME NEW n \in Nodes, NEW a \in Actors, Activate(n, a)
      PROVE  TypeInv'
  BY <1>2, TypeActivate
<1>3. ASSUME NEW n \in Nodes, NEW a \in Actors, ReceiveSnapshot(n, a)
      PROVE  TypeInv'
  <2>1. history' \in Histories /\ history'.versions = history.versions
    <3>1. history.effects + 1 \in 0 .. MaxEffects
      BY <1>3, StoreAssumption DEF ReceiveSnapshot, TypeOK, Histories
    <3> QED
      BY <1>3, <3>1 DEF ReceiveSnapshot, TypeOK, Histories
  <2>2. active[n][a].state \union {history.effects + 1} \in States
    BY <1>3, StoreAssumption DEF ReceiveSnapshot, TypeOK, Histories, Activations, States
  <2>3. active' = [active EXCEPT ![n] = [active[n] EXCEPT ![a] =
                    [active[n][a] EXCEPT !.state = active[n][a].state \union {history.effects + 1},
                                         !.enabled = TRUE]]]
    BY <1>3 DEF ReceiveSnapshot, TypeOK, Activations
  <2>4. active' \in [Nodes -> [Actors -> Activations]]
    <3> DEFINE new == [active[n][a] EXCEPT !.state = active[n][a].state \union {history.effects + 1},
                                           !.enabled = TRUE]
    <3>1. new \in Activations
      <4> DEFINE S == active[n][a].state \union {history.effects + 1}
      <4>1. active[n][a] \in Activations /\ S \in States
        BY <2>2 DEF TypeOK
      <4>2. new = [active[n][a] EXCEPT !.state = S, !.enabled = TRUE]
        OBVIOUS
      <4> HIDE DEF S, new
      <4> QED
        BY <4>1, <4>2 DEF Activations
    <3> HIDE DEF new
    <3>2. active' = [active EXCEPT ![n] = [active[n] EXCEPT ![a] = new]]
      BY <2>3 DEF new
    <3> QED
      BY <3>1, <3>2 DEF TypeOK
  <2>5. EnabledActive'
    BY <1>3, <2>3 DEF ReceiveSnapshot, TypeOK, Activations, EnabledActive, Active
  <2> QED
    BY <1>3, <2>1, <2>4, <2>5 DEF ReceiveSnapshot, TypeOK
<1>4. ASSUME NEW n \in Nodes, NEW a \in Actors, ReceiveStopped(n, a)
      PROVE  TypeInv'
  <2>1. CASE active[n][a].enabled
    <3>1. {a} \in SUBSET Enabled(n) /\ {a} \in SUBSET Actors
      BY <2>1 DEF Enabled
    <3>2. Request(n, {a}, {a}) \in Requests
      BY <3>1, RequestMade
    <3> QED
      BY <1>4, <2>1, <3>2 DEF ReceiveStopped, TypeOK, EnabledActive, Active
  <2>2. CASE ~ active[n][a].enabled
    <3>1. /\ active' = [active EXCEPT ![n][a] = Inactive]
          /\ UNCHANGED <<backend, rows, calls, late, history>>
      BY <1>4, <2>2 DEF ReceiveStopped
    <3>2. active' \in [Nodes -> [Actors -> Activations]] /\ EnabledActive'
      BY <3>1, InactiveType DEF TypeOK, EnabledActive, Active
    <3> QED
      BY <3>1, <3>2 DEF TypeOK
  <2> QED
    BY <2>1, <2>2
<1>5. ASSUME NEW n \in Nodes, SnapshotBatch(n)
      PROVE  TypeInv'
  <2>1. Request(n, Enabled(n), {}) \in Requests
    BY RequestMade
  <2> QED
    BY <1>5, <2>1 DEF SnapshotBatch, TypeOK, EnabledActive, Active
<1>6. ASSUME NEW n \in Nodes, Serve(n)
      PROVE  TypeInv'
  <2>1. PICK step \in Steps(calls[n]) :
          /\ rows' = step.rows
          /\ calls' = [calls EXCEPT ![n] = step.request]
          /\ UNCHANGED <<backend, active, late, history>>
    BY <1>6 DEF Serve
  <2>2. step.request \in Requests /\ step.rows \in [Actors -> Rows \union {NoRow}]
    BY <2>1, StepWrites DEF TypeOK, SameCaller
  <2> QED
    BY <2>1, <2>2 DEF TypeOK, EnabledActive, Active
<1>7. ASSUME NEW n \in Nodes, Answer(n)
      PROVE  TypeInv'
  <2> DEFINE r == calls[n]
             S == {s.actor : s \in Success(r)}
             now == Left(n, IF r.stale = {} THEN Disabled(n, S) ELSE active[n])
             told == [a \in Actors |-> history.saved[a] \union
                        UNION {s.state : s \in {d \in Success(r) : d.actor = a}}]
  <2>1. /\ active' = [active EXCEPT ![n] = now]
        /\ history' = [history EXCEPT !.saved = told]
        /\ calls' = [calls EXCEPT ![n] = NoCall]
        /\ UNCHANGED <<backend, rows, late>>
    BY <1>7 DEF Answer, TypeOK, Histories
  <2>2. ASSUME NEW a \in Actors
        PROVE  now[a] \in Activations /\ (now[a].enabled => now[a].epoch # 0)
    <3> DEFINE done == [active[n][a] EXCEPT !.enabled = FALSE]
    <3>1. active[n][a] \in Activations /\ (active[n][a].enabled => active[n][a].epoch # 0)
      BY DEF TypeOK, EnabledActive, Active
    <3>2. done \in Activations /\ ~ done.enabled
      BY <3>1 DEF Activations
    <3>3. now[a] \in {Inactive, done, active[n][a]}
      BY DEF Left, Disabled
    <3> HIDE DEF now, done
    <3> QED
      BY <3>1, <3>2, <3>3, InactiveType
  <2>3. now = [a \in Actors |-> now[a]]
    BY DEF Left
  <2>4. told \in [Actors -> States]
    <3>1. \A a \in Actors : {s.state : s \in {d \in Success(r) : d.actor = a}} \in SUBSET States
      BY DEF TypeOK, Requests, Success, Documents
    <3>2. \A a \in Actors : history.saved[a] \in States
      BY DEF TypeOK, Histories
    <3> QED
      BY <3>1, <3>2, StateTypes
  <2> HIDE DEF now, told
  <2>5. history' \in Histories /\ history'.versions = history.versions
    BY <2>1, <2>4 DEF TypeOK, Histories
  <2>6. active' \in [Nodes -> [Actors -> Activations]] /\ EnabledActive'
    BY <2>1, <2>2, <2>3 DEF TypeOK, EnabledActive, Active
  <2> QED
    BY <2>1, <2>5, <2>6, RequestTypes DEF TypeOK
<1>8. ASSUME NEW n \in Nodes, Timeout(n)
      PROVE  TypeInv'
  <2> DEFINE now == Left(n, active[n])
  <2>1. ASSUME NEW a \in Actors
        PROVE  now[a] \in Activations /\ (now[a].enabled => now[a].epoch # 0)
    BY InactiveType DEF Left, TypeOK, EnabledActive, Active
  <2>2. now = [a \in Actors |-> now[a]]
    BY DEF Left
  <2> HIDE DEF now
  <2>3. Outstanding(calls[n]) \subseteq Actors
    BY DEF TypeOK, Requests, Documents, Outstanding
  <2>4. history' \in Histories /\ history'.versions = history.versions
    <3> DEFINE U == history.unfenced \union (Outstanding(calls[n]) \ calls[n].leaving)
    <3>1. history' = [history EXCEPT !.faults = history.faults + 1, !.unfenced = U]
      BY <1>8 DEF Timeout, TypeOK, Histories
    <3>2. U \in SUBSET Actors
      BY <2>3 DEF TypeOK, Histories
    <3>3. Fault
      BY <1>8 DEF Timeout
    <3> HIDE DEF U
    <3> QED
      BY <3>1, <3>2, <3>3, FaultCounted DEF TypeOK, Histories
  <2>5. active' \in [Nodes -> [Actors -> Activations]] /\ EnabledActive'
    BY <1>8, <2>1, <2>2 DEF now, Timeout, TypeOK, EnabledActive, Active
  <2> QED
    BY <1>8, <2>4, <2>5, RequestTypes DEF Timeout, TypeOK
<1>9. ASSUME NEW n \in Nodes, Crash(n)
      PROVE  TypeInv'
  <2>1. history' \in Histories /\ history'.versions = history.versions
    BY <1>9, FaultCounted DEF Crash, TypeOK, Histories
  <2>2. active' \in [Nodes -> [Actors -> Activations]] /\ EnabledActive'
    BY <1>9, InactiveType DEF Crash, TypeOK, EnabledActive, Active
  <2> QED
    BY <1>9, <2>1, <2>2, RequestTypes DEF Crash, TypeOK
<1>10. ASSUME ServeLate
       PROVE  TypeInv'
  <2>1. PICK r \in late : \E step \in Steps(r) :
          /\ rows' = step.rows
          /\ late' = (late \ {r}) \union GivenUp(step.request)
          /\ UNCHANGED <<backend, active, calls, history>>
    BY <1>10 DEF ServeLate
  <2>2. PICK step \in Steps(r) :
          /\ rows' = step.rows
          /\ late' = (late \ {r}) \union GivenUp(step.request)
          /\ UNCHANGED <<backend, active, calls, history>>
    BY <2>1
  <2>3. r \in Requests
    BY DEF TypeOK
  <2>4. step.request \in Requests /\ step.rows \in [Actors -> Rows \union {NoRow}]
    BY <2>3, StepWrites DEF TypeOK, SameCaller
  <2> QED
    BY <2>2, <2>4, RequestTypes DEF TypeOK, EnabledActive, Active
<1>11. CASE UNCHANGED vars
  BY <1>11 DEF vars, TypeOK, EnabledActive, Active
<1> QED
  BY <1>1, <1>2, <1>3, <1>4, <1>5, <1>6, <1>7, <1>8, <1>9, <1>10, <1>11 DEF Next, Quiet

-----------------------------------------------------------------------------
(* The fence.                                                              *)

LEMMA FenceIsNat ==
  ASSUME TypeInv, NEW a \in Actors
  PROVE  /\ Fence(a) \in Nat
         /\ rows[a] # NoRow => Fence(a) = rows[a].version /\ rows[a].epoch # 0
         /\ rows[a] = NoRow => Fence(a) = 0
         /\ \A n \in Nat : rows[a].version <= n /\ n <= Fence(a) => n = Fence(a)
BY RowTypes DEF TypeInv, TypeOK, Fence, Rows

(* As long as no activation starts, nothing moves a fence down, and        *)
(* whatever runs or is sent goes on with what it had, the fence is kept.   *)
LEMMA FencePreserved ==
  ASSUME FenceInv, TypeInv',
         history'.versions = history.versions,
         \A a \in Actors : Fence(a)' >= Fence(a),
         \A n \in Nodes, a \in Actors :
           Active(n, a)' => /\ Active(n, a)
                            /\ active'[n][a].epoch = active[n][a].epoch
                            /\ active'[n][a].version = active[n][a].version,
         \A q \in RequestsInFlight' : \A s \in Sent(q) :
           \/ \E r \in RequestsInFlight : s \in Sent(r)
           \/ \E n \in Nodes, a \in Actors : Active(n, a) /\ s = Document(n, a)
  PROVE  FenceInv'
<1>1. \A a, e, v : Of(a, e, v)' = Of(a, e, v)
  BY DEF Of
<1>2. VersionsBelowFence'
  <2> SUFFICES ASSUME NEW a \in Actors, NEW e \in DOMAIN history.versions[a]
               PROVE  history.versions[a][e] <= Fence(a)'
    BY DEF VersionsBelowFence
  <2>1. history.versions[a] \in Seq(Nat)
    BY DEF FenceInv, TypeInv, TypeOK, Histories
  <2>2. history.versions[a][e] \in Nat
    BY <2>1
  <2>3. history.versions[a][e] <= Fence(a) /\ Fence(a) \in Nat
    BY FenceIsNat DEF FenceInv, VersionsBelowFence
  <2>4. Fence(a)' \in Nat
    BY RowTypes DEF TypeInv, TypeOK, Fence, Rows
  <2> QED
    BY <2>2, <2>3, <2>4
<1>3. ActiveVersions'
  BY <1>1 DEF FenceInv, ActiveVersions
<1>4. SentVersions'
  <2> SUFFICES ASSUME NEW q \in RequestsInFlight', NEW s \in Sent(q)
               PROVE  Of(s.actor, s.epoch, s.version)
    BY <1>1 DEF SentVersions
  <2>1. CASE \E r \in RequestsInFlight : s \in Sent(r)
    BY <2>1 DEF FenceInv, SentVersions
  <2>2. CASE \E n \in Nodes, a \in Actors : Active(n, a) /\ s = Document(n, a)
    BY <2>2 DEF FenceInv, ActiveVersions, Document
  <2> QED
    BY <2>1, <2>2
<1> QED
  BY <1>2, <1>3, <1>4 DEF FenceInv

(* What the database does leaves the fences where they are, and only one   *)
(* who holds the fence writes.                                             *)
LEMMA ServedHoldsFence ==
  ASSUME FenceInv, NEW r \in RequestsInFlight, NEW step \in Steps(r),
         rows' = step.rows
  PROVE  /\ \A s \in Sent(r) : s.actor \in Actors /\ s.version \in Nat /\ s.version <= Fence(s.actor)
         /\ \A a \in Actors : Fence(a)' = Fence(a)
         /\ \A a \in Actors : rows'[a] # rows[a] => rows'[a].epoch \in Holders(a)
<1>1. r \in Requests
  BY DEF RequestsInFlight, FenceInv, TypeInv, TypeOK
<1>2. /\ \A a \in Actors :
              \/ step.rows[a] = rows[a]
              \/ \E s \in Sent(r) : /\ s.actor = a
                                    /\ step.rows[a] = RowOf(s)
                                    /\ rows[a].version <= s.version
  BY <1>1, StepWrites DEF FenceInv, TypeInv, TypeOK
<1>3. \A s \in Sent(r) : s.actor \in Actors /\ s.version \in Nat /\ s \in Documents
  BY <1>1 DEF Requests, Documents, Sent
<1>4. \A s \in Sent(r) : /\ s.epoch \in DOMAIN history.versions[s.actor]
                         /\ history.versions[s.actor][s.epoch] = s.version
                         /\ s.version <= Fence(s.actor)
  BY <1>3 DEF FenceInv, SentVersions, Of, VersionsBelowFence
<1>5. ASSUME NEW a \in Actors, rows'[a] # rows[a]
      PROVE  Fence(a)' = Fence(a) /\ rows'[a].epoch \in Holders(a)
  <2>1. PICK s \in Sent(r) : /\ s.actor = a
                             /\ rows'[a] = RowOf(s)
                             /\ rows[a].version <= s.version
    BY <1>2, <1>5
  <2>2. s.version = Fence(a)
    BY <1>3, <1>4, <2>1, FenceIsNat DEF FenceInv
  <2>3. rows'[a] # NoRow /\ rows'[a].version = s.version /\ rows'[a].epoch = s.epoch
    <3>1. RowOf(s) \in Rows
      BY <1>3, RowTypes
    <3> QED
      BY <2>1, <3>1, RowTypes DEF RowOf
  <2> QED
    BY <1>4, <2>1, <2>2, <2>3 DEF Fence, Holders
<1>6. \A a \in Actors : rows'[a] = rows[a] => Fence(a)' = Fence(a)
  BY DEF Fence
<1> QED
  BY <1>3, <1>4, <1>5, <1>6

LEMMA FenceInit == Init => FenceInv
<1> SUFFICES ASSUME Init PROVE FenceInv
  OBVIOUS
<1>1. TypeInv
  BY TypeInit
<1>2. VersionsBelowFence
  BY DEF Init, VersionsBelowFence
<1>3. ActiveVersions
  BY DEF Init, ActiveVersions, Active, Inactive
<1>4. SentVersions
  BY RequestTypes DEF Init, SentVersions, RequestsInFlight
<1> QED
  BY <1>1, <1>2, <1>3, <1>4 DEF FenceInv

(* An activation's Load advances the fence and makes the activation the    *)
(* only holder; that of a new actor joins those that share the first one.  *)
LEMMA FenceActivate ==
  ASSUME FenceInv, NEW n \in Nodes, NEW a \in Actors, Activate(n, a)
  PROVE  /\ FenceInv'
         /\ Loading => Fenced!Join(a) \/ Fenced!Advance(a)
<1> DEFINE loaded == IF Loading THEN Load(rows[a]) ELSE NoRow
           epoch == Len(history.versions[a]) + 1
           new == Started(loaded, epoch)
<1>1. /\ rows' = IF Loading THEN [rows EXCEPT ![a] = loaded] ELSE rows
      /\ active' = [active EXCEPT ![n][a] = new]
      /\ history'.versions = [history.versions EXCEPT ![a] = Append(@, new.version)]
      /\ UNCHANGED <<backend, calls, late>>
  BY DEF Activate, FenceInv, TypeInv, TypeOK, Histories
<1>2. /\ TypeInv /\ TypeInv'
      /\ rows[a] \in Rows \union {NoRow} /\ history.versions[a] \in Seq(Nat)
      /\ epoch \in Nat \ {0}
      /\ history.versions \in [Actors -> Seq(Nat)]
      /\ rows \in [Actors -> Rows \union {NoRow}]
  BY TypeActivate DEF FenceInv, TypeInv, TypeOK, Histories
<1>3. /\ loaded \in Rows \union {NoRow}
      /\ new \in Activations /\ new.epoch = epoch
      /\ new.version = IF loaded = NoRow THEN 0 ELSE loaded.version
      /\ ~ Loading => loaded = NoRow
      /\ Loading => (loaded = NoRow) = (rows[a] = NoRow)
      /\ Loading /\ rows[a] # NoRow => /\ loaded.version = rows[a].version + 1
                                       /\ loaded.epoch = rows[a].epoch
                                       /\ loaded.state = rows[a].state
  <2>1. Load(rows[a]) \in Rows \union {NoRow} /\ NoRow \in Rows \union {NoRow}
    BY <1>2, StartedTypes
  <2>2. loaded \in Rows \union {NoRow}
    BY <2>1
  <2>3. new \in Activations /\ new.epoch = epoch
    <3> HIDE DEF loaded, epoch
    <3> QED
      BY <1>2, <2>2, StartedTypes
  <2>4. new.version = IF loaded = NoRow THEN 0 ELSE loaded.version
    BY DEF Started
  <2> QED
    BY <1>2, <2>2, <2>3, <2>4, StartedTypes
<1> HIDE DEF loaded, epoch, new
<1>4. new.version \in Nat /\ epoch = Len(history.versions[a]) + 1
  BY <1>3 DEF Activations, epoch
<1>5. /\ DOMAIN history'.versions[a] = (DOMAIN history.versions[a]) \union {epoch}
      /\ epoch \notin DOMAIN history.versions[a]
      /\ history'.versions[a][epoch] = new.version
      /\ \A e \in DOMAIN history.versions[a] :
           /\ history'.versions[a][e] = history.versions[a][e]
           /\ history.versions[a][e] \in Nat
           /\ history.versions[a][e] <= Fence(a)
      /\ \A b \in Actors \ {a} : history'.versions[b] = history.versions[b]
  <2>1. history'.versions[a] = Append(history.versions[a], new.version)
    BY <1>1, <1>2
  <2>2. \A e \in DOMAIN history.versions[a] : history.versions[a][e] <= Fence(a)
    BY DEF FenceInv, VersionsBelowFence
  <2> QED
    BY <1>1, <1>2, <1>4, <2>1, <2>2
<1>6. /\ Fence(a) \in Nat
      /\ rows[a] # NoRow => Fence(a) = rows[a].version
      /\ rows[a] = NoRow => Fence(a) = 0
  BY <1>2, FenceIsNat
<1>7. /\ Fence(a)' = IF Loading /\ rows[a] # NoRow THEN Fence(a) + 1 ELSE Fence(a)
      /\ \A b \in Actors \ {a} : Fence(b)' = Fence(b)
      /\ new.version = IF Loading THEN Fence(a)' ELSE 0
  <2>1. CASE Loading /\ rows[a] # NoRow
    <3>1. rows' = [rows EXCEPT ![a] = loaded] /\ loaded # NoRow
      BY <1>1, <1>3, <2>1
    <3> QED
      BY <1>2, <1>3, <1>6, <2>1, <3>1 DEF Fence
  <2>2. CASE Loading /\ rows[a] = NoRow
    <3>1. rows' = rows /\ loaded = NoRow
      BY <1>1, <1>2, <1>3, <2>2
    <3> QED
      BY <1>3, <1>6, <2>2, <3>1 DEF Fence
  <2>3. CASE ~ Loading
    BY <1>1, <1>3, <2>3 DEF Fence
  <2> QED
    BY <2>1, <2>2, <2>3
<1>8. \A b \in Actors : \A e, v : Of(b, e, v) => Of(b, e, v)'
  BY <1>5 DEF Of
<1>9. VersionsBelowFence'
  <2>1. \A e \in DOMAIN history'.versions[a] : history'.versions[a][e] <= Fence(a)'
    BY <1>4, <1>5, <1>6, <1>7
  <2> QED
    BY <1>5, <1>7, <2>1 DEF FenceInv, VersionsBelowFence
<1>10. ActiveVersions'
  <2> SUFFICES ASSUME NEW m \in Nodes, NEW b \in Actors, Active(m, b)'
               PROVE  Of(b, active[m][b].epoch, active[m][b].version)'
    BY DEF ActiveVersions
  <2>1. CASE m = n /\ b = a
    <3>1. active'[m][b] = new
      BY <1>1, <2>1 DEF FenceInv, TypeInv, TypeOK
    <3> QED
      BY <1>3, <1>5, <2>1, <3>1 DEF Of
  <2>2. CASE ~ (m = n /\ b = a)
    <3>1. active'[m][b] = active[m][b]
      BY <1>1, <2>2 DEF FenceInv, TypeInv, TypeOK
    <3> QED
      BY <1>8, <3>1 DEF FenceInv, ActiveVersions, Active
  <2> QED
    BY <2>1, <2>2
<1>11. SentVersions'
  <2> SUFFICES ASSUME NEW q \in RequestsInFlight', NEW s \in Sent(q)
               PROVE  Of(s.actor, s.epoch, s.version)'
    BY DEF SentVersions
  <2>1. q \in RequestsInFlight
    BY <1>1 DEF RequestsInFlight
  <2>2. s.actor \in Actors
    BY <2>1 DEF RequestsInFlight, FenceInv, TypeInv, TypeOK, Requests, Documents, Sent
  <2> QED
    BY <1>8, <2>1, <2>2 DEF FenceInv, SentVersions
<1>12. ASSUME Loading, rows[a] = NoRow
       PROVE  Fenced!Join(a)
  <2>1. rows' = rows
    BY <1>1, <1>2, <1>3, <1>12
  <2>2. rows[a].epoch = 0 /\ Fence(a) = 0
    BY <1>6, <1>12, RowTypes
  <2>3. Holders(a) \subseteq Holders(a)'
    BY <1>5, <1>7, <1>12 DEF Holders
  <2>4. \A b \in Actors \ {a} : Holders(b)' = Holders(b)
    BY <1>5, <1>7 DEF Holders
  <2>5. \A b \in Actors : Fence(b)' = Fence(b)
    BY <1>7, <1>12
  <2> QED
    BY <2>1, <2>2, <2>3, <2>4, <2>5 DEF Fenced!Join, Fenced!Empty
<1>13. ASSUME Loading, rows[a] # NoRow
       PROVE  Fenced!Advance(a)
  <2>1. /\ rows' = [rows EXCEPT ![a] = loaded]
        /\ loaded.epoch = rows[a].epoch /\ loaded.state = rows[a].state
    BY <1>1, <1>3, <1>13
  <2>2. rows[a].epoch # 0
    BY <1>2, <1>13, FenceIsNat
  <2>3. Holders(a)' = {epoch}
    BY <1>4, <1>5, <1>6, <1>7, <1>13 DEF Holders
  <2>4. epoch \notin Holders(a)
    BY <1>5 DEF Holders
  <2>5. \A b \in Actors \ {a} : Holders(b)' = Holders(b)
    BY <1>5, <1>7 DEF Holders
  <2>6. [b \in Actors |-> Fence(b)'] = [[b \in Actors |-> Fence(b)] EXCEPT ![a] = @ + 1]
    BY <1>7, <1>13
  <2>7. \A b \in Actors : rows'[b].epoch = rows[b].epoch /\ rows'[b].state = rows[b].state
    BY <1>2, <2>1
  <2> QED
    BY <2>2, <2>3, <2>4, <2>5, <2>6, <2>7 DEF Fenced!Advance, Fenced!Empty
<1> QED
  BY <1>2, <1>9, <1>10, <1>11, <1>12, <1>13 DEF FenceInv

(* Every other step keeps the fences' invariant, and is a step of          *)
(* FencedStore or none.                                                    *)
LEMMA FenceStep ==
  FenceInv /\ [Next]_vars
    => FenceInv' /\ (Loading => [Fenced!Next]_(Fenced!vars))
<1> SUFFICES ASSUME FenceInv, [Next]_vars
             PROVE  FenceInv' /\ (Loading => [Fenced!Next]_(Fenced!vars))
  OBVIOUS
<1>1. TypeInv /\ TypeInv'
  BY TypeStep DEF FenceInv
<1>2. \A a \in Actors : Fence(a) \in Nat
  BY <1>1, FenceIsNat
<1>3. ASSUME UNCHANGED rows, history'.versions = history.versions
      PROVE  UNCHANGED Fenced!vars /\ \A a \in Actors : Fence(a)' >= Fence(a)
  <2>1. \A a \in Actors : Fence(a)' = Fence(a) /\ Holders(a)' = Holders(a)
    BY <1>3 DEF Fence, Holders
  <2> QED
    BY <1>2, <1>3, <2>1 DEF Fenced!vars
<1>4. ASSUME NEW a \in Actors, LoadFails(a)
      PROVE  FenceInv' /\ Fenced!Next
  <2>1. /\ rows' = [rows EXCEPT ![a] = Load(rows[a])]
        /\ rows[a] # NoRow
        /\ history'.versions = history.versions
        /\ UNCHANGED <<backend, active, calls, late>>
    BY <1>1, <1>4 DEF LoadFails, TypeInv, TypeOK, Histories
  <2>2. /\ Load(rows[a]) # NoRow
        /\ Load(rows[a]).version = rows[a].version + 1
        /\ Load(rows[a]).epoch = rows[a].epoch
        /\ Load(rows[a]).state = rows[a].state
    BY <1>1, <2>1, StartedTypes, 1 \in Nat \ {0} DEF TypeInv, TypeOK
  <2>3. /\ Fence(a)' = Fence(a) + 1
        /\ \A b \in Actors \ {a} : Fence(b)' = Fence(b)
    BY <1>1, <2>1, <2>2 DEF Fence, TypeInv, TypeOK
  <2>4. Holders(a)' = {}
    <3> SUFFICES ASSUME NEW e \in DOMAIN history.versions[a],
                        history.versions[a][e] = Fence(a) + 1
                 PROVE  FALSE
      BY <2>1, <2>3 DEF Holders
    <3>1. history.versions[a][e] <= Fence(a)
      BY DEF FenceInv, VersionsBelowFence
    <3> QED
      BY <1>2, <3>1
  <2>5. \A b \in Actors \ {a} : Holders(b)' = Holders(b)
    BY <2>1, <2>3 DEF Holders
  <2>6. rows[a].epoch # 0
    BY <1>1, <2>1, FenceIsNat
  <2>7. [b \in Actors |-> Fence(b)'] = [[b \in Actors |-> Fence(b)] EXCEPT ![a] = @ + 1]
    BY <2>3
  <2>8. \A b \in Actors : rows'[b].epoch = rows[b].epoch /\ rows'[b].state = rows[b].state
    BY <1>1, <2>1, <2>2 DEF TypeInv, TypeOK
  <2>9. Fenced!Advance(a)
    BY <2>4, <2>5, <2>6, <2>7, <2>8 DEF Fenced!Advance, Fenced!Empty
  <2>10. FenceInv'
    <3>1. \A b \in Actors : Fence(b)' >= Fence(b)
      BY <1>2, <2>3
    <3> QED
      BY <1>1, <2>1, <3>1, FencePreserved DEF RequestsInFlight, Active
  <2> QED
    BY <2>9, <2>10 DEF Fenced!Next
<1>5. ASSUME NEW n \in Nodes, NEW a \in Actors, Activate(n, a)
      PROVE  FenceInv' /\ (Loading => Fenced!Next)
  BY <1>5, FenceActivate DEF Fenced!Next
<1>6. ASSUME NEW n \in Nodes, NEW a \in Actors, ReceiveSnapshot(n, a)
      PROVE  FenceInv' /\ UNCHANGED Fenced!vars
  <2>1. /\ UNCHANGED <<backend, rows, calls, late>>
        /\ history'.versions = history.versions
        /\ Active(n, a)
    BY <1>1, <1>6 DEF ReceiveSnapshot, TypeInv, TypeOK, Histories
  <2>2. \A m \in Nodes, b \in Actors :
           /\ active'[m][b].epoch = active[m][b].epoch
           /\ active'[m][b].version = active[m][b].version
    BY <1>1, <1>6 DEF ReceiveSnapshot, TypeInv, TypeOK, Activations
  <2> QED
    BY <1>1, <1>3, <2>1, <2>2, FencePreserved DEF RequestsInFlight, Active
<1>7. ASSUME NEW n \in Nodes, NEW a \in Actors, ReceiveStopped(n, a)
      PROVE  FenceInv' /\ UNCHANGED Fenced!vars
  <2>1. UNCHANGED <<backend, rows, late, history>> /\ Active(n, a)
    BY <1>7 DEF ReceiveStopped
  <2>2. CASE active[n][a].enabled
    <3>1. calls' = [calls EXCEPT ![n] = Request(n, {a}, {a})] /\ UNCHANGED active
      BY <1>7, <2>2 DEF ReceiveStopped
    <3>2. {a} \in SUBSET Enabled(n) /\ {a} \in SUBSET Actors
      BY <2>2 DEF Enabled
    <3>3. Sent(Request(n, {a}, {a})) = {Document(n, a)}
      BY RequestSends
    <3>4. \A q \in RequestsInFlight' : q \in RequestsInFlight \/ q = Request(n, {a}, {a})
      BY <1>1, <2>1, <3>1 DEF RequestsInFlight, TypeInv, TypeOK
    <3> QED
      BY <1>1, <1>3, <2>1, <3>1, <3>3, <3>4, FencePreserved DEF Active
  <2>3. CASE ~ active[n][a].enabled
    <3>1. active' = [active EXCEPT ![n][a] = Inactive] /\ UNCHANGED calls
      BY <1>7, <2>3 DEF ReceiveStopped
    <3>2. \A m \in Nodes, b \in Actors : active'[m][b] \in {active[m][b], Inactive}
      BY <1>1, <3>1 DEF TypeInv, TypeOK
    <3> QED
      BY <1>1, <1>3, <2>1, <3>1, <3>2, InactiveType, FencePreserved DEF RequestsInFlight, Active
  <2> QED
    BY <2>2, <2>3
<1>8. ASSUME NEW n \in Nodes, SnapshotBatch(n)
      PROVE  FenceInv' /\ UNCHANGED Fenced!vars
  <2>1. /\ UNCHANGED <<backend, active, rows, late, history>>
        /\ calls' = [calls EXCEPT ![n] = Request(n, Enabled(n), {})]
    BY <1>8 DEF SnapshotBatch
  <2>2. \A s \in Sent(Request(n, Enabled(n), {})) : \E a \in Enabled(n) : s = Document(n, a)
    BY RequestSends
  <2>3. \A a \in Enabled(n) : a \in Actors /\ Active(n, a)
    BY <1>1 DEF Enabled, TypeInv, EnabledActive
  <2>4. \A q \in RequestsInFlight' : q \in RequestsInFlight \/ q = Request(n, Enabled(n), {})
    BY <1>1, <2>1 DEF RequestsInFlight, TypeInv, TypeOK
  <2> QED
    BY <1>1, <1>3, <2>1, <2>2, <2>3, <2>4, FencePreserved DEF Active
<1>9. ASSUME NEW r \in RequestsInFlight, NEW step \in Steps(r),
             rows' = step.rows,
             UNCHANGED <<backend, active, history>>,
             \A q \in RequestsInFlight' :
               q \in RequestsInFlight \/ Sent(q) \subseteq Sent(step.request)
      PROVE  FenceInv' /\ Fenced!Next
  <2>1. /\ \A a \in Actors : Fence(a)' = Fence(a)
        /\ \A a \in Actors : rows'[a] # rows[a] => rows'[a].epoch \in Holders(a)
    BY <1>9, ServedHoldsFence
  <2>2. Sent(step.request) \subseteq Sent(r)
    <3>1. r \in Requests
      BY <1>1 DEF RequestsInFlight, TypeInv, TypeOK
    <3> QED
      BY <1>1, <3>1, StepWrites DEF TypeInv, TypeOK
  <2>3. FenceInv'
    <3>1. \A a \in Actors : Fence(a)' >= Fence(a)
      BY <1>2, <2>1
    <3>2. \A q \in RequestsInFlight' : \A s \in Sent(q) :
            \E p \in RequestsInFlight : s \in Sent(p)
      BY <1>9, <2>2
    <3> QED
      BY <1>1, <1>9, <3>1, <3>2, FencePreserved DEF Active
  <2> DEFINE W == {a \in Actors : rows'[a] # rows[a]}
  <2>4. Fenced!Replace(W)
    <3>1. \A a \in Actors : Holders(a)' = Holders(a)
      BY <1>9, <2>1 DEF Holders
    <3> QED
      BY <2>1, <3>1 DEF Fenced!Replace
  <2>5. W \in SUBSET Actors
    OBVIOUS
  <2> HIDE DEF W
  <2>6. \E S \in SUBSET Actors : Fenced!Replace(S)
    BY <2>4, <2>5, Zenon DEF Fenced!Replace
  <2> QED
    BY <2>3, <2>6 DEF Fenced!Next
<1>10. ASSUME NEW n \in Nodes, Serve(n)
       PROVE  FenceInv' /\ Fenced!Next
  <2>1. PICK step \in Steps(calls[n]) :
          /\ rows' = step.rows
          /\ calls' = [calls EXCEPT ![n] = step.request]
          /\ UNCHANGED <<backend, active, late, history>>
    BY <1>10 DEF Serve
  <2>2. calls[n] \in RequestsInFlight
    BY DEF RequestsInFlight
  <2>3. \A q \in RequestsInFlight' : q \in RequestsInFlight \/ q = step.request
    BY <1>1, <2>1 DEF RequestsInFlight, TypeInv, TypeOK
  <2> QED
    BY <1>9, <2>1, <2>2, <2>3
<1>11. ASSUME ServeLate
       PROVE  FenceInv' /\ Fenced!Next
  <2>1. PICK r \in late : \E step \in Steps(r) :
          /\ rows' = step.rows
          /\ late' = (late \ {r}) \union GivenUp(step.request)
          /\ UNCHANGED <<backend, active, calls, history>>
    BY <1>11 DEF ServeLate
  <2>2. PICK step \in Steps(r) :
          /\ rows' = step.rows
          /\ late' = (late \ {r}) \union GivenUp(step.request)
          /\ UNCHANGED <<backend, active, calls, history>>
    BY <2>1
  <2>3. r \in RequestsInFlight /\ r \in Requests
    BY <1>1 DEF RequestsInFlight, TypeInv, TypeOK
  <2>4. step.request \in Requests
    BY <1>1, <2>3, StepWrites DEF TypeInv, TypeOK, SameCaller
  <2>5. \A q \in RequestsInFlight' : q \in RequestsInFlight \/ Sent(q) = Sent(step.request)
    BY <2>2, <2>4, RequestTypes DEF RequestsInFlight
  <2> QED
    BY <1>9, <2>2, <2>3, <2>5
<1>12. ASSUME NEW n \in Nodes, Answer(n) \/ Timeout(n) \/ Crash(n)
       PROVE  FenceInv' /\ UNCHANGED Fenced!vars
  <2>1. UNCHANGED rows /\ history'.versions = history.versions
    BY <1>1, <1>12 DEF Answer, Timeout, Crash, TypeInv, TypeOK, Histories
  <2>2. \A m \in Nodes, b \in Actors :
           Active(m, b)' => /\ Active(m, b)
                            /\ active'[m][b].epoch = active[m][b].epoch
                            /\ active'[m][b].version = active[m][b].version
    <3> SUFFICES ASSUME NEW b \in Actors, NEW m \in Nodes
                 PROVE  Active(m, b)' => /\ active'[m][b].epoch = active[m][b].epoch
                                         /\ active'[m][b].version = active[m][b].version
      BY DEF Active
    <3> DEFINE done == [active[n][b] EXCEPT !.enabled = FALSE]
    <3>1. done.epoch = active[n][b].epoch /\ done.version = active[n][b].version
      BY <1>1 DEF TypeInv, TypeOK, Activations
    <3>2. active'[m][b] = active[m][b] \/ (m = n /\ active'[m][b] \in {Inactive, done})
      <4> HIDE DEF done
      <4>1. \A x : Left(n, x)[b] \in {x[b], Inactive}
        BY DEF Left
      <4>2. \A S : Disabled(n, S)[b] \in {active[n][b], done}
        BY DEF Disabled, done
      <4>3. \A k \in Nodes \ {n} : active'[k] = active[k]
        BY <1>1, <1>12 DEF Answer, Timeout, Crash, TypeInv, TypeOK
      <4>4. active'[n][b] \in {active[n][b], Inactive, done}
        <5>1. CASE Answer(n)
          <6> DEFINE S == {s.actor : s \in Success(calls[n])}
                     x == IF calls[n].stale = {} THEN Disabled(n, S) ELSE active[n]
          <6>1. active'[n] = Left(n, x)
            BY <1>1, <5>1 DEF Answer, TypeInv, TypeOK
          <6>2. x[b] \in {active[n][b], done}
            BY <4>2
          <6> HIDE DEF x
          <6> QED
            BY <4>1, <6>1, <6>2
        <5>2. CASE Timeout(n)
          <6>1. active'[n] = Left(n, active[n])
            BY <1>1, <5>2 DEF Timeout, TypeInv, TypeOK
          <6> QED
            BY <4>1, <6>1
        <5>3. CASE Crash(n)
          BY <1>1, <5>3 DEF Crash, TypeInv, TypeOK
        <5> QED
          BY <1>12, <5>1, <5>2, <5>3
      <4> QED
        BY <4>3, <4>4
    <3> HIDE DEF done
    <3> QED
      BY <3>1, <3>2, InactiveType DEF Active
  <2>3. \A q \in RequestsInFlight' :
          q \in RequestsInFlight \/ Sent(q) = {} \/ Sent(q) = Sent(calls[n])
    <3>1. calls' = [calls EXCEPT ![n] = NoCall] /\ late' \subseteq late \union GivenUp(calls[n])
      BY <1>12 DEF Answer, Timeout, Crash
    <3>2. \A q \in GivenUp(calls[n]) : Sent(q) = Sent(calls[n])
      BY <1>1, RequestTypes DEF TypeInv, TypeOK
    <3> QED
      BY <1>1, <3>1, <3>2, RequestTypes DEF RequestsInFlight, TypeInv, TypeOK
  <2>4. calls[n] \in RequestsInFlight
    BY DEF RequestsInFlight
  <2> QED
    BY <1>1, <1>3, <2>1, <2>2, <2>3, <2>4, FencePreserved
<1>13. CASE UNCHANGED vars
  BY <1>1, <1>3, <1>13, FencePreserved DEF vars, RequestsInFlight, Active
<1> QED
  BY <1>4, <1>5, <1>6, <1>7, <1>8, <1>10, <1>11, <1>12, <1>13 DEF Next, Quiet

(* The store's types, and every version's being at most the fence of its   *)
(* actor, whether activations load or not.                                 *)
THEOREM StoreTyped == Spec => []TypeOK
<1>1. FenceInv => TypeOK
  BY DEF FenceInv, TypeInv
<1> QED
  BY <1>1, FenceInit, FenceStep, PTL DEF Spec

(* When activations load, the versions shut the older writers out: the     *)
(* store implements FencedStore, with either database, and whatever        *)
(* request is carried out late.                                            *)
THEOREM StoreIsFenced ==
  ASSUME Loading
  PROVE  Spec => FenceHolds
<1>1. Init => Fenced!Init
  BY DEF Init, Fenced!Init, NoRow, Fence, Holders
<1> QED
  BY <1>1, FenceInit, FenceStep, PTL DEF Spec, FenceHolds, Fenced!Spec

-----------------------------------------------------------------------------
(* What keeps a saved snapshot.  A node that waits is still the activation *)
(* whose snapshot it sent, and a request has an actor at one place only.   *)
CallsCurrent ==
  \A n \in Nodes :
    /\ Free(n) => calls[n] = NoCall
    /\ \A s \in Sent(calls[n]) : Active(n, s.actor) /\ s = Document(n, s.actor)

OneDocument == \A r \in RequestsInFlight : OnePlace(r)

(* Of an actor that is not unfenced there is one writer at most that holds *)
(* the fence: an activation, or one request nobody waits for.              *)
HoldsFence(n, a) == Active(n, a) /\ active[n][a].version = Fence(a)

LateWrites(r, a) == {s \in Sent(r) : s.actor = a /\ s.version = Fence(a)}

OneWriter(a) ==
  /\ \A n, m \in Nodes : HoldsFence(n, a) /\ HoldsFence(m, a) => n = m
  /\ \A r \in late : LateWrites(r, a) # {} => \A n \in Nodes : ~ HoldsFence(n, a)
  /\ \A r, q \in late : LateWrites(r, a) # {} /\ LateWrites(q, a) # {} => r = q

(* What a writer holds goes on from the row.                               *)
GoesOn(a) ==
  /\ \A n \in Nodes : HoldsFence(n, a) => rows[a].state \subseteq active[n][a].state
  /\ \A r \in late : \A s \in LateWrites(r, a) : rows[a].state \subseteq s.state

StoredIsKept(a) ==
  \A n \in Nodes : \A s \in calls[n].stored :
    s.actor = a => s.state \subseteq rows[a].state

Writers == \A a \in Actors \ history.unfenced : OneWriter(a) /\ GoesOn(a) /\ StoredIsKept(a)

KeepInv == FenceInv /\ CallsCurrent /\ OneDocument /\ Writers /\ SavedIsKept

(* The fence of an actor that no step touches: its writers stay what they  *)
(* are when no activation starts to hold it and nothing is sent.           *)
LEMMA WritersFrame ==
  ASSUME NEW a \in Actors, OneWriter(a), GoesOn(a), StoredIsKept(a),
         rows'[a] = rows[a],
         \A n \in Nodes : HoldsFence(n, a)' =>
           HoldsFence(n, a) /\ active[n][a].state \subseteq active'[n][a].state,
         \A q \in late' : LateWrites(q, a) # {} => q \in late,
         \A n \in Nodes : \A s \in calls'[n].stored : s.actor = a => s \in calls[n].stored
  PROVE  OneWriter(a)' /\ GoesOn(a)' /\ StoredIsKept(a)'
<1>1. Fence(a)' = Fence(a)
  BY DEF Fence
<1>2. \A q : LateWrites(q, a)' = LateWrites(q, a)
  BY <1>1 DEF LateWrites
<1>3. OneWriter(a)'
  BY <1>2 DEF OneWriter
<1>4. GoesOn(a)'
  <2>1. \A n \in Nodes : HoldsFence(n, a)' => rows'[a].state \subseteq active'[n][a].state
    BY DEF GoesOn
  <2>2. \A q \in late' : \A s \in LateWrites(q, a)' : rows'[a].state \subseteq s.state
    BY <1>2 DEF GoesOn
  <2> QED
    BY <2>1, <2>2 DEF GoesOn
<1>5. StoredIsKept(a)'
  BY DEF StoredIsKept
<1> QED
  BY <1>3, <1>4, <1>5

(* What a request that is sent says of its node, and of the fence.         *)
LEMMA SentFacts ==
  ASSUME KeepInv, NEW n \in Nodes, NEW s \in Sent(calls[n])
  PROVE  /\ s \in Documents /\ s.actor \in Actors
         /\ Active(n, s.actor)
         /\ s.version = active[n][s.actor].version
         /\ s.epoch = active[n][s.actor].epoch
         /\ s.state = active[n][s.actor].state
         /\ s.version <= Fence(s.actor)
<1>1. calls[n] \in Requests
  BY DEF KeepInv, FenceInv, TypeInv, TypeOK
<1>2. s \in Documents /\ s.actor \in Actors
  BY <1>1 DEF Requests, Documents, Sent
<1>3. Active(n, s.actor) /\ s = Document(n, s.actor)
  BY DEF KeepInv, CallsCurrent
<1>4. Of(s.actor, s.epoch, s.version)
  BY DEF KeepInv, FenceInv, SentVersions, RequestsInFlight
<1> QED
  BY <1>2, <1>3, <1>4 DEF Document, KeepInv, FenceInv, VersionsBelowFence, Of

(* Nothing is done to a request of which nothing is left.                  *)
LEMMA StepHasWork ==
  ASSUME rows \in [Actors -> Rows \union {NoRow}],
         NEW r \in Requests, NEW step \in Steps(r)
  PROVE  Sent(r) # {}
<1>1. CASE step \in PostgresSteps(r)
  BY <1>1 DEF PostgresSteps, Sent
<1>2. CASE step \in MongoSteps(r)
  BY <1>2, MongoStep
<1> QED
  BY <1>1, <1>2, Zenon DEF Steps

LEMMA KeepInit == Init => KeepInv
<1> SUFFICES ASSUME Init PROVE KeepInv
  OBVIOUS
<1>1. FenceInv
  BY FenceInit
<1>2. \A n \in Nodes : calls[n] = NoCall
  BY DEF Init
<1>3. CallsCurrent
  BY <1>2, RequestTypes DEF CallsCurrent
<1>4. OneDocument
  BY <1>2, RequestTypes DEF Init, OneDocument, RequestsInFlight, OnePlace, Sent, NoCall
<1>5. \A n \in Nodes, a \in Actors : ~ Active(n, a)
  BY DEF Init, Active, Inactive
<1>6. Writers
  BY <1>2, <1>5 DEF Init, Writers, OneWriter, GoesOn, StoredIsKept, HoldsFence, NoCall
<1>7. SavedIsKept
  BY DEF Init, SavedIsKept
<1> QED
  BY <1>1, <1>3, <1>4, <1>6, <1>7 DEF KeepInv

(* An action of the database for a node that waits.                        *)
LEMMA KeepServe ==
  ASSUME KeepInv, NEW n \in Nodes, Serve(n)
  PROVE  KeepInv'
<1>1. PICK step \in Steps(calls[n]) :
        /\ rows' = step.rows
        /\ calls' = [calls EXCEPT ![n] = step.request]
        /\ UNCHANGED <<backend, active, late, history>>
  BY DEF Serve
<1> DEFINE r == calls[n]
<1>2. /\ FenceInv /\ TypeInv
      /\ rows \in [Actors -> Rows \union {NoRow}] /\ calls \in [Nodes -> Requests]
      /\ r \in Requests /\ r \in RequestsInFlight
  BY DEF KeepInv, FenceInv, TypeInv, TypeOK, RequestsInFlight
<1>3. FenceInv'
  <2>1. [Next]_vars
    BY Zenon DEF Next
  <2> QED
    BY <1>2, <2>1, FenceStep
<1>4. /\ SameCaller(r, step) /\ Sent(step.request) \subseteq Sent(r)
      /\ Sent(r) # {}
  BY <1>2, StepWrites, StepHasWork
<1>5. /\ OnePlace(r) /\ OnePlace(step.request)
      /\ \A a \in Actors :
           \/ step.rows[a] = rows[a]
           \/ \E s \in Sent(r) \ Sent(step.request) :
                   /\ s.actor = a
                   /\ step.rows[a] = RowOf(s)
                   /\ rows[a].version <= s.version
      /\ \A s \in step.request.stored :
           \/ s \in r.stored
           \/ s \in Sent(r) /\ step.rows[s.actor] = RowOf(s)
  <2>1. OnePlace(r)
    BY <1>2 DEF KeepInv, OneDocument
  <2> QED
    BY <1>2, <2>1, StepWritesOnce
<1>6. calls'[n] = step.request /\ \A m \in Nodes \ {n} : calls'[m] = calls[m]
  BY <1>1, <1>2
<1>7. CallsCurrent'
  <2>1. ~ Free(n)
    BY <1>4, RequestTypes DEF KeepInv, CallsCurrent
  <2>2. ~ Free(n)'
    BY <1>4, <1>6, <2>1 DEF Free, SameCaller
  <2> QED
    BY <1>1, <1>4, <1>6, <2>2 DEF KeepInv, CallsCurrent, Free, Active, Document
<1>8. OneDocument'
  BY <1>1, <1>5, <1>6 DEF KeepInv, OneDocument, RequestsInFlight
<1>9. ASSUME NEW a \in Actors
      PROVE  Fence(a)' = Fence(a)
  BY <1>1, <1>2, ServedHoldsFence
<1>10. ASSUME NEW a \in Actors \ history.unfenced
       PROVE  /\ rows[a].state \subseteq rows'[a].state
              /\ OneWriter(a)' /\ GoesOn(a)' /\ StoredIsKept(a)'
  <2>1. OneWriter(a) /\ GoesOn(a) /\ StoredIsKept(a)
    BY DEF KeepInv, Writers
  <2>2. \A q : LateWrites(q, a)' = LateWrites(q, a)
    BY <1>9 DEF LateWrites
  <2>3. \A m \in Nodes : HoldsFence(m, a)' = HoldsFence(m, a)
    BY <1>1, <1>9 DEF HoldsFence, Active
  <2>4. OneWriter(a)'
    BY <1>1, <2>1, <2>2, <2>3 DEF OneWriter
  <2>5. \/ rows'[a] = rows[a]
        \/ /\ HoldsFence(n, a)
           /\ rows'[a].state = active[n][a].state
    <3> SUFFICES ASSUME rows'[a] # rows[a]
                 PROVE  /\ HoldsFence(n, a)
                        /\ rows'[a].state = active[n][a].state
      OBVIOUS
    <3>1. PICK s \in Sent(r) : /\ s.actor = a
                               /\ rows'[a] = RowOf(s)
                               /\ rows[a].version <= s.version
      BY <1>1, <1>5
    <3>2. /\ s \in Documents /\ Active(n, a) /\ s.version = active[n][a].version
          /\ s.state = active[n][a].state /\ s.version <= Fence(a)
      BY <3>1, SentFacts
    <3>3. s.version = Fence(a)
      BY <1>2, <3>1, <3>2, FenceIsNat DEF Documents
    <3> QED
      BY <3>1, <3>2, <3>3 DEF HoldsFence, RowOf
  <2>6. rows[a].state \subseteq rows'[a].state
    BY <2>1, <2>5 DEF GoesOn
  <2>7. GoesOn(a)'
    <3>1. CASE rows'[a] = rows[a]
      BY <1>1, <2>1, <2>2, <2>3, <3>1 DEF GoesOn
    <3>2. CASE HoldsFence(n, a) /\ rows'[a].state = active[n][a].state
      <4>1. \A m \in Nodes : HoldsFence(m, a) => m = n
        BY <2>1, <3>2 DEF OneWriter
      <4>2. \A q \in late : LateWrites(q, a) = {}
        BY <2>1, <3>2 DEF OneWriter
      <4> QED
        BY <1>1, <2>2, <2>3, <3>2, <4>1, <4>2 DEF GoesOn
    <3> QED
      BY <2>5, <3>1, <3>2
  <2>8. StoredIsKept(a)'
    <3> SUFFICES ASSUME NEW m \in Nodes, NEW s \in calls'[m].stored, s.actor = a
                 PROVE  s.state \subseteq rows'[a].state
      BY DEF StoredIsKept
    <3>1. CASE s \in calls[m].stored
      BY <2>1, <2>6, <3>1 DEF StoredIsKept
    <3>2. CASE s \notin calls[m].stored
      <4>1. m = n /\ s \in step.request.stored
        BY <1>6, <3>2
      <4>2. rows'[a] = RowOf(s)
        BY <1>1, <1>5, <3>2, <4>1
      <4> QED
        BY <4>2 DEF RowOf
    <3> QED
      BY <3>1, <3>2
  <2> QED
    BY <2>4, <2>6, <2>7, <2>8
<1>11. Writers' /\ SavedIsKept'
  BY <1>1, <1>10 DEF KeepInv, Writers, SavedIsKept
<1> QED
  BY <1>3, <1>7, <1>8, <1>11 DEF KeepInv

(* A request nobody waits for is carried out.                              *)
LEMMA KeepServeLate ==
  ASSUME KeepInv, ServeLate
  PROVE  KeepInv'
<1>1. PICK r \in late : \E step \in Steps(r) :
        /\ rows' = step.rows
        /\ late' = (late \ {r}) \union GivenUp(step.request)
        /\ UNCHANGED <<backend, active, calls, history>>
  BY DEF ServeLate
<1>2. PICK step \in Steps(r) :
        /\ rows' = step.rows
        /\ late' = (late \ {r}) \union GivenUp(step.request)
        /\ UNCHANGED <<backend, active, calls, history>>
  BY <1>1
<1>3. /\ FenceInv /\ TypeInv
      /\ rows \in [Actors -> Rows \union {NoRow}]
      /\ r \in Requests /\ r \in RequestsInFlight
  BY DEF KeepInv, FenceInv, TypeInv, TypeOK, RequestsInFlight
<1>4. FenceInv'
  <2>1. [Next]_vars
    BY Zenon DEF Next
  <2> QED
    BY <1>3, <2>1, FenceStep
<1>5. SameCaller(r, step) /\ Sent(step.request) \subseteq Sent(r)
  BY <1>3, StepWrites
<1>6. /\ OnePlace(r) /\ OnePlace(step.request)
      /\ \A a \in Actors :
           \/ step.rows[a] = rows[a]
           \/ \E s \in Sent(r) \ Sent(step.request) :
                   /\ s.actor = a
                   /\ step.rows[a] = RowOf(s)
                   /\ rows[a].version <= s.version
  <2>1. OnePlace(r)
    BY <1>3 DEF KeepInv, OneDocument
  <2> QED
    BY <1>3, <2>1, StepWritesOnce
<1>7. /\ \A q \in GivenUp(step.request) :
           /\ Sent(q) = Sent(step.request)
           /\ q.todo = step.request.todo /\ q.inserting = step.request.inserting
      /\ \A p, q \in GivenUp(step.request) : p = q
  <2>1. \A p, q \in GivenUp(step.request) : p = q
    BY DEF GivenUp
  <2> QED
    BY <1>5, <2>1, RequestTypes DEF SameCaller
<1>8. CallsCurrent'
  BY <1>2 DEF KeepInv, CallsCurrent, Free, Active, Document
<1>9. OneDocument'
  <2> SUFFICES ASSUME NEW q \in RequestsInFlight'
               PROVE  OnePlace(q)
    BY DEF OneDocument
  <2>1. CASE q \in RequestsInFlight
    BY <2>1 DEF KeepInv, OneDocument
  <2>2. CASE q \notin RequestsInFlight
    <3>1. q \in GivenUp(step.request)
      BY <1>2, <2>2 DEF RequestsInFlight
    <3> QED
      BY <1>6, <1>7, <3>1 DEF OnePlace
  <2> QED
    BY <2>1, <2>2
<1>10. /\ \A a \in Actors : Fence(a)' = Fence(a)
       /\ \A s \in Sent(r) : s.version \in Nat /\ s.version <= Fence(s.actor)
  BY <1>2, <1>3, ServedHoldsFence
<1>11. ASSUME NEW a \in Actors \ history.unfenced
       PROVE  /\ rows[a].state \subseteq rows'[a].state
              /\ OneWriter(a)' /\ GoesOn(a)' /\ StoredIsKept(a)'
  <2>1. OneWriter(a) /\ GoesOn(a) /\ StoredIsKept(a)
    BY DEF KeepInv, Writers
  <2>2. \A q : LateWrites(q, a)' = LateWrites(q, a)
    BY <1>10 DEF LateWrites
  <2>3. \A m \in Nodes : HoldsFence(m, a)' = HoldsFence(m, a)
    BY <1>2, <1>10 DEF HoldsFence, Active
  <2>4. \A q \in GivenUp(step.request) : LateWrites(q, a) \subseteq LateWrites(r, a)
    BY <1>5, <1>7 DEF LateWrites
  <2>5. \A q \in late' : q \in late \ {r} \/ q \in GivenUp(step.request)
    BY <1>2
  <2>6. OneWriter(a)'
    <3>1. \A n, m \in Nodes : HoldsFence(n, a)' /\ HoldsFence(m, a)' => n = m
      BY <2>1, <2>3 DEF OneWriter
    <3>2. \A q \in late' : LateWrites(q, a) # {} => \A n \in Nodes : ~ HoldsFence(n, a)
      BY <2>1, <2>4, <2>5 DEF OneWriter
    <3>3. \A p, q \in late' : LateWrites(p, a) # {} /\ LateWrites(q, a) # {} => p = q
      <4> SUFFICES ASSUME NEW p \in late', NEW q \in late',
                          LateWrites(p, a) # {}, LateWrites(q, a) # {}
                   PROVE  p = q
        OBVIOUS
      <4>1. CASE p \in late \ {r} /\ q \in late \ {r}
        BY <2>1, <4>1 DEF OneWriter
      <4>2. CASE p \in GivenUp(step.request) /\ q \in GivenUp(step.request)
        BY <1>7, <4>2
      <4>3. CASE LateWrites(r, a) # {} /\ (p \in late \ {r} \/ q \in late \ {r})
        BY <2>1, <4>3 DEF OneWriter
      <4> QED
        BY <2>4, <2>5, <4>1, <4>2, <4>3
    <3> QED
      BY <2>2, <2>3, <3>1, <3>2, <3>3 DEF OneWriter
  <2>7. CASE rows'[a] = rows[a]
    <3>1. \A m \in Nodes : HoldsFence(m, a)' => rows'[a].state \subseteq active'[m][a].state
      BY <1>2, <2>1, <2>3, <2>7 DEF GoesOn
    <3>2. \A q \in late' : \A s \in LateWrites(q, a) : rows[a].state \subseteq s.state
      BY <2>1, <2>4, <2>5 DEF GoesOn
    <3>3. GoesOn(a)'
      BY <2>2, <2>7, <3>1, <3>2 DEF GoesOn
    <3> QED
      BY <1>2, <2>1, <2>6, <2>7, <3>3 DEF StoredIsKept
  <2>8. CASE rows'[a] # rows[a]
    <3>1. PICK s \in Sent(r) \ Sent(step.request) : /\ s.actor = a
                                                    /\ rows'[a] = RowOf(s)
                                                    /\ rows[a].version <= s.version
      BY <1>2, <1>6, <2>8
    <3>2. s.version = Fence(a)
      BY <1>3, <1>10, <3>1, FenceIsNat
    <3>3. s \in LateWrites(r, a) /\ rows'[a].state = s.state
      BY <3>1, <3>2 DEF LateWrites, RowOf
    <3>4. rows[a].state \subseteq rows'[a].state
      BY <2>1, <3>3 DEF GoesOn
    <3>5. \A m \in Nodes : ~ HoldsFence(m, a)
      BY <2>1, <3>3 DEF OneWriter
    <3>6. \A q \in late' : LateWrites(q, a) = {}
      <4>1. \A q \in late \ {r} : LateWrites(q, a) = {}
        BY <2>1, <3>3 DEF OneWriter
      <4>2. \A q \in GivenUp(step.request) : LateWrites(q, a) = {}
        BY <1>5, <1>6, <1>7, <3>1 DEF LateWrites, OnePlace
      <4> QED
        BY <2>5, <4>1, <4>2
    <3>7. GoesOn(a)'
      BY <2>2, <2>3, <3>5, <3>6 DEF GoesOn
    <3>8. StoredIsKept(a)'
      BY <1>2, <2>1, <3>4 DEF StoredIsKept
    <3> QED
      BY <2>6, <3>4, <3>7, <3>8
  <2> QED
    BY <2>7, <2>8
<1>12. Writers' /\ SavedIsKept'
  BY <1>2, <1>11 DEF KeepInv, Writers, SavedIsKept
<1> QED
  BY <1>4, <1>8, <1>9, <1>12 DEF KeepInv

(* An activation that loads is the only writer with the new version; one   *)
(* that finds no row is the only writer, or its actor is unfenced.         *)
LEMMA KeepActivate ==
  ASSUME KeepInv, Loading, NEW n \in Nodes, NEW a \in Actors, Activate(n, a)
  PROVE  KeepInv'
<1> DEFINE loaded == Load(rows[a])
           epoch == Len(history.versions[a]) + 1
           new == Started(loaded, epoch)
<1>1. /\ Free(n)
      /\ rows' = [rows EXCEPT ![a] = loaded]
      /\ active' = [active EXCEPT ![n][a] = new]
      /\ history'.saved = history.saved
      /\ history'.unfenced = IF loaded = NoRow /\ AnotherWriter(a)
                             THEN history.unfenced \union {a} ELSE history.unfenced
      /\ UNCHANGED <<backend, calls, late>>
  BY DEF Activate, KeepInv, FenceInv, TypeInv, TypeOK, Histories
<1>2. /\ FenceInv /\ TypeInv
      /\ rows \in [Actors -> Rows \union {NoRow}]
      /\ active \in [Nodes -> [Actors -> Activations]]
      /\ epoch \in Nat \ {0}
  BY DEF KeepInv, FenceInv, TypeInv, TypeOK, Histories
<1>3. FenceInv'
  BY <1>2, FenceActivate
<1>4. /\ loaded \in Rows \union {NoRow}
      /\ (loaded = NoRow) = (rows[a] = NoRow)
      /\ loaded.state = rows[a].state
      /\ rows[a] # NoRow => loaded.version = rows[a].version + 1
      /\ new.state = rows[a].state
  <2>1. loaded \in Rows \union {NoRow} /\ (loaded = NoRow) = (rows[a] = NoRow)
        /\ (rows[a] # NoRow => loaded.version = rows[a].version + 1
                               /\ loaded.state = rows[a].state)
    BY <1>2, StartedTypes
  <2>2. new.state = loaded.state
    BY DEF Started
  <2> QED
    BY <2>1, <2>2
<1> HIDE DEF loaded, epoch, new
<1>5. /\ rows'[a] = loaded /\ rows'[a].state = rows[a].state
      /\ \A b \in Actors \ {a} : rows'[b] = rows[b]
      /\ active'[n][a] = new
      /\ \A m \in Nodes, b \in Actors : m # n \/ b # a => active'[m][b] = active[m][b]
  BY <1>1, <1>2, <1>4
<1>6. /\ rows[a] # NoRow => Fence(a)' = Fence(a) + 1
      /\ rows[a] = NoRow => Fence(a)' = Fence(a)
      /\ Fence(a) \in Nat
      /\ \A b \in Actors \ {a} : Fence(b)' = Fence(b)
  BY <1>2, <1>4, <1>5, FenceIsNat DEF Fence
<1>7. CallsCurrent'
  <2> SUFFICES ASSUME NEW m \in Nodes
               PROVE  /\ Free(m) => calls[m] = NoCall
                      /\ \A s \in Sent(calls[m]) : Active(m, s.actor)' /\ s = Document(m, s.actor)'
    BY <1>1 DEF CallsCurrent, Free
  <2>1. CASE m = n
    BY <1>1, <2>1, RequestTypes DEF KeepInv, CallsCurrent
  <2>2. CASE m # n
    BY <1>1, <1>5, <2>2, SentFacts DEF KeepInv, CallsCurrent, Active, Document
  <2> QED
    BY <2>1, <2>2
<1>8. OneDocument'
  BY <1>1 DEF KeepInv, OneDocument, RequestsInFlight
<1>9. ASSUME NEW b \in Actors \ history'.unfenced
      PROVE  OneWriter(b)' /\ GoesOn(b)' /\ StoredIsKept(b)'
  <2>1. b \notin history.unfenced
    BY <1>1
  <2>2. OneWriter(b) /\ GoesOn(b) /\ StoredIsKept(b)
    BY <2>1 DEF KeepInv, Writers
  <2>3. CASE b # a
    <3>1. \A m \in Nodes : active'[m][b] = active[m][b]
      BY <1>5, <2>3
    <3>2. \A m \in Nodes : HoldsFence(m, b)' = HoldsFence(m, b)
      BY <1>6, <2>3, <3>1 DEF HoldsFence, Active
    <3>3. rows'[b] = rows[b]
      BY <1>5, <2>3
    <3> QED
      BY <1>1, <2>2, <3>1, <3>2, <3>3, WritersFrame
  <2>4. CASE b = a
    <3>1. /\ \A m \in Nodes \ {n} : ~ HoldsFence(m, a)'
          /\ \A q \in late : LateWrites(q, a)' = {}
      <4>1. CASE rows[a] # NoRow
        <5>1. \A m \in Nodes \ {n} : ~ HoldsFence(m, a)'
          <6> SUFFICES ASSUME NEW m \in Nodes \ {n}, HoldsFence(m, a)'
                       PROVE  FALSE
            OBVIOUS
          <6>1. Active(m, a) /\ active[m][a].version = Fence(a) + 1
            BY <1>5, <1>6, <4>1 DEF HoldsFence, Active
          <6>2. active[m][a].version <= Fence(a)
            BY <1>2, <6>1 DEF FenceInv, ActiveVersions, VersionsBelowFence, Of
          <6> QED
            BY <1>6, <6>1, <6>2
        <5>2. \A q \in late : LateWrites(q, a)' = {}
          <6> SUFFICES ASSUME NEW q \in late, NEW s \in Sent(q),
                              s.actor = a, s.version = Fence(a) + 1
                       PROVE  FALSE
            BY <1>6, <4>1 DEF LateWrites
          <6>1. s.version <= Fence(a)
            BY <1>2 DEF FenceInv, SentVersions, VersionsBelowFence, Of, RequestsInFlight
          <6> QED
            BY <1>6, <6>1
        <5> QED
          BY <5>1, <5>2
      <4>2. CASE rows[a] = NoRow
        <5>1. ~ AnotherWriter(a)
          BY <1>1, <1>4, <2>4, <4>2
        <5>2. \A m \in Nodes \ {n} : ~ HoldsFence(m, a)'
          BY <1>5, <5>1 DEF AnotherWriter, HoldsFence, Active
        <5>3. \A q \in late : \A s \in Sent(q) : s.actor # a
          BY <5>1 DEF AnotherWriter, Outstanding, Sent
        <5> QED
          BY <5>2, <5>3 DEF LateWrites
      <4> QED
        BY <4>1, <4>2
    <3>2. OneWriter(a)'
      BY <1>1, <3>1 DEF OneWriter
    <3>3. GoesOn(a)'
      BY <1>1, <1>4, <1>5, <3>1 DEF GoesOn
    <3>4. StoredIsKept(a)'
      BY <1>1, <1>5, <2>2, <2>4 DEF StoredIsKept
    <3> QED
      BY <2>4, <3>2, <3>3, <3>4
  <2> QED
    BY <2>3, <2>4
<1>10. Writers'
  BY <1>9 DEF Writers
<1>11. SavedIsKept'
  BY <1>1, <1>5 DEF KeepInv, SavedIsKept
<1> QED
  BY <1>3, <1>7, <1>8, <1>10, <1>11 DEF KeepInv

(* A load that fails leaves no writer with the fence.                      *)
LEMMA KeepLoadFails ==
  ASSUME KeepInv, NEW a \in Actors, LoadFails(a)
  PROVE  KeepInv'
<1>1. /\ rows[a] # NoRow
      /\ rows' = [rows EXCEPT ![a] = Load(rows[a])]
      /\ history'.saved = history.saved /\ history'.unfenced = history.unfenced
      /\ UNCHANGED <<backend, active, calls, late>>
  BY DEF LoadFails, KeepInv, FenceInv, TypeInv, TypeOK, Histories
<1>2. /\ FenceInv /\ TypeInv
      /\ rows \in [Actors -> Rows \union {NoRow}]
  BY DEF KeepInv, FenceInv, TypeInv, TypeOK
<1>3. FenceInv'
  <2>1. [Next]_vars
    BY Zenon DEF Next
  <2> QED
    BY <1>2, <2>1, FenceStep
<1>4. /\ Load(rows[a]) # NoRow
      /\ Load(rows[a]).version = rows[a].version + 1
      /\ Load(rows[a]).state = rows[a].state
  BY <1>1, <1>2, StartedTypes, 1 \in Nat \ {0}
<1>5. /\ Fence(a)' = Fence(a) + 1 /\ Fence(a) \in Nat
      /\ \A b \in Actors \ {a} : rows'[b] = rows[b] /\ Fence(b)' = Fence(b)
      /\ rows'[a].state = rows[a].state
  BY <1>1, <1>2, <1>4, FenceIsNat DEF Fence
<1>6. CallsCurrent'
  BY <1>1 DEF KeepInv, CallsCurrent, Free, Active, Document
<1>7. OneDocument'
  BY <1>1 DEF KeepInv, OneDocument, RequestsInFlight
<1>8. ASSUME NEW b \in Actors \ history.unfenced
      PROVE  OneWriter(b)' /\ GoesOn(b)' /\ StoredIsKept(b)'
  <2>1. OneWriter(b) /\ GoesOn(b) /\ StoredIsKept(b)
    BY DEF KeepInv, Writers
  <2>2. CASE b # a
    <3>1. \A m \in Nodes : HoldsFence(m, b)' = HoldsFence(m, b)
      BY <1>1, <1>5, <2>2 DEF HoldsFence, Active
    <3> QED
      BY <1>1, <1>5, <2>1, <2>2, <3>1, WritersFrame
  <2>3. CASE b = a
    <3>1. \A m \in Nodes : ~ HoldsFence(m, a)'
      <4> SUFFICES ASSUME NEW m \in Nodes, Active(m, a), active[m][a].version = Fence(a) + 1
                   PROVE  FALSE
        BY <1>1, <1>5 DEF HoldsFence, Active
      <4>1. active[m][a].version <= Fence(a)
        BY <1>2 DEF FenceInv, ActiveVersions, VersionsBelowFence, Of
      <4> QED
        BY <1>5, <4>1
    <3>2. \A q \in late : LateWrites(q, a)' = {}
      <4> SUFFICES ASSUME NEW q \in late, NEW s \in Sent(q),
                          s.actor = a, s.version = Fence(a) + 1
                   PROVE  FALSE
        BY <1>5 DEF LateWrites
      <4>1. s.version <= Fence(a)
        BY <1>2 DEF FenceInv, SentVersions, VersionsBelowFence, Of, RequestsInFlight
      <4> QED
        BY <1>5, <4>1
    <3>3. StoredIsKept(a)'
      BY <1>1, <1>5, <2>1, <2>3 DEF StoredIsKept
    <3> QED
      BY <1>1, <2>3, <3>1, <3>2, <3>3 DEF OneWriter, GoesOn
  <2> QED
    BY <2>2, <2>3
<1>9. Writers'
  BY <1>1, <1>8 DEF Writers
<1>10. SavedIsKept'
  BY <1>1, <1>5 DEF KeepInv, SavedIsKept
<1> QED
  BY <1>3, <1>6, <1>7, <1>9, <1>10 DEF KeepInv

(* A node that does not wait sends the documents of some of its actors.    *)
LEMMA KeepSends ==
  ASSUME KeepInv, FenceInv', NEW n \in Nodes, NEW S \in SUBSET Enabled(n), NEW L \in SUBSET Actors,
         Free(n),
         calls' = [calls EXCEPT ![n] = Request(n, S, L)],
         UNCHANGED <<backend, rows, active, late, history>>
  PROVE  KeepInv'
<1>1. TypeInv /\ calls \in [Nodes -> Requests]
  BY DEF KeepInv, FenceInv, TypeInv, TypeOK
<1>2. /\ Request(n, S, L).open = TRUE
      /\ Request(n, S, L).inserting = {}
      /\ Request(n, S, L).stored = {}
  BY <1>1, RequestMade
<1>3. \A s \in Sent(Request(n, S, L)) : \E a \in S : s = Document(n, a)
  BY RequestSends
<1>4. \A a : Document(n, a).actor = a
  BY DEF Document
<1>5. \A a \in S : Active(n, a)
  BY <1>1 DEF TypeInv, EnabledActive, Enabled
<1>6. calls'[n] = Request(n, S, L) /\ \A m \in Nodes \ {n} : calls'[m] = calls[m]
  BY <1>1
<1>7. CallsCurrent'
  BY <1>2, <1>3, <1>4, <1>5, <1>6 DEF KeepInv, CallsCurrent, Free, Active, Document
<1>8. OnePlace(Request(n, S, L))
  BY <1>2, <1>3, <1>4 DEF OnePlace
<1>9. OneDocument'
  BY <1>6, <1>8 DEF KeepInv, OneDocument, RequestsInFlight
<1>10. ASSUME NEW a \in Actors \ history.unfenced
       PROVE  OneWriter(a)' /\ GoesOn(a)' /\ StoredIsKept(a)'
  <2>1. OneWriter(a) /\ GoesOn(a) /\ StoredIsKept(a)
    BY DEF KeepInv, Writers
  <2>2. \A m \in Nodes : HoldsFence(m, a)' = HoldsFence(m, a)
    BY DEF HoldsFence, Active, Fence
  <2>3. \A m \in Nodes : \A s \in calls'[m].stored : s \in calls[m].stored
    BY <1>2, <1>6
  <2> QED
    BY <2>1, <2>2, <2>3, WritersFrame
<1>11. Writers' /\ SavedIsKept'
  BY <1>10 DEF KeepInv, Writers, SavedIsKept
<1> QED
  BY <1>7, <1>9, <1>11 DEF KeepInv

(* A node that does not wait changes the activation of one actor: its      *)
(* state grows, or it is forgotten.                                        *)
LEMMA KeepLocal ==
  ASSUME KeepInv, FenceInv', NEW n \in Nodes, NEW a \in Actors,
         Free(n),
         \A m \in Nodes, b \in Actors : m # n \/ b # a => active'[m][b] = active[m][b],
         Active(n, a)' => /\ Active(n, a)
                          /\ active'[n][a].version = active[n][a].version
                          /\ active[n][a].state \subseteq active'[n][a].state,
         history'.saved = history.saved, history'.unfenced = history.unfenced,
         UNCHANGED <<backend, rows, calls, late>>
  PROVE  KeepInv'
<1>1. CallsCurrent'
  <2> SUFFICES ASSUME NEW m \in Nodes
               PROVE  /\ Free(m) => calls[m] = NoCall
                      /\ \A s \in Sent(calls[m]) : Active(m, s.actor)' /\ s = Document(m, s.actor)'
    BY DEF CallsCurrent, Free
  <2>1. CASE m = n
    BY <2>1, RequestTypes DEF KeepInv, CallsCurrent
  <2>2. CASE m # n
    BY <2>2, SentFacts DEF KeepInv, CallsCurrent, Active, Document
  <2> QED
    BY <2>1, <2>2
<1>2. OneDocument'
  BY DEF KeepInv, OneDocument, RequestsInFlight
<1>3. ASSUME NEW b \in Actors \ history.unfenced
      PROVE  OneWriter(b)' /\ GoesOn(b)' /\ StoredIsKept(b)'
  <2>1. OneWriter(b) /\ GoesOn(b) /\ StoredIsKept(b)
    BY DEF KeepInv, Writers
  <2>2. ASSUME NEW m \in Nodes, HoldsFence(m, b)'
        PROVE  HoldsFence(m, b) /\ active[m][b].state \subseteq active'[m][b].state
    <3>1. CASE m = n /\ b = a
      BY <2>2, <3>1 DEF HoldsFence, Fence
    <3>2. CASE m # n \/ b # a
      BY <2>2, <3>2 DEF HoldsFence, Active, Fence
    <3> QED
      BY <3>1, <3>2
  <2> QED
    BY <2>1, <2>2, WritersFrame
<1>4. Writers' /\ SavedIsKept'
  BY <1>3 DEF KeepInv, Writers, SavedIsKept
<1> QED
  BY <1>1, <1>2, <1>4 DEF KeepInv

(* What Answer, Timeout and Crash do to the activations of their node.     *)
LEMMA NodeStops ==
  ASSUME TypeInv, NEW n \in Nodes, Answer(n) \/ Timeout(n) \/ Crash(n)
  PROVE  /\ \A m \in Nodes \ {n} : active'[m] = active[m] /\ calls'[m] = calls[m]
         /\ calls'[n] = NoCall
         /\ \A a \in Actors : Active(n, a)' => /\ Active(n, a)
                                               /\ active'[n][a].version = active[n][a].version
                                               /\ active'[n][a].state = active[n][a].state
                                               /\ Crash(n) \/ a \notin calls[n].leaving
<1>1. /\ active \in [Nodes -> [Actors -> Activations]] /\ calls \in [Nodes -> Requests]
  BY DEF TypeInv, TypeOK
<1>2. /\ \A m \in Nodes \ {n} : active'[m] = active[m] /\ calls'[m] = calls[m]
      /\ calls'[n] = NoCall
  BY <1>1 DEF Answer, Timeout, Crash
<1>3. ASSUME NEW a \in Actors, Active(n, a)'
      PROVE  /\ Active(n, a)
             /\ active'[n][a].version = active[n][a].version
             /\ active'[n][a].state = active[n][a].state
             /\ Crash(n) \/ a \notin calls[n].leaving
  <2> DEFINE done == [active[n][a] EXCEPT !.enabled = FALSE]
  <2>1. /\ done.epoch = active[n][a].epoch /\ done.version = active[n][a].version
        /\ done.state = active[n][a].state
    BY <1>1 DEF Activations
  <2>2. \A x : Left(n, x)[a] = IF a \in calls[n].leaving THEN Inactive ELSE x[a]
    BY DEF Left
  <2>3. \A S : Disabled(n, S)[a] \in {active[n][a], done}
    BY DEF Disabled
  <2> HIDE DEF done
  <2>4. active'[n][a] # Inactive
    BY <1>3, InactiveType DEF Active
  <2>5. /\ active'[n][a] \in {active[n][a], done}
        /\ Crash(n) \/ a \notin calls[n].leaving
    <3>1. CASE Answer(n)
      <4> DEFINE S == {s.actor : s \in Success(calls[n])}
                 x == IF calls[n].stale = {} THEN Disabled(n, S) ELSE active[n]
      <4>1. active'[n] = Left(n, x)
        BY <1>1, <3>1 DEF Answer
      <4>2. x[a] \in {active[n][a], done}
        BY <2>3
      <4> HIDE DEF x
      <4> QED
        BY <2>2, <2>4, <4>1, <4>2
    <3>2. CASE Timeout(n)
      <4>1. active'[n] = Left(n, active[n])
        BY <1>1, <3>2 DEF Timeout
      <4> QED
        BY <2>2, <2>4, <4>1
    <3>3. CASE Crash(n)
      <4>1. active'[n] = [b \in Actors |-> Inactive]
        BY <1>1, <3>3 DEF Crash
      <4> QED
        BY <2>4, <4>1
    <3> QED
      BY <3>1, <3>2, <3>3
  <2> QED
    BY <1>3, <2>1, <2>5 DEF Active
<1> QED
  BY <1>2, <1>3

(* The answer tells the node of what is in the rows.                       *)
LEMMA KeepAnswer ==
  ASSUME KeepInv, FenceInv', NEW n \in Nodes, Answer(n)
  PROVE  KeepInv'
<1>1. /\ TypeInv /\ history \in Histories
      /\ UNCHANGED <<backend, rows, late>>
  BY DEF Answer, KeepInv, FenceInv, TypeInv, TypeOK
<1>2. /\ history'.unfenced = history.unfenced
      /\ \A a \in Actors : history'.saved[a] = history.saved[a] \union
           UNION {s.state : s \in {d \in calls[n].stored : d.actor = a}}
  BY <1>1 DEF Answer, Success, Histories
<1>3. /\ \A m \in Nodes \ {n} : active'[m] = active[m] /\ calls'[m] = calls[m]
      /\ calls'[n] = NoCall
      /\ \A a \in Actors : Active(n, a)' => /\ Active(n, a)
                                            /\ active'[n][a].version = active[n][a].version
                                            /\ active'[n][a].state = active[n][a].state
  BY <1>1, NodeStops
<1>4. CallsCurrent'
  BY <1>3, RequestTypes DEF KeepInv, CallsCurrent, Free, Active, Document
<1>5. OnePlace(NoCall)
  BY RequestTypes DEF OnePlace, NoCall
<1>6. OneDocument'
  BY <1>1, <1>3, <1>5 DEF KeepInv, OneDocument, RequestsInFlight
<1>7. ASSUME NEW a \in Actors \ history.unfenced
      PROVE  /\ OneWriter(a)' /\ GoesOn(a)' /\ StoredIsKept(a)'
             /\ history'.saved[a] \subseteq rows[a].state
  <2>1. OneWriter(a) /\ GoesOn(a) /\ StoredIsKept(a)
    BY DEF KeepInv, Writers
  <2>2. \A m \in Nodes : HoldsFence(m, a)' =>
          HoldsFence(m, a) /\ active[m][a].state \subseteq active'[m][a].state
    BY <1>1, <1>3 DEF HoldsFence, Active, Fence
  <2>3. \A m \in Nodes : \A s \in calls'[m].stored : s \in calls[m].stored
    BY <1>3 DEF NoCall
  <2>4. history'.saved[a] \subseteq rows[a].state
    <3>1. history.saved[a] \subseteq rows[a].state
      BY DEF KeepInv, SavedIsKept
    <3>2. \A s \in calls[n].stored : s.actor = a => s.state \subseteq rows[a].state
      BY <2>1 DEF StoredIsKept
    <3> QED
      BY <1>2, <3>1, <3>2
  <2> QED
    BY <1>1, <2>1, <2>2, <2>3, <2>4, WritersFrame
<1>8. Writers' /\ SavedIsKept'
  BY <1>1, <1>2, <1>7 DEF Writers, SavedIsKept
<1> QED
  BY <1>4, <1>6, <1>8 DEF KeepInv

(* A request given up for good: the activation that sent it is gone, or    *)
(* its actor is unfenced.                                                  *)
LEMMA KeepGivesUp ==
  ASSUME KeepInv, FenceInv', NEW n \in Nodes, Timeout(n) \/ Crash(n)
  PROVE  KeepInv'
<1> DEFINE r == calls[n]
<1>1. /\ FenceInv /\ TypeInv /\ history \in Histories /\ r \in Requests
      /\ UNCHANGED <<backend, rows>>
      /\ late' = late \union GivenUp(r)
      /\ r \in RequestsInFlight
  BY DEF Timeout, Crash, KeepInv, FenceInv, TypeInv, TypeOK, RequestsInFlight
<1>2. /\ history'.saved = history.saved
      /\ history.unfenced \subseteq history'.unfenced
      /\ Timeout(n) => Outstanding(r) \ r.leaving \subseteq history'.unfenced
  BY <1>1 DEF Timeout, Crash, Histories
<1>3. /\ \A m \in Nodes \ {n} : active'[m] = active[m] /\ calls'[m] = calls[m]
      /\ calls'[n] = NoCall
      /\ \A a \in Actors : Active(n, a)' => /\ Active(n, a)
                                            /\ active'[n][a].version = active[n][a].version
                                            /\ active'[n][a].state = active[n][a].state
                                            /\ Crash(n) \/ a \notin r.leaving
  BY <1>1, NodeStops
<1>4. /\ \A q \in GivenUp(r) : /\ Sent(q) = Sent(r)
                               /\ q.todo = r.todo /\ q.inserting = r.inserting
      /\ \A p, q \in GivenUp(r) : p = q
  <2>1. \A p, q \in GivenUp(r) : p = q
    BY DEF GivenUp
  <2> QED
    BY <1>1, <2>1, RequestTypes
<1>5. CallsCurrent'
  BY <1>3, RequestTypes DEF KeepInv, CallsCurrent, Free, Active, Document
<1>6. OneDocument'
  <2>1. OnePlace(NoCall)
    BY RequestTypes DEF OnePlace, NoCall
  <2>2. \A q \in GivenUp(r) : OnePlace(q)
    BY <1>1, <1>4 DEF KeepInv, OneDocument, OnePlace
  <2> QED
    BY <1>1, <1>3, <2>1, <2>2 DEF KeepInv, OneDocument, RequestsInFlight
<1>7. ASSUME NEW a \in Actors \ history'.unfenced
      PROVE  OneWriter(a)' /\ GoesOn(a)' /\ StoredIsKept(a)'
  <2>1. OneWriter(a) /\ GoesOn(a) /\ StoredIsKept(a)
    BY <1>2 DEF KeepInv, Writers
  <2>2. \A m \in Nodes : HoldsFence(m, a)' =>
          HoldsFence(m, a) /\ active[m][a].state \subseteq active'[m][a].state
    BY <1>1, <1>3 DEF HoldsFence, Active, Fence
  <2>3. \A m \in Nodes : \A s \in calls'[m].stored : s \in calls[m].stored
    BY <1>3 DEF NoCall
  <2>4. CASE LateWrites(r, a) = {}
    <3>1. \A q \in GivenUp(r) : LateWrites(q, a) = {}
      BY <1>4, <2>4 DEF LateWrites
    <3> QED
      BY <1>1, <2>1, <2>2, <2>3, <3>1, WritersFrame
  <2>5. CASE LateWrites(r, a) # {}
    <3>1. PICK s \in Sent(r) : s.actor = a /\ s.version = Fence(a)
      BY <2>5 DEF LateWrites
    <3>2. HoldsFence(n, a)
      BY <3>1, SentFacts DEF HoldsFence
    <3>3. /\ \A m \in Nodes : HoldsFence(m, a) => m = n
          /\ \A q \in late : LateWrites(q, a) = {}
      BY <2>1, <3>2 DEF OneWriter
    <3>4. ~ Active(n, a)'
      <4>1. a \in Outstanding(r)
        BY <3>1 DEF Outstanding, Sent
      <4>2. CASE Timeout(n)
        <5>1. a \in r.leaving
          BY <1>2, <4>1, <4>2
        <5>2. active'[n] = Left(n, active[n])
          BY <1>1, <4>2 DEF Timeout, TypeInv, TypeOK
        <5> QED
          BY <5>1, <5>2, InactiveType DEF Left, Active
      <4>3. CASE Crash(n)
        BY <1>1, <4>3, InactiveType DEF Crash, Active, TypeInv, TypeOK
      <4> QED
        BY <4>2, <4>3
    <3>5. \A m \in Nodes : ~ HoldsFence(m, a)'
      BY <2>2, <3>3, <3>4 DEF HoldsFence
    <3>6. \A q \in late' : LateWrites(q, a)' # {} => q \in GivenUp(r)
      BY <1>1, <3>3 DEF LateWrites, Fence
    <3>7. OneWriter(a)'
      BY <1>4, <3>5, <3>6 DEF OneWriter
    <3>8. \A q \in late' : \A t \in LateWrites(q, a)' : rows[a].state \subseteq t.state
      <4> SUFFICES ASSUME NEW q \in GivenUp(r), NEW t \in Sent(q), t.actor = a
                   PROVE  rows[a].state \subseteq t.state
        BY <3>6 DEF LateWrites
      <4>1. t.state = active[n][a].state
        BY <1>4, SentFacts
      <4> QED
        BY <2>1, <3>2, <4>1 DEF GoesOn
    <3>9. GoesOn(a)'
      BY <1>1, <3>5, <3>8 DEF GoesOn
    <3>10. StoredIsKept(a)'
      BY <1>1, <2>1, <2>3 DEF StoredIsKept
    <3> QED
      BY <3>7, <3>9, <3>10
  <2> QED
    BY <2>4, <2>5
<1>8. Writers' /\ SavedIsKept'
  BY <1>1, <1>2, <1>7 DEF KeepInv, Writers, SavedIsKept
<1> QED
  BY <1>5, <1>6, <1>8 DEF KeepInv

LEMMA KeepStep ==
  ASSUME Loading, KeepInv, [Next]_vars
  PROVE  KeepInv'
<1>1. /\ TypeInv /\ history \in Histories /\ FenceInv'
      /\ active \in [Nodes -> [Actors -> Activations]]
  BY FenceStep DEF KeepInv, FenceInv, TypeInv, TypeOK
<1>2. ASSUME NEW n \in Nodes, NEW a \in Actors, ReceiveSnapshot(n, a)
      PROVE  KeepInv'
  <2>1. /\ Free(n) /\ Active(n, a)
        /\ active' = [active EXCEPT ![n][a].state = @ \union {history.effects + 1},
                                    ![n][a].enabled = TRUE]
        /\ history'.saved = history.saved /\ history'.unfenced = history.unfenced
        /\ UNCHANGED <<backend, rows, calls, late>>
    BY <1>1, <1>2 DEF ReceiveSnapshot, Histories
  <2>2. /\ \A m \in Nodes, b \in Actors : m # n \/ b # a => active'[m][b] = active[m][b]
        /\ active'[n][a].version = active[n][a].version
        /\ active[n][a].state \subseteq active'[n][a].state
    BY <1>1, <2>1 DEF Activations
  <2> QED
    BY <1>1, <2>1, <2>2, KeepLocal
<1>3. ASSUME NEW n \in Nodes, NEW a \in Actors, ReceiveStopped(n, a)
      PROVE  KeepInv'
  <2>1. Free(n) /\ UNCHANGED <<backend, rows, late, history>>
    BY <1>3 DEF ReceiveStopped
  <2>2. CASE active[n][a].enabled
    <3>1. calls' = [calls EXCEPT ![n] = Request(n, {a}, {a})] /\ UNCHANGED active
      BY <1>3, <2>2 DEF ReceiveStopped
    <3>2. {a} \in SUBSET Enabled(n) /\ {a} \in SUBSET Actors
      BY <2>2 DEF Enabled
    <3> QED
      BY <1>1, <2>1, <3>1, <3>2, KeepSends
  <2>3. CASE ~ active[n][a].enabled
    <3>1. active' = [active EXCEPT ![n][a] = Inactive] /\ UNCHANGED calls
      BY <1>3, <2>3 DEF ReceiveStopped
    <3>2. /\ \A m \in Nodes, b \in Actors : m # n \/ b # a => active'[m][b] = active[m][b]
          /\ ~ Active(n, a)'
      BY <1>1, <3>1, InactiveType DEF Active
    <3> QED
      BY <1>1, <2>1, <3>1, <3>2, KeepLocal
  <2> QED
    BY <2>2, <2>3
<1>4. ASSUME NEW n \in Nodes, SnapshotBatch(n)
      PROVE  KeepInv'
  <2>1. /\ Free(n)
        /\ calls' = [calls EXCEPT ![n] = Request(n, Enabled(n), {})]
        /\ UNCHANGED <<backend, rows, active, late, history>>
    BY <1>4 DEF SnapshotBatch
  <2>2. Enabled(n) \in SUBSET Enabled(n) /\ {} \in SUBSET Actors
    OBVIOUS
  <2> QED
    BY <1>1, <2>1, <2>2, KeepSends
<1>5. CASE UNCHANGED vars
  <2>1. CallsCurrent' /\ OneDocument'
    BY <1>5 DEF vars, KeepInv, CallsCurrent, OneDocument, RequestsInFlight, Free, Active, Document
  <2>2. \A a \in Actors \ history.unfenced : OneWriter(a)' /\ GoesOn(a)' /\ StoredIsKept(a)'
    <3> SUFFICES ASSUME NEW a \in Actors \ history.unfenced
                 PROVE  OneWriter(a)' /\ GoesOn(a)' /\ StoredIsKept(a)'
      OBVIOUS
    <3>1. OneWriter(a) /\ GoesOn(a) /\ StoredIsKept(a)
      BY DEF KeepInv, Writers
    <3>2. \A m \in Nodes : HoldsFence(m, a)' = HoldsFence(m, a)
      BY <1>5 DEF vars, HoldsFence, Active, Fence
    <3> QED
      BY <1>5, <3>1, <3>2, WritersFrame DEF vars
  <2> QED
    BY <1>1, <1>5, <2>1, <2>2 DEF vars, KeepInv, Writers, SavedIsKept
<1> QED
  BY <1>1, <1>2, <1>3, <1>4, <1>5, KeepServe, KeepServeLate, KeepActivate, KeepLoadFails,
     KeepAnswer, KeepGivesUp DEF Next, Quiet

(* What Save reported as stored, and the node took as the reason to commit *)
(* offsets, no one replaces by a state without it, however late a request  *)
(* is carried out, as long as activations load and no two of them share a  *)
(* version.                                                                *)
THEOREM StoreKeepsSaved ==
  ASSUME Loading
  PROVE  Spec => []SavedIsKept
<1>1. KeepInv => SavedIsKept
  BY DEF KeepInv
<1>2. KeepInv /\ [Next]_vars => KeepInv'
  BY KeepStep
<1> QED
  BY <1>1, <1>2, KeepInit, PTL DEF Spec
=============================================================================
