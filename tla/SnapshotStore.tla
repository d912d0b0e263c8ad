---------------------------- MODULE SnapshotStore ----------------------------
(***************************************************************************)
(* The store of the actors' snapshots (storage/mongo.go, postgres.go) and  *)
(* the nodes that write to it (core/node.go).  Several nodes may believe   *)
(* that they run an actor; the version in a row is to shut the older out.  *)
(*                                                                         *)
(* A snapshot's data is abstracted to the effects in it, each numbered by  *)
(* its place among all changes any actor made.  The node's goroutine waits *)
(* for the answer of Save, but after the timeout of saveSnapshot, or the   *)
(* end of the process, the database may still carry out what it was sent.  *)
(***************************************************************************)
EXTENDS Integers, FiniteSets, Sequences

CONSTANTS
  Actors,
  Nodes,
  Hosts,           \* bound: the nodes that may come to run each actor
  Backends,        \* the implementations of IStore
  Loading,         \* whether an activation calls Load (the core does not)
  MaxActivations,  \* bound: activations of each actor
  MaxEffects,      \* bound: changes all actors make
  MaxFaults        \* bound: timeouts, ends of a process and failed loads

ASSUME StoreAssumption ==
  /\ Hosts \in [Actors -> SUBSET Nodes]
  /\ Backends \subseteq {"mongo", "postgres"}
  /\ Loading \in BOOLEAN
  /\ MaxActivations \in [Actors -> Nat]
  /\ {MaxEffects, MaxFaults} \subseteq Nat

VARIABLES
  backend,  \* which IStore is in use
  rows,     \* the table: a row has a version, its author's activation, the state
  active,   \* Node.actors of each node, with the snapshot last received
  calls,    \* the Save each node waits for
  late,     \* requests nobody waits for any more
  history   \* ghosts: [versions, effects, saved, unfenced, faults]

vars == <<backend, rows, active, calls, late, history>>

-----------------------------------------------------------------------------
(* An absent row has a version below every version.                        *)
NoRow == [version |-> -1, epoch |-> 0, state |-> {}]

Inactive == [epoch |-> 0, version |-> 0, state |-> {}, enabled |-> FALSE]

NoCall == [open |-> FALSE, todo |-> {}, inserting |-> {}, stored |-> {},
           stale |-> {}, leaving |-> {}]

Init ==
  /\ backend \in Backends
  /\ rows = [a \in Actors |-> NoRow]
  /\ active = [n \in Nodes |-> [a \in Actors |-> Inactive]]
  /\ calls = [n \in Nodes |-> NoCall]
  /\ late = {}
  /\ history = [versions |-> [a \in Actors |-> <<>>],
                effects  |-> 0,
                saved    |-> [a \in Actors |-> {}],
                unfenced |-> {},
                faults   |-> 0]

Active(n, a) == active[n][a].epoch # 0

Free(n) == ~ calls[n].open

Fault == history.faults < MaxFaults

-----------------------------------------------------------------------------
(* Load, and how an activation gets its version and state.                 *)

(* Mutants: the version is read only; a row that is absent is made.        *)
LoadOnly(row) == row
LoadUpserts(row) == [row EXCEPT !.version = @ + 1]

(* The caller sees the row as it is after the increment.                   *)
Load(row) == IF row = NoRow THEN row ELSE [row EXCEPT !.version = @ + 1]

(* ErrNotFound leaves the version of a new actor, which is zero.           *)
Started(row, epoch) ==
  [ epoch   |-> epoch,
    version |-> IF row = NoRow THEN 0 ELSE row.version,
    state   |-> row.state,
    enabled |-> FALSE ]

(* History: writes of the actor's earlier activation may still come that   *)
(* no version tells from those of the one that starts.                     *)
Outstanding(r) == {s.actor : s \in r.todo \union r.inserting}

AnotherWriter(a) == \/ \E n \in Nodes : Active(n, a)
                    \/ \E r \in late : a \in Outstanding(r)

Activate(n, a) ==
  /\ Free(n)
  /\ n \in Hosts[a]
  /\ ~ Active(n, a)
  /\ Len(history.versions[a]) < MaxActivations[a]
  /\ LET loaded == IF Loading THEN Load(rows[a]) ELSE NoRow
         new    == Started(loaded, Len(history.versions[a]) + 1)
     IN  /\ rows' = IF Loading THEN [rows EXCEPT ![a] = loaded] ELSE rows
         /\ active' = [active EXCEPT ![n][a] = new]
         /\ history' = [history EXCEPT
              !.versions[a] = Append(@, new.version),
              !.unfenced = IF loaded = NoRow /\ AnotherWriter(a) THEN @ \union {a} ELSE @]
  /\ UNCHANGED <<backend, calls, late>>

(* The increment happened, but the caller got an error.                    *)
LoadFails(a) ==
  /\ Loading
  /\ rows[a] # NoRow
  /\ Fault
  /\ rows' = [rows EXCEPT ![a] = Load(@)]
  /\ history' = [history EXCEPT !.faults = @ + 1]
  /\ UNCHANGED <<backend, active, calls, late>>

(* receiveSnapshot: a newer snapshot replaces the one not yet saved.       *)
ReceiveSnapshot(n, a) ==
  /\ Free(n)
  /\ Active(n, a)
  /\ history.effects < MaxEffects
  /\ history' = [history EXCEPT !.effects = @ + 1]
  /\ active' = [active EXCEPT ![n][a].state = @ \union {history.effects + 1},
                              ![n][a].enabled = TRUE]
  /\ UNCHANGED <<backend, rows, calls, late>>

-----------------------------------------------------------------------------
(* The database.                                                           *)

Document(n, a) ==
  [ actor   |-> a,
    version |-> active[n][a].version,
    epoch   |-> active[n][a].epoch,
    state   |-> active[n][a].state ]

RowOf(s) == [version |-> s.version, epoch |-> s.epoch, state |-> s.state]

(* Mutants: the condition is left out, or made strict.                     *)
AcceptsAny(s) == TRUE
AcceptsNewer(s) == rows[s.actor].version < s.version

Accepts(s) == rows[s.actor].version <= s.version

(***************************************************************************)
(* MongoDB carries out the operations of an unordered bulk one by one.  An *)
(* upsert whose filter matches no document inserts one in a second step,   *)
(* and fails with a duplicate key if the actor has one by then, be it      *)
(* newer or not; the code reports either as stale.                         *)
(***************************************************************************)
MongoSteps(r) ==
  {IF rows[s.actor] # NoRow /\ Accepts(s)
   THEN [ rows |-> [rows EXCEPT ![s.actor] = RowOf(s)],
          request |-> [r EXCEPT !.todo = @ \ {s}, !.stored = @ \union {s}] ]
   ELSE [ rows |-> rows,
          request |-> [r EXCEPT !.todo = @ \ {s}, !.inserting = @ \union {s}] ]
   : s \in r.todo}
  \union
  {IF rows[s.actor] = NoRow
   THEN [ rows |-> [rows EXCEPT ![s.actor] = RowOf(s)],
          request |-> [r EXCEPT !.inserting = @ \ {s}, !.stored = @ \union {s}] ]
   ELSE [ rows |-> rows,
          request |-> [r EXCEPT !.inserting = @ \ {s}, !.stale = @ \union {s}] ]
   : s \in r.inserting}

(* PostgreSQL: one statement; the rows RETURNING leaves out are stale.     *)
PostgresSteps(r) ==
  LET kept == {s \in r.todo : Accepts(s)}
  IN  IF r.todo = {} THEN {}
      ELSE {[ rows |-> [a \in Actors |-> IF \E s \in kept : s.actor = a
                                         THEN RowOf(CHOOSE s \in kept : s.actor = a)
                                         ELSE rows[a]],
              request |-> [r EXCEPT !.todo = {}, !.stored = kept,
                                    !.stale = r.todo \ kept] ]}

Steps(r) == IF backend = "mongo" THEN MongoSteps(r) ELSE PostgresSteps(r)

Serve(n) ==
  \E step \in Steps(calls[n]) :
    /\ rows' = step.rows
    /\ calls' = [calls EXCEPT ![n] = step.request]
    /\ UNCHANGED <<backend, active, late, history>>

(* A request that was given up may be carried out all the same.            *)
GivenUp(r) == IF Outstanding(r) = {} THEN {}
              ELSE {[NoCall EXCEPT !.todo = r.todo, !.inserting = r.inserting]}

ServeLate ==
  \E r \in late : \E step \in Steps(r) :
    /\ rows' = step.rows
    /\ late' = (late \ {r}) \union GivenUp(step.request)
    /\ UNCHANGED <<backend, active, calls, history>>

-----------------------------------------------------------------------------
(* Save, as the node calls it.                                             *)

Enabled(n) == {a \in Actors : active[n][a].enabled}

Request(n, S, leaving) ==
  [NoCall EXCEPT !.open = TRUE, !.leaving = leaving,
                 !.todo = {Document(n, a) : a \in S}]

SnapshotBatch(n) ==
  /\ Free(n)
  /\ Enabled(n) # {}
  /\ calls' = [calls EXCEPT ![n] = Request(n, Enabled(n), {})]
  /\ UNCHANGED <<backend, rows, active, late, history>>

(* receiveStopped: the actor is forgotten once its snapshot was tried.     *)
ReceiveStopped(n, a) ==
  /\ Free(n)
  /\ Active(n, a)
  /\ IF active[n][a].enabled
     THEN /\ calls' = [calls EXCEPT ![n] = Request(n, {a}, {a})]
          /\ UNCHANGED active
     ELSE /\ active' = [active EXCEPT ![n][a] = Inactive]
          /\ UNCHANGED calls
  /\ UNCHANGED <<backend, rows, late, history>>

Left(n, x) == [a \in Actors |-> IF a \in calls[n].leaving THEN Inactive ELSE x[a]]

Disabled(n, S) ==
  [a \in Actors |-> IF a \in S THEN [active[n][a] EXCEPT !.enabled = FALSE]
                    ELSE active[n][a]]

(* The first result of Save.                                               *)
Success(r) == r.stored

(* With an error the node looks at nothing else: all stay enabled.         *)
Answer(n) ==
  LET r == calls[n]
      saved == {s.actor : s \in Success(r)}
  IN  /\ r.open
      /\ Outstanding(r) = {}
      /\ active' = [active EXCEPT ![n] =
           Left(n, IF r.stale = {} THEN Disabled(n, saved) ELSE active[n])]
      /\ history' = [history EXCEPT
           !.saved = [a \in Actors |-> @[a] \union
                        UNION {s.state : s \in {d \in Success(r) : d.actor = a}}]]
      /\ calls' = [calls EXCEPT ![n] = NoCall]
      /\ UNCHANGED <<backend, rows, late>>

(***************************************************************************)
(* saveSnapshot gives up after a second, or the connection fails.  Nobody  *)
(* knows what was stored; the activation goes on with the same version.    *)
(***************************************************************************)
Timeout(n) ==
  /\ ~ Free(n)
  /\ Fault
  /\ late' = late \union GivenUp(calls[n])
  /\ active' = [active EXCEPT ![n] = Left(n, active[n])]
  /\ calls' = [calls EXCEPT ![n] = NoCall]
  /\ history' = [history EXCEPT
       !.faults = @ + 1,
       !.unfenced = @ \union (Outstanding(calls[n]) \ calls[n].leaving)]
  /\ UNCHANGED <<backend, rows>>

Crash(n) ==
  /\ Fault
  /\ \E a \in Actors : Active(n, a)
  /\ late' = late \union GivenUp(calls[n])
  /\ active' = [active EXCEPT ![n] = [a \in Actors |-> Inactive]]
  /\ calls' = [calls EXCEPT ![n] = NoCall]
  /\ history' = [history EXCEPT !.faults = @ + 1]
  /\ UNCHANGED <<backend, rows>>

-----------------------------------------------------------------------------
(* The model may rest as long as no node waits for an answer.              *)
Quiet ==
  /\ \A n \in Nodes : Free(n)
  /\ UNCHANGED vars

Next == \/ \E a \in Actors : LoadFails(a)
        \/ \E n \in Nodes, a \in Actors : \/ Activate(n, a)
                                         \/ ReceiveSnapshot(n, a)
                                         \/ ReceiveStopped(n, a)
        \/ \E n \in Nodes : \/ SnapshotBatch(n)
                            \/ Serve(n)
                            \/ Answer(n)
                            \/ Timeout(n)
                            \/ Crash(n)
        \/ ServeLate
        \/ Quiet

Spec == Init /\ [][Next]_vars

(***************************************************************************)
(* The node's snapshot timer fires again and again, and the database       *)
(* carries out what it is sent as long as somebody waits for it.           *)
(***************************************************************************)
FairSpec ==
  /\ Spec
  /\ \A n \in Nodes : WF_vars(SnapshotBatch(n)) /\ WF_vars(Serve(n)) /\ WF_vars(Answer(n))

-----------------------------------------------------------------------------
States == SUBSET (1 .. MaxEffects)
Rows == [version : Nat, epoch : Nat \ {0}, state : States]
Documents == [actor : Actors, version : Nat, epoch : Nat \ {0}, state : States]
Requests == [ open      : BOOLEAN,
              todo      : SUBSET Documents,
              inserting : SUBSET Documents,
              stored    : SUBSET Documents,
              stale     : SUBSET Documents,
              leaving   : SUBSET Actors ]

Activations == [epoch : Nat, version : Nat, state : States, enabled : BOOLEAN]
Histories == [ versions : [Actors -> Seq(Nat)],
               effects  : 0 .. MaxEffects,
               saved    : [Actors -> States],
               unfenced : SUBSET Actors,
               faults   : 0 .. MaxFaults ]

TypeOK ==
  /\ backend \in Backends
  /\ rows \in [Actors -> Rows \union {NoRow}]
  /\ active \in [Nodes -> [Actors -> Activations]]
  /\ calls \in [Nodes -> Requests]
  /\ late \subseteq Requests
  /\ history \in Histories
  /\ \A a \in Actors : Len(history.versions[a]) <= MaxActivations[a]

(***************************************************************************)
(* The promise of FencedStore: whatever is carried out late or by a node   *)
(* that does not know that it lost the actor, only the activation whose    *)
(* Load made the present version, or one of those that found no row,       *)
(* replaces what is stored.                                                *)
(***************************************************************************)
Fence(a) == IF rows[a] = NoRow THEN 0 ELSE rows[a].version

Holders(a) == {e \in DOMAIN history.versions[a] : history.versions[a][e] = Fence(a)}

Fenced == INSTANCE FencedStore WITH
  fence   <- [a \in Actors |-> Fence(a)],
  holders <- [a \in Actors |-> Holders(a)],
  content <- [a \in Actors |-> [author |-> rows[a].epoch, state |-> rows[a].state]]

FenceHolds == Fenced!Spec

(***************************************************************************)
(* What Save reported as written, and the node took as the reason to       *)
(* commit offsets, stays: no node, and nothing late, replaces it by a      *)
(* state without those effects.  This needs activations that load, and no  *)
(* two writers with the same version: see unfenced.                        *)
(***************************************************************************)
SavedIsKept ==
  \A a \in Actors \ history.unfenced : history.saved[a] \subseteq rows[a].state

(***************************************************************************)
(* A snapshot the node holds is saved in the end, unless the actor goes    *)
(* away, or some actor of the node has lost its fence: the node gives up   *)
(* a batch with one such actor as a whole, whatever was stored of it.      *)
(***************************************************************************)
HoldsBack(n) == \E a \in Enabled(n) : active[n][a].version < rows[a].version

SavedInTheEnd ==
  \A a \in Actors : \A n \in Hosts[a] :
    active[n][a].enabled ~> ~ active[n][a].enabled \/ HoldsBack(n)
=============================================================================
