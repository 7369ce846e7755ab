---------------------------- MODULE BlueprintRequests_proofs ----------------------------
(***************************************************************************)
(* Theorems about a computer's blueprints and models, for any number of    *)
(* operations, launches, blueprints, models, directories and computers.    *)
(*                                                                         *)
(* No two steps of an operation are under one lock, so the inductive       *)
(* invariants say what is left of earlier steps when others have worked in *)
(* between.  Of the catalog: what was read is archived or noted, a claim   *)
(* made while models are being removed is noted, and a route, once         *)
(* written, leads to a computer that has held the model.  Of a launch:      *)
(* what it has begun at each stage, that a directory names only launches    *)
(* that have used it, that a helper alone in its directory is found by it   *)
(* unless its file could not be written, and that nobody appends to a log   *)
(* after its launch has ended but others that share its progress.           *)
(***************************************************************************)
EXTENDS BlueprintRequests, TLAPS

-----------------------------------------------------------------------------
(* The catalog *)

Points ==
  {"idle", "started", "found", "validated", "planned", "ready", "recording", "read", "archived", "unlinked", "cleaned",
   "purging", "purged", "placed", "prepared", "claimed", "routing", "listing", "fanning", "routed", "registering",
   "deregistering", "done", "failed", "dead"}

TaskState ==
  [pc : Points,
   kind : Catalog!Kinds \cup {"none"}, blueprint : Blueprints \cup {Nobody}, model : Models \cup {Nobody},
   choice : Catalog!ModelChoices, found : Tasks \cup {Nobody}, orphans : SUBSET Models, late : SUBSET Blueprints,
   node : Nodes, eligible : SUBSET Nodes, todo : SUBSET Nodes]

\* The additions that are in a blueprint's archive, or whose loss was noted.
Saved == [b \in Blueprints |-> archived[b] \cup superseded]

\* What a task names, and what it has done of an addition, a removal or an installation, given what
\* is saved, the models that are installed by hand and those that are claimed, the computers that
\* ever held them and the routes.
TaskHolds(s, saved, byHand, claims, held, routes) ==
  /\ s.pc = "idle" => s.kind = "none" /\ s.eligible = {} /\ s.todo = {}
  /\ s.pc # "idle" => s.kind # "none"
  /\ s.todo \subseteq s.eligible
  /\ s.pc = "registering" => s.kind \in {"install model", "register"}
  /\ s.kind \in {"add", "remove", "install blueprint"} => s.blueprint \in Blueprints
  /\ s.kind \in Catalog!ModelKinds \cup {"install blueprint"} => s.model \in Models
  /\ s.kind = "remove" /\ s.pc = "archived" /\ s.found # Nobody => s.found \in saved[s.blueprint]
  /\ s.kind = "remove" /\ s.pc \in {"purging", "purged"} =>
       \A m \in s.orphans : m \notin byHand /\ claims[m] \subseteq s.late
  /\ s.kind \in {"install blueprint", "install model"} =>
       /\ s.pc \in {"prepared", "claimed", "routing", "listing", "fanning"} => s.node \in held[s.model]
       /\ s.pc \in {"started", "found", "validated", "placed", "prepared", "claimed", "routing", "listing"} =>
            s.eligible = {} /\ s.todo = {}
       /\ s.pc \in {"listing", "fanning", "routed", "registering", "done"} =>
            \A n \in s.eligible \ s.todo : routes[n][s.model] # Nobody
       /\ s.pc \in {"routed", "registering", "done"} => s.todo = {}

CatalogHolds ==
  /\ record \in [Blueprints -> Tasks \cup {Nobody}] /\ archived \in [Blueprints -> SUBSET Tasks]
  /\ owners \in [Models -> SUBSET Blueprints] /\ manual \subseteq Models
  /\ placed \in [Models -> SUBSET Nodes] /\ prepared \in [Models -> SUBSET Nodes]
  /\ registry \in [Models -> Tasks \cup {Nobody}] /\ route \in [Nodes -> [Models -> Nodes \cup {Nobody}]]
  /\ superseded \subseteq Tasks
  /\ task \in [Tasks -> TaskState]
  /\ \A t \in Tasks : TaskHolds(task[t], Saved, manual, owners, prepared, route)
  /\ Catalog!AdditionsAreKept
  /\ \A n \in Nodes, m \in Models : route[n][m] # Nobody => route[n][m] \in prepared[m]
  /\ \A m \in Models : registry[m] # Nobody => task[registry[m]].pc = "done"

\* What a task may rely on stays, when what is saved, preparations and routes only grow and claims only go.
LEMMA TaskRelies ==
  ASSUME NEW s \in TaskState, NEW a, NEW h, NEW c, NEW p, NEW q, NEW a2, NEW c2, NEW p2, NEW q2, TaskHolds(s, a, h, c, p, q),
         \A b \in Blueprints : a[b] \subseteq a2[b], \A m \in Models : c2[m] \subseteq c[m] /\ p[m] \subseteq p2[m],
         \A n \in Nodes, m \in Models : q[n][m] # Nobody => q2[n][m] # Nobody
  PROVE  TaskHolds(s, a2, h, c2, p2, q2)
<1>1. s.orphans \subseteq Models /\ s.eligible \subseteq Nodes
  BY DEF TaskState
<1>2. s.kind = "remove" => s.blueprint \in Blueprints
  BY DEF TaskHolds
<1>3. s.kind \in {"install blueprint", "install model"} => s.model \in Models
  BY DEF TaskHolds, Catalog!ModelKinds
<1>5. s.kind = "remove" /\ s.pc = "archived" /\ s.found # Nobody => s.found \in a2[s.blueprint]
  BY <1>2 DEF TaskHolds
<1>6. s.kind = "remove" /\ s.pc \in {"purging", "purged"} =>
        \A m \in s.orphans : m \notin h /\ c2[m] \subseteq s.late
  <2>1. ASSUME s.kind = "remove", s.pc \in {"purging", "purged"}, NEW m \in s.orphans
        PROVE  m \notin h /\ c2[m] \subseteq s.late
    <3>1. m \notin h /\ c[m] \subseteq s.late
      BY <2>1 DEF TaskHolds
    <3> QED BY <1>1, <3>1
  <2> QED BY <2>1
<1>7. ASSUME s.kind \in {"install blueprint", "install model"}
      PROVE  /\ s.pc \in {"prepared", "claimed", "routing", "listing", "fanning"} => s.node \in p2[s.model]
             /\ s.pc \in {"listing", "fanning", "routed", "registering", "done"} =>
                  \A n \in s.eligible \ s.todo : q2[n][s.model] # Nobody
  <2>1. s.pc \in {"prepared", "claimed", "routing", "listing", "fanning"} => s.node \in p2[s.model]
    BY <1>3, <1>7 DEF TaskHolds
  <2>2. ASSUME s.pc \in {"listing", "fanning", "routed", "registering", "done"}, NEW n \in s.eligible \ s.todo
        PROVE  q2[n][s.model] # Nobody
    <3>1. q[n][s.model] # Nobody
      BY <1>7, <2>2 DEF TaskHolds
    <3>2. n \in Nodes
      BY <1>1
    <3> QED BY <1>3, <1>7, <3>1, <3>2
  <2> QED BY <2>1, <2>2
<1> QED BY <1>5, <1>6, <1>7 DEF TaskHolds

\* One task goes on.
LEMMA TaskMoves ==
  ASSUME CatalogHolds, NEW t \in Tasks, NEW r \in TaskState, task' = [task EXCEPT ![t] = r], task[t].pc # "done",
         record' \in [Blueprints -> Tasks \cup {Nobody}], archived' \in [Blueprints -> SUBSET Tasks],
         owners' \in [Models -> SUBSET Blueprints], UNCHANGED manual,
         placed' \in [Models -> SUBSET Nodes], prepared' \in [Models -> SUBSET Nodes],
         registry' \in [Models -> Tasks \cup {Nobody}], route' \in [Nodes -> [Models -> Nodes \cup {Nobody}]],
         superseded \subseteq superseded', superseded' \subseteq Tasks,
         \A b \in Blueprints : archived[b] \subseteq archived'[b] \cup superseded',
         \A b \in Blueprints : record'[b] = record[b] \/ record[b] \in archived'[b] \cup superseded' \cup {Nobody},
         \A m \in Models : owners'[m] \subseteq owners[m] /\ prepared[m] \subseteq prepared'[m],
         \A m \in Models : registry'[m] \in {registry[m], Nobody} \/ (registry'[m] = t /\ r.pc = "done"),
         \A n \in Nodes, m \in Models : route'[n][m] = route[n][m] \/ (route'[n][m] \in prepared[m] /\ route'[n][m] # Nobody),
         TaskHolds(r, Saved', manual', owners', prepared', route'),
         r.kind = "add" /\ r.pc = "done" => record'[r.blueprint] = t
  PROVE  CatalogHolds'
<1>1. task' \in [Tasks -> TaskState] /\ task'[t] = r /\ \A k \in Tasks \ {t} : task'[k] = task[k]
  BY DEF CatalogHolds
<1>2. ASSUME NEW k \in Tasks PROVE TaskHolds(task'[k], Saved', manual', owners', prepared', route')
  <2>1. CASE k = t
    BY <1>1, <2>1
  <2>2. CASE k # t
    <3>1. task[k] \in TaskState /\ TaskHolds(task[k], Saved, manual, owners, prepared, route)
      BY DEF CatalogHolds
    <3>2. \A n \in Nodes, m \in Models : route[n][m] # Nobody => route'[n][m] # Nobody
      OBVIOUS
    <3>4. \A b \in Blueprints : Saved[b] \subseteq Saved'[b]
      BY DEF Saved
    <3>5. \A m \in Models : owners'[m] \subseteq owners[m] /\ prepared[m] \subseteq prepared'[m]
      OBVIOUS
    <3>3. TaskHolds(task[k], Saved', manual, owners', prepared', route')
      BY ONLY <3>1, <3>2, <3>4, <3>5, TaskRelies
    <3> QED BY <1>1, <2>2, <3>3
  <2> QED BY <2>1, <2>2
<1>3. ASSUME NEW k \in Tasks, task'[k].kind = "add", task'[k].pc = "done"
      PROVE  LET b == task'[k].blueprint IN record'[b] = k \/ k \in archived'[b] \/ k \in superseded'
  <2>1. CASE k = t
    BY <1>1, <1>3, <2>1
  <2>2. CASE k # t
    <3> PICK b : b = task[k].blueprint
      OBVIOUS
    <3>1. task'[k] = task[k] /\ task[k].kind = "add" /\ task[k].pc = "done"
      BY <1>1, <1>3, <2>2
    <3>2. b \in Blueprints
      BY <3>1 DEF CatalogHolds, TaskHolds
    <3>3. record[b] = k \/ k \in archived[b] \/ k \in superseded
      BY <3>1 DEF CatalogHolds, Catalog!AdditionsAreKept, Catalog!At, Catalog!Blueprint
    <3>4. k # Nobody
      BY CatalogAssumption
    <3> QED BY <3>1, <3>2, <3>3, <3>4
  <2> QED BY <2>1, <2>2
<1>4. Catalog!AdditionsAreKept'
  BY <1>3 DEF Catalog!AdditionsAreKept, Catalog!At, Catalog!Blueprint
<1>5. ASSUME NEW n \in Nodes, NEW m \in Models, route'[n][m] # Nobody PROVE route'[n][m] \in prepared'[m]
  BY <1>5 DEF CatalogHolds
<1>6. ASSUME NEW m \in Models, registry'[m] # Nobody PROVE task'[registry'[m]].pc = "done"
  <2>1. CASE registry'[m] = registry[m]
    <3>1. registry[m] \in Tasks /\ task[registry[m]].pc = "done"
      BY <1>6, <2>1 DEF CatalogHolds
    <3>2. registry[m] # t
      BY <3>1
    <3> QED BY <1>1, <2>1, <3>1, <3>2
  <2>2. CASE registry'[m] = t /\ r.pc = "done"
    BY <1>1, <2>2
  <2> QED BY <1>6, <2>1, <2>2
<1>7. manual' \subseteq Models
  BY DEF CatalogHolds
<1> QED BY <1>1, <1>2, <1>4, <1>5, <1>6, <1>7 DEF CatalogHolds

\* Nothing but the task changes.
LEMMA OnlyTaskMoves ==
  ASSUME CatalogHolds, NEW t \in Tasks, NEW r \in TaskState, task' = [task EXCEPT ![t] = r], task[t].pc # "done",
         UNCHANGED <<record, archived, owners, manual, placed, registry, route, superseded, prepared>>,
         TaskHolds(r, Saved, manual, owners, prepared, route), r.kind = "add" => r.pc # "done"
  PROVE  CatalogHolds'
<1>1. /\ record' \in [Blueprints -> Tasks \cup {Nobody}] /\ archived' \in [Blueprints -> SUBSET Tasks]
      /\ owners' \in [Models -> SUBSET Blueprints]
      /\ placed' \in [Models -> SUBSET Nodes] /\ prepared' \in [Models -> SUBSET Nodes]
      /\ registry' \in [Models -> Tasks \cup {Nobody}] /\ route' \in [Nodes -> [Models -> Nodes \cup {Nobody}]]
      /\ superseded \subseteq superseded' /\ superseded' \subseteq Tasks
  BY DEF CatalogHolds
<1>2. /\ \A b \in Blueprints : archived[b] \subseteq archived'[b] \cup superseded'
      /\ \A b \in Blueprints : record'[b] = record[b] \/ record[b] \in archived'[b] \cup superseded' \cup {Nobody}
      /\ \A m \in Models : owners'[m] \subseteq owners[m] /\ prepared[m] \subseteq prepared'[m]
      /\ \A m \in Models : registry'[m] \in {registry[m], Nobody} \/ (registry'[m] = t /\ r.pc = "done")
      /\ \A n \in Nodes, m \in Models : route'[n][m] = route[n][m] \/ (route'[n][m] \in prepared[m] /\ route'[n][m] # Nobody)
  OBVIOUS
<1>3. TaskHolds(r, Saved', manual', owners', prepared', route')
  BY DEF Saved
<1>4. r.kind = "add" /\ r.pc = "done" => record'[r.blueprint] = t
  OBVIOUS
<1>5. UNCHANGED manual
  OBVIOUS
<1> QED BY <1>1, <1>2, <1>3, <1>4, <1>5, TaskMoves

\* What the invariant says of one task.
LEMMA TaskFacts ==
  ASSUME CatalogHolds, NEW t \in Tasks
  PROVE  task[t] \in TaskState /\ TaskHolds(task[t], Saved, manual, owners, prepared, route)
BY DEF CatalogHolds

\* A task at another point.
AtPoint(s, pc) == [s EXCEPT !.pc = pc]

LEMMA PointFacts ==
  ASSUME NEW s \in TaskState, NEW pc \in Points
  PROVE  /\ AtPoint(s, pc) \in TaskState
         /\ AtPoint(s, pc).pc = pc /\ AtPoint(s, pc).kind = s.kind
         /\ AtPoint(s, pc).blueprint = s.blueprint /\ AtPoint(s, pc).model = s.model
         /\ AtPoint(s, pc).found = s.found /\ AtPoint(s, pc).orphans = s.orphans /\ AtPoint(s, pc).late = s.late
         /\ AtPoint(s, pc).node = s.node /\ AtPoint(s, pc).eligible = s.eligible /\ AtPoint(s, pc).todo = s.todo
BY DEF TaskState, AtPoint


\* A move that leaves the files alone, to a point whose promises the task has kept.
LEMMA MovesKeeps ==
  ASSUME CatalogHolds, NEW t \in Tasks, NEW from \in Points \ {"idle", "done"}, NEW to \in Points \ {"idle", "registering"}, Catalog!Moves(t, from, to),
         task[t].kind = "remove" => to \notin {"archived", "purging", "purged"},
         task[t].kind = "add" => to # "done",
         task[t].kind \in {"install blueprint", "install model"} =>
           \/ to = "failed" \/ (from = "started" /\ to = "found") \/ (from = "found" /\ to = "validated")
           \/ (from = "claimed" /\ to = "routing") \/ (from = "fanning" /\ to \in {"done", "routed"} /\ task[t].todo = {})
  PROVE  CatalogHolds'
<1>s. PICK s : s = task[t]
  OBVIOUS
<1>1. s \in TaskState /\ TaskHolds(s, Saved, manual, owners, prepared, route) /\ s.pc = from
  BY <1>s, TaskFacts DEF Catalog!Moves
<1>2. task' = [task EXCEPT ![t].pc = to]
  BY DEF Catalog!Moves, Catalog!Becomes
<1>3. to \in Points
  OBVIOUS
<1>r. PICK r : r = AtPoint(s, to)
  OBVIOUS
<1>7. /\ r \in TaskState
      /\ r.pc = to /\ r.kind = s.kind /\ r.blueprint = s.blueprint /\ r.model = s.model
      /\ r.found = s.found /\ r.orphans = s.orphans /\ r.late = s.late
      /\ r.node = s.node /\ r.eligible = s.eligible /\ r.todo = s.todo
  BY <1>1, <1>3, <1>r, PointFacts
<1>8. task' = [task EXCEPT ![t] = r]
  BY <1>2, <1>s, <1>r DEF AtPoint
<1>4. TaskHolds(r, Saved, manual, owners, prepared, route)
  <2>1. /\ r.kind \in {"add", "remove", "install blueprint"} => r.blueprint \in Blueprints
        /\ r.kind \in Catalog!ModelKinds \cup {"install blueprint"} => r.model \in Models
        /\ r.kind # "none" /\ r.pc \notin {"idle", "registering"}
    BY <1>1, <1>7 DEF TaskHolds
  <2>4. /\ s.kind = "remove" => to \notin {"archived", "purging", "purged"}
        /\ s.kind \in {"install blueprint", "install model"} =>
             \/ to = "failed" \/ (from = "started" /\ to = "found") \/ (from = "found" /\ to = "validated")
             \/ (from = "claimed" /\ to = "routing") \/ (from = "fanning" /\ to \in {"done", "routed"} /\ s.todo = {})
    BY <1>s
  <2>2. CASE s.kind \in {"install blueprint", "install model"}
    <3>1. CASE to = "failed" \/ (from = "started" /\ to = "found") \/ (from = "found" /\ to = "validated")
      BY <1>1, <1>7, <2>1, <2>2, <3>1 DEF TaskHolds
    <3>2. CASE from = "claimed" /\ to = "routing"
      BY <1>1, <1>7, <2>1, <2>2, <3>2 DEF TaskHolds
    <3>3. CASE from = "fanning" /\ to \in {"done", "routed"} /\ s.todo = {}
      BY <1>1, <1>7, <2>1, <2>2, <3>3 DEF TaskHolds
    <3> QED BY <2>2, <2>4, <3>1, <3>2, <3>3
  <2>3. CASE s.kind \notin {"install blueprint", "install model"}
    BY <1>1, <1>7, <2>1, <2>3, <2>4 DEF TaskHolds
  <2> QED BY <2>2, <2>3
<1>5. UNCHANGED <<record, archived, owners, manual, placed, registry, route, superseded, prepared>>
  BY DEF Catalog!Moves, Catalog!files, Catalog!ledger, Catalog!serving, Catalog!history
<1>6. task[t].pc # "done" /\ (r.kind = "add" => r.pc # "done")
  BY <1>1, <1>7, <1>s
<1> QED BY <1>4, <1>5, <1>6, <1>7, <1>8, OnlyTaskMoves

\* The steps that only move.
LEMMA SimpleStepsKeep ==
  ASSUME CatalogHolds, NEW t \in Tasks,
         \/ Catalog!FindBlueprint(t) \/ Catalog!ValidateBundle(t) \/ Catalog!DeferModels(t)
         \/ Catalog!EnsureContextEngine(t) \/ Catalog!PrepareSkills(t) \/ Catalog!PlanRemoval(t)
         \/ Catalog!CleanResources(t) \/ Catalog!Purged(t) \/ Catalog!Routed(t) \/ Catalog!Fails(t)
  PROVE  CatalogHolds'
<1>1. CASE Catalog!FindBlueprint(t)
  BY <1>1, MovesKeeps DEF Catalog!FindBlueprint, Points
<1>2. CASE Catalog!ValidateBundle(t)
  BY <1>2, MovesKeeps DEF Catalog!ValidateBundle, Points
<1>3. CASE Catalog!DeferModels(t)
  BY <1>3, MovesKeeps DEF Catalog!DeferModels, Points
<1>4. CASE Catalog!EnsureContextEngine(t)
  BY <1>4, MovesKeeps DEF Catalog!EnsureContextEngine, Points
<1>5. CASE Catalog!PrepareSkills(t)
  BY <1>5, MovesKeeps DEF Catalog!PrepareSkills, Points
<1>6. CASE Catalog!PlanRemoval(t)
  BY <1>6, MovesKeeps DEF Catalog!PlanRemoval, Points
<1>7. CASE Catalog!CleanResources(t)
  BY <1>7, MovesKeeps DEF Catalog!CleanResources, Points
<1>8. CASE Catalog!Purged(t)
  BY <1>8, MovesKeeps DEF Catalog!Purged, Catalog!At, Points
<1>9. CASE Catalog!Routed(t)
  BY <1>9, MovesKeeps DEF Catalog!Routed, Points
<1>10. CASE Catalog!Fails(t)
  <2> PICK from : from = task[t].pc
    OBVIOUS
  <2>1. from \in Points \ {"idle", "done"}
    BY <1>10, TaskFacts DEF Catalog!Fails, Catalog!Running, Catalog!Over, TaskState
  <2>2. Catalog!Moves(t, from, "failed")
    BY <1>10 DEF Catalog!Fails, Catalog!Moves
  <2>3. "failed" \in Points \ {"idle", "registering"}
    BY DEF Points
  <2> QED BY <2>1, <2>2, <2>3, MovesKeeps
<1> QED BY <1>1, <1>2, <1>3, <1>4, <1>5, <1>6, <1>7, <1>8, <1>9, <1>10

\* One lemma per operation that changes something else.
LEMMA StartKeeps ==
  ASSUME CatalogHolds, NEW t \in Tasks, NEW kind \in Catalog!Kinds, NEW b \in Blueprints \cup {Nobody},
         NEW m \in Models \cup {Nobody}, NEW choice \in Catalog!ModelChoices, Catalog!Start(t, kind, b, m, choice)
  PROVE  CatalogHolds'
<1> PICK s : s = task[t]
  OBVIOUS
<1>a. PICK r : r = [s EXCEPT !.pc = "started", !.kind = kind, !.blueprint = b, !.model = m, !.choice = choice]
  OBVIOUS
<1>1. s \in TaskState /\ TaskHolds(s, Saved, manual, owners, prepared, route) /\ s.pc = "idle"
  BY TaskFacts DEF Catalog!Start
<1>2. "started" \in Points /\ kind \in Catalog!Kinds \cup {"none"}
  BY DEF Points
<1>3. r \in TaskState
  BY <1>a, <1>1, <1>2 DEF TaskState
<1>4. /\ r.pc = "started" /\ r.kind = kind /\ r.blueprint = b /\ r.model = m
      /\ r.eligible = s.eligible /\ r.todo = s.todo
  BY <1>a, <1>1 DEF TaskState
<1>5. task' = [task EXCEPT ![t] = r]
  BY <1>a DEF Catalog!Start, CatalogHolds
<1>6. UNCHANGED <<record, archived, owners, manual, placed, registry, route, superseded, prepared>>
  BY DEF Catalog!Start, Catalog!files, Catalog!ledger, Catalog!serving, Catalog!history
<1>7. kind # "none" /\ (kind \in {"add", "remove", "install blueprint"} => b \in Blueprints)
      /\ (kind \in Catalog!ModelKinds \cup {"install blueprint"} => m \in Models)
  BY DEF Catalog!Start, Catalog!Kinds, Catalog!ModelKinds
<1>8. s.eligible = {} /\ s.todo = {}
  BY <1>1 DEF TaskHolds
<1>9. TaskHolds(r, Saved, manual, owners, prepared, route)
  BY <1>1, <1>4, <1>7, <1>8 DEF TaskHolds
<1>10. task[t].pc # "done" /\ (r.kind = "add" => r.pc # "done")
  BY <1>1, <1>4
<1> QED BY <1>3, <1>5, <1>6, <1>9, <1>10, OnlyTaskMoves

LEMMA WriteRecordKeeps ==
  ASSUME CatalogHolds, NEW t \in Tasks, Catalog!WriteRecord(t)
  PROVE  CatalogHolds'
<1> PICK s : s = task[t]
  OBVIOUS
<1> PICK r : r = AtPoint(s, "done")
  OBVIOUS
<1> PICK b : b = s.blueprint
  OBVIOUS
<1>1. s \in TaskState /\ TaskHolds(s, Saved, manual, owners, prepared, route) /\ s.pc = "recording" /\ s.kind = "add"
  BY TaskFacts DEF Catalog!WriteRecord, Catalog!At
<1>2. "done" \in Points
  BY DEF Points
<1>3. /\ r \in TaskState
      /\ r.pc = "done" /\ r.kind = "add" /\ r.blueprint = b /\ r.model = s.model
      /\ r.eligible = s.eligible /\ r.todo = s.todo
  BY <1>1, <1>2, PointFacts
<1>4. b \in Blueprints
  BY <1>1 DEF TaskHolds
<1>5. task' = [task EXCEPT ![t] = r]
  BY DEF AtPoint, Catalog!WriteRecord, Catalog!Becomes
<1>6. UNCHANGED <<archived, owners, manual, placed, registry, route, prepared>>
  BY DEF Catalog!WriteRecord, Catalog!ledger, Catalog!serving
<1>7. record' = [record EXCEPT ![b] = t] /\ superseded' = superseded \cup ({record[b]} \ {Nobody})
  BY DEF Catalog!WriteRecord, Catalog!Blueprint
<1>8. /\ record \in [Blueprints -> Tasks \cup {Nobody}] /\ archived \in [Blueprints -> SUBSET Tasks]
      /\ owners \in [Models -> SUBSET Blueprints]
      /\ placed \in [Models -> SUBSET Nodes] /\ prepared \in [Models -> SUBSET Nodes]
      /\ registry \in [Models -> Tasks \cup {Nobody}] /\ route \in [Nodes -> [Models -> Nodes \cup {Nobody}]]
      /\ superseded \subseteq Tasks
  BY DEF CatalogHolds
<1>9. record' \in [Blueprints -> Tasks \cup {Nobody}] /\ superseded \subseteq superseded' /\ superseded' \subseteq Tasks
  BY <1>4, <1>7, <1>8
<1>10. \A k \in Blueprints : record'[k] = record[k] \/ record[k] \in archived'[k] \cup superseded' \cup {Nobody}
  BY <1>7, <1>8
<1>11. TaskHolds(r, Saved', manual', owners', prepared', route')
  BY <1>1, <1>3, <1>4 DEF TaskHolds, Catalog!ModelKinds
<1>12. r.kind = "add" /\ r.pc = "done" => record'[r.blueprint] = t
  BY <1>3, <1>4, <1>7, <1>8
<1>13. task[t].pc # "done"
  BY <1>1
<1>14. /\ \A k \in Blueprints : archived[k] \subseteq archived'[k] \cup superseded'
       /\ \A m \in Models : owners'[m] \subseteq owners[m] /\ prepared[m] \subseteq prepared'[m]
       /\ \A m \in Models : registry'[m] \in {registry[m], Nobody} \/ (registry'[m] = t /\ r.pc = "done")
       /\ \A n \in Nodes, m \in Models : route'[n][m] = route[n][m] \/ (route'[n][m] \in prepared[m] /\ route'[n][m] # Nobody)
  BY <1>6
<1>15. /\ archived' \in [Blueprints -> SUBSET Tasks]
       /\ owners' \in [Models -> SUBSET Blueprints] /\ UNCHANGED manual
       /\ placed' \in [Models -> SUBSET Nodes] /\ prepared' \in [Models -> SUBSET Nodes]
       /\ registry' \in [Models -> Tasks \cup {Nobody}] /\ route' \in [Nodes -> [Models -> Nodes \cup {Nobody}]]
  BY <1>6, <1>8
<1> QED BY <1>3, <1>5, <1>9, <1>10, <1>11, <1>12, <1>13, <1>14, <1>15, TaskMoves

LEMMA ReadRecordKeeps ==
  ASSUME CatalogHolds, NEW t \in Tasks, Catalog!ReadRecord(t)
  PROVE  CatalogHolds'
<1> PICK s : s = task[t]
  OBVIOUS
<1> PICK b : b = s.blueprint
  OBVIOUS
<1>f. PICK f \in {record[b], Nobody} : task' = [task EXCEPT ![t].pc = "read", ![t].found = f]
  BY DEF Catalog!ReadRecord, Catalog!Blueprint
<1>a. PICK r : r = [s EXCEPT !.pc = "read", !.found = f]
  OBVIOUS
<1>1. s \in TaskState /\ TaskHolds(s, Saved, manual, owners, prepared, route) /\ s.pc = "started" /\ s.kind = "remove"
  BY TaskFacts DEF Catalog!ReadRecord, Catalog!At
<1>2. b \in Blueprints
  BY <1>1 DEF TaskHolds
<1>3. f \in Tasks \cup {Nobody} /\ "read" \in Points
  BY <1>2, <1>f DEF CatalogHolds, Points
<1>4. r \in TaskState
  BY <1>a, <1>1, <1>3 DEF TaskState
<1>5. /\ r.pc = "read" /\ r.kind = "remove" /\ r.blueprint = b /\ r.model = s.model
      /\ r.eligible = s.eligible /\ r.todo = s.todo
  BY <1>a, <1>1 DEF TaskState
<1>6. task' = [task EXCEPT ![t] = r]
  BY <1>a, <1>f
<1>7. UNCHANGED <<record, archived, owners, manual, placed, registry, route, superseded, prepared>>
  BY DEF Catalog!ReadRecord, Catalog!files, Catalog!ledger, Catalog!serving, Catalog!history
<1>8. TaskHolds(r, Saved, manual, owners, prepared, route)
  BY <1>1, <1>2, <1>5 DEF TaskHolds, Catalog!ModelKinds
<1>9. task[t].pc # "done" /\ (r.kind = "add" => r.pc # "done")
  BY <1>1, <1>5
<1> QED BY <1>4, <1>6, <1>7, <1>8, <1>9, OnlyTaskMoves

LEMMA ArchiveKeeps ==
  ASSUME CatalogHolds, NEW t \in Tasks, Catalog!Archive(t)
  PROVE  CatalogHolds'
<1> PICK s : s = task[t]
  OBVIOUS
<1> PICK b : b = s.blueprint
  OBVIOUS
<1> PICK f : f = s.found
  OBVIOUS
<1>v. PICK over \in archived[b] \cup {Nobody}, whole \in BOOLEAN :
        /\ archived' = [archived EXCEPT ![b] = (@ \ {over}) \cup (IF whole THEN {f} \ {Nobody} ELSE {})]
        /\ task' = [task EXCEPT ![t].pc = IF whole THEN "archived" ELSE "failed"]
  BY DEF Catalog!Archive, Catalog!Becomes, Catalog!Blueprint
<1>w. /\ archived' = [archived EXCEPT ![b] = (archived[b] \ {over}) \cup (IF whole THEN {f} \ {Nobody} ELSE {})]
      /\ task' = [task EXCEPT ![t].pc = IF whole THEN "archived" ELSE "failed"]
  BY <1>v
<1> PICK p : p = IF whole THEN "archived" ELSE "failed"
  OBVIOUS
<1> PICK r : r = AtPoint(s, p)
  OBVIOUS
<1>1. s \in TaskState /\ TaskHolds(s, Saved, manual, owners, prepared, route) /\ s.pc = "read" /\ s.kind = "remove"
  BY TaskFacts DEF Catalog!Archive, Catalog!At
<1>2. p \in Points
  BY DEF Points
<1>3. /\ r \in TaskState
      /\ r.pc = p /\ r.kind = "remove" /\ r.blueprint = b /\ r.model = s.model /\ r.found = f
      /\ r.eligible = s.eligible /\ r.todo = s.todo
  BY <1>1, <1>2, PointFacts
<1>4. b \in Blueprints /\ f \in Tasks \cup {Nobody}
  BY <1>1 DEF TaskHolds, TaskState
<1>5. task' = [task EXCEPT ![t] = r]
  BY <1>w DEF AtPoint
<1>6. UNCHANGED <<record, owners, manual, placed, registry, route, prepared>>
  BY DEF Catalog!Archive, Catalog!ledger, Catalog!serving
<1>7. superseded' = superseded \cup (archived[b] \ archived'[b])
  BY DEF Catalog!Archive, Catalog!Blueprint
<1>8. /\ record \in [Blueprints -> Tasks \cup {Nobody}] /\ archived \in [Blueprints -> SUBSET Tasks]
      /\ owners \in [Models -> SUBSET Blueprints]
      /\ placed \in [Models -> SUBSET Nodes] /\ prepared \in [Models -> SUBSET Nodes]
      /\ registry \in [Models -> Tasks \cup {Nobody}] /\ route \in [Nodes -> [Models -> Nodes \cup {Nobody}]]
      /\ superseded \subseteq Tasks
  BY DEF CatalogHolds
<1>9. archived' \in [Blueprints -> SUBSET Tasks] /\ \A k \in Blueprints : archived[k] \subseteq archived'[k] \cup superseded'
  <2>1. archived' \in [Blueprints -> SUBSET Tasks]
    BY <1>4, <1>8, <1>w
  <2>2. \A k \in Blueprints \ {b} : archived'[k] = archived[k]
    BY <1>8, <1>w
  <2> QED BY <1>7, <2>1, <2>2
<1>11. TaskHolds(r, Saved', manual', owners', prepared', route')
  <2>1. p = "archived" /\ f # Nobody => f \in Saved'[b]
    <3>1. p = "archived" => archived'[b] = (archived[b] \ {over}) \cup ({f} \ {Nobody})
      BY <1>4, <1>8, <1>w
    <3> QED BY <1>4, <3>1 DEF Saved
  <2> QED BY <1>1, <1>3, <1>4, <2>1 DEF TaskHolds, Catalog!ModelKinds
<1>12. r.kind = "add" /\ r.pc = "done" => record'[r.blueprint] = t
  BY <1>3
<1>13. task[t].pc # "done"
  BY <1>1
<1>14. /\ \A k \in Blueprints : record'[k] = record[k] \/ record[k] \in archived'[k] \cup superseded' \cup {Nobody}
       /\ \A m \in Models : owners'[m] \subseteq owners[m] /\ prepared[m] \subseteq prepared'[m]
       /\ \A m \in Models : registry'[m] \in {registry[m], Nobody} \/ (registry'[m] = t /\ r.pc = "done")
       /\ \A n \in Nodes, m \in Models : route'[n][m] = route[n][m] \/ (route'[n][m] \in prepared[m] /\ route'[n][m] # Nobody)
  BY <1>6
<1>16. superseded \subseteq superseded' /\ superseded' \subseteq Tasks
  BY <1>4, <1>7, <1>8
<1>15. /\ record' \in [Blueprints -> Tasks \cup {Nobody}]
       /\ owners' \in [Models -> SUBSET Blueprints] /\ UNCHANGED manual
       /\ placed' \in [Models -> SUBSET Nodes] /\ prepared' \in [Models -> SUBSET Nodes]
       /\ registry' \in [Models -> Tasks \cup {Nobody}] /\ route' \in [Nodes -> [Models -> Nodes \cup {Nobody}]]
  BY <1>6, <1>8
<1> QED BY <1>3, <1>5, <1>9, <1>11, <1>12, <1>13, <1>14, <1>15, <1>16, TaskMoves

LEMMA UnlinkKeeps ==
  ASSUME CatalogHolds, NEW t \in Tasks, Catalog!Unlink(t)
  PROVE  CatalogHolds'
<1> PICK s : s = task[t]
  OBVIOUS
<1> PICK r : r = AtPoint(s, "unlinked")
  OBVIOUS
<1> PICK b : b = s.blueprint
  OBVIOUS
<1> PICK f : f = s.found
  OBVIOUS
<1>1. s \in TaskState /\ TaskHolds(s, Saved, manual, owners, prepared, route) /\ s.pc = "archived" /\ s.kind = "remove"
  BY TaskFacts DEF Catalog!Unlink, Catalog!At
<1>2. "unlinked" \in Points
  BY DEF Points
<1>3. /\ r \in TaskState
      /\ r.pc = "unlinked" /\ r.kind = "remove" /\ r.blueprint = b /\ r.model = s.model
      /\ r.eligible = s.eligible /\ r.todo = s.todo
  BY <1>1, <1>2, PointFacts
<1>4. b \in Blueprints /\ f \in Tasks \cup {Nobody} /\ (f # Nobody => f \in archived[b] \cup superseded)
  BY <1>1 DEF TaskHolds, TaskState, Saved
<1>5. task' = [task EXCEPT ![t] = r]
  BY DEF AtPoint, Catalog!Unlink, Catalog!Becomes
<1>6. UNCHANGED <<archived, owners, manual, placed, registry, route, prepared>>
  BY DEF Catalog!Unlink, Catalog!ledger, Catalog!serving
<1>7. /\ record' = [record EXCEPT ![b] = Nobody]
      /\ superseded' = IF record[b] # f THEN superseded \cup ({record[b]} \ {Nobody}) ELSE superseded
  BY DEF Catalog!Unlink, Catalog!Blueprint
<1>8. /\ record \in [Blueprints -> Tasks \cup {Nobody}] /\ archived \in [Blueprints -> SUBSET Tasks]
      /\ owners \in [Models -> SUBSET Blueprints]
      /\ placed \in [Models -> SUBSET Nodes] /\ prepared \in [Models -> SUBSET Nodes]
      /\ registry \in [Models -> Tasks \cup {Nobody}] /\ route \in [Nodes -> [Models -> Nodes \cup {Nobody}]]
      /\ superseded \subseteq Tasks
  BY DEF CatalogHolds
<1>9. record' \in [Blueprints -> Tasks \cup {Nobody}] /\ superseded \subseteq superseded' /\ superseded' \subseteq Tasks
  BY <1>4, <1>7, <1>8
<1>10. \A k \in Blueprints : record'[k] = record[k] \/ record[k] \in archived'[k] \cup superseded' \cup {Nobody}
  BY <1>4, <1>6, <1>7, <1>8
<1>11. TaskHolds(r, Saved', manual', owners', prepared', route')
  BY <1>1, <1>3, <1>4 DEF TaskHolds, Catalog!ModelKinds
<1>12. r.kind = "add" /\ r.pc = "done" => record'[r.blueprint] = t
  BY <1>3
<1>13. task[t].pc # "done"
  BY <1>1
<1>14. /\ \A k \in Blueprints : archived[k] \subseteq archived'[k] \cup superseded'
       /\ \A m \in Models : owners'[m] \subseteq owners[m] /\ prepared[m] \subseteq prepared'[m]
       /\ \A m \in Models : registry'[m] \in {registry[m], Nobody} \/ (registry'[m] = t /\ r.pc = "done")
       /\ \A n \in Nodes, m \in Models : route'[n][m] = route[n][m] \/ (route'[n][m] \in prepared[m] /\ route'[n][m] # Nobody)
  BY <1>6
<1>15. /\ archived' \in [Blueprints -> SUBSET Tasks]
       /\ owners' \in [Models -> SUBSET Blueprints] /\ UNCHANGED manual
       /\ placed' \in [Models -> SUBSET Nodes] /\ prepared' \in [Models -> SUBSET Nodes]
       /\ registry' \in [Models -> Tasks \cup {Nobody}] /\ route' \in [Nodes -> [Models -> Nodes \cup {Nobody}]]
  BY <1>6, <1>8
<1> QED BY <1>3, <1>5, <1>9, <1>10, <1>11, <1>12, <1>13, <1>14, <1>15, TaskMoves

LEMMA ReleaseKeeps ==
  ASSUME CatalogHolds, NEW t \in Tasks, Catalog!Release(t)
  PROVE  CatalogHolds'
<1> PICK s : s = task[t]
  OBVIOUS
<1> PICK b : b = s.blueprint
  OBVIOUS
<1> PICK p : p = IF s.choice = "remove" THEN "purging" ELSE "done"
  OBVIOUS
<1> PICK o : o = {m \in Models : b \in owners[m] /\ Catalog!Unclaimed(m, b)}
  OBVIOUS
<1>a. PICK r : r = [s EXCEPT !.pc = p, !.orphans = o]
  OBVIOUS
<1>1. s \in TaskState /\ TaskHolds(s, Saved, manual, owners, prepared, route) /\ s.pc = "cleaned" /\ s.kind = "remove"
  BY TaskFacts DEF Catalog!Release, Catalog!At
<1>2. p \in Points /\ p \in {"purging", "done"} /\ o \subseteq Models
  BY DEF Points
<1>3. /\ r \in TaskState
      /\ r.pc = p /\ r.kind = "remove" /\ r.blueprint = b /\ r.model = s.model /\ r.orphans = o /\ r.late = s.late
      /\ r.eligible = s.eligible /\ r.todo = s.todo
  BY <1>a, <1>1, <1>2 DEF TaskState
<1>4. b \in Blueprints
  BY <1>1 DEF TaskHolds
<1>5. task' = [task EXCEPT ![t] = r]
  BY <1>a DEF Catalog!Release, Catalog!Blueprint
<1>6. UNCHANGED <<record, archived, manual, placed, registry, route, superseded, prepared>>
  BY DEF Catalog!Release, Catalog!files, Catalog!serving, Catalog!history
<1>7. owners' = [m \in Models |-> owners[m] \ {b}]
  BY DEF Catalog!Release, Catalog!Blueprint
<1>16. \A m \in o : m \notin manual /\ owners'[m] \subseteq {}
  BY <1>7 DEF Catalog!Unclaimed
<1>11. TaskHolds(r, Saved', manual', owners', prepared', route')
  BY <1>1, <1>2, <1>3, <1>4, <1>6, <1>16 DEF TaskHolds, Catalog!ModelKinds
<1>12. r.kind = "add" /\ r.pc = "done" => record'[r.blueprint] = t
  BY <1>3
<1>13. task[t].pc # "done"
  BY <1>1
<1>8. /\ record \in [Blueprints -> Tasks \cup {Nobody}] /\ archived \in [Blueprints -> SUBSET Tasks]
      /\ owners \in [Models -> SUBSET Blueprints]
      /\ placed \in [Models -> SUBSET Nodes] /\ prepared \in [Models -> SUBSET Nodes]
      /\ registry \in [Models -> Tasks \cup {Nobody}] /\ route \in [Nodes -> [Models -> Nodes \cup {Nobody}]]
      /\ superseded \subseteq Tasks
  BY DEF CatalogHolds
<1>9. /\ owners' \in [Models -> SUBSET Blueprints]
  BY <1>4, <1>7, <1>8
<1>10. /\ \A k \in Models : owners'[k] \subseteq owners[k] /\ prepared[k] \subseteq prepared'[k]
  BY <1>4, <1>6, <1>7, <1>8
<1>14. /\ \A k \in Blueprints : archived[k] \subseteq archived'[k] \cup superseded'
       /\ \A k \in Blueprints : record'[k] = record[k] \/ record[k] \in archived'[k] \cup superseded' \cup {Nobody}
       /\ \A k \in Models : registry'[k] \in {registry[k], Nobody} \/ (registry'[k] = t /\ r.pc = "done")
       /\ \A h \in Nodes, k \in Models : route'[h][k] = route[h][k] \/ (route'[h][k] \in prepared[k] /\ route'[h][k] # Nobody)
  BY <1>6
<1>15. /\ record' \in [Blueprints -> Tasks \cup {Nobody}] /\ superseded \subseteq superseded' /\ superseded' \subseteq Tasks
       /\ archived' \in [Blueprints -> SUBSET Tasks]
       /\ placed' \in [Models -> SUBSET Nodes]
       /\ prepared' \in [Models -> SUBSET Nodes]
       /\ registry' \in [Models -> Tasks \cup {Nobody}]
       /\ route' \in [Nodes -> [Models -> Nodes \cup {Nobody}]]
       /\ UNCHANGED manual
  BY <1>6, <1>8
<1> QED BY <1>3, <1>5, <1>9, <1>10, <1>11, <1>12, <1>13, <1>14, <1>15, TaskMoves

LEMMA PurgeKeeps ==
  ASSUME CatalogHolds, NEW t \in Tasks, NEW m \in Models, Catalog!PurgeModel(t, m)
  PROVE  CatalogHolds'
<1> PICK s : s = task[t]
  OBVIOUS
<1> PICK r : r = AtPoint(s, "purged")
  OBVIOUS
<1>1. s \in TaskState /\ TaskHolds(s, Saved, manual, owners, prepared, route) /\ s.pc = "purging" /\ s.kind = "remove"
  BY TaskFacts DEF Catalog!PurgeModel, Catalog!At
<1>2. "purged" \in Points
  BY DEF Points
<1>3. /\ r \in TaskState
      /\ r.pc = "purged" /\ r.kind = "remove" /\ r.blueprint = s.blueprint /\ r.model = s.model
      /\ r.orphans = s.orphans /\ r.late = s.late /\ r.eligible = s.eligible /\ r.todo = s.todo
  BY <1>1, <1>2, PointFacts
<1>4. s.blueprint \in Blueprints
  BY <1>1 DEF TaskHolds
<1>5. task' = [task EXCEPT ![t] = r]
  BY DEF AtPoint, Catalog!PurgeModel, Catalog!Becomes
<1>6. UNCHANGED <<record, archived, owners, manual, registry, route, superseded, prepared>>
  BY DEF Catalog!PurgeModel, Catalog!files, Catalog!ledger, Catalog!serving, Catalog!history
<1>7. placed' = [placed EXCEPT ![m] = placed[m] \ {Here}]
  BY DEF Catalog!PurgeModel
<1>11. TaskHolds(r, Saved', manual', owners', prepared', route')
  BY <1>1, <1>3, <1>4, <1>6 DEF TaskHolds, Catalog!ModelKinds
<1>12. r.kind = "add" /\ r.pc = "done" => record'[r.blueprint] = t
  BY <1>3
<1>13. task[t].pc # "done"
  BY <1>1
<1>8. /\ record \in [Blueprints -> Tasks \cup {Nobody}] /\ archived \in [Blueprints -> SUBSET Tasks]
      /\ owners \in [Models -> SUBSET Blueprints]
      /\ placed \in [Models -> SUBSET Nodes] /\ prepared \in [Models -> SUBSET Nodes]
      /\ registry \in [Models -> Tasks \cup {Nobody}] /\ route \in [Nodes -> [Models -> Nodes \cup {Nobody}]]
      /\ superseded \subseteq Tasks
  BY DEF CatalogHolds
<1>9. /\ placed' \in [Models -> SUBSET Nodes]
  BY <1>4, <1>7, <1>8
<1>14. /\ \A k \in Blueprints : archived[k] \subseteq archived'[k] \cup superseded'
       /\ \A k \in Blueprints : record'[k] = record[k] \/ record[k] \in archived'[k] \cup superseded' \cup {Nobody}
       /\ \A k \in Models : owners'[k] \subseteq owners[k] /\ prepared[k] \subseteq prepared'[k]
       /\ \A k \in Models : registry'[k] \in {registry[k], Nobody} \/ (registry'[k] = t /\ r.pc = "done")
       /\ \A h \in Nodes, k \in Models : route'[h][k] = route[h][k] \/ (route'[h][k] \in prepared[k] /\ route'[h][k] # Nobody)
  BY <1>6
<1>15. /\ record' \in [Blueprints -> Tasks \cup {Nobody}] /\ superseded \subseteq superseded' /\ superseded' \subseteq Tasks
       /\ archived' \in [Blueprints -> SUBSET Tasks]
       /\ owners' \in [Models -> SUBSET Blueprints]
       /\ prepared' \in [Models -> SUBSET Nodes]
       /\ registry' \in [Models -> Tasks \cup {Nobody}]
       /\ route' \in [Nodes -> [Models -> Nodes \cup {Nobody}]]
       /\ UNCHANGED manual
  BY <1>6, <1>8
<1> QED BY <1>3, <1>5, <1>9, <1>11, <1>12, <1>13, <1>14, <1>15, TaskMoves

LEMMA ForgetKeeps ==
  ASSUME CatalogHolds, NEW t \in Tasks, NEW m \in Models, Catalog!ForgetModel(t, m)
  PROVE  CatalogHolds'
<1> PICK s : s = task[t]
  OBVIOUS
<1> PICK o : o = s.orphans \ {m}
  OBVIOUS
<1>a. PICK r : r = [s EXCEPT !.pc = "purging", !.orphans = o]
  OBVIOUS
<1>1. s \in TaskState /\ TaskHolds(s, Saved, manual, owners, prepared, route) /\ s.pc = "purged" /\ s.kind = "remove"
  BY TaskFacts DEF Catalog!ForgetModel, Catalog!At
<1>2. "purging" \in Points /\ o \subseteq Models
  BY <1>1 DEF Points, TaskState
<1>3. /\ r \in TaskState
      /\ r.pc = "purging" /\ r.kind = "remove" /\ r.blueprint = s.blueprint /\ r.model = s.model
      /\ r.orphans = o /\ r.late = s.late /\ r.eligible = s.eligible /\ r.todo = s.todo
  BY <1>a, <1>1, <1>2 DEF TaskState
<1>4. s.blueprint \in Blueprints
  BY <1>1 DEF TaskHolds
<1>5. task' = [task EXCEPT ![t] = r]
  BY <1>a DEF Catalog!ForgetModel
<1>6. UNCHANGED <<record, archived, manual, placed, registry, route, superseded, prepared>>
  BY DEF Catalog!ForgetModel, Catalog!files, Catalog!serving, Catalog!history
<1>7. owners' = [owners EXCEPT ![m] = {}]
  BY DEF Catalog!ForgetModel
<1>16. \A k \in o : k \notin manual /\ owners[k] \subseteq s.late
  BY <1>1 DEF TaskHolds
<1>17. \A k \in o : owners'[k] = owners[k]
  BY <1>2, <1>7 DEF CatalogHolds
<1>11. TaskHolds(r, Saved', manual', owners', prepared', route')
  BY <1>1, <1>3, <1>4, <1>6, <1>16, <1>17 DEF TaskHolds, Catalog!ModelKinds
<1>12. r.kind = "add" /\ r.pc = "done" => record'[r.blueprint] = t
  BY <1>3
<1>13. task[t].pc # "done"
  BY <1>1
<1>8. /\ record \in [Blueprints -> Tasks \cup {Nobody}] /\ archived \in [Blueprints -> SUBSET Tasks]
      /\ owners \in [Models -> SUBSET Blueprints]
      /\ placed \in [Models -> SUBSET Nodes] /\ prepared \in [Models -> SUBSET Nodes]
      /\ registry \in [Models -> Tasks \cup {Nobody}] /\ route \in [Nodes -> [Models -> Nodes \cup {Nobody}]]
      /\ superseded \subseteq Tasks
  BY DEF CatalogHolds
<1>9. /\ owners' \in [Models -> SUBSET Blueprints]
  BY <1>4, <1>7, <1>8
<1>10. /\ \A k \in Models : owners'[k] \subseteq owners[k] /\ prepared[k] \subseteq prepared'[k]
  BY <1>4, <1>6, <1>7, <1>8
<1>14. /\ \A k \in Blueprints : archived[k] \subseteq archived'[k] \cup superseded'
       /\ \A k \in Blueprints : record'[k] = record[k] \/ record[k] \in archived'[k] \cup superseded' \cup {Nobody}
       /\ \A k \in Models : registry'[k] \in {registry[k], Nobody} \/ (registry'[k] = t /\ r.pc = "done")
       /\ \A h \in Nodes, k \in Models : route'[h][k] = route[h][k] \/ (route'[h][k] \in prepared[k] /\ route'[h][k] # Nobody)
  BY <1>6
<1>15. /\ record' \in [Blueprints -> Tasks \cup {Nobody}] /\ superseded \subseteq superseded' /\ superseded' \subseteq Tasks
       /\ archived' \in [Blueprints -> SUBSET Tasks]
       /\ placed' \in [Models -> SUBSET Nodes]
       /\ prepared' \in [Models -> SUBSET Nodes]
       /\ registry' \in [Models -> Tasks \cup {Nobody}]
       /\ route' \in [Nodes -> [Models -> Nodes \cup {Nobody}]]
       /\ UNCHANGED manual
  BY <1>6, <1>8
<1> QED BY <1>3, <1>5, <1>9, <1>10, <1>11, <1>12, <1>13, <1>14, <1>15, TaskMoves

LEMMA PlaceKeeps ==
  ASSUME CatalogHolds, NEW t \in Tasks, Catalog!Place(t)
  PROVE  CatalogHolds'
<1> PICK s : s = task[t]
  OBVIOUS
<1>n. PICK n \in Nodes : task' = [task EXCEPT ![t].pc = "placed", ![t].node = n]
  BY DEF Catalog!Place
<1>a. PICK r : r = [s EXCEPT !.pc = "placed", !.node = n]
  OBVIOUS
<1>1. /\ s \in TaskState /\ TaskHolds(s, Saved, manual, owners, prepared, route)
      /\ s.pc \in {"validated", "started"} /\ s.kind \in {"install blueprint", "install model"}
  BY TaskFacts DEF Catalog!Place, Catalog!Placing, Catalog!At
<1>2. "placed" \in Points
  BY DEF Points
<1>3. r \in TaskState
  BY <1>a, <1>1, <1>2 DEF TaskState
<1>4. /\ r.pc = "placed" /\ r.kind = s.kind /\ r.blueprint = s.blueprint /\ r.model = s.model
      /\ r.eligible = s.eligible /\ r.todo = s.todo
  BY <1>a, <1>1 DEF TaskState
<1>5. task' = [task EXCEPT ![t] = r]
  BY <1>a, <1>n
<1>6. UNCHANGED <<record, archived, owners, manual, placed, registry, route, superseded, prepared>>
  BY DEF Catalog!Place, Catalog!files, Catalog!ledger, Catalog!serving, Catalog!history
<1>7. TaskHolds(r, Saved, manual, owners, prepared, route)
  BY <1>1, <1>4 DEF TaskHolds
<1>8. task[t].pc # "done" /\ (r.kind = "add" => r.pc # "done")
  BY <1>1, <1>4
<1> QED BY <1>3, <1>5, <1>6, <1>7, <1>8, OnlyTaskMoves

LEMMA PrepareKeeps ==
  ASSUME CatalogHolds, NEW t \in Tasks, Catalog!Prepare(t)
  PROVE  CatalogHolds'
<1> PICK s : s = task[t]
  OBVIOUS
<1> PICK m : m = s.model
  OBVIOUS
<1> PICK n : n = s.node
  OBVIOUS
<1>1. /\ s \in TaskState /\ TaskHolds(s, Saved, manual, owners, prepared, route)
      /\ s.pc = "placed" /\ s.kind \in {"install blueprint", "install model"}
  BY TaskFacts DEF Catalog!Prepare, Catalog!Installing, Catalog!At
<1>p. PICK p \in {"prepared", "routing", "failed"} : task' = [task EXCEPT ![t].pc = p]
  BY DEF Catalog!Prepare, Catalog!Becomes
<1> PICK r : r = AtPoint(s, p)
  OBVIOUS
<1>2. p \in Points
  BY <1>p DEF Points
<1>3. /\ r \in TaskState
      /\ r.pc = p /\ r.kind = s.kind /\ r.blueprint = s.blueprint /\ r.model = m /\ r.node = n
      /\ r.eligible = s.eligible /\ r.todo = s.todo
  BY <1>1, <1>2, PointFacts
<1>4. m \in Models /\ n \in Nodes
  BY <1>1 DEF TaskHolds, TaskState, Catalog!ModelKinds
<1>5. task' = [task EXCEPT ![t] = r]
  BY <1>p DEF AtPoint
<1>6. UNCHANGED <<record, archived, owners, manual, registry, route, superseded>>
  BY DEF Catalog!Prepare, Catalog!files, Catalog!ledger, Catalog!serving
<1>7. placed' = [placed EXCEPT ![m] = placed[m] \cup {n}] /\ prepared' = [prepared EXCEPT ![m] = prepared[m] \cup {n}]
  BY DEF Catalog!Prepare, Catalog!Model
<1>16. n \in prepared'[m]
  BY <1>4, <1>7 DEF CatalogHolds
<1>11. TaskHolds(r, Saved', manual', owners', prepared', route')
  BY <1>1, <1>p, <1>3, <1>4, <1>16 DEF TaskHolds
<1>12. r.kind = "add" /\ r.pc = "done" => record'[r.blueprint] = t
  BY <1>p, <1>3
<1>13. task[t].pc # "done"
  BY <1>1
<1>8. /\ record \in [Blueprints -> Tasks \cup {Nobody}] /\ archived \in [Blueprints -> SUBSET Tasks]
      /\ owners \in [Models -> SUBSET Blueprints]
      /\ placed \in [Models -> SUBSET Nodes] /\ prepared \in [Models -> SUBSET Nodes]
      /\ registry \in [Models -> Tasks \cup {Nobody}] /\ route \in [Nodes -> [Models -> Nodes \cup {Nobody}]]
      /\ superseded \subseteq Tasks
  BY DEF CatalogHolds
<1>9. /\ placed' \in [Models -> SUBSET Nodes]
      /\ prepared' \in [Models -> SUBSET Nodes]
  BY <1>4, <1>7, <1>8
<1>10. /\ \A k \in Models : owners'[k] \subseteq owners[k] /\ prepared[k] \subseteq prepared'[k]
  BY <1>4, <1>6, <1>7, <1>8
<1>14. /\ \A k \in Blueprints : archived[k] \subseteq archived'[k] \cup superseded'
       /\ \A k \in Blueprints : record'[k] = record[k] \/ record[k] \in archived'[k] \cup superseded' \cup {Nobody}
       /\ \A k \in Models : registry'[k] \in {registry[k], Nobody} \/ (registry'[k] = t /\ r.pc = "done")
       /\ \A h \in Nodes, k \in Models : route'[h][k] = route[h][k] \/ (route'[h][k] \in prepared[k] /\ route'[h][k] # Nobody)
  BY <1>6
<1>15. /\ record' \in [Blueprints -> Tasks \cup {Nobody}] /\ superseded \subseteq superseded' /\ superseded' \subseteq Tasks
       /\ archived' \in [Blueprints -> SUBSET Tasks]
       /\ owners' \in [Models -> SUBSET Blueprints]
       /\ registry' \in [Models -> Tasks \cup {Nobody}]
       /\ route' \in [Nodes -> [Models -> Nodes \cup {Nobody}]]
       /\ UNCHANGED manual
  BY <1>6, <1>8
<1> QED BY <1>3, <1>5, <1>9, <1>10, <1>11, <1>12, <1>13, <1>14, <1>15, TaskMoves

LEMMA RouteHereKeeps ==
  ASSUME CatalogHolds, NEW t \in Tasks, Catalog!RouteHere(t)
  PROVE  CatalogHolds'
<1> PICK s : s = task[t]
  OBVIOUS
<1> PICK m : m = s.model
  OBVIOUS
<1> PICK c : c = s.node
  OBVIOUS
<1>1. /\ s \in TaskState /\ TaskHolds(s, Saved, manual, owners, prepared, route)
      /\ s.pc = "routing" /\ s.kind \in {"install blueprint", "install model"}
  BY TaskFacts DEF Catalog!RouteHere, Catalog!Installing, Catalog!At
<1>p. PICK p \in {"listing", "failed"} : task' = [task EXCEPT ![t].pc = p]
  BY DEF Catalog!RouteHere, Catalog!Becomes
<1> PICK r : r = AtPoint(s, p)
  OBVIOUS
<1>2. p \in Points
  BY <1>p DEF Points
<1>3. /\ r \in TaskState
      /\ r.pc = p /\ r.kind = s.kind /\ r.blueprint = s.blueprint /\ r.model = m /\ r.node = c
      /\ r.eligible = s.eligible /\ r.todo = s.todo
  BY <1>1, <1>2, PointFacts
<1>4. m \in Models /\ c \in Nodes /\ Here \in Nodes /\ c \in prepared[m] /\ c # Nobody
  BY <1>1, CatalogAssumption DEF TaskHolds, TaskState, Catalog!ModelKinds
<1>5. task' = [task EXCEPT ![t] = r]
  BY <1>p DEF AtPoint
<1>6. UNCHANGED <<record, archived, owners, manual, placed, registry, superseded, prepared>>
  BY DEF Catalog!RouteHere, Catalog!files, Catalog!ledger, Catalog!history
<1>7. route' = [route EXCEPT ![Here][m] = c] \/ route' = route
  BY DEF Catalog!RouteHere, Catalog!Model
<1>11. TaskHolds(r, Saved', manual', owners', prepared', route')
  BY <1>1, <1>p, <1>3, <1>4, <1>6 DEF TaskHolds
<1>12. r.kind = "add" /\ r.pc = "done" => record'[r.blueprint] = t
  BY <1>p, <1>3
<1>13. task[t].pc # "done"
  BY <1>1
<1>8. /\ record \in [Blueprints -> Tasks \cup {Nobody}] /\ archived \in [Blueprints -> SUBSET Tasks]
      /\ owners \in [Models -> SUBSET Blueprints]
      /\ placed \in [Models -> SUBSET Nodes] /\ prepared \in [Models -> SUBSET Nodes]
      /\ registry \in [Models -> Tasks \cup {Nobody}] /\ route \in [Nodes -> [Models -> Nodes \cup {Nobody}]]
      /\ superseded \subseteq Tasks
  BY DEF CatalogHolds
<1>9. /\ route' \in [Nodes -> [Models -> Nodes \cup {Nobody}]]
  BY <1>4, <1>7, <1>8
<1>10. /\ \A h \in Nodes, k \in Models : route'[h][k] = route[h][k] \/ (route'[h][k] \in prepared[k] /\ route'[h][k] # Nobody)
  BY <1>4, <1>6, <1>7, <1>8
<1>14. /\ \A k \in Blueprints : archived[k] \subseteq archived'[k] \cup superseded'
       /\ \A k \in Blueprints : record'[k] = record[k] \/ record[k] \in archived'[k] \cup superseded' \cup {Nobody}
       /\ \A k \in Models : owners'[k] \subseteq owners[k] /\ prepared[k] \subseteq prepared'[k]
       /\ \A k \in Models : registry'[k] \in {registry[k], Nobody} \/ (registry'[k] = t /\ r.pc = "done")
  BY <1>6
<1>15. /\ record' \in [Blueprints -> Tasks \cup {Nobody}] /\ superseded \subseteq superseded' /\ superseded' \subseteq Tasks
       /\ archived' \in [Blueprints -> SUBSET Tasks]
       /\ owners' \in [Models -> SUBSET Blueprints]
       /\ placed' \in [Models -> SUBSET Nodes]
       /\ prepared' \in [Models -> SUBSET Nodes]
       /\ registry' \in [Models -> Tasks \cup {Nobody}]
       /\ UNCHANGED manual
  BY <1>6, <1>8
<1> QED BY <1>3, <1>5, <1>9, <1>10, <1>11, <1>12, <1>13, <1>14, <1>15, TaskMoves

LEMMA ListNodesKeeps ==
  ASSUME CatalogHolds, NEW t \in Tasks, Catalog!ListNodes(t)
  PROVE  CatalogHolds'
<1> PICK s : s = task[t]
  OBVIOUS
<1>e. PICK e \in SUBSET (Nodes \ {Here}) :
        task' = [task EXCEPT ![t].pc = "fanning", ![t].eligible = e, ![t].todo = e]
  BY DEF Catalog!ListNodes
<1>a. PICK r : r = [s EXCEPT !.pc = "fanning", !.eligible = e, !.todo = e]
  OBVIOUS
<1>1. /\ s \in TaskState /\ TaskHolds(s, Saved, manual, owners, prepared, route)
      /\ s.pc = "listing" /\ s.kind \in {"install blueprint", "install model"}
  BY TaskFacts DEF Catalog!ListNodes, Catalog!Installing, Catalog!At
<1>2. "fanning" \in Points /\ e \subseteq Nodes
  BY <1>e DEF Points
<1>3. r \in TaskState
  BY <1>a, <1>1, <1>2 DEF TaskState
<1>4. /\ r.pc = "fanning" /\ r.kind = s.kind /\ r.blueprint = s.blueprint /\ r.model = s.model /\ r.node = s.node
      /\ r.eligible = e /\ r.todo = e
  BY <1>a, <1>1 DEF TaskState
<1>5. task' = [task EXCEPT ![t] = r]
  BY <1>a, <1>e
<1>6. UNCHANGED <<record, archived, owners, manual, placed, registry, route, superseded, prepared>>
  BY DEF Catalog!ListNodes, Catalog!files, Catalog!ledger, Catalog!serving, Catalog!history
<1>9. TaskHolds(r, Saved, manual, owners, prepared, route)
  BY <1>1, <1>4 DEF TaskHolds
<1>8. task[t].pc # "done" /\ (r.kind = "add" => r.pc # "done")
  BY <1>1, <1>4
<1> QED BY <1>3, <1>5, <1>6, <1>9, <1>8, OnlyTaskMoves

LEMMA RouteOnKeeps ==
  ASSUME CatalogHolds, NEW t \in Tasks, NEW g \in Nodes, Catalog!RouteOn(t, g)
  PROVE  CatalogHolds'
<1> PICK s : s = task[t]
  OBVIOUS
<1> PICK m : m = s.model
  OBVIOUS
<1> PICK c : c = s.node
  OBVIOUS
<1>1. /\ s \in TaskState /\ TaskHolds(s, Saved, manual, owners, prepared, route)
      /\ s.pc = "fanning" /\ s.kind \in {"install blueprint", "install model"}
      /\ g \in s.todo
  BY TaskFacts DEF Catalog!RouteOn, Catalog!Installing, Catalog!At
<1>4. m \in Models /\ c \in Nodes /\ c \in prepared[m] /\ c # Nobody
  BY <1>1, CatalogAssumption DEF TaskHolds, TaskState, Catalog!ModelKinds
<1>6. UNCHANGED <<record, archived, owners, manual, placed, registry, superseded, prepared>>
  BY DEF Catalog!RouteOn, Catalog!files, Catalog!ledger, Catalog!history
<1>7. route' = [route EXCEPT ![g][m] = c] \/ route' = route
  BY DEF Catalog!RouteOn, Catalog!Model
<1>13. task[t].pc # "done"
  BY <1>1
<1>8. /\ record \in [Blueprints -> Tasks \cup {Nobody}] /\ archived \in [Blueprints -> SUBSET Tasks]
      /\ owners \in [Models -> SUBSET Blueprints]
      /\ placed \in [Models -> SUBSET Nodes] /\ prepared \in [Models -> SUBSET Nodes]
      /\ registry \in [Models -> Tasks \cup {Nobody}] /\ route \in [Nodes -> [Models -> Nodes \cup {Nobody}]]
      /\ superseded \subseteq Tasks
  BY DEF CatalogHolds
<1>9. route' \in [Nodes -> [Models -> Nodes \cup {Nobody}]]
  <2>1. CASE route' = [route EXCEPT ![g][m] = c]
    BY <1>4, <1>8, <2>1
  <2>2. CASE route' = route
    BY <1>8, <2>2
  <2> QED BY <1>7, <2>1, <2>2
<1>10. \A n \in Nodes, j \in Models : route'[n][j] = route[n][j] \/ (route'[n][j] \in prepared[j] /\ route'[n][j] # Nobody)
  BY <1>4, <1>7, <1>8
<1>16. \E r \in TaskState :
        /\ task' = [task EXCEPT ![t] = r]
        /\ TaskHolds(r, Saved', manual', owners', prepared', route') /\ r.kind # "add"
  <2>1. CASE task' = [task EXCEPT ![t].pc = "failed"]
    <3> PICK r : r = AtPoint(s, "failed")
      OBVIOUS
    <3>1. "failed" \in Points
      BY DEF Points
    <3>2. /\ r \in TaskState /\ r.pc = "failed" /\ r.kind = s.kind /\ r.blueprint = s.blueprint /\ r.model = m
          /\ r.eligible = s.eligible /\ r.todo = s.todo
      BY <1>1, <3>1, PointFacts
    <3>3. task' = [task EXCEPT ![t] = r]
      BY <2>1 DEF AtPoint
    <3>4. TaskHolds(r, Saved', manual', owners', prepared', route')
      BY <1>1, <3>2 DEF TaskHolds
    <3> QED BY <1>1, <3>2, <3>3, <3>4
  <2>2. CASE route' = [route EXCEPT ![g][m] = c] /\ task' = [task EXCEPT ![t].todo = s.todo \ {g}]
    <3> PICK o : o = s.todo \ {g}
      OBVIOUS
    <3>a. PICK r : r = [s EXCEPT !.todo = o]
      OBVIOUS
    <3>1. o \subseteq Nodes
      BY <1>1 DEF TaskState
    <3>2. r \in TaskState
      BY <1>1, <3>a, <3>1 DEF TaskState
    <3>3. /\ r.pc = "fanning" /\ r.kind = s.kind /\ r.blueprint = s.blueprint /\ r.model = m /\ r.node = c
          /\ r.eligible = s.eligible /\ r.todo = o
      BY <1>1, <3>a DEF TaskState
    <3>4. task' = [task EXCEPT ![t] = r]
      BY <2>2, <3>a
    <3>5. ASSUME NEW n \in r.eligible \ r.todo PROVE route'[n][m] # Nobody
      <4>1. n = g \/ n \in s.eligible \ s.todo
        BY <3>3, <3>5
      <4>2. n \in Nodes
        BY <1>1, <4>1, CatalogAssumption DEF TaskState
      <4>3. n # g => route[n][m] # Nobody
        BY <1>1, <4>1 DEF TaskHolds
      <4>4. n = g => route'[n][m] = c
        BY <1>8, <1>4, <2>2, <4>2
      <4> QED BY <1>4, <1>10, <4>2, <4>3, <4>4
    <3>6. TaskHolds(r, Saved', manual', owners', prepared', route')
      BY <1>1, <1>4, <1>6, <3>3, <3>5 DEF TaskHolds
    <3> QED BY <1>1, <3>2, <3>3, <3>4, <3>6
  <2> QED BY <2>1, <2>2 DEF Catalog!RouteOn, Catalog!Model, Catalog!Becomes
<1>17. PICK r \in TaskState :
        /\ task' = [task EXCEPT ![t] = r]
        /\ TaskHolds(r, Saved', manual', owners', prepared', route') /\ r.kind # "add"
  BY <1>16
<1>12. r.kind = "add" /\ r.pc = "done" => record'[r.blueprint] = t
  BY <1>17
<1>14. /\ \A k \in Blueprints : archived[k] \subseteq archived'[k] \cup superseded'
       /\ \A k \in Blueprints : record'[k] = record[k] \/ record[k] \in archived'[k] \cup superseded' \cup {Nobody}
       /\ \A k \in Models : owners'[k] \subseteq owners[k] /\ prepared[k] \subseteq prepared'[k]
       /\ \A k \in Models : registry'[k] \in {registry[k], Nobody} \/ (registry'[k] = t /\ r.pc = "done")
  BY <1>6
<1>15. /\ record' \in [Blueprints -> Tasks \cup {Nobody}] /\ superseded \subseteq superseded' /\ superseded' \subseteq Tasks
       /\ archived' \in [Blueprints -> SUBSET Tasks]
       /\ owners' \in [Models -> SUBSET Blueprints]
       /\ placed' \in [Models -> SUBSET Nodes]
       /\ prepared' \in [Models -> SUBSET Nodes]
       /\ registry' \in [Models -> Tasks \cup {Nobody}]
       /\ UNCHANGED manual
  BY <1>6, <1>8
<1> QED BY <1>17, <1>9, <1>10, <1>12, <1>13, <1>14, <1>15, TaskMoves

LEMMA LookUpKeeps ==
  ASSUME CatalogHolds, NEW t \in Tasks, Catalog!LookUp(t)
  PROVE  CatalogHolds'
<1> PICK s : s = task[t]
  OBVIOUS
<1> PICK f : f = registry[s.model]
  OBVIOUS
<1>p. PICK p : p = IF s.kind = "install model" /\ f # Nobody THEN "done" ELSE "registering"
  OBVIOUS
<1>a. PICK r : r = [s EXCEPT !.found = f, !.pc = p]
  OBVIOUS
<1>1. /\ s \in TaskState /\ TaskHolds(s, Saved, manual, owners, prepared, route)
      /\ (s.kind = "install model" /\ s.pc = "routed") \/ (s.kind = "register" /\ s.pc = "started")
  BY TaskFacts DEF Catalog!LookUp, Catalog!Registering, Catalog!At
<1>2. s.model \in Models
  BY <1>1 DEF TaskHolds, Catalog!ModelKinds
<1>3. f \in Tasks \cup {Nobody} /\ p \in Points
  BY <1>2, <1>p DEF CatalogHolds, Points
<1>4. r \in TaskState
  BY <1>a, <1>1, <1>3 DEF TaskState
<1>5. /\ r.pc = p /\ r.kind = s.kind /\ r.blueprint = s.blueprint /\ r.model = s.model
      /\ r.eligible = s.eligible /\ r.todo = s.todo
  BY <1>a, <1>1 DEF TaskState
<1>6. task' = [task EXCEPT ![t] = r]
  BY <1>a, <1>p DEF Catalog!LookUp, Catalog!Model
<1>10. p \in {"done", "registering"} /\ (p = "done" => s.kind = "install model")
  BY <1>p
<1>7. UNCHANGED <<record, archived, owners, manual, placed, registry, route, superseded, prepared>>
  BY DEF Catalog!LookUp, Catalog!files, Catalog!ledger, Catalog!serving, Catalog!history
<1>8. TaskHolds(r, Saved, manual, owners, prepared, route)
  BY <1>1, <1>2, <1>5, <1>10 DEF TaskHolds
<1>9. task[t].pc # "done" /\ (r.kind = "add" => r.pc # "done")
  BY <1>1, <1>5, <1>10
<1> QED BY <1>4, <1>6, <1>7, <1>8, <1>9, OnlyTaskMoves

LEMMA CheckTagKeeps ==
  ASSUME CatalogHolds, NEW t \in Tasks, Catalog!CheckTag(t)
  PROVE  CatalogHolds'
<1> PICK s : s = task[t]
  OBVIOUS
<1> PICK f : f = registry[s.model]
  OBVIOUS
<1>a. PICK r : r = [s EXCEPT !.pc = "deregistering", !.found = f]
  OBVIOUS
<1>1. s \in TaskState /\ TaskHolds(s, Saved, manual, owners, prepared, route) /\ s.kind = "deregister" /\ s.pc = "started"
  BY TaskFacts DEF Catalog!CheckTag, Catalog!At
<1>2. s.model \in Models
  BY <1>1 DEF TaskHolds, Catalog!ModelKinds
<1>3. f \in Tasks \cup {Nobody} /\ "deregistering" \in Points
  BY <1>2 DEF CatalogHolds, Points
<1>4. r \in TaskState
  BY <1>a, <1>1, <1>3 DEF TaskState
<1>5. /\ r.pc = "deregistering" /\ r.kind = "deregister" /\ r.blueprint = s.blueprint /\ r.model = s.model
      /\ r.eligible = s.eligible /\ r.todo = s.todo
  BY <1>a, <1>1 DEF TaskState
<1>6. task' = [task EXCEPT ![t] = r]
  BY <1>a DEF Catalog!CheckTag, Catalog!Model
<1>7. UNCHANGED <<record, archived, owners, manual, placed, registry, route, superseded, prepared>>
  BY DEF Catalog!CheckTag, Catalog!files, Catalog!ledger, Catalog!serving, Catalog!history
<1>8. TaskHolds(r, Saved, manual, owners, prepared, route)
  BY <1>1, <1>2, <1>5 DEF TaskHolds
<1>9. task[t].pc # "done" /\ (r.kind = "add" => r.pc # "done")
  BY <1>1, <1>5
<1> QED BY <1>4, <1>6, <1>7, <1>8, <1>9, OnlyTaskMoves

LEMMA RegistrationKeeps ==
  ASSUME CatalogHolds, NEW t \in Tasks, Catalog!Register(t) \/ Catalog!Deregister(t)
  PROVE  CatalogHolds'
<1> PICK s : s = task[t]
  OBVIOUS
<1> PICK m : m = s.model
  OBVIOUS
<1>1. /\ s \in TaskState /\ TaskHolds(s, Saved, manual, owners, prepared, route)
      /\ s.pc \in {"registering", "deregistering"} /\ s.kind \in {"install model", "register", "deregister"}
      /\ s.kind = "install model" => s.pc = "registering"
  BY TaskFacts DEF Catalog!Register, Catalog!Deregister, Catalog!At, TaskHolds
<1>4. m \in Models
  BY <1>1 DEF TaskHolds, Catalog!ModelKinds
<1>p. PICK p \in {"done", "failed"} :
        /\ task' = [task EXCEPT ![t].pc = p]
        /\ \/ registry' = [registry EXCEPT ![m] = t] /\ p = "done"
           \/ registry' = [registry EXCEPT ![m] = Nobody]
           \/ registry' = registry
  BY DEF Catalog!Register, Catalog!Deregister, Catalog!Becomes, Catalog!Model
<1> PICK r : r = AtPoint(s, p)
  OBVIOUS
<1>2. p \in Points
  BY <1>p DEF Points
<1>3. /\ r \in TaskState
      /\ r.pc = p /\ r.kind = s.kind /\ r.blueprint = s.blueprint /\ r.model = m /\ r.node = s.node
      /\ r.eligible = s.eligible /\ r.todo = s.todo
  BY <1>1, <1>2, PointFacts
<1>5. task' = [task EXCEPT ![t] = r]
  BY <1>p DEF AtPoint
<1>6. UNCHANGED <<record, archived, owners, manual, placed, route, superseded, prepared>>
  BY DEF Catalog!Register, Catalog!Deregister, Catalog!files, Catalog!ledger, Catalog!history
<1>11. TaskHolds(r, Saved', manual', owners', prepared', route')
  <2>1. r.todo \subseteq r.eligible
    BY <1>1, <1>3 DEF TaskHolds
  <2>2. CASE s.kind # "install model"
    BY <1>1, <1>p, <1>3, <1>4, <2>1, <2>2 DEF TaskHolds
  <2>3. CASE s.kind = "install model"
    <3>1. s.todo = {} /\ \A n \in r.eligible \ r.todo : route'[n][m] # Nobody
      BY <1>1, <1>3, <1>6, <2>3 DEF TaskHolds
    <3> QED BY <1>p, <1>3, <1>4, <2>1, <2>3, <3>1 DEF TaskHolds
  <2> QED BY <2>2, <2>3
<1>12. r.kind = "add" /\ r.pc = "done" => record'[r.blueprint] = t
  BY <1>1, <1>3
<1>13. task[t].pc # "done"
  BY <1>1
<1>8. /\ record \in [Blueprints -> Tasks \cup {Nobody}] /\ archived \in [Blueprints -> SUBSET Tasks]
      /\ owners \in [Models -> SUBSET Blueprints]
      /\ placed \in [Models -> SUBSET Nodes] /\ prepared \in [Models -> SUBSET Nodes]
      /\ registry \in [Models -> Tasks \cup {Nobody}] /\ route \in [Nodes -> [Models -> Nodes \cup {Nobody}]]
      /\ superseded \subseteq Tasks
  BY DEF CatalogHolds
<1>9. registry' \in [Models -> Tasks \cup {Nobody}]
  BY <1>4, <1>p, <1>8
<1>10. \A k \in Models : registry'[k] \in {registry[k], Nobody} \/ (registry'[k] = t /\ r.pc = "done")
  BY <1>3, <1>4, <1>p, <1>8
<1>14. /\ \A k \in Blueprints : archived[k] \subseteq archived'[k] \cup superseded'
       /\ \A k \in Blueprints : record'[k] = record[k] \/ record[k] \in archived'[k] \cup superseded' \cup {Nobody}
       /\ \A k \in Models : owners'[k] \subseteq owners[k] /\ prepared[k] \subseteq prepared'[k]
       /\ \A h \in Nodes, k \in Models : route'[h][k] = route[h][k] \/ (route'[h][k] \in prepared[k] /\ route'[h][k] # Nobody)
  BY <1>6
<1>15. /\ record' \in [Blueprints -> Tasks \cup {Nobody}] /\ superseded \subseteq superseded' /\ superseded' \subseteq Tasks
       /\ archived' \in [Blueprints -> SUBSET Tasks]
       /\ owners' \in [Models -> SUBSET Blueprints]
       /\ placed' \in [Models -> SUBSET Nodes] /\ prepared' \in [Models -> SUBSET Nodes]
       /\ route' \in [Nodes -> [Models -> Nodes \cup {Nobody}]]
       /\ UNCHANGED manual
  BY <1>6, <1>8
<1> QED BY <1>3, <1>5, <1>9, <1>10, <1>11, <1>12, <1>13, <1>14, <1>15, TaskMoves

\* Several tasks go on, none of which is done; the files, routes and registrations stay.
LEMMA TasksMove ==
  ASSUME CatalogHolds, task' \in [Tasks -> TaskState],
         \A k \in Tasks : TaskHolds(task'[k], Saved, manual, owners', prepared, route),
         \A k \in Tasks : (task[k].pc = "done" \/ task'[k].pc = "done") => task'[k] = task[k],
         owners' \in [Models -> SUBSET Blueprints],
         UNCHANGED <<record, archived, manual, placed, registry, route, superseded, prepared>>
  PROVE  CatalogHolds'
<1>1. Catalog!AdditionsAreKept'
  <2>1. ASSUME NEW k \in Tasks, task'[k].kind = "add", task'[k].pc = "done"
        PROVE  LET b == task'[k].blueprint IN record'[b] = k \/ k \in archived'[b] \/ k \in superseded'
    BY <2>1 DEF CatalogHolds, Catalog!AdditionsAreKept, Catalog!At, Catalog!Blueprint
  <2> QED BY <2>1 DEF Catalog!AdditionsAreKept, Catalog!At, Catalog!Blueprint
<1>2. ASSUME NEW m \in Models, registry'[m] # Nobody PROVE task'[registry'[m]].pc = "done"
  BY <1>2 DEF CatalogHolds
<1>3. \A k \in Tasks : TaskHolds(task'[k], Saved', manual', owners', prepared', route')
  BY DEF Saved
<1> QED BY <1>1, <1>2, <1>3 DEF CatalogHolds

LEMMA ClaimKeeps ==
  ASSUME CatalogHolds, NEW t \in Tasks, Catalog!Claim(t)
  PROVE  CatalogHolds'
<1> PICK s : s = task[t]
  OBVIOUS
<1> PICK b : b = s.blueprint
  OBVIOUS
<1> PICK m : m = s.model
  OBVIOUS
<1>1. /\ s \in TaskState /\ TaskHolds(s, Saved, manual, owners, prepared, route)
      /\ s.pc = "prepared" /\ s.kind = "install blueprint"
  BY TaskFacts DEF Catalog!Claim, Catalog!At
<1>2. b \in Blueprints /\ m \in Models
  BY <1>1 DEF TaskHolds
<1>3. UNCHANGED <<record, archived, manual, placed, registry, route, superseded, prepared>>
  BY DEF Catalog!Claim, Catalog!files, Catalog!serving, Catalog!history
<1>4. owners' = [owners EXCEPT ![m] = owners[m] \cup {b}]
  BY DEF Catalog!Claim, Catalog!Blueprint, Catalog!Model
<1>5. /\ owners' \in [Models -> SUBSET Blueprints] /\ owners \in [Models -> SUBSET Blueprints]
      /\ \A k \in Models : owners'[k] \subseteq owners[k] \cup {b}
  BY <1>2, <1>4 DEF CatalogHolds
<1>6. ASSUME NEW k \in Tasks
      PROVE  /\ task'[k] \in TaskState /\ TaskHolds(task'[k], Saved, manual, owners', prepared, route)
             /\ (task[k].pc = "done" \/ task'[k].pc = "done") => task'[k] = task[k]
  <2> PICK o : o = task[k]
    OBVIOUS
  <2>1. o \in TaskState /\ TaskHolds(o, Saved, manual, owners, prepared, route)
    BY TaskFacts
  <2>2. CASE k = t
    <3> PICK r : r = AtPoint(s, "claimed")
      OBVIOUS
    <3>1. "claimed" \in Points
      BY DEF Points
    <3>2. /\ r \in TaskState /\ r.pc = "claimed" /\ r.kind = "install blueprint"
          /\ r.blueprint = b /\ r.model = m /\ r.node = s.node /\ r.eligible = s.eligible /\ r.todo = s.todo
      BY <1>1, <3>1, PointFacts
    <3>3. task'[k] = r
      BY <2>2 DEF AtPoint, Catalog!Claim
    <3>4. TaskHolds(r, Saved, manual, owners', prepared, route)
      BY <1>1, <1>2, <3>2 DEF TaskHolds
    <3> QED BY <1>1, <2>2, <3>2, <3>3, <3>4
  <2>3. CASE k # t /\ o.pc \in {"purging", "purged"}
    <3> PICK l : l = o.late \cup {b}
      OBVIOUS
    <3>a. PICK r : r = [o EXCEPT !.late = l]
      OBVIOUS
    <3>1. l \subseteq Blueprints
      BY <1>2, <2>1 DEF TaskState
    <3>2. r \in TaskState
      BY <2>1, <3>a, <3>1 DEF TaskState
    <3>3. /\ r.pc = o.pc /\ r.kind = o.kind /\ r.blueprint = o.blueprint /\ r.model = o.model /\ r.node = o.node

          /\ r.eligible = o.eligible /\ r.todo = o.todo /\ r.orphans = o.orphans /\ r.late = l /\ r.orphans \subseteq Models
      BY <2>1, <3>a DEF TaskState
    <3>4. task'[k] = r
      BY <2>3, <3>a DEF Catalog!Claim, Catalog!Blueprint
    <3>5. ASSUME r.kind = "remove", NEW n \in r.orphans PROVE n \notin manual /\ owners'[n] \subseteq r.late
      <4>1. n \notin manual /\ owners[n] \subseteq o.late
        BY <2>1, <2>3, <3>3, <3>5 DEF TaskHolds
      <4> QED BY <1>5, <3>3, <3>5, <4>1
    <3>6. TaskHolds(r, Saved, manual, owners', prepared, route)
      BY <2>1, <2>3, <3>3, <3>5 DEF TaskHolds
    <3> QED BY <2>3, <3>2, <3>3, <3>4, <3>6
  <2>4. CASE k # t /\ o.pc \notin {"purging", "purged"}
    <3>1. task'[k] = o
      BY <2>4 DEF Catalog!Claim
    <3>2. TaskHolds(o, Saved, manual, owners', prepared, route)
      BY <2>1, <2>4 DEF TaskHolds
    <3> QED BY <2>1, <3>1, <3>2
  <2> QED BY <2>2, <2>3, <2>4
<1>7. task' \in [Tasks -> TaskState]
  <2>1. \E v : task' = [k \in Tasks |-> v[k]]
    <3> DEFINE v == [k \in Tasks |-> IF k = t THEN [task[k] EXCEPT !.pc = "claimed"]
                              ELSE IF task[k].pc \in {"purging", "purged"} THEN [task[k] EXCEPT !.late = task[k].late \cup {b}]
                              ELSE task[k]]
    <3>1. task' = v
      BY DEF Catalog!Claim, Catalog!Blueprint
    <3>2. v = [k \in Tasks |-> v[k]]
      OBVIOUS
    <3> HIDE DEF v
    <3> QED BY <3>1, <3>2
  <2> QED BY <1>6, <2>1
<1> QED BY <1>3, <1>5, <1>6, <1>7, TasksMove

LEMMA RestartKeeps ==
  ASSUME CatalogHolds, Catalog!Restart
  PROVE  CatalogHolds'
<1>1. UNCHANGED <<record, archived, owners, manual, placed, registry, route, superseded, prepared>>
  BY DEF Catalog!Restart, Catalog!files, Catalog!ledger, Catalog!serving, Catalog!history
<1>2. ASSUME NEW k \in Tasks
      PROVE  /\ task'[k] \in TaskState /\ TaskHolds(task'[k], Saved, manual, owners', prepared, route)
             /\ (task[k].pc = "done" \/ task'[k].pc = "done") => task'[k] = task[k]
  <2> PICK o : o = task[k]
    OBVIOUS
  <2>1. o \in TaskState /\ TaskHolds(o, Saved, manual, owners, prepared, route)
    BY TaskFacts
  <2>2. CASE Catalog!Running(k)
    <3> PICK r : r = AtPoint(o, "dead")
      OBVIOUS
    <3>1. "dead" \in Points
      BY DEF Points
    <3>2. /\ r \in TaskState /\ r.pc = "dead" /\ r.kind = o.kind /\ r.blueprint = o.blueprint /\ r.model = o.model
          /\ r.eligible = o.eligible /\ r.todo = o.todo
      BY <2>1, <3>1, PointFacts
    <3>3. task'[k] = r
      BY <2>2 DEF AtPoint, Catalog!Restart
    <3>4. o.pc \notin {"done", "idle"}
      BY <2>2 DEF Catalog!Running, Catalog!Over
    <3>5. TaskHolds(r, Saved, manual, owners', prepared, route)
      BY <2>1, <3>2, <3>4 DEF TaskHolds
    <3> QED BY <3>2, <3>3, <3>4, <3>5
  <2>3. CASE ~Catalog!Running(k)
    <3>1. task'[k] = o
      BY <2>3 DEF Catalog!Restart
    <3> QED BY <1>1, <2>1, <3>1
  <2> QED BY <2>2, <2>3
<1>3. task' \in [Tasks -> TaskState]
  <2>1. \E v : task' = [k \in Tasks |-> v[k]]
    <3> DEFINE v == [k \in Tasks |-> IF Catalog!Running(k) THEN [task[k] EXCEPT !.pc = "dead"] ELSE task[k]]
    <3>1. task' = v
      BY DEF Catalog!Restart
    <3>2. v = [k \in Tasks |-> v[k]]
      OBVIOUS
    <3> HIDE DEF v
    <3> QED BY <3>1, <3>2
  <2> QED BY <1>2, <2>1
<1>4. owners' \in [Models -> SUBSET Blueprints]
  BY <1>1 DEF CatalogHolds
<1> QED BY <1>1, <1>2, <1>3, <1>4, TasksMove

\* The initial states.
LEMMA CatalogStarts ==
  ASSUME Catalog!Init
  PROVE  CatalogHolds
<1>1. Catalog!Idle \in TaskState
  BY CatalogAssumption DEF Catalog!Idle, TaskState, Points, Catalog!Kinds, Catalog!ModelChoices
<1>2. task \in [Tasks -> TaskState] /\ \A t \in Tasks : task[t] = Catalog!Idle
  BY <1>1 DEF Catalog!Init
<1>3. TaskHolds(Catalog!Idle, Saved, manual, owners, prepared, route)
  BY DEF TaskHolds, Catalog!Idle, Catalog!ModelKinds
<1>4. Catalog!AdditionsAreKept
  BY <1>2 DEF Catalog!AdditionsAreKept, Catalog!At, Catalog!Idle
<1>5. /\ record \in [Blueprints -> Tasks \cup {Nobody}] /\ archived \in [Blueprints -> SUBSET Tasks]
      /\ owners \in [Models -> SUBSET Blueprints] /\ manual \subseteq Models
      /\ placed \in [Models -> SUBSET Nodes] /\ prepared \in [Models -> SUBSET Nodes]
      /\ registry \in [Models -> Tasks \cup {Nobody}] /\ superseded \subseteq Tasks
  BY DEF Catalog!Init
<1>6. /\ route \in [Nodes -> [Models -> Nodes \cup {Nobody}]]
      /\ \A n \in Nodes, m \in Models : route[n][m] = Nobody
  BY DEF Catalog!Init
<1>7. \A m \in Models : registry[m] = Nobody
  BY DEF Catalog!Init
<1> QED BY <1>2, <1>3, <1>4, <1>5, <1>6, <1>7 DEF CatalogHolds

\* Every step of the catalog.
LEMMA CatalogGoesOn ==
  ASSUME CatalogHolds, Catalog!Next
  PROVE  CatalogHolds'
<1>1. ASSUME NEW t \in Tasks, NEW kind \in Catalog!Kinds, NEW b \in Blueprints \cup {Nobody},
             NEW m \in Models \cup {Nobody}, NEW choice \in Catalog!ModelChoices, Catalog!Start(t, kind, b, m, choice)
      PROVE  CatalogHolds'
  BY <1>1, StartKeeps
<1>2. ASSUME NEW t \in Tasks, Catalog!Step(t) PROVE CatalogHolds'
  <2>1. CASE \/ Catalog!FindBlueprint(t) \/ Catalog!ValidateBundle(t) \/ Catalog!DeferModels(t)
             \/ Catalog!EnsureContextEngine(t) \/ Catalog!PrepareSkills(t) \/ Catalog!PlanRemoval(t)
             \/ Catalog!CleanResources(t) \/ Catalog!Purged(t) \/ Catalog!Routed(t) \/ Catalog!Fails(t)
    BY <2>1, SimpleStepsKeep
  <2>2. CASE Catalog!WriteRecord(t)
    BY <2>2, WriteRecordKeeps
  <2>3. CASE Catalog!ReadRecord(t)
    BY <2>3, ReadRecordKeeps
  <2>4. CASE Catalog!Archive(t)
    BY <2>4, ArchiveKeeps
  <2>5. CASE Catalog!Unlink(t)
    BY <2>5, UnlinkKeeps
  <2>6. CASE Catalog!Release(t)
    BY <2>6, ReleaseKeeps
  <2>7. ASSUME NEW m \in Models, Catalog!PurgeModel(t, m) PROVE CatalogHolds'
    BY <2>7, PurgeKeeps
  <2>8. ASSUME NEW m \in Models, Catalog!ForgetModel(t, m) PROVE CatalogHolds'
    BY <2>8, ForgetKeeps
  <2>9. CASE Catalog!Place(t)
    BY <2>9, PlaceKeeps
  <2>10. CASE Catalog!Prepare(t)
    BY <2>10, PrepareKeeps
  <2>11. CASE Catalog!Claim(t)
    BY <2>11, ClaimKeeps
  <2>12. CASE Catalog!RouteHere(t)
    BY <2>12, RouteHereKeeps
  <2>13. CASE Catalog!ListNodes(t)
    BY <2>13, ListNodesKeeps
  <2>14. ASSUME NEW n \in Nodes, Catalog!RouteOn(t, n) PROVE CatalogHolds'
    BY <2>14, RouteOnKeeps
  <2>15. CASE Catalog!LookUp(t)
    BY <2>15, LookUpKeeps
  <2>16. CASE Catalog!CheckTag(t)
    BY <2>16, CheckTagKeeps
  <2>17. CASE Catalog!Register(t) \/ Catalog!Deregister(t)
    BY <2>17, RegistrationKeeps
  <2> QED BY <1>2, <2>1, <2>2, <2>3, <2>4, <2>5, <2>6, <2>7, <2>8, <2>9, <2>10, <2>11, <2>12, <2>13, <2>14,
             <2>15, <2>16, <2>17 DEF Catalog!Step
<1>3. CASE Catalog!Restart
  BY <1>3, RestartKeeps
<1> QED BY <1>1, <1>2, <1>3 DEF Catalog!Next

\* The steps of the launches.
LEMMA CatalogStays ==
  ASSUME CatalogHolds, UNCHANGED catalog
  PROVE  CatalogHolds'
<1>1. Catalog!AdditionsAreKept'
  BY DEF CatalogHolds, catalog, Catalog!AdditionsAreKept, Catalog!At, Catalog!Blueprint
<1>2. \A t \in Tasks : TaskHolds(task'[t], Saved', manual', owners', prepared', route')
  BY DEF CatalogHolds, catalog, Saved
<1> QED BY <1>1, <1>2 DEF CatalogHolds, catalog

\* What the catalog's operations rely on always holds.
THEOREM CatalogInductive == BlueprintSpec => []CatalogHolds
<1>1. BlueprintInit => CatalogHolds
  BY CatalogStarts DEF BlueprintInit
<1>2. CatalogHolds /\ [BlueprintNext]_BlueprintVars => CatalogHolds'
  <2> SUFFICES ASSUME CatalogHolds, [BlueprintNext]_BlueprintVars
               PROVE  CatalogHolds'
    OBVIOUS
  <2>1. CASE Catalog!Next
    BY <2>1, CatalogGoesOn
  <2>2. CASE UNCHANGED catalog
    BY <2>2, CatalogStays
  <2> QED BY <2>1, <2>2 DEF BlueprintNext, BlueprintVars
<1> QED BY <1>1, <1>2, PTL DEF BlueprintSpec

\* Whatever operations run at once and wherever a restart ends them, the files, the ledger, the
\* registry and the gateways keep their types.
THEOREM CatalogIsTyped == BlueprintSpec => []Catalog!TypeOK
<1>1. CatalogHolds => Catalog!TypeOK
  <2> SUFFICES ASSUME CatalogHolds PROVE Catalog!TypeOK
    OBVIOUS
  <2>1. ASSUME NEW t \in Tasks PROVE task[t].kind \in Catalog!Kinds \cup {"none"} /\ task[t].todo \subseteq task[t].eligible
    BY TaskFacts DEF TaskState, TaskHolds
  <2> QED BY <2>1 DEF CatalogHolds, Catalog!TypeOK
<1> QED BY <1>1, CatalogInductive, PTL

\* For any number of additions and removals, a completed addition stays on record or archived until
\* one of the operations that may lose it does: an addition that replaces it, a removal that unlinks
\* it without having read it, a removal that writes over its archive (blueprint_additions.py:104-136,
\* blueprint_launch.py:641-666).
THEOREM CompletedAdditionsAreKept == BlueprintSpec => []AdditionsAreKept
<1>1. CatalogHolds => AdditionsAreKept
  BY DEF CatalogHolds, AdditionsAreKept
<1> QED BY <1>1, CatalogInductive, PTL

\* What an installation reports, or registers, is routed from every other gateway it was to reach to
\* a computer that has held the model, and so is what this computer's gateway has taken
\* (model_installation.py:83-86, blueprints.py:632-767).
THEOREM InstallationsAreRouted == BlueprintSpec => []InstalledIsRouted
<1>1. CatalogHolds => InstalledIsRouted
  <2> SUFFICES ASSUME CatalogHolds, NEW t \in Tasks,
                      \/ Catalog!Installing(t, "done")
                      \/ task[t].kind = "install model" /\ (registry[Catalog!Model(t)] = t \/ task[t].pc \in {"routed", "registering"}),
                      NEW n \in task[t].eligible \cup {Here}
               PROVE  /\ route[n][Catalog!Model(t)] \in prepared[Catalog!Model(t)] \cup {Nobody}
                      /\ n \in task[t].eligible => route[n][Catalog!Model(t)] # Nobody
    BY DEF InstalledIsRouted, Catalog!InstalledIsRouted
  <2> PICK s : s = task[t]
    OBVIOUS
  <2> PICK m : m = s.model
    OBVIOUS
  <2>1. s \in TaskState /\ TaskHolds(s, Saved, manual, owners, prepared, route)
    BY TaskFacts
  <2>2. s.kind \in {"install blueprint", "install model"}
    BY DEF Catalog!Installing, Catalog!At
  <2>3. m \in Models /\ n \in Nodes
    BY <2>1, <2>2, CatalogAssumption DEF TaskHolds, TaskState, Catalog!ModelKinds
  <2>4. t # Nobody
    BY CatalogAssumption
  <2>5. s.pc \in {"routed", "registering", "done"}
    BY <2>3, <2>4 DEF Catalog!Installing, Catalog!At, Catalog!Model, CatalogHolds
  <2>6. n \in s.eligible => route[n][m] # Nobody
    BY <2>1, <2>2, <2>5 DEF TaskHolds
  <2> QED BY <2>3, <2>6 DEF CatalogHolds, Catalog!Model
<1> QED BY <1>1, CatalogInductive, PTL

\* Only removals and preparations change where models are.
LEMMA PlacedStays ==
  ASSUME NEW t \in Tasks, Catalog!Step(t), \A m \in Models : ~Catalog!PurgeModel(t, m), ~Catalog!Prepare(t)
  PROVE  placed' = placed
<1>1. ASSUME NEW from, NEW to, Catalog!Moves(t, from, to) PROVE placed' = placed
  BY <1>1 DEF Catalog!Moves
<1>2. ASSUME \/ Catalog!FindBlueprint(t) \/ Catalog!ValidateBundle(t) \/ Catalog!DeferModels(t)
             \/ Catalog!EnsureContextEngine(t) \/ Catalog!PrepareSkills(t) \/ Catalog!PlanRemoval(t)
             \/ Catalog!CleanResources(t) \/ Catalog!Purged(t) \/ Catalog!Routed(t)
      PROVE  placed' = placed
  BY <1>1, <1>2 DEF Catalog!FindBlueprint, Catalog!ValidateBundle, Catalog!DeferModels, Catalog!EnsureContextEngine,
     Catalog!PrepareSkills, Catalog!PlanRemoval, Catalog!CleanResources, Catalog!Purged, Catalog!Routed
<1>3. ASSUME \/ Catalog!WriteRecord(t) \/ Catalog!ReadRecord(t) \/ Catalog!Archive(t) \/ Catalog!Unlink(t)
             \/ Catalog!Release(t) \/ \E m \in Models : Catalog!ForgetModel(t, m)
      PROVE  placed' = placed
  BY <1>3 DEF Catalog!WriteRecord, Catalog!ReadRecord, Catalog!Archive, Catalog!Unlink, Catalog!Release, Catalog!ForgetModel
<1>4. ASSUME \/ Catalog!Place(t) \/ Catalog!Claim(t) \/ Catalog!RouteHere(t) \/ Catalog!ListNodes(t)
             \/ \E n \in Nodes : Catalog!RouteOn(t, n)
      PROVE  placed' = placed
  BY <1>4 DEF Catalog!Place, Catalog!Claim, Catalog!RouteHere, Catalog!ListNodes, Catalog!RouteOn
<1>5. ASSUME Catalog!LookUp(t) \/ Catalog!Register(t) \/ Catalog!CheckTag(t) \/ Catalog!Deregister(t) \/ Catalog!Fails(t)
      PROVE  placed' = placed
  BY <1>5 DEF Catalog!LookUp, Catalog!Register, Catalog!CheckTag, Catalog!Deregister, Catalog!Fails
<1> QED BY <1>2, <1>3, <1>4, <1>5 DEF Catalog!Step

\* A removal takes away no model that was installed by hand or that others claimed when it dropped
\* its own claim (blueprint_launch.py:669-698).
THEOREM ClaimedModelsAreLeft == BlueprintSpec => ClaimedModelsStay
<1>1. ASSUME CatalogHolds, BlueprintNext, NEW m \in Models, placed'[m] # placed[m], placed'[m] \subseteq placed[m]
      PROVE  /\ m \notin manual
             /\ \E t \in Tasks :
                  /\ Catalog!At(t, "remove", "purging") /\ task'[t].pc = "purged"
                  /\ owners[m] \subseteq task[t].late
  <2>1. PICK t \in Tasks : Catalog!Step(t)
    <3>1. Catalog!Next
      BY <1>1 DEF BlueprintNext, catalog
    <3>2. ~Catalog!Restart
      BY <1>1 DEF Catalog!Restart
    <3>3. ASSUME NEW t \in Tasks, NEW kind \in Catalog!Kinds, NEW b \in Blueprints \cup {Nobody},
                 NEW n \in Models \cup {Nobody}, NEW choice \in Catalog!ModelChoices,
                 Catalog!Start(t, kind, b, n, choice)
          PROVE  FALSE
      BY <1>1, <3>3 DEF Catalog!Start
    <3> QED BY <3>1, <3>2, <3>3 DEF Catalog!Next
  <2>2. ~Catalog!Prepare(t)
    BY <1>1 DEF Catalog!Prepare, CatalogHolds
  <2>3. PICK k \in Models : Catalog!PurgeModel(t, k)
    BY <1>1, <2>1, <2>2, PlacedStays
  <2>4. k = m
    BY <1>1, <2>3 DEF Catalog!PurgeModel, CatalogHolds
  <2>5. task[t].kind = "remove" /\ task[t].pc = "purging" /\ m \in task[t].orphans
    BY <2>3, <2>4 DEF Catalog!PurgeModel, Catalog!At
  <2>6. m \notin manual /\ owners[m] \subseteq task[t].late
    BY <1>1, <2>5, TaskFacts DEF TaskHolds
  <2>7. task'[t].pc = "purged"
    <3> PICK r : r = AtPoint(task[t], "purged")
      OBVIOUS
    <3>1. task[t] \in TaskState /\ "purged" \in Points
      BY <1>1, TaskFacts DEF Points
    <3>2. r.pc = "purged"
      BY <3>1, PointFacts
    <3>3. task' = [task EXCEPT ![t] = r]
      BY <2>3 DEF Catalog!PurgeModel, Catalog!Becomes, AtPoint
    <3> QED BY <1>1, <3>2, <3>3 DEF CatalogHolds
  <2> QED BY <2>5, <2>6, <2>7 DEF Catalog!At
<1>2. CatalogHolds /\ [BlueprintNext]_BlueprintVars =>
        [\A m \in Models :
           placed'[m] # placed[m] /\ placed'[m] \subseteq placed[m] =>
             /\ m \notin manual
             /\ \E t \in Tasks :
                  /\ Catalog!At(t, "remove", "purging") /\ task'[t].pc = "purged"
                  /\ owners[m] \subseteq task[t].late]_(Catalog!vars)
  BY <1>1 DEF BlueprintVars, catalog, Catalog!vars
<1> QED BY <1>2, CatalogInductive, PTL DEF BlueprintSpec, ClaimedModelsStay, Catalog!ClaimedModelsStay

-----------------------------------------------------------------------------
(* Launches and what they have begun *)

Stages == Outcomes \cup Packaging \cup
  {"idle", "accepted", "requirements", "models", "listing", "listed", "sweeping", "pre_launch", "spawned", "waiting",
   "validating", "submitting", "joining", "starting", "mapping", "relaying"}

Causes == {"none", "inputs", "preflight", "pre_launch", "validation", "raised", "unrecorded", "bundle", "submit"}

\* Ends that may leave a helper behind.
Unstopped == {"raised", "unrecorded"}

LaunchState ==
  [pc : Stages, run : Runs, job : Jobs, progress : Progress, listed : SUBSET Jobs, todo : SUBSET Runs,
   reply : {"none", "accepted", "refused", "uncertain"}, committed : BOOLEAN,
   cause : Causes]

BeforeHelper == {"idle", "accepted", "requirements", "models", "listing", "listed", "sweeping", "pre_launch"}
WithHelper == Packaging \cup {"waiting", "validating", "submitting", "joining"}
BeforeReply == BeforeHelper \cup Packaging \cup {"spawned", "waiting", "validating", "submitting"}
Reporting == {"package", "workflow", "environments", "payloads", "submitting", "joining"}

\* What a launch at a stage has begun: its helper, its submission, its run and its reports.
StageHolds(s, ran, help, reports) ==
  /\ s.pc \in BeforeHelper => help = "none"
  /\ s.pc \in BeforeReply => s.reply = "none"
  /\ s.pc \in BeforeReply \cup {"joining"} => ~s.committed /\ ran = "none"
  /\ s.pc \in {"starting", "mapping", "relaying"} => s.committed
  /\ s.pc \in {"mapping", "relaying"} => ran # "none"
  /\ s.pc \in {"idle", "accepted"} => s.todo = {}
  /\ s.run \notin s.todo
  /\ reports => s.pc \in Reporting

StagesHold ==
  /\ launch \in [Launches -> LaunchState]
  /\ run \in [Launches -> {"none", "running", "ended"}]
  /\ helper \in [Launches -> ProcessStates]
  /\ beating \subseteq Launches
  /\ \A l \in Launches : StageHolds(launch[l], run[l], helper[l], l \in beating)

Directory ==
  [made : BOOLEAN, hook : BOOLEAN, process : Launches \cup {NoLaunch}, ready : BOOLEAN,
   relay : Launches \cup {NoLaunch}, job : Jobs \cup {NoJob}, aged : BOOLEAN]

\* A directory names what launches that have used it left in it.
NamesHold(r, entry, launches) ==
  /\ entry.process # NoLaunch => launches[entry.process].run = r /\ launches[entry.process].pc # "idle"
  /\ entry.relay # NoLaunch => launches[entry.relay].run = r /\ launches[entry.relay].pc # "idle"
  /\ entry.job # NoJob => \E l \in Launches : launches[l].run = r /\ launches[l].pc # "idle" /\ launches[l].job = entry.job

DirectoriesHold ==
  /\ dir \in [Runs -> Directory] /\ relay \in [Launches -> ProcessStates]
  /\ \A r \in Runs : NamesHold(r, dir[r], launch)

\* A launch that uses its directory alone finds its helper by it.
HelpersHold ==
  \A l \in Launches :
    Alone(l) /\ helper[l] = "running" =>
      /\ launch[l].pc \in WithHelper => dir[Run(l)].process = l
      /\ At(l, "failed") => launch[l].cause \in Unstopped \/ launch[l].committed \/ launch[l].reply = "uncertain"

Phases == {"none", "resolve_source", "validation", "requirements", "model_install", "cleanup", "pre_launch",
           "prepare_bundle", "submit", "launch"}
Statuses == {"pending", "running", "completed", "failed"}
Events == [phase : Phases, status : Statuses]

Logs == [terminal : {"none", "completed", "failed"}, latest : Events]

Reported(entry) == entry.terminal # "none" /\ entry.latest.phase = "launch"

LogsHold ==
  /\ log \in [Progress -> Logs]
  /\ \A p \in Progress : log[p].terminal = "completed" => \E l \in Launches : launch[l].progress = p /\ run[l] # "none"
  /\ \A l \in Launches :
       /\ launch[l].pc \in {"answered", "failed"} /\ launch[l].cause # "raised"
       /\ \A k \in Launches \ {l} : launch[k].progress = launch[l].progress => launch[k].pc = "idle"
       => Reported(log[launch[l].progress])

\* The Jobs of the runs that Core executes, and what a sweep has heard of them.
RunsHold ==
  /\ scripts \subseteq {"pre", "post"}
  /\ definition \in [Jobs -> {"idle", "prepared", "running"}] /\ unlisted \in [Launches -> SUBSET Launches]
  /\ \A l \in Launches : run[l] = "running" => definition[launch[l].job] = "running"
  /\ \A l, k \in Launches : run[l] = "running" /\ run[k] = "running" /\ launch[l].job = launch[k].job => l = k
  /\ \A k, l \in Launches :
       launch[k].pc \in {"listed", "sweeping"} /\ run[l] = "running" /\ l \notin unlisted[k] => launch[l].job \in launch[k].listed


LEMMA LaunchFacts ==
  ASSUME StagesHold, NEW l \in Launches
  PROVE  launch[l] \in LaunchState /\ StageHolds(launch[l], run[l], helper[l], l \in beating)
BY DEF StagesHold

\* A launch at another stage, and one that has ended.
AtStage(s, pc) == [s EXCEPT !.pc = pc]
Ended(s, outcome, cause) == [s EXCEPT !.pc = outcome, !.cause = cause]

LEMMA AtStageFacts ==
  ASSUME NEW s \in LaunchState, NEW pc \in Stages
  PROVE  /\ AtStage(s, pc) \in LaunchState
         /\ AtStage(s, pc).pc = pc /\ AtStage(s, pc).run = s.run /\ AtStage(s, pc).job = s.job
         /\ AtStage(s, pc).progress = s.progress /\ AtStage(s, pc).listed = s.listed /\ AtStage(s, pc).todo = s.todo
         /\ AtStage(s, pc).reply = s.reply /\ AtStage(s, pc).committed = s.committed /\ AtStage(s, pc).cause = s.cause
BY DEF LaunchState, AtStage

LEMMA EndedFacts ==
  ASSUME NEW s \in LaunchState, NEW pc \in Outcomes, NEW cause \in Causes
  PROVE  /\ Ended(s, pc, cause) \in LaunchState
         /\ Ended(s, pc, cause).pc = pc /\ Ended(s, pc, cause).cause = cause
         /\ Ended(s, pc, cause).run = s.run /\ Ended(s, pc, cause).job = s.job
         /\ Ended(s, pc, cause).progress = s.progress /\ Ended(s, pc, cause).todo = s.todo
         /\ Ended(s, pc, cause).reply = s.reply /\ Ended(s, pc, cause).committed = s.committed
<1>1. pc \in Stages
  BY DEF Stages
<1> QED BY <1>1 DEF LaunchState, Ended

\* One launch takes a step; it keeps its run, its Job and its progress.
Replaced(l, r) ==
  /\ launch' = [launch EXCEPT ![l] = r]
  /\ r \in LaunchState /\ r.run = launch[l].run /\ r.job = launch[l].job /\ r.progress = launch[l].progress
  /\ r.pc # "idle"

\* What others find of a launch's processes, run and reports after a step.
OthersKeep(l) ==
  \A k \in Launches \ {l} :
    /\ helper[k] = "none" => helper'[k] = "none"
    /\ run'[k] = "none" <=> run[k] = "none"
    /\ k \in beating' => k \in beating

LEMMA StageMoves ==
  ASSUME StagesHold, NEW l \in Launches, NEW r, Replaced(l, r),
         run' \in [Launches -> {"none", "running", "ended"}], helper' \in [Launches -> ProcessStates],
         beating' \subseteq Launches, OthersKeep(l), StageHolds(r, run'[l], helper'[l], l \in beating')
  PROVE  StagesHold'
<1>1. launch' \in [Launches -> LaunchState] /\ launch'[l] = r /\ \A k \in Launches \ {l} : launch'[k] = launch[k]
  BY DEF StagesHold, Replaced
<1>2. ASSUME NEW k \in Launches PROVE StageHolds(launch'[k], run'[k], helper'[k], k \in beating')
  <2>1. CASE k = l
    BY <1>1, <2>1
  <2>2. CASE k # l
    <3>1. StageHolds(launch[k], run[k], helper[k], k \in beating)
      BY LaunchFacts
    <3>2. /\ helper[k] = "none" => helper'[k] = "none"
          /\ run'[k] = "none" <=> run[k] = "none"
          /\ k \in beating' => k \in beating
      BY <2>2 DEF OthersKeep
    <3>3. StageHolds(launch[k], run'[k], helper'[k], k \in beating')
      BY <3>1, <3>2 DEF StageHolds
    <3> QED BY <1>1, <2>2, <3>3
  <2> QED BY <2>1, <2>2
<1> QED BY <1>1, <1>2 DEF StagesHold

\* Nobody stops a process that was not started.
LEMMA StoppedFacts ==
  ASSUME NEW p \in [Launches -> ProcessStates], NEW named
  PROVE  /\ Stopped(p, named) \in [Launches -> ProcessStates]
         /\ \A k \in Launches : Stopped(p, named)[k] \in {p[k], "stopped"} /\ (p[k] = "none" => Stopped(p, named)[k] = "none")
         /\ \A k \in Launches : k # named => Stopped(p, named)[k] = p[k]
         /\ named \in Launches => Stopped(p, named)[named] # "running"
BY DEF Stopped, ProcessStates

\* How a launch passes from stage to stage.
Passage(from, to) ==
  \/ from = "idle" /\ to = "accepted"
  \/ from = "accepted" /\ to = "requirements"
  \/ from = "requirements" /\ to = "models"
  \/ from = "models" /\ to = "listing"
  \/ from = "sweeping" /\ to = "pre_launch"
  \/ from = "pre_launch" /\ to = "validating"
  \/ from = "spawned" /\ to = "waiting"
  \/ from = "waiting" /\ to = "validating"
  \/ from = "validating" /\ to = "package"
  \/ from = "package" /\ to = "workflow"
  \/ from = "workflow" /\ to = "placement"
  \/ from = "placement" /\ to = "environments"
  \/ from = "environments" /\ to = "payloads"
  \/ from = "payloads" /\ to = "submitting"
  \/ from = "mapping" /\ to = "relaying"

LEMMA PassageFacts ==
  ASSUME NEW from, NEW to, Passage(from, to)
  PROVE  /\ from \in Stages \ Outcomes /\ to \in Stages /\ to # "idle"
         /\ from \in BeforeHelper \/ to \notin BeforeHelper
         /\ from \in BeforeReply \/ to \notin BeforeReply \cup {"joining"}
         /\ to \notin {"starting", "mapping"} /\ (to = "relaying" => from = "mapping") /\ (to = "accepted" => from = "idle")
         /\ from \in Reporting => to \in Reporting \cup {"placement"}
BY DEF Passage, Stages, Outcomes, Packaging, BeforeHelper, BeforeReply, Reporting

LEMMA Reporters ==
  ASSUME StagesHold, NEW l \in beating
  PROVE  launch[l].pc \in Reporting
BY DEF StagesHold, StageHolds

\* A launch passes to another stage; only its heartbeat may begin or end.
LEMMA PassingHolds ==
  ASSUME StagesHold, NEW l \in Launches, NEW from, NEW to, Passage(from, to),
         At(l, from), Becomes(l, to), run' = run, helper' = helper,
         beating' \in {beating, beating \cup {l}, beating \ {l}},
         to = "placement" => l \notin beating', to \in Reporting \/ beating' \subseteq beating
  PROVE  StagesHold' /\ Replaced(l, AtStage(launch[l], to))
<1>s. PICK s : s = launch[l]
  OBVIOUS
<1>r. PICK r : r = AtStage(s, to)
  OBVIOUS
<1>1. s \in LaunchState /\ StageHolds(s, run[l], helper[l], l \in beating) /\ s.pc = from
  BY <1>s, LaunchFacts DEF At
<1>2. /\ from \in Stages \ Outcomes /\ to \in Stages /\ to # "idle"
      /\ from \in BeforeHelper \/ to \notin BeforeHelper
      /\ from \in BeforeReply \/ to \notin BeforeReply \cup {"joining"}
      /\ to \notin {"starting", "mapping"} /\ (to = "relaying" => from = "mapping") /\ (to = "accepted" => from = "idle")
      /\ from \in Reporting => to \in Reporting \cup {"placement"}
  BY PassageFacts
<1>3. r \in LaunchState /\ r.pc = to /\ r.run = s.run /\ r.job = s.job /\ r.progress = s.progress /\ r.todo = s.todo
      /\ r.reply = s.reply /\ r.committed = s.committed
  BY <1>1, <1>2, <1>r, AtStageFacts
<1>4. Replaced(l, r)
  BY <1>s, <1>r, <1>2, <1>3 DEF Replaced, Becomes, AtStage
<1>5. StageHolds(r, run'[l], helper'[l], l \in beating')
  <2>1. /\ r.pc \in BeforeHelper => helper[l] = "none"
        /\ r.pc \in BeforeReply => r.reply = "none"
        /\ r.pc \in BeforeReply \cup {"joining"} => ~r.committed /\ run[l] = "none"
    BY <1>1, <1>2, <1>3 DEF StageHolds
  <2>2. /\ r.pc \in {"starting", "mapping", "relaying"} => r.committed
        /\ r.pc \in {"mapping", "relaying"} => run[l] # "none"
        /\ r.pc \in {"idle", "accepted"} => r.todo = {}
        /\ r.run \notin r.todo
    BY <1>1, <1>2, <1>3 DEF StageHolds
  <2>3. l \in beating' => r.pc \in Reporting
    BY <1>1, <1>2, <1>3 DEF StageHolds
  <2> QED BY <1>3, <2>1, <2>2, <2>3 DEF StageHolds
<1>6. run' \in [Launches -> {"none", "running", "ended"}] /\ helper' \in [Launches -> ProcessStates]
      /\ beating' \subseteq Launches
  BY DEF StagesHold
<1>7. OthersKeep(l)
  BY DEF OthersKeep
<1>8. StagesHold'
  BY <1>4, <1>5, <1>6, <1>7, StageMoves
<1> QED BY <1>4, <1>8, <1>s, <1>r

\* A launch ends.
LEMMA EndingHolds ==
  ASSUME StagesHold, NEW l \in Launches, NEW outcome \in Outcomes, NEW cause \in Causes, Ends(l, outcome, cause),
         run' \in [Launches -> {"none", "running", "ended"}], helper' \in [Launches -> ProcessStates],
         \A k \in Launches : helper[k] = "none" => helper'[k] = "none",
         \A k \in Launches \ {l} : run'[k] = "none" <=> run[k] = "none",
         beating' \subseteq beating, l \notin beating'
  PROVE  StagesHold' /\ Replaced(l, Ended(launch[l], outcome, cause))
<1>s. PICK s : s = launch[l]
  OBVIOUS
<1>r. PICK r : r = Ended(s, outcome, cause)
  OBVIOUS
<1>1. s \in LaunchState /\ StageHolds(s, run[l], helper[l], l \in beating)
  BY <1>s, LaunchFacts
<1>3. r \in LaunchState /\ r.pc = outcome /\ r.run = s.run /\ r.job = s.job /\ r.progress = s.progress /\ r.todo = s.todo
  BY <1>1, <1>r, EndedFacts
<1>2. r.pc # "idle"
  BY <1>3 DEF Outcomes
<1>4. Replaced(l, r)
  BY <1>s, <1>r, <1>3, <1>2 DEF Replaced, Ends, Ended
<1>5. StageHolds(r, run'[l], helper'[l], l \in beating')
  BY <1>1, <1>3 DEF StageHolds, Outcomes, BeforeHelper, BeforeReply, Packaging
<1>6. beating' \subseteq Launches
  BY DEF StagesHold
<1>7. OthersKeep(l)
  BY DEF OthersKeep
<1>8. StagesHold'
  BY <1>4, <1>5, <1>6, <1>7, StageMoves
<1> QED BY <1>4, <1>8, <1>s, <1>r

-----------------------------------------------------------------------------
(* What the steps of a launch do *)

LEMMA TouchedFacts ==
  ASSUME NEW e \in Directory
  PROVE  /\ Touched(e) \in Directory
         /\ Touched(e).process = e.process /\ Touched(e).relay = e.relay /\ Touched(e).job = e.job
BY DEF Directory, Touched

LEMMA HookedFacts ==
  ASSUME NEW r \in Runs, dir[r] \in Directory
  PROVE  /\ Hooked(r) \in Directory /\ Prepared(r) \in Directory
         /\ Hooked(r).process = dir[r].process /\ Hooked(r).relay = dir[r].relay /\ Hooked(r).job = dir[r].job
         /\ Prepared(r).process = dir[r].process /\ Prepared(r).relay = dir[r].relay /\ Prepared(r).job = dir[r].job
<1>s. PICK e : e = dir[r]
  OBVIOUS
<1>t. PICK f : f = Touched(e)
  OBVIOUS
<1>1. f \in Directory /\ f.process = e.process /\ f.relay = e.relay /\ f.job = e.job
  BY <1>s, <1>t, TouchedFacts
<1>h. PICK h : h = [f EXCEPT !.hook = TRUE]
  OBVIOUS
<1>2. h \in Directory /\ h.process = e.process /\ h.relay = e.relay /\ h.job = e.job
  BY <1>1, <1>h DEF Directory
<1>k. PICK k : k = Hooked(r)
  OBVIOUS
<1>3. k \in Directory /\ k.process = e.process /\ k.relay = e.relay /\ k.job = e.job
  BY <1>s, <1>t, <1>h, <1>k, <1>2 DEF Hooked
<1>u. PICK u : u = Touched(k)
  OBVIOUS
<1>4. u \in Directory /\ u.process = e.process /\ u.relay = e.relay /\ u.job = e.job
  BY <1>3, <1>u, TouchedFacts
<1>p. PICK p : p = [u EXCEPT !.ready = FALSE]
  OBVIOUS
<1>5. p \in Directory /\ p.process = e.process /\ p.relay = e.relay /\ p.job = e.job
  BY <1>4, <1>p DEF Directory
<1>6. p = Prepared(r)
  BY <1>k, <1>u, <1>p DEF Prepared
<1> QED BY <1>3, <1>5, <1>6, <1>s, <1>k

\* A launch changes the names in its own directory at most, to its own.
KeepsNames(l) ==
  /\ dir' \in [Runs -> Directory] /\ relay' \in [Launches -> ProcessStates]
  /\ \A r \in Runs \ {Run(l)} : dir'[r] = dir[r]
  /\ dir'[Run(l)].relay \in {dir[Run(l)].relay, l} /\ dir'[Run(l)].job \in {dir[Run(l)].job, launch[l].job}

Notes(l) == log' = log \/ \E phase \in Phases \ {"launch"}, status \in Statuses : Records(l, phase, status)

\* A step that is a passage: of the helper and of Core it changes nothing.
Passing(l) ==
  /\ KeepsNames(l) /\ Notes(l)
  /\ UNCHANGED <<scripts, definition, run, helper, unlisted>>
  /\ beating' \in {beating, beating \cup {l}, beating \ {l}}
  /\ \E from, to \in Stages :
       /\ Passage(from, to) /\ At(l, from) /\ Becomes(l, to)
       /\ to = "placement" => l \notin beating'
       /\ to \in Reporting \/ beating' \subseteq beating
       /\ dir'[Run(l)].process = IF from = "spawned" THEN l ELSE dir[Run(l)].process

LEMMA DirectoryStays ==
  ASSUME DirectoriesHold, NEW l \in Launches, UNCHANGED dir, relay' \in [Launches -> ProcessStates]
  PROVE  KeepsNames(l) /\ dir'[Run(l)].process = dir[Run(l)].process
BY DEF DirectoriesHold, KeepsNames

LEMMA DirectoryChanges ==
  ASSUME DirectoriesHold, StagesHold, NEW l \in Launches, NEW e \in Directory, dir' = [dir EXCEPT ![Run(l)] = e],
         relay' \in [Launches -> ProcessStates],
         e.relay \in {dir[Run(l)].relay, l}, e.job \in {dir[Run(l)].job, launch[l].job}
  PROVE  KeepsNames(l) /\ dir'[Run(l)] = e
<1>1. Run(l) \in Runs
  BY LaunchFacts DEF Run, LaunchState
<1> QED BY <1>1 DEF DirectoriesHold, KeepsNames

LEMMA OwnDirectory ==
  ASSUME DirectoriesHold, StagesHold, NEW l \in Launches
  PROVE  Run(l) \in Runs /\ dir[Run(l)] \in Directory /\ relay \in [Launches -> ProcessStates]
<1>1. Run(l) \in Runs
  BY LaunchFacts DEF Run, LaunchState
<1> QED BY <1>1 DEF DirectoriesHold

\* The passages.
LEMMA PassingSteps ==
  ASSUME StagesHold, DirectoriesHold, NEW l \in Launches,
         \/ Accept(l) \/ InputsValid(l) \/ HardwareFound(l) \/ ModelsDeferred(l) \/ Swept(l) \/ SkipHelper(l)
         \/ RecordHelper(l) \/ HelperReady(l) \/ Validated(l) \/ ReadPackage(l) \/ ResolveWorkflow(l)
         \/ PlaceWorkflow(l) \/ PrepareEnvironments(l) \/ Packaged(l) \/ MapRun(l)
  PROVE  Passing(l)
<1> PICK e : e = dir[Run(l)]
  OBVIOUS
<1>0. Run(l) \in Runs /\ e \in Directory /\ relay \in [Launches -> ProcessStates]
  BY OwnDirectory
<1>1. CASE Accept(l)
  <2>1. /\ At(l, "idle") /\ Becomes(l, "accepted") /\ beating' = beating
        /\ UNCHANGED <<scripts, definition, run, helper, relay, unlisted>> /\ Records(l, "resolve_source", "completed")
    BY <1>1 DEF Accept, Passes, core, host
  <2>2. Passage("idle", "accepted") /\ "idle" \in Stages /\ "accepted" \in Stages
    BY DEF Passage, Stages, Outcomes, Packaging
  <2>3. Notes(l)
    BY <2>1 DEF Notes, Phases, Statuses
  <2>4. KeepsNames(l) /\ dir'[Run(l)].process = e.process
    BY <1>0, <1>1, <2>1, DirectoryStays DEF Accept, Passes, host
  <2> QED BY <2>1, <2>2, <2>3, <2>4 DEF Passing
<1>2. CASE InputsValid(l)
  <2>1. /\ At(l, "accepted") /\ Becomes(l, "requirements") /\ beating' = beating
        /\ UNCHANGED <<scripts, definition, run, helper, relay, unlisted>> /\ Records(l, "requirements", "running")
    BY <1>2 DEF InputsValid, Passes, core, host
  <2>2. Passage("accepted", "requirements") /\ "accepted" \in Stages /\ "requirements" \in Stages
    BY DEF Passage, Stages, Outcomes, Packaging
  <2>3. Notes(l)
    BY <2>1 DEF Notes, Phases, Statuses
  <2>4. KeepsNames(l) /\ dir'[Run(l)].process = e.process
    BY <1>0, <1>2, <2>1, DirectoryStays DEF InputsValid, Passes, host
  <2> QED BY <2>1, <2>2, <2>3, <2>4 DEF Passing
<1>3. CASE HardwareFound(l)
  <2>1. /\ At(l, "requirements") /\ Becomes(l, "models") /\ beating' = beating
        /\ UNCHANGED <<scripts, definition, run, helper, relay, unlisted>> /\ Records(l, "model_install", "running")
    BY <1>3 DEF HardwareFound, Passes, core, host
  <2>2. Passage("requirements", "models") /\ "requirements" \in Stages /\ "models" \in Stages
    BY DEF Passage, Stages, Outcomes, Packaging
  <2>3. Notes(l)
    BY <2>1 DEF Notes, Phases, Statuses
  <2>4. KeepsNames(l) /\ dir'[Run(l)].process = e.process
    BY <1>0, <1>3, <2>1, DirectoryStays DEF HardwareFound, Passes, host
  <2> QED BY <2>1, <2>2, <2>3, <2>4 DEF Passing
<1>4. CASE ModelsDeferred(l)
  <2>1. /\ At(l, "models") /\ Becomes(l, "listing") /\ beating' = beating
        /\ UNCHANGED <<scripts, definition, run, helper, relay, unlisted>> /\ Records(l, "cleanup", "running")
    BY <1>4 DEF ModelsDeferred, Passes, core, host
  <2>2. Passage("models", "listing") /\ "models" \in Stages /\ "listing" \in Stages
    BY DEF Passage, Stages, Outcomes, Packaging
  <2>3. Notes(l)
    BY <2>1 DEF Notes, Phases, Statuses
  <2>4. KeepsNames(l) /\ dir'[Run(l)].process = e.process
    BY <1>0, <1>4, <2>1, DirectoryStays DEF ModelsDeferred, Passes, host
  <2> QED BY <2>1, <2>2, <2>3, <2>4 DEF Passing
<1>5. CASE Swept(l)
  <2>1. /\ At(l, "sweeping") /\ Becomes(l, "pre_launch") /\ beating' = beating
        /\ UNCHANGED <<scripts, definition, run, helper, relay, unlisted>> /\ Records(l, "pre_launch", "running")
    BY <1>5 DEF Swept, Passes, core, host
  <2>2. Passage("sweeping", "pre_launch") /\ "sweeping" \in Stages /\ "pre_launch" \in Stages
    BY DEF Passage, Stages, Outcomes, Packaging
  <2>3. Notes(l)
    BY <2>1 DEF Notes, Phases, Statuses
  <2>4. KeepsNames(l) /\ dir'[Run(l)].process = e.process
    BY <1>0, <1>5, <2>1, DirectoryStays DEF Swept, Passes, host
  <2> QED BY <2>1, <2>2, <2>3, <2>4 DEF Passing
<1>6. CASE SkipHelper(l)
  <2>1. /\ At(l, "pre_launch") /\ Becomes(l, "validating") /\ beating' = beating
        /\ UNCHANGED <<scripts, definition, run, helper, relay, unlisted>> /\ Records(l, "pre_launch", "completed")
    BY <1>6 DEF SkipHelper, Passes, core, host
  <2>2. Passage("pre_launch", "validating") /\ "pre_launch" \in Stages /\ "validating" \in Stages
    BY DEF Passage, Stages, Outcomes, Packaging
  <2>3. Notes(l)
    BY <2>1 DEF Notes, Phases, Statuses
  <2>4. KeepsNames(l) /\ dir'[Run(l)].process = e.process
    <3>1. dir' = [dir EXCEPT ![Run(l)] = Hooked(Run(l))]
      BY <1>6 DEF SkipHelper
    <3> QED BY <1>0, <2>1, <3>1, HookedFacts, DirectoryChanges
  <2> QED BY <2>1, <2>2, <2>3, <2>4 DEF Passing
<1>7. CASE RecordHelper(l)
  <2>1. /\ At(l, "spawned") /\ Becomes(l, "waiting") /\ beating' = beating
        /\ UNCHANGED <<scripts, definition, run, helper, relay, unlisted>> /\ log' = log
    BY <1>7 DEF RecordHelper, Passes, core, host
  <2>2. Passage("spawned", "waiting") /\ "spawned" \in Stages /\ "waiting" \in Stages
    BY DEF Passage, Stages, Outcomes, Packaging
  <2>3. Notes(l)
    BY <2>1 DEF Notes
  <2>4. KeepsNames(l) /\ dir'[Run(l)].process = l
    <3>t. PICK f : f = Touched(e)
      OBVIOUS
    <3>n. PICK n : n = l
      OBVIOUS
    <3>g. PICK g : g = [f EXCEPT !.process = n]
      OBVIOUS
    <3>1. f \in Directory /\ f.process = e.process /\ f.relay = e.relay /\ f.job = e.job
      BY <1>0, <3>t, TouchedFacts
    <3>2. n \in Launches
      BY <3>n, LaunchFacts DEF LaunchState
    <3>3. g \in Directory /\ g.process = n /\ g.relay = e.relay /\ g.job = e.job
      BY <3>g, <3>1, <3>2 DEF Directory
    <3>4. dir' = [dir EXCEPT ![Run(l)] = g]
      BY <1>7, <3>t, <3>n, <3>g DEF RecordHelper
    <3>5. relay' \in [Launches -> ProcessStates] /\ g.relay \in {dir[Run(l)].relay, l} /\ g.job \in {dir[Run(l)].job, launch[l].job}
      BY <1>0, <2>1, <3>3
    <3>6. KeepsNames(l) /\ dir'[Run(l)] = g
      BY <3>3, <3>4, <3>5, DirectoryChanges
    <3> QED BY <3>n, <3>3, <3>6
  <2> QED BY <2>1, <2>2, <2>3, <2>4 DEF Passing
<1>8. CASE HelperReady(l)
  <2>1. /\ At(l, "waiting") /\ Becomes(l, "validating") /\ beating' = beating
        /\ UNCHANGED <<scripts, definition, run, helper, relay, unlisted>> /\ Records(l, "pre_launch", "completed")
    BY <1>8 DEF HelperReady, Passes, core, host
  <2>2. Passage("waiting", "validating") /\ "waiting" \in Stages /\ "validating" \in Stages
    BY DEF Passage, Stages, Outcomes, Packaging
  <2>3. Notes(l)
    BY <2>1 DEF Notes, Phases, Statuses
  <2>4. KeepsNames(l) /\ dir'[Run(l)].process = e.process
    BY <1>0, <1>8, <2>1, DirectoryStays DEF HelperReady, Passes, host
  <2> QED BY <2>1, <2>2, <2>3, <2>4 DEF Passing
<1>9. CASE Validated(l)
  <2>1. /\ At(l, "validating") /\ Becomes(l, "package") /\ beating' = beating \cup {l}
        /\ UNCHANGED <<scripts, definition, run, helper, relay, unlisted>> /\ Records(l, "prepare_bundle", "running")
    BY <1>9 DEF Validated, Passes, core, host
  <2>2. Passage("validating", "package") /\ "validating" \in Stages /\ "package" \in Stages /\ "package" \in Reporting
    BY DEF Passage, Stages, Outcomes, Packaging, Reporting
  <2>3. Notes(l)
    BY <2>1 DEF Notes, Phases, Statuses
  <2>4. KeepsNames(l) /\ dir'[Run(l)].process = e.process
    BY <1>0, <1>9, <2>1, DirectoryStays DEF Validated, Passes, host
  <2> QED BY <2>1, <2>2, <2>3, <2>4 DEF Passing
<1>10. CASE ReadPackage(l)
  <2>1. /\ At(l, "package") /\ Becomes(l, "workflow") /\ beating' = beating
        /\ UNCHANGED <<scripts, definition, run, helper, relay, unlisted>> /\ log' = log
    BY <1>10 DEF ReadPackage, Passes, core, host
  <2>2. Passage("package", "workflow") /\ "package" \in Stages /\ "workflow" \in Stages
    BY DEF Passage, Stages, Outcomes, Packaging
  <2>3. Notes(l)
    BY <2>1 DEF Notes
  <2>4. KeepsNames(l) /\ dir'[Run(l)].process = e.process
    BY <1>0, <1>10, <2>1, DirectoryStays DEF ReadPackage, Passes, host
  <2> QED BY <2>1, <2>2, <2>3, <2>4 DEF Passing
<1>11. CASE ResolveWorkflow(l)
  <2>1. /\ At(l, "workflow") /\ Becomes(l, "placement") /\ beating' = beating \ {l}
        /\ UNCHANGED <<scripts, definition, run, helper, relay, unlisted>> /\ log' = log
    BY <1>11 DEF ResolveWorkflow, Passes, core, host
  <2>2. Passage("workflow", "placement") /\ "workflow" \in Stages /\ "placement" \in Stages
    BY DEF Passage, Stages, Outcomes, Packaging
  <2>3. Notes(l)
    BY <2>1 DEF Notes
  <2>4. KeepsNames(l) /\ dir'[Run(l)].process = e.process
    BY <1>0, <1>11, <2>1, DirectoryStays DEF ResolveWorkflow, Passes, host
  <2> QED BY <2>1, <2>2, <2>3, <2>4 DEF Passing
<1>12. CASE PlaceWorkflow(l)
  <2>1. /\ At(l, "placement") /\ Becomes(l, "environments") /\ beating' = beating \cup {l}
        /\ UNCHANGED <<scripts, definition, run, helper, relay, unlisted>> /\ log' = log
    BY <1>12 DEF PlaceWorkflow, Passes, core, host
  <2>2. Passage("placement", "environments") /\ "placement" \in Stages /\ "environments" \in Stages /\ "environments" \in Reporting
    BY DEF Passage, Stages, Outcomes, Packaging, Reporting
  <2>3. Notes(l)
    BY <2>1 DEF Notes
  <2>4. KeepsNames(l) /\ dir'[Run(l)].process = e.process
    BY <1>0, <1>12, <2>1, DirectoryStays DEF PlaceWorkflow, Passes, host
  <2> QED BY <2>1, <2>2, <2>3, <2>4 DEF Passing
<1>13. CASE PrepareEnvironments(l)
  <2>1. /\ At(l, "environments") /\ Becomes(l, "payloads") /\ beating' = beating
        /\ UNCHANGED <<scripts, definition, run, helper, relay, unlisted>> /\ log' = log
    BY <1>13 DEF PrepareEnvironments, Passes, core, host
  <2>2. Passage("environments", "payloads") /\ "environments" \in Stages /\ "payloads" \in Stages
    BY DEF Passage, Stages, Outcomes, Packaging
  <2>3. Notes(l)
    BY <2>1 DEF Notes
  <2>4. KeepsNames(l) /\ dir'[Run(l)].process = e.process
    BY <1>0, <1>13, <2>1, DirectoryStays DEF PrepareEnvironments, Passes, host
  <2> QED BY <2>1, <2>2, <2>3, <2>4 DEF Passing
<1>14. CASE Packaged(l)
  <2>1. /\ At(l, "payloads") /\ Becomes(l, "submitting") /\ beating' = beating
        /\ UNCHANGED <<scripts, definition, run, helper, relay, unlisted>> /\ Records(l, "submit", "running")
    BY <1>14 DEF Packaged, Passes, core, host
  <2>2. Passage("payloads", "submitting") /\ "payloads" \in Stages /\ "submitting" \in Stages
    BY DEF Passage, Stages, Outcomes, Packaging
  <2>3. Notes(l)
    BY <2>1 DEF Notes, Phases, Statuses
  <2>4. KeepsNames(l) /\ dir'[Run(l)].process = e.process
    BY <1>0, <1>14, <2>1, DirectoryStays DEF Packaged, Passes, host
  <2> QED BY <2>1, <2>2, <2>3, <2>4 DEF Passing
<1>15. CASE MapRun(l)
  <2>1. /\ At(l, "mapping") /\ Becomes(l, "relaying") /\ beating' = beating
        /\ UNCHANGED <<scripts, definition, run, helper, relay, unlisted>> /\ log' = log
    BY <1>15 DEF MapRun, Passes, core, host
  <2>2. Passage("mapping", "relaying") /\ "mapping" \in Stages /\ "relaying" \in Stages
    BY DEF Passage, Stages, Outcomes, Packaging
  <2>3. Notes(l)
    BY <2>1 DEF Notes
  <2>4. KeepsNames(l) /\ dir'[Run(l)].process = e.process
    <3>t. PICK f : f = Touched(e)
      OBVIOUS
    <3>n. PICK n : n = launch[l].job
      OBVIOUS
    <3>g. PICK g : g = [f EXCEPT !.job = n]
      OBVIOUS
    <3>1. f \in Directory /\ f.process = e.process /\ f.relay = e.relay /\ f.job = e.job
      BY <1>0, <3>t, TouchedFacts
    <3>2. n \in Jobs
      BY <3>n, LaunchFacts DEF LaunchState
    <3>3. g \in Directory /\ g.process = e.process /\ g.relay = e.relay /\ g.job = n
      BY <3>g, <3>1, <3>2 DEF Directory
    <3>4. dir' = [dir EXCEPT ![Run(l)] = g]
      BY <1>15, <3>t, <3>n, <3>g DEF MapRun
    <3>5. relay' \in [Launches -> ProcessStates] /\ g.relay \in {dir[Run(l)].relay, l} /\ g.job \in {dir[Run(l)].job, launch[l].job}
      BY <1>0, <2>1, <3>n, <3>3
    <3>6. KeepsNames(l) /\ dir'[Run(l)] = g
      BY <3>3, <3>4, <3>5, DirectoryChanges
    <3> QED BY <3>3, <3>6
  <2> QED BY <2>1, <2>2, <2>3, <2>4 DEF Passing
<1> QED BY <1>1, <1>2, <1>3, <1>4, <1>5, <1>6, <1>7, <1>8, <1>9, <1>10, <1>11, <1>12, <1>13, <1>14, <1>15

LEMMA PassingStepsHold ==
  ASSUME StagesHold, NEW l \in Launches, Passing(l)
  PROVE  StagesHold' /\ \E r : Replaced(l, r)
BY PassingHolds DEF Passing

\* How a launch ends: with a report, unless it was refused or an exception left the handler, and
\* with its helper stopped, unless it never had one, nothing names it or Core may run its
\* definition.
EndingWith(l, outcome, cause) ==
  /\ Ends(l, outcome, cause)
  /\ outcome = "answered" => At(l, "relaying")
  /\ outcome = "failed" => \/ cause \in Unstopped \/ launch[l].committed \/ launch[l].reply = "uncertain"
                           \/ launch[l].pc \in BeforeHelper
                           \/ launch[l].pc \in WithHelper /\ helper' = Stopped(helper, dir[Run(l)].process)
                           \/ helper' = Stopped(Stopped(helper, l), dir[Run(l)].process)
  /\ IF outcome = "refused" \/ cause = "raised" THEN Notes(l)
     ELSE Records(l, "launch", IF outcome = "answered" THEN "completed" ELSE "failed")

Ending(l) ==
  /\ KeepsNames(l) /\ dir'[Run(l)].process \in {dir[Run(l)].process, NoLaunch}
  /\ launch[l].pc \notin Outcomes \cup {"idle"}
  /\ UNCHANGED scripts /\ (UNCHANGED <<definition, run, unlisted>> \/ (At(l, "starting") /\ Starts(l)))
  /\ helper' \in {helper, Stopped(helper, dir[Run(l)].process), Stopped(Stopped(helper, l), dir[Run(l)].process)}
  /\ helper' = helper \/ ~MayRun(l)
  /\ beating' \subseteq beating /\ l \notin beating'
  /\ \E outcome \in {"answered", "refused", "failed"}, cause \in Causes : EndingWith(l, outcome, cause)

LEMMA BeforeTheReply ==
  ASSUME StagesHold, NEW l \in Launches, launch[l].pc \in BeforeReply
  PROVE  ~MayRun(l)
BY LaunchFacts DEF StageHolds, MayRun

LEMMA CleanupStays ==
  ASSUME DirectoriesHold, StagesHold, NEW l \in Launches, CleanupRun(Run(l))
  PROVE  KeepsNames(l) /\ dir'[Run(l)].process = dir[Run(l)].process /\ helper' = Stopped(helper, dir[Run(l)].process)
<1>1. relay' \in [Launches -> ProcessStates]
  BY OwnDirectory, StoppedFacts DEF CleanupRun
<1>2. UNCHANGED dir /\ helper' = Stopped(helper, dir[Run(l)].process)
  BY DEF CleanupRun
<1> QED BY <1>1, <1>2, DirectoryStays

\* The endings.
LEMMA EndingSteps ==
  ASSUME StagesHold, DirectoriesHold, NEW l \in Launches,
         \/ Refuse(l) \/ HardwareMissing(l) \/ ModelsRefused(l) \/ SpawnFails(l) \/ RecordFails(l) \/ HelperFails(l)
         \/ ValidationFails(l) \/ Raises(l) \/ PackagingFails(l)
         \/ NotAccepted(l) \/ StartFails(l) \/ MapFails(l) \/ Answer(l)
  PROVE  Ending(l)
<1> PICK e : e = dir[Run(l)]
  OBVIOUS
<1>0. Run(l) \in Runs /\ e \in Directory /\ relay \in [Launches -> ProcessStates]
  BY OwnDirectory
<1>s. launch[l] \in LaunchState /\ StageHolds(launch[l], run[l], helper[l], l \in beating)
  BY LaunchFacts
<1>r. l \in beating => launch[l].pc \in Reporting
  BY Reporters
<1>1. CASE Refuse(l)
  <2>1. launch[l].pc = "accepted" /\ Ends(l, "refused", "inputs") /\ UNCHANGED scripts /\ beating' = beating
    BY <1>1 DEF Refuse, At
  <2>2. Notes(l)
    BY <1>1 DEF Refuse, Notes, Phases, Statuses
  <2>3. UNCHANGED <<definition, run, unlisted>>
    BY <1>1 DEF Refuse, core
  <2>4. KeepsNames(l) /\ dir'[Run(l)].process = dir[Run(l)].process
    BY <1>0, <1>1, DirectoryStays DEF Refuse, host
  <2>5. helper' = helper
    BY <1>1 DEF Refuse, host
  <2>6. launch[l].pc \notin Outcomes \cup {"idle"} /\ l \notin beating'
    BY <2>1, <1>r DEF Outcomes, Packaging, Reporting
  <2>7. "refused" \in {"answered", "refused", "failed"} /\ "inputs" \in Causes
    BY DEF Causes
  <2>8. EndingWith(l, "refused", "inputs")
    BY <2>1, <2>2, <2>5 DEF EndingWith, At
  <2> QED BY <2>1, <2>3, <2>4, <2>5, <2>6, <2>7, <2>8 DEF Ending
<1>2. CASE HardwareMissing(l)
  <2>1. launch[l].pc = "requirements" /\ Ends(l, "failed", "preflight") /\ UNCHANGED scripts /\ beating' = beating
    BY <1>2 DEF HardwareMissing, At, Unprepared
  <2>2. Records(l, "launch", "failed")
    BY <1>2 DEF HardwareMissing, Unprepared
  <2>3. UNCHANGED <<definition, run, unlisted>>
    BY <1>2 DEF HardwareMissing, core, Unprepared
  <2>4. KeepsNames(l) /\ dir'[Run(l)].process = dir[Run(l)].process
    BY <1>0, <1>2, DirectoryStays DEF HardwareMissing, host, Unprepared
  <2>5. helper' = helper /\ launch[l].pc \in BeforeHelper
    BY <1>2, <2>1 DEF HardwareMissing, host, BeforeHelper, Unprepared
  <2>6. launch[l].pc \notin Outcomes \cup {"idle"} /\ l \notin beating'
    BY <2>1, <1>r DEF Outcomes, Packaging, Reporting
  <2>7. "failed" \in {"answered", "refused", "failed"} /\ "preflight" \in Causes
    BY DEF Causes
  <2>8. EndingWith(l, "failed", "preflight")
    BY <2>1, <2>2, <2>5 DEF EndingWith, At
  <2> QED BY <2>1, <2>3, <2>4, <2>5, <2>6, <2>7, <2>8 DEF Ending
<1>3. CASE ModelsRefused(l)
  <2>1. launch[l].pc = "models" /\ Ends(l, "failed", "preflight") /\ UNCHANGED scripts /\ beating' = beating
    BY <1>3 DEF ModelsRefused, At, Unprepared
  <2>2. Records(l, "launch", "failed")
    BY <1>3 DEF ModelsRefused, Unprepared
  <2>3. UNCHANGED <<definition, run, unlisted>>
    BY <1>3 DEF ModelsRefused, core, Unprepared
  <2>4. KeepsNames(l) /\ dir'[Run(l)].process = dir[Run(l)].process
    BY <1>0, <1>3, DirectoryStays DEF ModelsRefused, host, Unprepared
  <2>5. helper' = helper /\ launch[l].pc \in BeforeHelper
    BY <1>3, <2>1 DEF ModelsRefused, host, BeforeHelper, Unprepared
  <2>6. launch[l].pc \notin Outcomes \cup {"idle"} /\ l \notin beating'
    BY <2>1, <1>r DEF Outcomes, Packaging, Reporting
  <2>7. "failed" \in {"answered", "refused", "failed"} /\ "preflight" \in Causes
    BY DEF Causes
  <2>8. EndingWith(l, "failed", "preflight")
    BY <2>1, <2>2, <2>5 DEF EndingWith, At
  <2> QED BY <2>1, <2>3, <2>4, <2>5, <2>6, <2>7, <2>8 DEF Ending
<1>4. CASE SpawnFails(l)
  <2>1. launch[l].pc = "pre_launch" /\ Ends(l, "failed", "pre_launch") /\ UNCHANGED scripts /\ beating' = beating
    BY <1>4 DEF SpawnFails, At
  <2>2. Records(l, "launch", "failed")
    BY <1>4 DEF SpawnFails
  <2>3. UNCHANGED <<definition, run, unlisted>>
    BY <1>4 DEF SpawnFails, core
  <2>a. dir' = [dir EXCEPT ![Run(l)] = Prepared(Run(l))] /\ relay' = Stopped(relay, dir[Run(l)].relay)
    BY <1>4 DEF SpawnFails
  <2>b. relay' \in [Launches -> ProcessStates]
    BY <1>0, <2>a, StoppedFacts
  <2>4. KeepsNames(l) /\ dir'[Run(l)].process = dir[Run(l)].process
    BY <1>0, <2>a, <2>b, HookedFacts, DirectoryChanges
  <2>p. launch[l].pc \in BeforeReply
    BY <2>1 DEF BeforeReply, BeforeHelper
  <2>m. ~MayRun(l)
    BY <2>p, BeforeTheReply
  <2>5. helper' = Stopped(helper, dir[Run(l)].process) /\ launch[l].pc \in BeforeHelper /\ ~MayRun(l)
    BY <1>4, <2>1, <2>m DEF SpawnFails, BeforeHelper
  <2>6. launch[l].pc \notin Outcomes \cup {"idle"} /\ l \notin beating'
    BY <2>1, <1>r DEF Outcomes, Packaging, Reporting
  <2>7. "failed" \in {"answered", "refused", "failed"} /\ "pre_launch" \in Causes
    BY DEF Causes
  <2>8. EndingWith(l, "failed", "pre_launch")
    BY <2>1, <2>2, <2>5 DEF EndingWith, At
  <2> QED BY <2>1, <2>3, <2>4, <2>5, <2>6, <2>7, <2>8 DEF Ending
<1>5. CASE HelperFails(l)
  <2>1. launch[l].pc = "waiting" /\ Ends(l, "failed", "pre_launch") /\ UNCHANGED scripts /\ beating' = beating
    BY <1>5 DEF HelperFails, At
  <2>2. Records(l, "launch", "failed")
    BY <1>5 DEF HelperFails
  <2>3. UNCHANGED <<definition, run, unlisted>>
    BY <1>5 DEF HelperFails, core
  <2>b. relay' \in [Launches -> ProcessStates]
    BY <1>0, <1>5, StoppedFacts DEF HelperFails
  <2>4. KeepsNames(l) /\ dir'[Run(l)].process = dir[Run(l)].process
    BY <1>5, <2>b, DirectoryStays DEF HelperFails
  <2>p. launch[l].pc \in BeforeReply
    BY <2>1 DEF BeforeReply
  <2>m. ~MayRun(l)
    BY <2>p, BeforeTheReply
  <2>5. helper' = Stopped(Stopped(helper, l), dir[Run(l)].process) /\ ~MayRun(l)
    BY <1>5, <2>m DEF HelperFails
  <2>6. launch[l].pc \notin Outcomes \cup {"idle"} /\ l \notin beating'
    BY <2>1, <1>r DEF Outcomes, Packaging, Reporting
  <2>7. "failed" \in {"answered", "refused", "failed"} /\ "pre_launch" \in Causes
    BY DEF Causes
  <2>8. EndingWith(l, "failed", "pre_launch")
    BY <2>1, <2>2, <2>5 DEF EndingWith, At
  <2> QED BY <2>1, <2>3, <2>4, <2>5, <2>6, <2>7, <2>8 DEF Ending
<1>6. CASE ValidationFails(l)
  <2>1. launch[l].pc = "validating" /\ Ends(l, "failed", "validation") /\ UNCHANGED scripts /\ beating' = beating
    BY <1>6 DEF ValidationFails, At, CleanedUp
  <2>2. Records(l, "launch", "failed")
    BY <1>6 DEF ValidationFails, CleanedUp
  <2>3. UNCHANGED <<definition, run, unlisted>>
    BY <1>6 DEF ValidationFails, core, CleanedUp
  <2>c. CleanupRun(Run(l))
    BY <1>6 DEF ValidationFails, CleanedUp
  <2>4. KeepsNames(l) /\ dir'[Run(l)].process = dir[Run(l)].process
    BY <2>c, CleanupStays
  <2>p. launch[l].pc \in BeforeReply
    BY <2>1 DEF BeforeReply, Packaging
  <2>m. ~MayRun(l)
    BY <2>p, BeforeTheReply
  <2>5. helper' = Stopped(helper, dir[Run(l)].process) /\ launch[l].pc \in WithHelper /\ ~MayRun(l)
    BY <2>1, <2>c, <2>m, CleanupStays DEF WithHelper, Packaging
  <2>6. launch[l].pc \notin Outcomes \cup {"idle"} /\ l \notin beating'
    BY <2>1, <1>r DEF Outcomes, Packaging, Reporting
  <2>7. "failed" \in {"answered", "refused", "failed"} /\ "validation" \in Causes
    BY DEF Causes
  <2>8. EndingWith(l, "failed", "validation")
    BY <2>1, <2>2, <2>5 DEF EndingWith, At
  <2> QED BY <2>1, <2>3, <2>4, <2>5, <2>6, <2>7, <2>8 DEF Ending
<1>7. CASE Raises(l)
  <2>1. /\ launch[l].pc \in {"requirements", "listing", "listed", "sweeping", "validating"}
        /\ Ends(l, "failed", "raised") /\ UNCHANGED scripts /\ beating' = beating
    BY <1>7 DEF Raises
  <2>2. Notes(l)
    <3>1. log' = log \/ Records(l, "validation", "running")
      BY <1>7 DEF Raises
    <3> QED BY <3>1 DEF Notes, Phases, Statuses
  <2>3. UNCHANGED <<definition, run, unlisted>>
    BY <1>7 DEF Raises, core
  <2>4. KeepsNames(l) /\ dir'[Run(l)].process = dir[Run(l)].process
    BY <1>0, <1>7, DirectoryStays DEF Raises, host
  <2>5. helper' = helper
    BY <1>7 DEF Raises, host
  <2>6. launch[l].pc \notin Outcomes \cup {"idle"} /\ l \notin beating'
    BY <2>1, <1>r DEF Outcomes, Packaging, Reporting
  <2>7. "failed" \in {"answered", "refused", "failed"} /\ "raised" \in Causes /\ "raised" \in Unstopped
    BY DEF Causes, Unstopped
  <2>8. EndingWith(l, "failed", "raised")
    BY <2>1, <2>2, <2>5, <2>7 DEF EndingWith, At
  <2> QED BY <2>1, <2>3, <2>4, <2>5, <2>6, <2>7, <2>8 DEF Ending
<1>8. CASE PackagingFails(l)
  <2>1. launch[l].pc \in Packaging /\ Ends(l, "failed", "bundle") /\ UNCHANGED scripts /\ beating' = beating \ {l}
    BY <1>8 DEF PackagingFails, At, CleanedUp
  <2>2. Records(l, "launch", "failed")
    BY <1>8 DEF PackagingFails, CleanedUp
  <2>3. UNCHANGED <<definition, run, unlisted>>
    BY <1>8 DEF PackagingFails, core, CleanedUp
  <2>c. CleanupRun(Run(l))
    BY <1>8 DEF PackagingFails, CleanedUp
  <2>4. KeepsNames(l) /\ dir'[Run(l)].process = dir[Run(l)].process
    BY <2>c, CleanupStays
  <2>p. launch[l].pc \in BeforeReply
    BY <2>1 DEF BeforeReply, Packaging
  <2>m. ~MayRun(l)
    BY <2>p, BeforeTheReply
  <2>5. helper' = Stopped(helper, dir[Run(l)].process) /\ launch[l].pc \in WithHelper /\ ~MayRun(l)
    BY <2>1, <2>c, <2>m, CleanupStays DEF WithHelper, Packaging
  <2>6. launch[l].pc \notin Outcomes \cup {"idle"} /\ l \notin beating'
    BY <2>1, <1>r DEF Outcomes, Packaging, Reporting
  <2>7. "failed" \in {"answered", "refused", "failed"} /\ "bundle" \in Causes
    BY DEF Causes
  <2>8. EndingWith(l, "failed", "bundle")
    BY <2>1, <2>2, <2>5 DEF EndingWith, At
  <2> QED BY <2>1, <2>3, <2>4, <2>5, <2>6, <2>7, <2>8 DEF Ending
<1>9. CASE NotAccepted(l)
  <2>1. /\ launch[l].pc = "joining" /\ launch[l].reply # "accepted" /\ Ends(l, "failed", "submit") /\ UNCHANGED scripts
        /\ beating' = beating \ {l} /\ Records(l, "launch", "failed") /\ UNCHANGED <<definition, run, unlisted>>
    BY <1>9 DEF NotAccepted, SubmitFails, At, core
  <2>2. launch[l].reply \in {"none", "refused", "uncertain"} /\ ~launch[l].committed /\ run[l] = "none"
    BY <1>s, <2>1 DEF StageHolds, LaunchState
  <2>3. launch[l].pc \notin Outcomes \cup {"idle"} /\ l \notin beating'
    BY <2>1 DEF Outcomes
  <2>4. "failed" \in {"answered", "refused", "failed"} /\ "submit" \in Causes
    BY DEF Causes
  <2>5. CASE launch[l].reply = "uncertain"
    <3>1. UNCHANGED <<dir, helper, relay>>
      BY <1>9, <2>5 DEF NotAccepted, SubmitFails, host
    <3>2. KeepsNames(l) /\ dir'[Run(l)].process = dir[Run(l)].process
      BY <1>0, <3>1, DirectoryStays
    <3>3. EndingWith(l, "failed", "submit")
      BY <2>1, <2>5 DEF EndingWith
    <3> QED BY <2>1, <2>3, <2>4, <3>1, <3>2, <3>3 DEF Ending
  <2>6. CASE launch[l].reply # "uncertain"
    <3>1. CleanupRun(Run(l))
      BY <1>9, <2>2, <2>6 DEF NotAccepted, SubmitFails
    <3>2. KeepsNames(l) /\ dir'[Run(l)].process = dir[Run(l)].process /\ helper' = Stopped(helper, dir[Run(l)].process)
      BY <3>1, CleanupStays
    <3>3. ~MayRun(l)
      BY <2>2, <2>6 DEF MayRun
    <3>4. launch[l].pc \in WithHelper
      BY <2>1 DEF WithHelper
    <3>5. EndingWith(l, "failed", "submit")
      BY <2>1, <3>2, <3>4 DEF EndingWith
    <3> QED BY <2>1, <2>3, <2>4, <3>2, <3>3, <3>5 DEF Ending
  <2> QED BY <2>5, <2>6
<1>10. CASE StartFails(l)
  <2>1. launch[l].pc = "starting" /\ Ends(l, "failed", "submit") /\ UNCHANGED scripts /\ beating' = beating
    BY <1>10 DEF StartFails, At, SubmitFails
  <2>2. Records(l, "launch", "failed")
    BY <1>10 DEF StartFails, SubmitFails
  <2>3. UNCHANGED <<definition, run, unlisted>> \/ (At(l, "starting") /\ Starts(l))
    BY <1>10 DEF StartFails, core, SubmitFails
  <2>k. launch[l].committed
    BY <1>s, <2>1 DEF StageHolds
  <2>4. KeepsNames(l) /\ dir'[Run(l)].process = dir[Run(l)].process
    BY <1>0, <1>10, <2>k, DirectoryStays DEF StartFails, SubmitFails, host
  <2>5. helper' = helper /\ launch[l].committed
    BY <1>10, <2>k DEF StartFails, SubmitFails, host
  <2>6. launch[l].pc \notin Outcomes \cup {"idle"} /\ l \notin beating'
    BY <2>1, <1>r DEF Outcomes, Packaging, Reporting
  <2>7. "failed" \in {"answered", "refused", "failed"} /\ "submit" \in Causes
    BY DEF Causes
  <2>8. EndingWith(l, "failed", "submit")
    BY <2>1, <2>2, <2>5 DEF EndingWith, At
  <2> QED BY <2>1, <2>3, <2>4, <2>5, <2>6, <2>7, <2>8 DEF Ending
<1>11. CASE MapFails(l)
  <2>1. launch[l].pc \in {"mapping", "relaying"} /\ Ends(l, "failed", "submit") /\ UNCHANGED scripts /\ beating' = beating
    BY <1>11 DEF MapFails, At, SubmitFails
  <2>2. Records(l, "launch", "failed")
    BY <1>11 DEF MapFails, SubmitFails
  <2>3. UNCHANGED <<definition, run, unlisted>>
    BY <1>11 DEF MapFails, core, SubmitFails
  <2>k. launch[l].committed
    BY <1>s, <2>1 DEF StageHolds
  <2>4. KeepsNames(l) /\ dir'[Run(l)].process = dir[Run(l)].process
    BY <1>0, <1>11, <2>k, DirectoryStays DEF MapFails, SubmitFails, host
  <2>5. helper' = helper /\ launch[l].committed
    BY <1>11, <2>k DEF MapFails, SubmitFails, host
  <2>6. launch[l].pc \notin Outcomes \cup {"idle"} /\ l \notin beating'
    BY <2>1, <1>r DEF Outcomes, Packaging, Reporting
  <2>7. "failed" \in {"answered", "refused", "failed"} /\ "submit" \in Causes
    BY DEF Causes
  <2>8. EndingWith(l, "failed", "submit")
    BY <2>1, <2>2, <2>5 DEF EndingWith, At
  <2> QED BY <2>1, <2>3, <2>4, <2>5, <2>6, <2>7, <2>8 DEF Ending
<1>12. CASE Answer(l)
  <2>1. launch[l].pc = "relaying" /\ Ends(l, "answered", "none") /\ UNCHANGED scripts /\ beating' = beating
    BY <1>12 DEF Answer, At
  <2>2. Records(l, "launch", "completed")
    BY <1>12 DEF Answer
  <2>3. UNCHANGED <<definition, run, unlisted>>
    BY <1>12 DEF Answer, core
  <2>4. KeepsNames(l) /\ dir'[Run(l)].process = dir[Run(l)].process
    <3>1. CASE UNCHANGED <<relay, dir>>
      BY <1>0, <3>1, DirectoryStays
    <3>2. CASE /\ relay' = [relay EXCEPT ![l] = "running"]
               /\ dir' = [dir EXCEPT ![Run(l)] = [Touched(dir[Run(l)]) EXCEPT !.relay = l]]
      <4>t. PICK f : f = Touched(e)
        OBVIOUS
      <4>g. PICK g : g = [f EXCEPT !.relay = l]
        OBVIOUS
      <4>1. f \in Directory /\ f.process = e.process /\ f.relay = e.relay /\ f.job = e.job
        BY <1>0, <4>t, TouchedFacts
      <4>2. g \in Directory /\ g.process = e.process /\ g.relay = l /\ g.job = e.job
        BY <4>g, <4>1 DEF Directory
      <4>3. dir' = [dir EXCEPT ![Run(l)] = g]
        BY <3>2, <4>t, <4>g
      <4>4. relay' \in [Launches -> ProcessStates]
        BY <1>0, <3>2 DEF ProcessStates
      <4> QED BY <4>2, <4>3, <4>4, DirectoryChanges
    <3> QED BY <1>12, <3>1, <3>2 DEF Answer
  <2>5. helper' = helper
    BY <1>12 DEF Answer
  <2>6. launch[l].pc \notin Outcomes \cup {"idle"} /\ l \notin beating'
    BY <2>1, <1>r DEF Outcomes, Packaging, Reporting
  <2>7. "answered" \in {"answered", "refused", "failed"} /\ "none" \in Causes
    BY DEF Causes
  <2>8. EndingWith(l, "answered", "none")
    BY <2>1, <2>2, <2>5 DEF EndingWith, At
  <2> QED BY <2>1, <2>3, <2>4, <2>5, <2>6, <2>7, <2>8 DEF Ending
<1>13. CASE RecordFails(l)
  <2>1. launch[l].pc = "spawned" /\ Ends(l, "failed", "unrecorded") /\ UNCHANGED scripts /\ beating' = beating
    BY <1>13 DEF RecordFails, At
  <2>2. Records(l, "launch", "failed")
    BY <1>13 DEF RecordFails
  <2>3. UNCHANGED <<definition, run, unlisted>>
    BY <1>13 DEF RecordFails, core
  <2>n. PICK named \in {e.process, NoLaunch} :
          dir' = [dir EXCEPT ![Run(l)].process = named] /\ helper' = Stopped(helper, named)
    BY <1>13 DEF RecordFails
  <2>g. PICK g : g = [e EXCEPT !.process = named]
    OBVIOUS
  <2>a. g \in Directory /\ g.process = named /\ g.relay = e.relay /\ g.job = e.job
    BY <1>0, <2>g DEF Directory
  <2>b. dir' = [dir EXCEPT ![Run(l)] = g]
    BY <2>n, <2>g
  <2>c. relay' \in [Launches -> ProcessStates]
    BY <1>0, <1>13, StoppedFacts DEF RecordFails
  <2>4. KeepsNames(l) /\ dir'[Run(l)].process \in {dir[Run(l)].process, NoLaunch}
    <3>1. KeepsNames(l) /\ dir'[Run(l)] = g
      BY <2>a, <2>b, <2>c, DirectoryChanges
    <3> QED BY <2>a, <3>1
  <2>p. launch[l].pc \in BeforeReply
    BY <2>1 DEF BeforeReply
  <2>m. ~MayRun(l)
    BY <2>p, BeforeTheReply
  <2>5. helper' \in {helper, Stopped(helper, dir[Run(l)].process)}
    <3>1. CASE named = e.process
      BY <2>n, <3>1
    <3>2. CASE named = NoLaunch
      <4>1. helper \in [Launches -> ProcessStates] /\ NoLaunch \notin Launches
        BY LaunchAssumption DEF StagesHold
      <4>2. Stopped(helper, NoLaunch) = helper
        BY <4>1 DEF Stopped
      <4> QED BY <2>n, <3>2, <4>2
    <3> QED BY <2>n, <3>1, <3>2
  <2>6. launch[l].pc \notin Outcomes \cup {"idle"} /\ l \notin beating'
    BY <2>1, <1>r DEF Outcomes, Packaging, Reporting
  <2>7. "failed" \in {"answered", "refused", "failed"} /\ "unrecorded" \in Causes /\ "unrecorded" \in Unstopped
    BY DEF Causes, Unstopped
  <2>8. EndingWith(l, "failed", "unrecorded")
    BY <2>1, <2>2, <2>7 DEF EndingWith, At
  <2> QED BY <2>1, <2>3, <2>4, <2>5, <2>6, <2>7, <2>8, <2>m DEF Ending
<1> QED BY <1>1, <1>2, <1>3, <1>4, <1>5, <1>6, <1>7, <1>8, <1>9, <1>10, <1>11, <1>12, <1>13

LEMMA EndingStepsHold ==
  ASSUME StagesHold, NEW l \in Launches, Ending(l)
  PROVE  StagesHold' /\ \E r : Replaced(l, r)
<1>1. PICK outcome \in {"answered", "refused", "failed"}, cause \in Causes : EndingWith(l, outcome, cause)
  BY DEF Ending
<1>2. Ends(l, outcome, cause) /\ outcome \in Outcomes
  BY <1>1 DEF EndingWith, Outcomes
<1>3. helper' \in [Launches -> ProcessStates] /\ \A k \in Launches : helper[k] = "none" => helper'[k] = "none"
  <2>1. helper \in [Launches -> ProcessStates]
    BY DEF StagesHold
  <2> PICK p : p = Stopped(helper, l)
    OBVIOUS
  <2>2. p \in [Launches -> ProcessStates] /\ \A k \in Launches : helper[k] = "none" => p[k] = "none"
    BY <2>1, StoppedFacts
  <2>3. /\ Stopped(p, dir[Run(l)].process) \in [Launches -> ProcessStates]
        /\ \A k \in Launches : p[k] = "none" => Stopped(p, dir[Run(l)].process)[k] = "none"
    BY <2>2, StoppedFacts
  <2>4. /\ Stopped(helper, dir[Run(l)].process) \in [Launches -> ProcessStates]
        /\ \A k \in Launches : helper[k] = "none" => Stopped(helper, dir[Run(l)].process)[k] = "none"
    BY <2>1, StoppedFacts
  <2>5. helper' = helper \/ helper' = Stopped(helper, dir[Run(l)].process) \/ helper' = Stopped(p, dir[Run(l)].process)
    BY DEF Ending
  <2> QED BY <2>1, <2>2, <2>3, <2>4, <2>5
<1>4. run' \in [Launches -> {"none", "running", "ended"}] /\ \A k \in Launches \ {l} : run'[k] = "none" <=> run[k] = "none"
  <2>1. run \in [Launches -> {"none", "running", "ended"}]
    BY DEF StagesHold
  <2>2. CASE UNCHANGED <<definition, run, unlisted>>
    BY <2>1, <2>2
  <2>3. CASE Starts(l)
    BY <2>1, <2>3 DEF Starts
  <2> QED BY <2>2, <2>3 DEF Ending
<1>5. beating' \subseteq beating /\ l \notin beating'
  BY DEF Ending
<1>6. StagesHold' /\ Replaced(l, Ended(launch[l], outcome, cause))
  BY <1>2, <1>3, <1>4, <1>5, EndingHolds
<1> QED BY <1>6

\* The other steps of a launch: it lists and sweeps, spawns its helper, submits and starts.
Working(l) ==
  /\ KeepsNames(l) /\ dir'[Run(l)].process = dir[Run(l)].process
  /\ UNCHANGED <<scripts, log>>
  /\ launch[l].pc # "idle"
  /\ \A k \in Launches \ {l} : helper'[k] = "running" => helper[k] = "running"
  /\ \E r :
       /\ Replaced(l, r) /\ r.pc \notin Outcomes
       /\ r.pc \in WithHelper => launch[l].pc \in WithHelper /\ helper' = helper

\* A sweep hears of a page of the active Jobs, or takes every Job for active.
LEMMA JobsAreListed ==
  ASSUME NEW l \in Launches, ListJobs(l)
  PROVE  \E listed \in SUBSET Jobs, missing \in SUBSET Jobs : Listed(l, listed, missing) /\ ActiveJobs \subseteq listed \cup missing
<1>1. CASE ListPage(l)
  <2>1. PICK page \in SUBSET ActiveJobs : Listed(l, page, ActiveJobs \ page)
    BY <1>1 DEF ListPage
  <2>2. page \in SUBSET Jobs /\ ActiveJobs \ page \in SUBSET Jobs
    BY DEF ActiveJobs
  <2> QED BY <2>1, <2>2
<1>2. CASE Listed(l, Jobs, {})
  BY <1>2 DEF ActiveJobs
<1> QED BY <1>1, <1>2 DEF ListJobs

LEMMA ListJobsWorks ==
  ASSUME StagesHold, DirectoriesHold, NEW l \in Launches, ListJobs(l)
  PROVE  StagesHold' /\ Working(l)
<1>s. PICK s : s = launch[l]
  OBVIOUS
<1>1. s \in LaunchState /\ StageHolds(s, run[l], helper[l], l \in beating) /\ s.pc = "listing"
  BY <1>s, LaunchFacts DEF ListJobs, ListPage, Listed, At
<1>x. PICK x \in SUBSET Jobs, missing \in SUBSET Jobs : Listed(l, x, missing)
  BY JobsAreListed
<1>y. launch' = [launch EXCEPT ![l].pc = "listed", ![l].listed = x]
  BY <1>x DEF Listed
<1>r. PICK r : r = [s EXCEPT !.pc = "listed", !.listed = x]
  OBVIOUS
<1>2. x \subseteq Jobs /\ "listed" \in Stages
  BY DEF Stages
<1>3. r \in LaunchState /\ r.pc = "listed" /\ r.run = s.run /\ r.job = s.job /\ r.progress = s.progress /\ r.todo = s.todo
      /\ r.reply = s.reply /\ r.committed = s.committed
  BY <1>1, <1>2, <1>r DEF LaunchState
<1>4. Replaced(l, r)
  BY <1>s, <1>y, <1>r, <1>3 DEF Replaced
<1>5. UNCHANGED <<scripts, core, host, log, beating>>
  BY <1>x DEF Listed
<1>6. StageHolds(r, run'[l], helper'[l], l \in beating')
  BY <1>1, <1>3, <1>5 DEF StageHolds, BeforeHelper, BeforeReply, Reporting, Packaging, core, host
<1>7. /\ run' \in [Launches -> {"none", "running", "ended"}] /\ helper' \in [Launches -> ProcessStates]
      /\ beating' \subseteq Launches /\ OthersKeep(l)
  BY <1>5 DEF StagesHold, OthersKeep, core, host
<1>8. StagesHold'
  BY <1>4, <1>6, <1>7, StageMoves
<1>9. KeepsNames(l) /\ dir'[Run(l)].process = dir[Run(l)].process
  BY <1>5, OwnDirectory, DirectoryStays DEF host
<1>10. r.pc \notin Outcomes /\ r.pc \notin WithHelper
  BY <1>3 DEF Outcomes, WithHelper, Packaging
<1> QED BY <1>1, <1>4, <1>5, <1>8, <1>9, <1>10, <1>s DEF Working, host

LEMMA ListDirectoriesWorks ==
  ASSUME StagesHold, DirectoriesHold, NEW l \in Launches, ListDirectories(l)
  PROVE  StagesHold' /\ Working(l)
<1>s. PICK s : s = launch[l]
  OBVIOUS
<1>1. s \in LaunchState /\ StageHolds(s, run[l], helper[l], l \in beating) /\ s.pc = "listed"
  BY <1>s, LaunchFacts DEF ListDirectories, At
<1>x. PICK x : x = {r \in Runs \ {Run(l)} : dir[r].made}
  OBVIOUS
<1>r. PICK r : r = [s EXCEPT !.pc = "sweeping", !.todo = x]
  OBVIOUS
<1>2. x \subseteq Runs \ {s.run} /\ "sweeping" \in Stages
  BY <1>x, <1>s DEF Stages, Run
<1>3. r \in LaunchState /\ r.pc = "sweeping" /\ r.run = s.run /\ r.job = s.job /\ r.progress = s.progress /\ r.todo = x
      /\ r.reply = s.reply /\ r.committed = s.committed
  BY <1>1, <1>2, <1>r DEF LaunchState
<1>4. Replaced(l, r)
  BY <1>s, <1>x, <1>r, <1>3 DEF Replaced, ListDirectories
<1>5. UNCHANGED <<scripts, core, host, log, beating>>
  BY DEF ListDirectories
<1>6. StageHolds(r, run'[l], helper'[l], l \in beating')
  BY <1>1, <1>2, <1>3, <1>5 DEF StageHolds, BeforeHelper, BeforeReply, Reporting, Packaging, core, host
<1>7. /\ run' \in [Launches -> {"none", "running", "ended"}] /\ helper' \in [Launches -> ProcessStates]
      /\ beating' \subseteq Launches /\ OthersKeep(l)
  BY <1>5 DEF StagesHold, OthersKeep, core, host
<1>8. StagesHold'
  BY <1>4, <1>6, <1>7, StageMoves
<1>9. KeepsNames(l) /\ dir'[Run(l)].process = dir[Run(l)].process
  BY <1>5, OwnDirectory, DirectoryStays DEF host
<1>10. r.pc \notin Outcomes /\ r.pc \notin WithHelper
  BY <1>3 DEF Outcomes, WithHelper, Packaging
<1> QED BY <1>1, <1>4, <1>5, <1>8, <1>9, <1>10, <1>s DEF Working, host

LEMMA SweepWorks ==
  ASSUME StagesHold, DirectoriesHold, NEW l \in Launches, NEW d \in Runs, Sweep(l, d)
  PROVE  StagesHold' /\ Working(l)
<1>s. PICK s : s = launch[l]
  OBVIOUS
<1>1. s \in LaunchState /\ StageHolds(s, run[l], helper[l], l \in beating) /\ s.pc = "sweeping"
  BY <1>s, LaunchFacts DEF Sweep, At
<1>x. PICK x : x = s.todo \ {d}
  OBVIOUS
<1>r. PICK r : r = [s EXCEPT !.todo = x]
  OBVIOUS
<1>2. x \subseteq s.todo /\ s.todo \subseteq Runs
  BY <1>x, <1>1 DEF LaunchState
<1>3. r \in LaunchState /\ r.pc = "sweeping" /\ r.run = s.run /\ r.job = s.job /\ r.progress = s.progress /\ r.todo = x
      /\ r.reply = s.reply /\ r.committed = s.committed
  BY <1>1, <1>2, <1>r DEF LaunchState
<1>4. Replaced(l, r)
  BY <1>s, <1>x, <1>r, <1>3 DEF Replaced, Sweep
<1>5. UNCHANGED <<scripts, core, log, beating, dir>>
  BY DEF Sweep, CleanupRun, host
<1>11. /\ (helper' = helper /\ relay' = relay)
          \/ (helper' = Stopped(helper, dir[d].process) /\ relay' = Stopped(relay, dir[d].relay))
  BY DEF Sweep, CleanupRun, host
<1>12. helper \in [Launches -> ProcessStates] /\ relay \in [Launches -> ProcessStates] /\ helper[l] = "none"
  BY <1>1 DEF StagesHold, DirectoriesHold, StageHolds, BeforeHelper
<1>13. /\ helper' \in [Launches -> ProcessStates] /\ relay' \in [Launches -> ProcessStates]
       /\ \A k \in Launches : helper'[k] \in {helper[k], "stopped"} /\ (helper[k] = "none" => helper'[k] = "none")
  <2>1. /\ Stopped(helper, dir[d].process) \in [Launches -> ProcessStates]
        /\ \A k \in Launches : /\ Stopped(helper, dir[d].process)[k] \in {helper[k], "stopped"}
                               /\ helper[k] = "none" => Stopped(helper, dir[d].process)[k] = "none"
    BY <1>12, StoppedFacts
  <2>2. Stopped(relay, dir[d].relay) \in [Launches -> ProcessStates]
    BY <1>12, StoppedFacts
  <2> QED BY <1>11, <1>12, <2>1, <2>2
<1>6. StageHolds(r, run'[l], helper'[l], l \in beating')
  BY <1>1, <1>2, <1>3, <1>5, <1>12, <1>13 DEF StageHolds, BeforeHelper, BeforeReply, Reporting, Packaging, core
<1>7. /\ run' \in [Launches -> {"none", "running", "ended"}] /\ helper' \in [Launches -> ProcessStates]
      /\ beating' \subseteq Launches /\ OthersKeep(l)
  BY <1>5, <1>13 DEF StagesHold, OthersKeep, core
<1>8. StagesHold'
  BY <1>4, <1>6, <1>7, StageMoves
<1>9. KeepsNames(l) /\ dir'[Run(l)].process = dir[Run(l)].process
  BY <1>5, <1>13, DirectoryStays
<1>10. r.pc \notin Outcomes /\ r.pc \notin WithHelper
  BY <1>3 DEF Outcomes, WithHelper, Packaging
<1>14. \A k \in Launches \ {l} : helper'[k] = "running" => helper[k] = "running"
  BY <1>13
<1> QED BY <1>1, <1>4, <1>5, <1>8, <1>9, <1>10, <1>14, <1>s DEF Working

LEMMA SpawnHelperWorks ==
  ASSUME StagesHold, DirectoriesHold, NEW l \in Launches, SpawnHelper(l)
  PROVE  StagesHold' /\ Working(l)
<1>s. PICK s : s = launch[l]
  OBVIOUS
<1>1. s \in LaunchState /\ StageHolds(s, run[l], helper[l], l \in beating) /\ s.pc = "pre_launch"
  BY <1>s, LaunchFacts DEF SpawnHelper, At
<1>r. PICK r : r = AtStage(s, "spawned")
  OBVIOUS
<1>2. "spawned" \in Stages
  BY DEF Stages
<1>3. r \in LaunchState /\ r.pc = "spawned" /\ r.run = s.run /\ r.job = s.job /\ r.progress = s.progress /\ r.todo = s.todo
      /\ r.reply = s.reply /\ r.committed = s.committed
  BY <1>1, <1>2, <1>r, AtStageFacts
<1>4. Replaced(l, r)
  BY <1>s, <1>r, <1>3 DEF Replaced, SpawnHelper, Becomes, AtStage
<1>5. UNCHANGED <<scripts, core, relay, log, beating>> /\ helper' = [helper EXCEPT ![l] = "running"]
  BY DEF SpawnHelper
<1>6. StageHolds(r, run'[l], helper'[l], l \in beating')
  BY <1>1, <1>3, <1>5 DEF StageHolds, BeforeHelper, BeforeReply, Reporting, Packaging, core
<1>7. /\ run' \in [Launches -> {"none", "running", "ended"}] /\ helper' \in [Launches -> ProcessStates]
      /\ beating' \subseteq Launches /\ OthersKeep(l)
  BY <1>5 DEF StagesHold, OthersKeep, core, ProcessStates
<1>8. StagesHold'
  BY <1>4, <1>6, <1>7, StageMoves
<1>9. KeepsNames(l) /\ dir'[Run(l)].process = dir[Run(l)].process
  <2>1. dir' = [dir EXCEPT ![Run(l)] = Prepared(Run(l))]
    BY DEF SpawnHelper
  <2> QED BY <1>5, <2>1, OwnDirectory, HookedFacts, DirectoryChanges
<1>10. r.pc \notin Outcomes /\ r.pc \notin WithHelper
  BY <1>3 DEF Outcomes, WithHelper, Packaging
<1>11. \A k \in Launches \ {l} : helper'[k] = "running" => helper[k] = "running"
  BY <1>5 DEF StagesHold
<1> QED BY <1>1, <1>4, <1>5, <1>8, <1>9, <1>10, <1>11, <1>s DEF Working

LEMMA SubmitReturnsWorks ==
  ASSUME StagesHold, DirectoriesHold, NEW l \in Launches, SubmitReturns(l)
  PROVE  StagesHold' /\ Working(l)
<1>s. PICK s : s = launch[l]
  OBVIOUS
<1>1. s \in LaunchState /\ StageHolds(s, run[l], helper[l], l \in beating) /\ s.pc = "submitting"
  BY <1>s, LaunchFacts DEF SubmitReturns, At
<1>x. PICK x \in {"accepted", "refused", "uncertain"} : launch' = [launch EXCEPT ![l].pc = "joining", ![l].reply = x]
  BY DEF SubmitReturns
<1>r. PICK r : r = [s EXCEPT !.pc = "joining", !.reply = x]
  OBVIOUS
<1>2. "joining" \in Stages
  BY DEF Stages
<1>3. r \in LaunchState /\ r.pc = "joining" /\ r.run = s.run /\ r.job = s.job /\ r.progress = s.progress /\ r.todo = s.todo
      /\ r.committed = s.committed
  BY <1>1, <1>2, <1>x, <1>r DEF LaunchState
<1>4. Replaced(l, r)
  BY <1>s, <1>x, <1>r, <1>3 DEF Replaced
<1>5. UNCHANGED <<scripts, run, host, log, beating>>
  BY DEF SubmitReturns
<1>6. StageHolds(r, run'[l], helper'[l], l \in beating')
  BY <1>1, <1>3, <1>5 DEF StageHolds, BeforeHelper, BeforeReply, Reporting, Packaging, host
<1>7. /\ run' \in [Launches -> {"none", "running", "ended"}] /\ helper' \in [Launches -> ProcessStates]
      /\ beating' \subseteq Launches /\ OthersKeep(l)
  BY <1>5 DEF StagesHold, OthersKeep, host
<1>8. StagesHold'
  BY <1>4, <1>6, <1>7, StageMoves
<1>9. KeepsNames(l) /\ dir'[Run(l)].process = dir[Run(l)].process
  BY <1>5, OwnDirectory, DirectoryStays DEF host
<1>10. r.pc \notin Outcomes /\ s.pc \in WithHelper
  BY <1>1, <1>3 DEF Outcomes, WithHelper, Packaging
<1> QED BY <1>1, <1>4, <1>5, <1>8, <1>9, <1>10, <1>s DEF Working, host

LEMMA AcceptedWorks ==
  ASSUME StagesHold, DirectoriesHold, NEW l \in Launches, Accepted(l)
  PROVE  StagesHold' /\ Working(l)
<1>s. PICK s : s = launch[l]
  OBVIOUS
<1>1. s \in LaunchState /\ StageHolds(s, run[l], helper[l], l \in beating) /\ s.pc = "joining"
  BY <1>s, LaunchFacts DEF Accepted, At
<1>r. PICK r : r = [s EXCEPT !.pc = "starting", !.committed = TRUE]
  OBVIOUS
<1>2. "starting" \in Stages
  BY DEF Stages
<1>3. r \in LaunchState /\ r.pc = "starting" /\ r.run = s.run /\ r.job = s.job /\ r.progress = s.progress /\ r.todo = s.todo
      /\ r.committed
  BY <1>1, <1>2, <1>r DEF LaunchState
<1>4. Replaced(l, r)
  BY <1>s, <1>r, <1>3 DEF Replaced, Accepted
<1>5. UNCHANGED <<scripts, core, host, log>> /\ beating' = beating \ {l}
  BY DEF Accepted
<1>6. StageHolds(r, run'[l], helper'[l], l \in beating')
  BY <1>1, <1>3, <1>5 DEF StageHolds, BeforeHelper, BeforeReply, Packaging, host, core
<1>7. /\ run' \in [Launches -> {"none", "running", "ended"}] /\ helper' \in [Launches -> ProcessStates]
      /\ beating' \subseteq Launches /\ OthersKeep(l)
  BY <1>5 DEF StagesHold, OthersKeep, host, core
<1>8. StagesHold'
  BY <1>4, <1>6, <1>7, StageMoves
<1>9. KeepsNames(l) /\ dir'[Run(l)].process = dir[Run(l)].process
  BY <1>5, OwnDirectory, DirectoryStays DEF host
<1>10. r.pc \notin Outcomes /\ r.pc \notin WithHelper
  BY <1>3 DEF Outcomes, WithHelper, Packaging
<1> QED BY <1>1, <1>4, <1>5, <1>8, <1>9, <1>10, <1>s DEF Working, host

LEMMA StartRunWorks ==
  ASSUME StagesHold, DirectoriesHold, NEW l \in Launches, StartRun(l)
  PROVE  StagesHold' /\ Working(l)
<1>s. PICK s : s = launch[l]
  OBVIOUS
<1>1. s \in LaunchState /\ StageHolds(s, run[l], helper[l], l \in beating) /\ s.pc = "starting"
  BY <1>s, LaunchFacts DEF StartRun, At
<1>r. PICK r : r = AtStage(s, "mapping")
  OBVIOUS
<1>2. "mapping" \in Stages
  BY DEF Stages
<1>3. r \in LaunchState /\ r.pc = "mapping" /\ r.run = s.run /\ r.job = s.job /\ r.progress = s.progress /\ r.todo = s.todo
      /\ r.committed = s.committed
  BY <1>1, <1>2, <1>r, AtStageFacts
<1>4. Replaced(l, r)
  BY <1>s, <1>r, <1>3 DEF Replaced, StartRun, Becomes, AtStage
<1>5. UNCHANGED <<scripts, host, log, beating>>
  BY DEF StartRun
<1>11. /\ run' \in [Launches -> {"none", "running", "ended"}] /\ run'[l] = "running"
       /\ \A k \in Launches \ {l} : run'[k] = "none" <=> run[k] = "none"
  <2>1. run \in [Launches -> {"none", "running", "ended"}]
    BY DEF StagesHold
  <2> QED BY <2>1 DEF StartRun, Starts
<1>6. StageHolds(r, run'[l], helper'[l], l \in beating')
  BY <1>1, <1>3, <1>5, <1>11 DEF StageHolds, BeforeHelper, BeforeReply, Packaging, Reporting, host
<1>7. /\ helper' \in [Launches -> ProcessStates] /\ beating' \subseteq Launches /\ OthersKeep(l)
  BY <1>5, <1>11 DEF StagesHold, OthersKeep, host
<1>8. StagesHold'
  BY <1>4, <1>6, <1>7, <1>11, StageMoves
<1>9. KeepsNames(l) /\ dir'[Run(l)].process = dir[Run(l)].process
  BY <1>5, OwnDirectory, DirectoryStays DEF host
<1>10. r.pc \notin Outcomes /\ r.pc \notin WithHelper
  BY <1>3 DEF Outcomes, WithHelper, Packaging
<1> QED BY <1>1, <1>4, <1>5, <1>8, <1>9, <1>10, <1>s DEF Working, host

-----------------------------------------------------------------------------
(* Directories and helpers *)

\* No launch changes what it was asked for, nor becomes idle again.
Kept ==
  \A k \in Launches :
    /\ launch'[k].run = launch[k].run /\ launch'[k].job = launch[k].job /\ launch'[k].progress = launch[k].progress
    /\ launch[k].pc # "idle" => launch'[k].pc # "idle"

LEMMA ReplacedKept ==
  ASSUME StagesHold, NEW l \in Launches, NEW r, Replaced(l, r)
  PROVE  /\ Kept /\ launch'[l] = r /\ \A k \in Launches \ {l} : launch'[k] = launch[k]
         /\ launch'[l].pc # "idle"
<1>1. launch'[l] = r /\ \A k \in Launches \ {l} : launch'[k] = launch[k]
  BY DEF Replaced, StagesHold
<1> QED BY <1>1 DEF Replaced, Kept

LEMMA LaunchesStay ==
  ASSUME UNCHANGED launch
  PROVE  Kept
BY DEF Kept

LEMMA NamesStay ==
  ASSUME Kept, NEW r \in Runs, NEW e \in Directory, NEW f \in Directory, NamesHold(r, e, launch),
         f.process = e.process, f.relay = e.relay, f.job = e.job
  PROVE  NamesHold(r, f, launch')
<1>1. f.process # NoLaunch => launch'[f.process].run = r /\ launch'[f.process].pc # "idle"
  BY DEF Kept, NamesHold, Directory
<1>2. f.relay # NoLaunch => launch'[f.relay].run = r /\ launch'[f.relay].pc # "idle"
  BY DEF Kept, NamesHold, Directory
<1>3. f.job # NoJob => \E l \in Launches : launch'[l].run = r /\ launch'[l].pc # "idle" /\ launch'[l].job = f.job
  BY DEF Kept, NamesHold
<1> QED BY <1>1, <1>2, <1>3 DEF NamesHold

\* A launch leaves names in its own directory only.
LEMMA DirectoriesMove ==
  ASSUME StagesHold, DirectoriesHold, NEW l \in Launches, Kept, launch'[l].pc # "idle", KeepsNames(l),
         dir'[Run(l)].process \in {dir[Run(l)].process, l, NoLaunch}
  PROVE  DirectoriesHold'
<1>1. ASSUME NEW r \in Runs PROVE NamesHold(r, dir'[r], launch')
  <2>e. PICK e : e = dir[r]
    OBVIOUS
  <2>f. PICK f : f = dir'[r]
    OBVIOUS
  <2>1. e \in Directory /\ f \in Directory /\ NamesHold(r, e, launch)
    BY <2>e, <2>f DEF DirectoriesHold, KeepsNames
  <2>2. CASE r # Run(l)
    <3>1. f.process = e.process /\ f.relay = e.relay /\ f.job = e.job
      BY <2>2, <2>e, <2>f DEF KeepsNames
    <3> QED BY <2>1, <2>f, <3>1, NamesStay
  <2>3. CASE r = Run(l)
    <3>1. f.process \in {e.process, l, NoLaunch} /\ f.relay \in {e.relay, l} /\ f.job \in {e.job, launch[l].job}
      BY <2>3, <2>e, <2>f DEF KeepsNames
    <3>2. NamesHold(r, e, launch')
      BY <2>1, NamesStay
    <3>3. launch'[l].run = r /\ launch'[l].pc # "idle" /\ launch'[l].job = launch[l].job
      BY <2>3 DEF Kept, Run
    <3>4. f.process # NoLaunch => launch'[f.process].run = r /\ launch'[f.process].pc # "idle"
      BY <3>1, <3>2, <3>3 DEF NamesHold
    <3>5. f.relay # NoLaunch => launch'[f.relay].run = r /\ launch'[f.relay].pc # "idle"
      BY <3>1, <3>2, <3>3 DEF NamesHold
    <3>6. f.job # NoJob => \E k \in Launches : launch'[k].run = r /\ launch'[k].pc # "idle" /\ launch'[k].job = f.job
      BY <3>1, <3>2, <3>3 DEF NamesHold
    <3>7. NamesHold(r, f, launch')
      BY <3>4, <3>5, <3>6 DEF NamesHold
    <3> QED BY <3>7, <2>f
  <2> QED BY <2>2, <2>3
<1> QED BY <1>1 DEF DirectoriesHold, KeepsNames

\* Nothing else leaves names anywhere.
LEMMA DirectoriesRemain ==
  ASSUME DirectoriesHold, Kept, dir' \in [Runs -> Directory], relay' \in [Launches -> ProcessStates],
         \A r \in Runs : dir'[r].process = dir[r].process /\ dir'[r].relay = dir[r].relay /\ dir'[r].job = dir[r].job
  PROVE  DirectoriesHold'
<1>1. ASSUME NEW r \in Runs PROVE NamesHold(r, dir'[r], launch')
  <2>1. dir[r] \in Directory /\ dir'[r] \in Directory /\ NamesHold(r, dir[r], launch)
    BY DEF DirectoriesHold
  <2> QED BY <2>1, NamesStay
<1> QED BY <1>1 DEF DirectoriesHold

\* Who uses a directory alone has always used it alone.
LEMMA AloneBefore ==
  ASSUME Kept, NEW k \in Launches, Alone(k)'
  PROVE  Alone(k)
BY DEF Kept, Alone, Sharing, Run, At

\* A launch that takes a step shares its directory from then on.
LEMMA AloneApart ==
  ASSUME Kept, NEW k \in Launches, NEW l \in Launches \ {k}, launch'[l].pc # "idle", Alone(k)'
  PROVE  Run(k) # Run(l)
BY DEF Kept, Alone, Sharing, Run, At

LEMMA HelpersFacts ==
  ASSUME HelpersHold, NEW l \in Launches, Alone(l), helper[l] = "running"
  PROVE  /\ launch[l].pc \in WithHelper => dir[Run(l)].process = l
         /\ launch[l].pc = "failed" => launch[l].cause \in Unstopped \/ launch[l].committed \/ launch[l].reply = "uncertain"
BY DEF HelpersHold, At

\* A step of one launch concerns the helper of no other that is alone.
LEMMA HelpersMove ==
  ASSUME StagesHold, HelpersHold, NEW l \in Launches, NEW r, Replaced(l, r), KeepsNames(l),
         \A k \in Launches \ {l} : helper'[k] = "running" => helper[k] = "running",
         Alone(l) /\ helper'[l] = "running" =>
           /\ r.pc \in WithHelper => dir'[Run(l)].process = l
           /\ r.pc = "failed" => r.cause \in Unstopped \/ r.committed \/ r.reply = "uncertain"
  PROVE  HelpersHold'
<1>1. /\ Kept /\ launch'[l] = r /\ \A k \in Launches \ {l} : launch'[k] = launch[k]
      /\ launch'[l].pc # "idle"
  BY ReplacedKept
<1>2. ASSUME NEW k \in Launches, Alone(k)', helper'[k] = "running"
      PROVE  /\ launch'[k].pc \in WithHelper => dir'[launch'[k].run].process = k
             /\ launch'[k].pc = "failed" => launch'[k].cause \in Unstopped \/ launch'[k].committed \/ launch'[k].reply = "uncertain"
  <2>1. Alone(k) /\ launch'[k].run = Run(k)
    BY <1>1, <1>2, AloneBefore DEF Kept, Run
  <2>2. CASE k = l
    BY <1>1, <1>2, <2>1, <2>2
  <2>3. CASE k # l
    <3>1. Run(k) # Run(l)
      BY <1>1, <1>2, <2>3, AloneApart
    <3>2. Run(k) \in Runs
      BY LaunchFacts DEF Run, LaunchState
    <3>3. dir'[Run(k)] = dir[Run(k)]
      BY <3>1, <3>2 DEF KeepsNames
    <3>4. helper[k] = "running" /\ launch'[k] = launch[k]
      BY <1>1, <1>2, <2>3
    <3> QED BY <2>1, <3>3, <3>4, HelpersFacts
  <2> QED BY <2>2, <2>3
<1> QED BY <1>2 DEF HelpersHold, At, Run

\* Steps that belong to no launch.
LEMMA HelpersRemain ==
  ASSUME HelpersHold, Kept,
         \A k \in Launches : helper'[k] = "running" => helper[k] = "running",
         \A k \in Launches : launch'[k].pc \in WithHelper \cup {"failed"} => launch'[k] = launch[k],
         \A k \in Launches : dir'[Run(k)].process = dir[Run(k)].process
  PROVE  HelpersHold'
<1>2. ASSUME NEW k \in Launches, Alone(k)', helper'[k] = "running"
      PROVE  /\ launch'[k].pc \in WithHelper => dir'[launch'[k].run].process = k
             /\ launch'[k].pc = "failed" => launch'[k].cause \in Unstopped \/ launch'[k].committed \/ launch'[k].reply = "uncertain"
  <2>1. Alone(k) /\ launch'[k].run = Run(k) /\ helper[k] = "running"
    BY <1>2, AloneBefore DEF Kept, Run
  <2>2. CASE launch'[k] = launch[k]
    BY <2>1, <2>2, HelpersFacts
  <2> QED BY <2>2
<1> QED BY <1>2 DEF HelpersHold, At, Run

\* The three kinds of steps, and the directories and helpers after them.
LEMMA PassageHelpers ==
  ASSUME NEW from, NEW to, Passage(from, to)
  PROVE  /\ to \in WithHelper => from \in WithHelper \cup {"spawned"} \cup BeforeHelper
         /\ to \notin Outcomes \cup {"listed", "sweeping"}
BY DEF Passage, Outcomes, WithHelper, BeforeHelper, Packaging

LEMMA PassingKeepsHost ==
  ASSUME StagesHold, DirectoriesHold, HelpersHold, NEW l \in Launches, Passing(l)
  PROVE  DirectoriesHold' /\ HelpersHold'
<1>1. PICK from \in Stages, to \in Stages :
        /\ Passage(from, to) /\ At(l, from) /\ Becomes(l, to)
        /\ to = "placement" => l \notin beating'
        /\ to \in Reporting \/ beating' \subseteq beating
        /\ dir'[Run(l)].process = IF from = "spawned" THEN l ELSE dir[Run(l)].process
  BY DEF Passing
<1>2. KeepsNames(l) /\ run' = run /\ helper' = helper /\ beating' \in {beating, beating \cup {l}, beating \ {l}}
  BY DEF Passing
<1>r. PICK r : r = AtStage(launch[l], to)
  OBVIOUS
<1>3. Replaced(l, r)
  BY <1>1, <1>2, <1>r, PassingHolds
<1>4. r.pc = to
  BY <1>r, <1>1, LaunchFacts, AtStageFacts
<1>5. Kept /\ launch'[l].pc # "idle"
  BY <1>3, ReplacedKept
<1>6. DirectoriesHold'
  BY <1>1, <1>2, <1>5, DirectoriesMove
<1>7. ASSUME Alone(l), helper'[l] = "running" PROVE r.pc \in WithHelper => dir'[Run(l)].process = l
  <2>1. helper[l] = "running" /\ launch[l].pc = from
    BY <1>1, <1>2, <1>7 DEF At
  <2>2. from \notin BeforeHelper
    BY <2>1, LaunchFacts DEF StageHolds
  <2>3. from \in WithHelper => dir[Run(l)].process = l
    BY <1>7, <2>1, HelpersFacts
  <2> QED BY <1>1, <1>4, <2>2, <2>3, PassageHelpers
<1>8. r.pc # "failed"
  BY <1>1, <1>4, PassageHelpers DEF Outcomes
<1>9. \A k \in Launches \ {l} : helper'[k] = "running" => helper[k] = "running"
  BY <1>2
<1>10. HelpersHold'
  BY <1>2, <1>3, <1>7, <1>8, <1>9, HelpersMove
<1> QED BY <1>6, <1>10

LEMMA WorkingKeepsHost ==
  ASSUME StagesHold, DirectoriesHold, HelpersHold, NEW l \in Launches, Working(l)
  PROVE  DirectoriesHold' /\ HelpersHold'
<1>1. PICK r : /\ Replaced(l, r) /\ r.pc \notin Outcomes
               /\ r.pc \in WithHelper => launch[l].pc \in WithHelper /\ helper' = helper
  BY DEF Working
<1>2. KeepsNames(l) /\ dir'[Run(l)].process = dir[Run(l)].process
  BY DEF Working
<1>5. Kept /\ launch'[l].pc # "idle"
  BY <1>1, ReplacedKept
<1>6. DirectoriesHold'
  BY <1>2, <1>5, DirectoriesMove
<1>7. ASSUME Alone(l), helper'[l] = "running" PROVE r.pc \in WithHelper => dir'[Run(l)].process = l
  BY <1>1, <1>2, <1>7, HelpersFacts
<1>8. r.pc # "failed"
  BY <1>1 DEF Outcomes
<1>9. \A k \in Launches \ {l} : helper'[k] = "running" => helper[k] = "running"
  BY DEF Working
<1>10. HelpersHold'
  BY <1>1, <1>2, <1>7, <1>8, <1>9, HelpersMove
<1> QED BY <1>6, <1>10

LEMMA EndingKeepsHost ==
  ASSUME StagesHold, DirectoriesHold, HelpersHold, NEW l \in Launches, Ending(l)
  PROVE  DirectoriesHold' /\ HelpersHold'
<1>1. PICK outcome \in {"answered", "refused", "failed"}, cause \in Causes : EndingWith(l, outcome, cause)
  BY DEF Ending
<1>2. KeepsNames(l) /\ dir'[Run(l)].process \in {dir[Run(l)].process, NoLaunch}
  BY DEF Ending
<1>r. PICK r : r = Ended(launch[l], outcome, cause)
  OBVIOUS
<1>o. outcome \in Outcomes /\ Ends(l, outcome, cause)
  BY <1>1 DEF Outcomes, EndingWith
<1>s. launch[l] \in LaunchState /\ StageHolds(launch[l], run[l], helper[l], l \in beating)
  BY LaunchFacts
<1>4. r \in LaunchState /\ r.pc = outcome /\ r.cause = cause /\ r.run = launch[l].run /\ r.job = launch[l].job
      /\ r.progress = launch[l].progress /\ r.reply = launch[l].reply /\ r.committed = launch[l].committed
  BY <1>r, <1>s, <1>o, EndedFacts
<1>n. r.pc # "idle"
  BY <1>1, <1>4
<1>3. Replaced(l, r)
  BY <1>r, <1>o, <1>4, <1>n DEF Replaced, Ends, Ended
<1>5. Kept /\ launch'[l].pc # "idle"
  BY <1>3, ReplacedKept
<1>6. DirectoriesHold'
  BY <1>2, <1>5, DirectoriesMove
<1>d. PICK d : d = dir[Run(l)].process
  OBVIOUS
<1>p. PICK p : p = Stopped(helper, l)
  OBVIOUS
<1>h. helper \in [Launches -> ProcessStates]
  BY DEF StagesHold
<1>11. /\ p \in [Launches -> ProcessStates] /\ p[l] # "running"
       /\ \A k \in Launches \ {l} : p[k] = helper[k]
  BY <1>h, <1>p, StoppedFacts
<1>12. /\ \A k \in Launches : Stopped(p, d)[k] \in {p[k], "stopped"}
       /\ \A k \in Launches : Stopped(helper, d)[k] \in {helper[k], "stopped"}
  BY <1>h, <1>11, StoppedFacts
<1>13. d = l => Stopped(helper, d)[l] # "running"
  BY <1>11, <1>p
<1>14. helper' \in {helper, Stopped(helper, d), Stopped(p, d)}
  BY <1>d, <1>p DEF Ending
<1>9. \A k \in Launches \ {l} : helper'[k] = "running" => helper[k] = "running"
  BY <1>11, <1>12, <1>14
<1>7. ASSUME Alone(l), helper'[l] = "running", outcome = "failed"
      PROVE  cause \in Unstopped \/ launch[l].committed \/ launch[l].reply = "uncertain"
  <2>1. helper[l] = "running"
    BY <1>7, <1>11, <1>12, <1>14
  <2>2. launch[l].pc \notin BeforeHelper
    BY <1>s, <2>1 DEF StageHolds
  <2>3. launch[l].pc \in WithHelper => d = l
    BY <1>7, <1>d, <2>1, HelpersFacts
  <2>4. ~(launch[l].pc \in WithHelper /\ helper' = Stopped(helper, d))
    BY <1>7, <1>13, <2>3
  <2>5. helper' # Stopped(p, d)
    BY <1>7, <1>11, <1>12
  <2> QED BY <1>1, <1>7, <1>d, <1>p, <2>2, <2>4, <2>5 DEF EndingWith
<1>8. r.pc \notin WithHelper
  BY <1>1, <1>4 DEF WithHelper, Packaging
<1>10. HelpersHold'
  BY <1>2, <1>3, <1>4, <1>7, <1>8, <1>9, HelpersMove
<1> QED BY <1>6, <1>10

-----------------------------------------------------------------------------
(* The progress logs *)

LEMMA AppendedFacts ==
  ASSUME NEW e \in Logs, NEW phase \in Phases, NEW status \in Statuses
  PROVE  /\ Appended(e, phase, status) \in Logs
         /\ phase # "launch" => Appended(e, phase, status).terminal = e.terminal
         /\ phase = "launch" /\ status \in {"completed", "failed"} =>
              Appended(e, phase, status).terminal = status /\ Reported(Appended(e, phase, status))
<1>t. PICK terminal : terminal = IF phase = "launch" /\ status \in {"completed", "failed"} THEN status ELSE e.terminal
  OBVIOUS
<1>l. PICK latest : latest = [phase |-> phase, status |-> status]
  OBVIOUS
<1>1. terminal \in {"none", "completed", "failed"} /\ latest \in Events /\ latest.phase = phase
  BY <1>t, <1>l DEF Logs, Events
<1>2. Appended(e, phase, status) = [terminal |-> terminal, latest |-> latest]
  BY <1>t, <1>l DEF Appended
<1>3. /\ phase # "launch" => terminal = e.terminal
      /\ phase = "launch" /\ status \in {"completed", "failed"} => terminal = status
  BY <1>t
<1>4. Appended(e, phase, status) \in Logs
  BY <1>1, <1>2 DEF Logs
<1>5. Appended(e, phase, status).terminal = terminal /\ Appended(e, phase, status).latest = latest
  BY <1>2
<1> QED BY <1>1, <1>3, <1>4, <1>5 DEF Reported

\* A record is appended to the log of one progress.
LEMMA RecordsFacts ==
  ASSUME StagesHold, LogsHold, NEW l \in Launches, NEW phase \in Phases, NEW status \in Statuses, Records(l, phase, status)
  PROVE  /\ log' \in [Progress -> Logs] /\ launch[l].progress \in Progress
         /\ \A p \in Progress \ {launch[l].progress} : log'[p] = log[p]
         /\ phase # "launch" => log'[launch[l].progress].terminal = log[launch[l].progress].terminal
         /\ phase = "launch" /\ status \in {"completed", "failed"} =>
              log'[launch[l].progress].terminal = status /\ Reported(log'[launch[l].progress])
<1>p. PICK p : p = launch[l].progress
  OBVIOUS
<1>1. p \in Progress
  BY <1>p, LaunchFacts DEF LaunchState
<1>2. log \in [Progress -> Logs]
  BY DEF LogsHold
<1>3. log' = [log EXCEPT ![p] = Appended(log[p], phase, status)]
  BY <1>p DEF Records
<1>4. /\ Appended(log[p], phase, status) \in Logs
      /\ phase # "launch" => Appended(log[p], phase, status).terminal = log[p].terminal
      /\ phase = "launch" /\ status \in {"completed", "failed"} =>
           Appended(log[p], phase, status).terminal = status /\ Reported(Appended(log[p], phase, status))
  BY <1>1, <1>2, AppendedFacts
<1>5. log'[p] = Appended(log[p], phase, status) /\ \A q \in Progress \ {p} : log'[q] = log[q]
  BY <1>1, <1>2, <1>3
<1>6. log' \in [Progress -> Logs]
  BY <1>1, <1>2, <1>3, <1>4
<1> QED BY <1>p, <1>1, <1>4, <1>5, <1>6

LEMMA NotesFacts ==
  ASSUME StagesHold, LogsHold, NEW l \in Launches, Notes(l)
  PROVE  /\ log' \in [Progress -> Logs] /\ launch[l].progress \in Progress
         /\ \A p \in Progress \ {launch[l].progress} : log'[p] = log[p]
         /\ log'[launch[l].progress].terminal = log[launch[l].progress].terminal
<1>1. launch[l].progress \in Progress /\ log \in [Progress -> Logs]
  BY LaunchFacts DEF LaunchState, LogsHold
<1>2. CASE log' = log
  BY <1>1, <1>2
<1>3. ASSUME NEW phase \in Phases \ {"launch"}, NEW status \in Statuses, Records(l, phase, status)
      PROVE  /\ log' \in [Progress -> Logs] /\ launch[l].progress \in Progress
             /\ \A p \in Progress \ {launch[l].progress} : log'[p] = log[p]
             /\ log'[launch[l].progress].terminal = log[launch[l].progress].terminal
  BY <1>3, RecordsFacts
<1> QED BY <1>2, <1>3 DEF Notes

\* No other launch that is at work or has ended writes to the log of this one.
OwnLog(l) == \A k \in Launches \ {l} : launch[k].progress = launch[l].progress => launch[k].pc = "idle"

LEMMA LogsFacts ==
  ASSUME LogsHold
  PROVE  /\ \A p \in Progress : log[p].terminal = "completed" => \E l \in Launches : launch[l].progress = p /\ run[l] # "none"
         /\ \A l \in Launches :
              launch[l].pc \in {"answered", "failed"} /\ launch[l].cause # "raised" /\ OwnLog(l) =>
                Reported(log[launch[l].progress])
BY DEF LogsHold, OwnLog

LEMMA OwnLogBefore ==
  ASSUME Kept, NEW k \in Launches, OwnLog(k)'
  PROVE  OwnLog(k)
BY DEF Kept, OwnLog

\* One launch writes to the log of its progress, or none does.
LEMMA LogsMove ==
  ASSUME StagesHold, LogsHold, Kept, NEW l \in Launches, launch'[l].pc # "idle",
         \A k \in Launches \ {l} : launch'[k] = launch[k],
         log' \in [Progress -> Logs],
         \A p \in Progress \ {launch[l].progress} : log'[p] = log[p],
         \A k \in Launches : run[k] # "none" => run'[k] # "none",
         log'[launch[l].progress].terminal = "completed" =>
           log[launch[l].progress].terminal = "completed" \/ run[l] # "none",
         launch'[l].pc \in {"answered", "failed"} /\ launch'[l].cause # "raised" => Reported(log'[launch[l].progress])
  PROVE  LogsHold'
<1>1. ASSUME NEW p \in Progress, log'[p].terminal = "completed"
      PROVE  \E k \in Launches : launch'[k].progress = p /\ run'[k] # "none"
  <2>1. log[p].terminal = "completed" \/ (p = launch[l].progress /\ run[l] # "none")
    BY <1>1
  <2>2. PICK k \in Launches : launch[k].progress = p /\ run[k] # "none"
    BY <2>1, LogsFacts
  <2> QED BY <2>2 DEF Kept
<1>2. ASSUME NEW k \in Launches, launch'[k].pc \in {"answered", "failed"}, launch'[k].cause # "raised", OwnLog(k)'
      PROVE  Reported(log'[launch'[k].progress])
  <2>1. launch'[k].progress = launch[k].progress /\ launch[k].progress \in Progress
    BY LaunchFacts DEF Kept, LaunchState
  <2>2. CASE k = l
    BY <1>2, <2>1, <2>2
  <2>3. CASE k # l
    <3>1. launch[k].progress # launch[l].progress
      BY <1>2, <2>3 DEF OwnLog, Kept
    <3>2. log'[launch[k].progress] = log[launch[k].progress] /\ launch'[k] = launch[k]
      BY <2>1, <2>3, <3>1
    <3>3. OwnLog(k)
      BY <1>2, OwnLogBefore
    <3>4. Reported(log[launch[k].progress])
      BY <1>2, <3>2, <3>3, LogsFacts
    <3> QED BY <2>1, <3>2, <3>4
  <2> QED BY <2>2, <2>3
<1> QED BY <1>1, <1>2 DEF LogsHold, OwnLog

LEMMA PassingKeepsLogs ==
  ASSUME StagesHold, LogsHold, NEW l \in Launches, Passing(l)
  PROVE  LogsHold'
<1>1. PICK from \in Stages, to \in Stages :
        /\ Passage(from, to) /\ At(l, from) /\ Becomes(l, to)
        /\ to = "placement" => l \notin beating'
        /\ to \in Reporting \/ beating' \subseteq beating
        /\ dir'[Run(l)].process = IF from = "spawned" THEN l ELSE dir[Run(l)].process
  BY DEF Passing
<1>2. Notes(l) /\ run' = run /\ helper' = helper /\ beating' \in {beating, beating \cup {l}, beating \ {l}}
  BY DEF Passing
<1>r. PICK r : r = AtStage(launch[l], to)
  OBVIOUS
<1>3. Replaced(l, r)
  BY <1>1, <1>2, <1>r, PassingHolds
<1>4. r.pc = to
  BY <1>r, <1>1, LaunchFacts, AtStageFacts
<1>5. /\ Kept /\ launch'[l] = r /\ \A k \in Launches \ {l} : launch'[k] = launch[k]
      /\ launch'[l].pc # "idle"
  BY <1>3, ReplacedKept
<1>6. launch'[l].pc \notin {"answered", "failed"}
  BY <1>1, <1>4, <1>5, PassageHelpers DEF Outcomes
<1>7. /\ log' \in [Progress -> Logs] /\ launch[l].progress \in Progress
      /\ \A p \in Progress \ {launch[l].progress} : log'[p] = log[p]
      /\ log'[launch[l].progress].terminal = log[launch[l].progress].terminal
  BY <1>2, NotesFacts
<1> QED BY <1>2, <1>5, <1>6, <1>7, LogsMove

LEMMA WorkingKeepsLogs ==
  ASSUME StagesHold, StagesHold', LogsHold, NEW l \in Launches, Working(l),
         \A k \in Launches : run[k] # "none" => run'[k] # "none"
  PROVE  LogsHold'
<1>1. PICK r : /\ Replaced(l, r) /\ r.pc \notin Outcomes
               /\ r.pc \in WithHelper => launch[l].pc \in WithHelper /\ helper' = helper
  BY DEF Working
<1>2. log' = log /\ log \in [Progress -> Logs]
  BY DEF Working, LogsHold
<1>5. /\ Kept /\ launch'[l] = r /\ \A k \in Launches \ {l} : launch'[k] = launch[k]
      /\ launch'[l].pc # "idle"
  BY <1>1, ReplacedKept
<1>6. launch'[l].pc \notin {"answered", "failed"}
  BY <1>1, <1>5 DEF Outcomes
<1> QED BY <1>2, <1>5, <1>6, LogsMove

LEMMA EndingKeepsLogs ==
  ASSUME StagesHold, LogsHold, NEW l \in Launches, Ending(l),
         \A k \in Launches : run[k] # "none" => run'[k] # "none"
  PROVE  LogsHold'
<1>1. PICK outcome \in {"answered", "refused", "failed"}, cause \in Causes : EndingWith(l, outcome, cause)
  BY DEF Ending
<1>r. PICK r : r = Ended(launch[l], outcome, cause)
  OBVIOUS
<1>o. outcome \in Outcomes /\ Ends(l, outcome, cause)
  BY <1>1 DEF Outcomes, EndingWith
<1>s. launch[l] \in LaunchState /\ StageHolds(launch[l], run[l], helper[l], l \in beating)
  BY LaunchFacts
<1>4. r \in LaunchState /\ r.pc = outcome /\ r.cause = cause /\ r.run = launch[l].run /\ r.job = launch[l].job
      /\ r.progress = launch[l].progress /\ r.reply = launch[l].reply /\ r.committed = launch[l].committed
  BY <1>r, <1>s, <1>o, EndedFacts
<1>n. r.pc # "idle"
  BY <1>1, <1>4
<1>3. Replaced(l, r)
  BY <1>r, <1>o, <1>4, <1>n DEF Replaced, Ends, Ended
<1>5. /\ Kept /\ launch'[l] = r /\ \A k \in Launches \ {l} : launch'[k] = launch[k]
      /\ launch'[l].pc # "idle"
  BY <1>3, ReplacedKept
<1>6. CASE outcome = "refused" \/ cause = "raised"
  <2>1. Notes(l)
    BY <1>1, <1>6 DEF EndingWith
  <2>2. /\ log' \in [Progress -> Logs] /\ launch[l].progress \in Progress
        /\ \A p \in Progress \ {launch[l].progress} : log'[p] = log[p]
        /\ log'[launch[l].progress].terminal = log[launch[l].progress].terminal
    BY <2>1, NotesFacts
  <2>3. ~(launch'[l].pc \in {"answered", "failed"} /\ launch'[l].cause # "raised")
    BY <1>4, <1>5, <1>6
  <2> QED BY <1>5, <2>2, <2>3, LogsMove
<1>7. CASE ~(outcome = "refused" \/ cause = "raised")
  <2>s. PICK status : status = IF outcome = "answered" THEN "completed" ELSE "failed"
    OBVIOUS
  <2>1. Records(l, "launch", status) /\ (outcome = "answered" => At(l, "relaying"))
    BY <1>1, <1>7, <2>s DEF EndingWith
  <2>2. status \in {"completed", "failed"} /\ status \in Statuses /\ "launch" \in Phases
    BY <2>s DEF Statuses, Phases
  <2>3. /\ log' \in [Progress -> Logs] /\ launch[l].progress \in Progress
        /\ \A p \in Progress \ {launch[l].progress} : log'[p] = log[p]
        /\ log'[launch[l].progress].terminal = status /\ Reported(log'[launch[l].progress])
    BY <2>1, <2>2, RecordsFacts
  <2>4. status = "completed" => run[l] # "none"
    BY <1>s, <2>1, <2>s DEF At, StageHolds
  <2> QED BY <1>5, <2>3, <2>4, LogsMove
<1> QED BY <1>6, <1>7

\* Steps of no launch that write nothing.
LEMMA LogsRemain ==
  ASSUME StagesHold, LogsHold, Kept, log' = log,
         \A k \in Launches : launch'[k].pc \in {"answered", "failed"} => launch'[k] = launch[k],
         \A k \in Launches : run[k] # "none" => run'[k] # "none"
  PROVE  LogsHold'
<1>1. ASSUME NEW p \in Progress, log'[p].terminal = "completed"
      PROVE  \E k \in Launches : launch'[k].progress = p /\ run'[k] # "none"
  <2>1. PICK k \in Launches : launch[k].progress = p /\ run[k] # "none"
    BY <1>1, LogsFacts
  <2> QED BY <2>1 DEF Kept
<1>2. ASSUME NEW k \in Launches, launch'[k].pc \in {"answered", "failed"}, launch'[k].cause # "raised", OwnLog(k)'
      PROVE  Reported(log'[launch'[k].progress])
  BY <1>2, OwnLogBefore, LogsFacts
<1>3. log' \in [Progress -> Logs]
  BY DEF LogsHold
<1> QED BY <1>1, <1>2, <1>3 DEF LogsHold, OwnLog

-----------------------------------------------------------------------------
(* The runs and what sweeps have heard of their Jobs *)

Looking == {"listed", "sweeping"}

\* The runs stay as they are, and nobody begins to sweep.
LEMMA RunsRemain ==
  ASSUME RunsHold, Kept, UNCHANGED <<scripts, run, unlisted>>,
         definition' \in [Jobs -> {"idle", "prepared", "running"}],
         \A j \in Jobs : definition[j] = "running" => definition'[j] = "running",
         StagesHold,
         \A k \in Launches : launch'[k].pc \in Looking => launch[k].pc \in Looking /\ launch'[k].listed = launch[k].listed
  PROVE  RunsHold'
<1>1. \A k \in Launches : launch'[k].job = launch[k].job /\ launch[k].job \in Jobs
  BY LaunchFacts DEF Kept, LaunchState
<1>2. \A l \in Launches : run'[l] = "running" => definition'[launch'[l].job] = "running"
  BY <1>1 DEF RunsHold
<1>3. \A l, k \in Launches : run'[l] = "running" /\ run'[k] = "running" /\ launch'[l].job = launch'[k].job => l = k
  BY <1>1 DEF RunsHold
<1>4. \A k, l \in Launches :
        launch'[k].pc \in {"listed", "sweeping"} /\ run'[l] = "running" /\ l \notin unlisted'[k] => launch'[l].job \in launch'[k].listed
  BY <1>1 DEF RunsHold, Looking
<1> QED BY <1>2, <1>3, <1>4 DEF RunsHold

\* A run starts, and replaces an active one of its Job.
LEMMA RunsStart ==
  ASSUME RunsHold, StagesHold, Kept, UNCHANGED scripts, NEW l \in Launches, Starts(l),
         \A k \in Launches : launch'[k].pc \in Looking => launch'[k] = launch[k]
  PROVE  RunsHold'
<1>1. \A k \in Launches : launch'[k].job = launch[k].job /\ launch[k].job \in Jobs
  BY LaunchFacts DEF Kept, LaunchState
<1>j. PICK j : j = launch[l].job
  OBVIOUS
<1>2. /\ definition' = [definition EXCEPT ![j] = "running"]
      /\ run' = [k \in Launches |-> IF k = l THEN "running"
                                    ELSE IF launch[k].job = j /\ run[k] = "running" THEN "ended" ELSE run[k]]
      /\ unlisted' = [k \in Launches |-> IF launch[k].pc \in Looking THEN unlisted[k] \cup {l} ELSE unlisted[k]]
  BY <1>j DEF Starts, Looking
<1>3. definition \in [Jobs -> {"idle", "prepared", "running"}] /\ unlisted \in [Launches -> SUBSET Launches]
  BY DEF RunsHold
<1>4. definition' \in [Jobs -> {"idle", "prepared", "running"}] /\ unlisted' \in [Launches -> SUBSET Launches]
  BY <1>1, <1>2, <1>3, <1>j
<1>5. \A k \in Launches : run'[k] = "running" => k = l \/ (run[k] = "running" /\ launch[k].job # j)
  BY <1>2
<1>6. definition'[j] = "running" /\ \A i \in Jobs : definition[i] = "running" => definition'[i] = "running"
  BY <1>1, <1>2, <1>3, <1>j
<1>7. \A k \in Launches : run'[k] = "running" => definition'[launch'[k].job] = "running"
  BY <1>1, <1>5, <1>6, <1>j DEF RunsHold
<1>8. \A m, k \in Launches : run'[m] = "running" /\ run'[k] = "running" /\ launch'[m].job = launch'[k].job => m = k
  BY <1>1, <1>5, <1>j DEF RunsHold
<1>9. ASSUME NEW k \in Launches, NEW m \in Launches, launch'[k].pc \in Looking, run'[m] = "running", m \notin unlisted'[k]
      PROVE  launch'[m].job \in launch'[k].listed
  <2>1. launch'[k] = launch[k]
    BY <1>9
  <2>2. unlisted'[k] = unlisted[k] \cup {l}
    BY <1>2, <1>9, <2>1
  <2>3. run[m] = "running" /\ m \notin unlisted[k]
    BY <1>5, <1>9, <2>2
  <2> QED BY <1>1, <1>9, <2>1, <2>3 DEF RunsHold, Looking
<1> QED BY <1>4, <1>7, <1>8, <1>9 DEF RunsHold, Looking

LEMMA PassingKeepsRuns ==
  ASSUME StagesHold, RunsHold, NEW l \in Launches, Passing(l)
  PROVE  RunsHold'
<1>1. PICK from \in Stages, to \in Stages :
        /\ Passage(from, to) /\ At(l, from) /\ Becomes(l, to)
        /\ to = "placement" => l \notin beating'
        /\ to \in Reporting \/ beating' \subseteq beating
        /\ dir'[Run(l)].process = IF from = "spawned" THEN l ELSE dir[Run(l)].process
  BY DEF Passing
<1>2. UNCHANGED <<scripts, definition, run, helper, unlisted>> /\ beating' \in {beating, beating \cup {l}, beating \ {l}}
  BY DEF Passing
<1>r. PICK r : r = AtStage(launch[l], to)
  OBVIOUS
<1>3. Replaced(l, r)
  BY <1>1, <1>2, <1>r, PassingHolds
<1>4. r.pc = to
  BY <1>r, <1>1, LaunchFacts, AtStageFacts
<1>5. /\ Kept /\ launch'[l] = r /\ \A k \in Launches \ {l} : launch'[k] = launch[k]
  BY <1>3, ReplacedKept
<1>6. launch'[l].pc \notin Looking
  BY <1>1, <1>4, <1>5, PassageHelpers DEF Looking
<1>7. \A k \in Launches : launch'[k].pc \in Looking => launch[k].pc \in Looking /\ launch'[k].listed = launch[k].listed
  BY <1>5, <1>6
<1>8. definition' \in [Jobs -> {"idle", "prepared", "running"}] /\ \A j \in Jobs : definition[j] = "running" => definition'[j] = "running"
  BY <1>2 DEF RunsHold
<1> QED BY <1>2, <1>5, <1>7, <1>8, RunsRemain

LEMMA EndingKeepsRuns ==
  ASSUME StagesHold, RunsHold, NEW l \in Launches, Ending(l)
  PROVE  RunsHold' /\ \A k \in Launches : run[k] # "none" => run'[k] # "none"
<1>1. PICK outcome \in {"answered", "refused", "failed"}, cause \in Causes : EndingWith(l, outcome, cause)
  BY DEF Ending
<1>r. PICK r : r = Ended(launch[l], outcome, cause)
  OBVIOUS
<1>o. outcome \in Outcomes /\ Ends(l, outcome, cause)
  BY <1>1 DEF Outcomes, EndingWith
<1>4. r \in LaunchState /\ r.pc = outcome /\ r.run = launch[l].run /\ r.job = launch[l].job /\ r.progress = launch[l].progress
  BY <1>r, <1>o, LaunchFacts, EndedFacts
<1>n. r.pc # "idle"
  BY <1>1, <1>4
<1>3. Replaced(l, r)
  BY <1>r, <1>o, <1>4, <1>n DEF Replaced, Ends, Ended
<1>5. Kept /\ launch'[l] = r /\ \A k \in Launches \ {l} : launch'[k] = launch[k]
  BY <1>3, ReplacedKept
<1>6. launch'[l].pc \notin Looking
  BY <1>1, <1>4, <1>5 DEF Looking
<1>7. \A k \in Launches : launch'[k].pc \in Looking => launch'[k] = launch[k]
  BY <1>5, <1>6
<1>8. CASE UNCHANGED <<definition, run, unlisted>>
  <2>1. \A k \in Launches : launch'[k].pc \in Looking => launch[k].pc \in Looking /\ launch'[k].listed = launch[k].listed
    BY <1>7
  <2>2. definition' \in [Jobs -> {"idle", "prepared", "running"}] /\ \A j \in Jobs : definition[j] = "running" => definition'[j] = "running"
    BY <1>8 DEF RunsHold
  <2>3. UNCHANGED <<scripts, run, unlisted>>
    BY <1>8 DEF Ending
  <2>4. RunsHold'
    BY <1>5, <2>1, <2>2, <2>3, RunsRemain
  <2> QED BY <1>8, <2>4
<1>9. CASE Starts(l)
  <2>1. UNCHANGED scripts
    BY DEF Ending
  <2>2. RunsHold'
    BY <1>5, <1>7, <1>9, <2>1, RunsStart
  <2>3. \A k \in Launches : run[k] # "none" => run'[k] # "none"
    BY <1>9 DEF Starts
  <2> QED BY <2>2, <2>3
<1> QED BY <1>8, <1>9 DEF Ending

LEMMA ListJobsKeepsRuns ==
  ASSUME StagesHold, RunsHold, NEW l \in Launches, ListJobs(l)
  PROVE  RunsHold'
<1>p. PICK x \in SUBSET Jobs, missing \in SUBSET Jobs : Listed(l, x, missing) /\ ActiveJobs \subseteq x \cup missing
  BY JobsAreListed
<1>x. launch' = [launch EXCEPT ![l].pc = "listed", ![l].listed = x]
  BY <1>p DEF Listed
<1>m. PICK M : M = {k \in Launches : run[k] = "running" /\ launch[k].job \in missing}
  OBVIOUS
<1>1. \A j \in Jobs : definition[j] = "running" => j \in x \/ j \in missing
  BY <1>p DEF ActiveJobs
<1>2. /\ \A k \in Launches \ {l} : launch'[k] = launch[k]
      /\ launch'[l].job = launch[l].job /\ launch'[l].listed = x
  <2>1. launch[l] \in LaunchState /\ launch \in [Launches -> LaunchState]
    BY DEF StagesHold
  <2>2. launch'[l] = [launch[l] EXCEPT !.pc = "listed", !.listed = x]
    BY <1>x, <2>1
  <2>3. \A k \in Launches \ {l} : launch'[k] = launch[k]
    BY <1>x, <2>1
  <2> QED BY <2>1, <2>2, <2>3 DEF LaunchState
<1>3. UNCHANGED <<scripts, definition, run>> /\ unlisted' = [unlisted EXCEPT ![l] = M] /\ M \subseteq Launches
  BY <1>p, <1>m DEF Listed, core
<1>4. \A k \in Launches : launch'[k].job = launch[k].job /\ launch[k].job \in Jobs
  BY <1>2, LaunchFacts DEF LaunchState
<1>5. /\ unlisted' \in [Launches -> SUBSET Launches] /\ unlisted'[l] = M
      /\ \A k \in Launches \ {l} : unlisted'[k] = unlisted[k]
  BY <1>3 DEF RunsHold
<1>6. ASSUME NEW k \in Launches, NEW m \in Launches, launch'[k].pc \in Looking, run'[m] = "running", m \notin unlisted'[k]
      PROVE  launch'[m].job \in launch'[k].listed
  <2>1. definition[launch[m].job] = "running"
    BY <1>3, <1>6 DEF RunsHold
  <2>2. CASE k = l
    <3>1. launch[m].job \notin missing
      BY <1>3, <1>5, <1>6, <1>m, <2>2
    <3> QED BY <1>1, <1>2, <1>4, <2>1, <2>2, <3>1
  <2>3. CASE k # l
    BY <1>2, <1>3, <1>4, <1>5, <1>6, <2>3 DEF RunsHold, Looking
  <2> QED BY <2>2, <2>3
<1>7. \A k \in Launches : run'[k] = "running" => definition'[launch'[k].job] = "running"
  BY <1>3, <1>4 DEF RunsHold
<1>8. \A m, k \in Launches : run'[m] = "running" /\ run'[k] = "running" /\ launch'[m].job = launch'[k].job => m = k
  BY <1>3, <1>4 DEF RunsHold
<1>9. scripts' \subseteq {"pre", "post"} /\ definition' \in [Jobs -> {"idle", "prepared", "running"}]
  BY <1>3 DEF RunsHold
<1> QED BY <1>5, <1>6, <1>7, <1>8, <1>9 DEF RunsHold, Looking

LEMMA OthersKeepRuns ==
  ASSUME StagesHold, RunsHold, NEW l \in Launches, Kept,
         \/ ListDirectories(l) \/ (\E r \in Runs : Sweep(l, r)) \/ SpawnHelper(l) \/ SubmitReturns(l) \/ Accepted(l)
  PROVE  RunsHold' /\ UNCHANGED run
<1>t. launch[l] \in LaunchState /\ launch \in [Launches -> LaunchState]
  BY DEF StagesHold
<1>s. PICK s : s = launch[l]
  OBVIOUS
<1>1. CASE ListDirectories(l) \/ (\E r \in Runs : Sweep(l, r)) \/ SpawnHelper(l) \/ Accepted(l)
  <2>1. UNCHANGED <<scripts, definition, run, unlisted>>
    BY <1>1 DEF ListDirectories, Sweep, SpawnHelper, Accepted, core
  <2>2. \A k \in Launches : launch'[k].pc \in Looking => launch[k].pc \in Looking /\ launch'[k].listed = launch[k].listed
    <3>1. CASE ListDirectories(l)
      <4>1. s.pc = "listed" /\ launch' = [launch EXCEPT ![l].pc = "sweeping", ![l].todo = {r \in Runs \ {Run(l)} : dir[r].made}]
        BY <3>1, <1>s DEF ListDirectories, At
      <4> QED BY <1>s, <1>t, <4>1 DEF LaunchState, Looking
    <3>2. CASE \E r \in Runs : Sweep(l, r)
      <4>1. PICK d \in Runs : launch' = [launch EXCEPT ![l].todo = @ \ {d}]
        BY <3>2 DEF Sweep
      <4> QED BY <1>s, <1>t, <4>1 DEF LaunchState, Looking
    <3>3. CASE SpawnHelper(l)
      <4>1. launch' = [launch EXCEPT ![l].pc = "spawned"]
        BY <3>3 DEF SpawnHelper, Becomes
      <4> QED BY <1>s, <1>t, <4>1 DEF LaunchState, Looking
    <3>4. CASE Accepted(l)
      <4>1. launch' = [launch EXCEPT ![l].pc = "starting", ![l].committed = TRUE]
        BY <3>4 DEF Accepted
      <4> QED BY <1>s, <1>t, <4>1 DEF LaunchState, Looking
    <3> QED BY <1>1, <3>1, <3>2, <3>3, <3>4
  <2>3. definition' \in [Jobs -> {"idle", "prepared", "running"}] /\ \A j \in Jobs : definition[j] = "running" => definition'[j] = "running"
    BY <2>1 DEF RunsHold
  <2> QED BY <2>1, <2>2, <2>3, RunsRemain
<1>2. CASE SubmitReturns(l)
  <2>1. UNCHANGED <<scripts, run, unlisted>>
    BY <1>2 DEF SubmitReturns
  <2>2. \A k \in Launches : launch'[k].pc \in Looking => launch[k].pc \in Looking /\ launch'[k].listed = launch[k].listed
    <3>1. PICK x \in {"accepted", "refused", "uncertain"} : launch' = [launch EXCEPT ![l].pc = "joining", ![l].reply = x]
      BY <1>2 DEF SubmitReturns
    <3> QED BY <1>s, <1>t, <3>1 DEF LaunchState, Looking
  <2>3. definition' \in [Jobs -> {"idle", "prepared", "running"}] /\ \A j \in Jobs : definition[j] = "running" => definition'[j] = "running"
    <3>1. definition \in [Jobs -> {"idle", "prepared", "running"}]
      BY DEF RunsHold
    <3>2. definition' = definition
          \/ (definition[launch[l].job] = "idle" /\ definition' = [definition EXCEPT ![launch[l].job] = "prepared"])
      BY <1>2 DEF SubmitReturns
    <3> QED BY <3>1, <3>2
  <2> QED BY <2>1, <2>2, <2>3, RunsRemain
<1> QED BY <1>1, <1>2

LEMMA StartRunKeepsRuns ==
  ASSUME StagesHold, RunsHold, NEW l \in Launches, Kept, StartRun(l)
  PROVE  RunsHold' /\ \A k \in Launches : run[k] # "none" => run'[k] # "none"
<1>t. launch \in [Launches -> LaunchState] /\ launch[l] \in LaunchState
  BY DEF StagesHold
<1>1. Starts(l) /\ UNCHANGED scripts /\ launch' = [launch EXCEPT ![l].pc = "mapping"]
  BY DEF StartRun, Becomes
<1>2. \A k \in Launches : launch'[k].pc \in Looking => launch'[k] = launch[k]
  BY <1>t, <1>1 DEF LaunchState, Looking
<1>3. RunsHold'
  BY <1>1, <1>2, RunsStart
<1>4. \A k \in Launches : run[k] # "none" => run'[k] # "none"
  BY <1>1 DEF Starts
<1> QED BY <1>3, <1>4

-----------------------------------------------------------------------------
(* The invariant of the launches *)

LaunchesHold == StagesHold /\ DirectoriesHold /\ HelpersHold /\ LogsHold /\ RunsHold

LEMMA PassingKeeps ==
  ASSUME LaunchesHold, NEW l \in Launches, Passing(l)
  PROVE  LaunchesHold'
<1>1. StagesHold /\ DirectoriesHold /\ HelpersHold /\ LogsHold /\ RunsHold
  BY DEF LaunchesHold
<1>2. StagesHold'
  BY <1>1, PassingStepsHold
<1>3. DirectoriesHold' /\ HelpersHold'
  BY <1>1, PassingKeepsHost
<1>4. LogsHold'
  BY <1>1, PassingKeepsLogs
<1>5. RunsHold'
  BY <1>1, PassingKeepsRuns
<1> QED BY <1>2, <1>3, <1>4, <1>5 DEF LaunchesHold

LEMMA EndingKeeps ==
  ASSUME LaunchesHold, NEW l \in Launches, Ending(l)
  PROVE  LaunchesHold'
<1>1. StagesHold /\ DirectoriesHold /\ HelpersHold /\ LogsHold /\ RunsHold
  BY DEF LaunchesHold
<1>2. StagesHold'
  BY <1>1, EndingStepsHold
<1>3. DirectoriesHold' /\ HelpersHold'
  BY <1>1, EndingKeepsHost
<1>5. RunsHold' /\ \A k \in Launches : run[k] # "none" => run'[k] # "none"
  BY <1>1, EndingKeepsRuns
<1>4. LogsHold'
  BY <1>1, <1>5, EndingKeepsLogs
<1> QED BY <1>2, <1>3, <1>4, <1>5 DEF LaunchesHold

LEMMA WorkingSteps ==
  ASSUME LaunchesHold, NEW l \in Launches,
         \/ ListJobs(l) \/ ListDirectories(l) \/ (\E r \in Runs : Sweep(l, r)) \/ SpawnHelper(l) \/ SubmitReturns(l)
         \/ Accepted(l) \/ StartRun(l)
  PROVE  StagesHold' /\ Working(l)
<1>1. StagesHold /\ DirectoriesHold
  BY DEF LaunchesHold
<1>2. CASE ListJobs(l)
  BY <1>1, <1>2, ListJobsWorks
<1>3. CASE ListDirectories(l)
  BY <1>1, <1>3, ListDirectoriesWorks
<1>4. CASE \E r \in Runs : Sweep(l, r)
  BY <1>1, <1>4, SweepWorks
<1>5. CASE SpawnHelper(l)
  BY <1>1, <1>5, SpawnHelperWorks
<1>6. CASE SubmitReturns(l)
  BY <1>1, <1>6, SubmitReturnsWorks
<1>7. CASE Accepted(l)
  BY <1>1, <1>7, AcceptedWorks
<1>8. CASE StartRun(l)
  BY <1>1, <1>8, StartRunWorks
<1> QED BY <1>2, <1>3, <1>4, <1>5, <1>6, <1>7, <1>8

LEMMA WorkingKeeps ==
  ASSUME LaunchesHold, NEW l \in Launches,
         \/ ListJobs(l) \/ ListDirectories(l) \/ (\E r \in Runs : Sweep(l, r)) \/ SpawnHelper(l) \/ SubmitReturns(l)
         \/ Accepted(l) \/ StartRun(l)
  PROVE  LaunchesHold'
<1>1. StagesHold /\ DirectoriesHold /\ HelpersHold /\ LogsHold /\ RunsHold
  BY DEF LaunchesHold
<1>2. StagesHold' /\ Working(l)
  BY WorkingSteps
<1>3. DirectoriesHold' /\ HelpersHold'
  BY <1>1, <1>2, WorkingKeepsHost
<1>k. Kept
  BY <1>1, <1>2, ReplacedKept DEF Working
<1>5. RunsHold' /\ \A k \in Launches : run[k] # "none" => run'[k] # "none"
  <2>1. CASE ListJobs(l)
    <3>1. UNCHANGED run
      BY <2>1 DEF ListJobs, ListPage, Listed, core
    <3> QED BY <1>1, <2>1, <3>1, ListJobsKeepsRuns
  <2>2. CASE StartRun(l)
    BY <1>1, <1>k, <2>2, StartRunKeepsRuns
  <2>3. CASE ListDirectories(l) \/ (\E r \in Runs : Sweep(l, r)) \/ SpawnHelper(l) \/ SubmitReturns(l) \/ Accepted(l)
    <3>1. RunsHold' /\ UNCHANGED run
      BY <1>1, <1>k, <2>3, OthersKeepRuns
    <3> QED BY <3>1
  <2> QED BY <2>1, <2>2, <2>3
<1>4. LogsHold'
  BY <1>1, <1>2, <1>5, WorkingKeepsLogs
<1> QED BY <1>2, <1>3, <1>4, <1>5 DEF LaunchesHold

\* Steps of processes, of Core and of time.
LEMMA StagesRemain ==
  ASSUME StagesHold, UNCHANGED <<launch, beating>>,
         run' \in [Launches -> {"none", "running", "ended"}], helper' \in [Launches -> ProcessStates],
         \A k \in Launches : (helper[k] = "none" => helper'[k] = "none") /\ (run'[k] = "none" <=> run[k] = "none")
  PROVE  StagesHold'
<1>1. ASSUME NEW k \in Launches PROVE StageHolds(launch'[k], run'[k], helper'[k], k \in beating')
  <2>1. StageHolds(launch[k], run[k], helper[k], k \in beating)
    BY LaunchFacts
  <2>2. (helper[k] = "none" => helper'[k] = "none") /\ (run'[k] = "none" <=> run[k] = "none")
    OBVIOUS
  <2>3. StageHolds(launch[k], run'[k], helper'[k], k \in beating)
    BY <2>1, <2>2 DEF StageHolds
  <2> QED BY <2>3
<1> QED BY <1>1 DEF StagesHold

\* A step that changes no launch, no run and no log; processes may exit and files be written.
LEMMA HostKeeps ==
  ASSUME LaunchesHold, UNCHANGED <<scripts, definition, run, launch, log, beating, unlisted>>,
         helper' \in [Launches -> ProcessStates], relay' \in [Launches -> ProcessStates], dir' \in [Runs -> Directory],
         \A k \in Launches : (helper[k] = "none" => helper'[k] = "none") /\ (helper'[k] = "running" => helper[k] = "running"),
         \A r \in Runs : dir'[r].process = dir[r].process /\ dir'[r].relay = dir[r].relay /\ dir'[r].job = dir[r].job
  PROVE  LaunchesHold'
<1>1. StagesHold /\ DirectoriesHold /\ HelpersHold /\ LogsHold /\ RunsHold
  BY DEF LaunchesHold
<1>k. Kept
  BY LaunchesStay
<1>2. StagesHold'
  <2>1. run' \in [Launches -> {"none", "running", "ended"}]
    BY <1>1 DEF StagesHold
  <2> QED BY <1>1, <2>1, StagesRemain
<1>3. DirectoriesHold'
  BY <1>1, <1>k, DirectoriesRemain
<1>4. HelpersHold'
  <2>1. \A k \in Launches : dir'[Run(k)].process = dir[Run(k)].process
    BY <1>1, LaunchFacts DEF Run, LaunchState
  <2> QED BY <1>1, <1>k, <2>1, HelpersRemain
<1>5. LogsHold'
  BY <1>1, <1>k, LogsRemain
<1>6. RunsHold'
  <2>1. definition' \in [Jobs -> {"idle", "prepared", "running"}] /\ \A j \in Jobs : definition[j] = "running" => definition'[j] = "running"
    BY <1>1 DEF RunsHold
  <2>2. \A k \in Launches : launch'[k].pc \in Looking => launch[k].pc \in Looking /\ launch'[k].listed = launch[k].listed
    OBVIOUS
  <2> QED BY <1>1, <1>k, <2>1, <2>2, RunsRemain
<1> QED BY <1>2, <1>3, <1>4, <1>5, <1>6 DEF LaunchesHold

LEMMA HostSteps ==
  ASSUME LaunchesHold, NEW l \in Launches, HelperSignals(l) \/ HelperExits(l) \/ RelayExits(l)
  PROVE  LaunchesHold'
<1>0. StagesHold /\ DirectoriesHold
  BY DEF LaunchesHold
<1>1. /\ helper \in [Launches -> ProcessStates] /\ relay \in [Launches -> ProcessStates] /\ dir \in [Runs -> Directory]
      /\ Run(l) \in Runs
  BY <1>0, OwnDirectory DEF StagesHold, DirectoriesHold
<1>2. UNCHANGED <<scripts, definition, run, launch, log, beating, unlisted>>
  BY DEF HelperSignals, HelperExits, RelayExits, core
<1>3. /\ helper' \in [Launches -> ProcessStates] /\ relay' \in [Launches -> ProcessStates]
      /\ \A k \in Launches : (helper[k] = "none" => helper'[k] = "none") /\ (helper'[k] = "running" => helper[k] = "running")
  <2>1. CASE HelperSignals(l)
    BY <1>1, <2>1 DEF HelperSignals
  <2>2. CASE HelperExits(l)
    BY <1>1, <2>2 DEF HelperExits, ProcessStates
  <2>3. CASE RelayExits(l)
    BY <1>1, <2>3 DEF RelayExits, ProcessStates
  <2> QED BY <2>1, <2>2, <2>3
<1>4. /\ dir' \in [Runs -> Directory]
      /\ \A r \in Runs : dir'[r].process = dir[r].process /\ dir'[r].relay = dir[r].relay /\ dir'[r].job = dir[r].job
  <2>1. CASE HelperSignals(l)
    <3>q. PICK q : q = Run(l)
      OBVIOUS
    <3>e. PICK e : e = dir[q]
      OBVIOUS
    <3>t. PICK f : f = Touched(e)
      OBVIOUS
    <3>g. PICK g : g = [f EXCEPT !.ready = TRUE]
      OBVIOUS
    <3>1. q \in Runs /\ e \in Directory
      BY <1>1, <3>q, <3>e
    <3>2. f \in Directory /\ f.process = e.process /\ f.relay = e.relay /\ f.job = e.job
      BY <3>1, <3>t, TouchedFacts
    <3>3. g \in Directory /\ g.process = e.process /\ g.relay = e.relay /\ g.job = e.job
      BY <3>2, <3>g DEF Directory
    <3>4. dir' = [dir EXCEPT ![q] = g]
      BY <2>1, <3>q, <3>e, <3>t, <3>g DEF HelperSignals
    <3> QED BY <1>1, <3>1, <3>3, <3>4, <3>e
  <2>2. CASE HelperExits(l) \/ RelayExits(l)
    BY <1>1, <2>2 DEF HelperExits, RelayExits
  <2> QED BY <2>1, <2>2
<1> QED BY <1>1, <1>2, <1>3, <1>4, HostKeeps

\* A heartbeat reports while its launch is at work.
LEMMA HeartbeatKeeps ==
  ASSUME LaunchesHold, NEW l \in Launches, Heartbeat(l)
  PROVE  LaunchesHold'
<1>1. StagesHold /\ DirectoriesHold /\ HelpersHold /\ LogsHold /\ RunsHold
  BY DEF LaunchesHold
<1>2. UNCHANGED <<scripts, definition, run, dir, helper, relay, launch, beating, unlisted>> /\ l \in beating
  BY DEF Heartbeat, core, host
<1>3. launch[l].pc \in Reporting
  BY <1>1, <1>2, Reporters
<1>k. Kept
  BY <1>2, LaunchesStay
<1>4. StagesHold'
  BY <1>1, <1>2 DEF StagesHold
<1>5. DirectoriesHold'
  BY <1>1, <1>2 DEF DirectoriesHold
<1>6. HelpersHold'
  BY <1>1, <1>2, <1>k, HelpersRemain
<1>7. RunsHold'
  BY <1>1, <1>2 DEF RunsHold
<1>8. LogsHold'
  <2>1. Notes(l)
    BY DEF Heartbeat, Notes, Phases, Statuses
  <2>2. /\ log' \in [Progress -> Logs] /\ launch[l].progress \in Progress
        /\ \A p \in Progress \ {launch[l].progress} : log'[p] = log[p]
        /\ log'[launch[l].progress].terminal = log[launch[l].progress].terminal
    BY <1>1, <2>1, NotesFacts
  <2>3. launch'[l].pc \notin {"idle", "answered", "failed"}
    BY <1>2, <1>3 DEF Reporting
  <2> QED BY <1>1, <1>2, <1>k, <2>2, <2>3, LogsMove
<1> QED BY <1>4, <1>5, <1>6, <1>7, <1>8 DEF LaunchesHold

LEMMA RunEndsKeeps ==
  ASSUME LaunchesHold, NEW l \in Launches, RunEnds(l)
  PROVE  LaunchesHold'
<1>1. StagesHold /\ DirectoriesHold /\ HelpersHold /\ LogsHold /\ RunsHold
  BY DEF LaunchesHold
<1>2. UNCHANGED <<scripts, dir, helper, relay, launch, log, beating, unlisted>> /\ run[l] = "running"
  BY DEF RunEnds, host
<1>3. run' = [run EXCEPT ![l] = "ended"] /\ definition' = [definition EXCEPT ![launch[l].job] = "idle"]
  BY DEF RunEnds
<1>k. Kept
  BY <1>2, LaunchesStay
<1>4. /\ run' \in [Launches -> {"none", "running", "ended"}] /\ \A k \in Launches : run'[k] = "none" <=> run[k] = "none"
      /\ \A k \in Launches : run'[k] = "running" => run[k] = "running" /\ k # l
  BY <1>1, <1>2, <1>3 DEF StagesHold
<1>5. StagesHold'
  <2>1. helper' \in [Launches -> ProcessStates]
    BY <1>1, <1>2 DEF StagesHold
  <2> QED BY <1>1, <1>2, <1>4, <2>1, StagesRemain
<1>6. DirectoriesHold'
  BY <1>1, <1>2 DEF DirectoriesHold
<1>7. HelpersHold'
  BY <1>1, <1>2, <1>k, HelpersRemain
<1>8. LogsHold'
  BY <1>1, <1>2, <1>4, <1>k, LogsRemain
<1>9. RunsHold'
  <2>1. launch[l].job \in Jobs /\ definition \in [Jobs -> {"idle", "prepared", "running"}]
    BY <1>1, LaunchFacts DEF LaunchState, RunsHold
  <2>2. definition' \in [Jobs -> {"idle", "prepared", "running"}] /\ \A j \in Jobs \ {launch[l].job} : definition'[j] = definition[j]
    BY <1>3, <2>1
  <2>3. ASSUME NEW k \in Launches, run'[k] = "running" PROVE definition'[launch'[k].job] = "running"
    <3>1. run[k] = "running" /\ k # l
      BY <1>4, <2>3
    <3>2. launch[k].job # launch[l].job /\ definition[launch[k].job] = "running"
      BY <1>1, <1>2, <3>1 DEF RunsHold
    <3>3. launch[k].job \in Jobs
      BY <1>1, LaunchFacts DEF LaunchState
    <3> QED BY <1>2, <2>2, <3>2, <3>3
  <2>4. \A m, k \in Launches : run'[m] = "running" /\ run'[k] = "running" /\ launch'[m].job = launch'[k].job => m = k
    BY <1>1, <1>2, <1>4 DEF RunsHold
  <2>5. \A k, m \in Launches :
          launch'[k].pc \in {"listed", "sweeping"} /\ run'[m] = "running" /\ m \notin unlisted'[k] => launch'[m].job \in launch'[k].listed
    BY <1>1, <1>2, <1>4 DEF RunsHold
  <2>6. scripts' \subseteq {"pre", "post"} /\ unlisted' \in [Launches -> SUBSET Launches]
    BY <1>1, <1>2 DEF RunsHold
  <2> QED BY <2>2, <2>3, <2>4, <2>5, <2>6 DEF RunsHold
<1> QED BY <1>5, <1>6, <1>7, <1>8, <1>9 DEF LaunchesHold

\* A restart ends the threads of the launches at work.
LEMMA RestartKeepsLaunches ==
  ASSUME LaunchesHold, Restart
  PROVE  LaunchesHold'
<1>1. StagesHold /\ DirectoriesHold /\ HelpersHold /\ LogsHold /\ RunsHold
  BY DEF LaunchesHold
<1>2. /\ UNCHANGED <<scripts, definition, run, dir, helper, relay, log, unlisted>> /\ beating' = {}
      /\ launch' = [l \in Launches |-> IF launch[l].pc \in Outcomes \cup {"idle"} THEN launch[l]
                                       ELSE AtStage(launch[l], "dead")]
  BY DEF Restart, core, host, AtStage
<1>3. ASSUME NEW k \in Launches
      PROVE  /\ launch'[k] \in LaunchState
             /\ launch'[k] = launch[k] \/ (launch[k].pc # "idle" /\ launch'[k].pc = "dead")
             /\ launch'[k].run = launch[k].run /\ launch'[k].job = launch[k].job /\ launch'[k].progress = launch[k].progress
             /\ StageHolds(launch'[k], run[k], helper[k], FALSE)
  <2>1. launch[k] \in LaunchState /\ StageHolds(launch[k], run[k], helper[k], k \in beating) /\ "dead" \in Stages
    BY <1>1, LaunchFacts DEF Stages, Outcomes
  <2>2. CASE launch'[k] = launch[k]
    BY <2>1, <2>2 DEF StageHolds
  <2>3. CASE launch'[k] # launch[k]
    <3>r. PICK r : r = AtStage(launch[k], "dead")
      OBVIOUS
    <3>1. launch'[k] = r /\ launch[k].pc # "idle"
      BY <1>2, <2>3, <3>r
    <3>2. r \in LaunchState /\ r.pc = "dead" /\ r.run = launch[k].run /\ r.job = launch[k].job
          /\ r.progress = launch[k].progress /\ r.todo = launch[k].todo
      BY <2>1, <3>r, AtStageFacts
    <3>3. StageHolds(r, run[k], helper[k], FALSE)
      BY <2>1, <3>2 DEF StageHolds, BeforeHelper, BeforeReply, Packaging
    <3> QED BY <3>1, <3>2, <3>3
  <2> QED BY <2>2, <2>3
<1>k. Kept
  BY <1>3 DEF Kept
<1>4. \A k \in Launches : launch'[k].pc # "dead" => launch'[k] = launch[k]
  BY <1>3
<1>5. StagesHold'
  <2>1. launch' \in [Launches -> LaunchState]
    BY <1>2, <1>3
  <2>2. \A k \in Launches : StageHolds(launch'[k], run'[k], helper'[k], k \in beating')
    <3>1. ASSUME NEW k \in Launches PROVE StageHolds(launch'[k], run'[k], helper'[k], k \in beating')
      <4>1. (k \in beating') = FALSE /\ run'[k] = run[k] /\ helper'[k] = helper[k]
        BY <1>2
      <4> QED BY <1>3, <4>1
    <3> QED BY <3>1
  <2> QED BY <1>1, <1>2, <2>1, <2>2 DEF StagesHold
<1>6. DirectoriesHold'
  BY <1>1, <1>2, <1>k, DirectoriesRemain DEF DirectoriesHold
<1>7. HelpersHold'
  <2>1. \A k \in Launches : launch'[k].pc \in WithHelper \cup {"failed"} => launch'[k] = launch[k]
    BY <1>4 DEF WithHelper, Packaging
  <2> QED BY <1>1, <1>2, <1>k, <2>1, HelpersRemain
<1>8. LogsHold'
  BY <1>1, <1>2, <1>4, <1>k, LogsRemain
<1>9. RunsHold'
  <2>1. \A k \in Launches : launch'[k].pc \in Looking => launch[k].pc \in Looking /\ launch'[k].listed = launch[k].listed
    BY <1>4 DEF Looking
  <2>2. definition' \in [Jobs -> {"idle", "prepared", "running"}] /\ \A j \in Jobs : definition[j] = "running" => definition'[j] = "running"
    BY <1>1, <1>2 DEF RunsHold
  <2> QED BY <1>1, <1>2, <1>k, <2>1, <2>2, RunsRemain
<1> QED BY <1>5, <1>6, <1>7, <1>8, <1>9 DEF LaunchesHold

LEMMA LaunchesStart ==
  ASSUME Init
  PROVE  LaunchesHold
<1>1. PICK request \in [Launches -> Requests] : launch = [l \in Launches |-> Waiting(request[l])]
  BY DEF Init
<1>2. ASSUME NEW l \in Launches
      PROVE  /\ launch[l] \in LaunchState /\ launch[l].pc = "idle" /\ launch[l].reply = "none" /\ ~launch[l].committed
             /\ launch[l].todo = {}
  <2>q. PICK q : q = request[l]
    OBVIOUS
  <2>1. q[1] \in Runs /\ q[2] \in Jobs /\ q[3] \in Progress
    BY <2>q DEF Requests
  <2>2. launch[l] = Waiting(q) /\ "idle" \in Stages /\ "none" \in Causes
    BY <1>1, <2>q DEF Stages, Causes
  <2> QED BY <2>1, <2>2 DEF Waiting, LaunchState
<1>3. /\ run = [l \in Launches |-> "none"] /\ helper = [l \in Launches |-> "none"] /\ relay = [l \in Launches |-> "none"]
      /\ beating = {} /\ dir = [r \in Runs |-> NoDirectory]
  BY DEF Init
<1>4. StagesHold
  <2>1. launch \in [Launches -> LaunchState]
    BY <1>1, <1>2
  <2>2. ASSUME NEW l \in Launches PROVE StageHolds(launch[l], run[l], helper[l], l \in beating)
    <3>1. run[l] = "none" /\ helper[l] = "none" /\ l \notin beating
      BY <1>3
    <3> QED BY <1>2, <3>1 DEF StageHolds
  <2> QED BY <1>3, <2>1, <2>2 DEF StagesHold, ProcessStates
<1>5. DirectoriesHold
  <2>1. NoDirectory \in Directory /\ NoDirectory.process = NoLaunch /\ NoDirectory.relay = NoLaunch /\ NoDirectory.job = NoJob
    BY DEF NoDirectory, Directory
  <2>2. \A r \in Runs : NamesHold(r, dir[r], launch)
    BY <1>3, <2>1 DEF NamesHold
  <2> QED BY <1>3, <2>1, <2>2 DEF DirectoriesHold, ProcessStates
<1>6. HelpersHold
  BY <1>3 DEF HelpersHold
<1>7. LogsHold
  <2>1. log = [p \in Progress |-> [terminal |-> "none", latest |-> NoEvent]]
    BY DEF Init
  <2>2. [terminal |-> "none", latest |-> NoEvent] \in Logs
    BY DEF Logs, Events, NoEvent, Phases, Statuses
  <2>3. \A p \in Progress : log[p].terminal = "none"
    BY <2>1
  <2>4. \A l \in Launches : launch[l].pc \notin {"answered", "failed"}
    BY <1>2
  <2> QED BY <2>1, <2>2, <2>3, <2>4 DEF LogsHold
<1>8. RunsHold
  <2>1. scripts \subseteq {"pre", "post"} /\ definition = [j \in Jobs |-> "idle"] /\ unlisted = [l \in Launches |-> {}]
    BY DEF Init
  <2> QED BY <1>3, <2>1 DEF RunsHold
<1> QED BY <1>4, <1>5, <1>6, <1>7, <1>8 DEF LaunchesHold

LEMMA LaunchesRest ==
  ASSUME LaunchesHold, UNCHANGED vars
  PROVE  LaunchesHold'
<1>1. StagesHold /\ DirectoriesHold /\ HelpersHold /\ LogsHold /\ RunsHold
  BY DEF LaunchesHold
<1>2. /\ UNCHANGED <<scripts, definition, run, launch, log, beating, unlisted>>
      /\ UNCHANGED <<helper, relay, dir>>
  BY DEF vars, core, host
<1> QED BY <1>1, <1>2, HostKeeps DEF StagesHold, DirectoriesHold

\* Each step of a launch is a passage, an ending or one of the others.
LEMMA ServeSteps ==
  ASSUME NEW l \in Launches, Accept(l) \/ Serve(l)
  PROVE  \/ \/ Accept(l) \/ InputsValid(l) \/ HardwareFound(l) \/ ModelsDeferred(l) \/ Swept(l) \/ SkipHelper(l)
            \/ RecordHelper(l) \/ HelperReady(l) \/ Validated(l) \/ ReadPackage(l) \/ ResolveWorkflow(l)
            \/ PlaceWorkflow(l) \/ PrepareEnvironments(l) \/ Packaged(l) \/ MapRun(l)
         \/ \/ Refuse(l) \/ HardwareMissing(l) \/ ModelsRefused(l) \/ SpawnFails(l) \/ RecordFails(l) \/ HelperFails(l)
            \/ ValidationFails(l) \/ Raises(l) \/ PackagingFails(l)
            \/ NotAccepted(l) \/ StartFails(l) \/ MapFails(l) \/ Answer(l)
         \/ \/ ListJobs(l) \/ ListDirectories(l) \/ (\E r \in Runs : Sweep(l, r)) \/ SpawnHelper(l) \/ SubmitReturns(l)
            \/ Accepted(l) \/ StartRun(l)
BY DEF Serve

LEMMA ServeKinds ==
  ASSUME LaunchesHold, NEW l \in Launches, Accept(l) \/ Serve(l)
  PROVE  \/ Passing(l)
         \/ Ending(l)
         \/ \/ ListJobs(l) \/ ListDirectories(l) \/ (\E r \in Runs : Sweep(l, r)) \/ SpawnHelper(l) \/ SubmitReturns(l)
            \/ Accepted(l) \/ StartRun(l)
<1>1. StagesHold /\ DirectoriesHold
  BY DEF LaunchesHold
<1>2. CASE \/ Accept(l) \/ InputsValid(l) \/ HardwareFound(l) \/ ModelsDeferred(l) \/ Swept(l) \/ SkipHelper(l)
           \/ RecordHelper(l) \/ HelperReady(l) \/ Validated(l) \/ ReadPackage(l) \/ ResolveWorkflow(l)
           \/ PlaceWorkflow(l) \/ PrepareEnvironments(l) \/ Packaged(l) \/ MapRun(l)
  <2>1. Passing(l)
    BY <1>1, <1>2, PassingSteps
  <2> QED BY <2>1
<1>3. CASE \/ Refuse(l) \/ HardwareMissing(l) \/ ModelsRefused(l) \/ SpawnFails(l) \/ RecordFails(l) \/ HelperFails(l)
           \/ ValidationFails(l) \/ Raises(l) \/ PackagingFails(l)
           \/ NotAccepted(l) \/ StartFails(l) \/ MapFails(l) \/ Answer(l)
  <2>1. Ending(l)
    BY <1>1, <1>3, EndingSteps
  <2> QED BY <2>1
<1> QED BY <1>2, <1>3, ServeSteps

LEMMA LaunchesGoOn ==
  ASSUME LaunchesHold, Next
  PROVE  LaunchesHold'
<1>1. CASE Restart
  BY <1>1, RestartKeepsLaunches
<1>2. ASSUME NEW r \in Runs, Age(r) PROVE LaunchesHold'
  <2>1. UNCHANGED <<scripts, definition, run, launch, log, beating, unlisted, helper, relay>>
    BY <1>2 DEF Age, core
  <2>2. StagesHold /\ DirectoriesHold
    BY DEF LaunchesHold
  <2>e. PICK e : e = dir[r]
    OBVIOUS
  <2>g. PICK g : g = [e EXCEPT !.aged = TRUE]
    OBVIOUS
  <2>3. e \in Directory /\ dir \in [Runs -> Directory]
    BY <2>2, <2>e DEF DirectoriesHold
  <2>4. g \in Directory /\ g.process = e.process /\ g.relay = e.relay /\ g.job = e.job
    BY <2>3, <2>g DEF Directory
  <2>5. dir' = [dir EXCEPT ![r] = g]
    BY <1>2, <2>e, <2>g DEF Age
  <2>6. dir' \in [Runs -> Directory]
        /\ \A q \in Runs : dir'[q].process = dir[q].process /\ dir'[q].relay = dir[q].relay /\ dir'[q].job = dir[q].job
    BY <2>3, <2>4, <2>5, <2>e
  <2> QED BY <2>1, <2>2, <2>6, HostKeeps DEF StagesHold, DirectoriesHold
<1>3. ASSUME NEW l \in Launches,
             Accept(l) \/ Serve(l) \/ Heartbeat(l) \/ HelperSignals(l) \/ HelperExits(l) \/ RelayExits(l) \/ RunEnds(l)
      PROVE  LaunchesHold'
  <2>1. CASE Accept(l) \/ Serve(l)
    BY <2>1, ServeKinds, PassingKeeps, EndingKeeps, WorkingKeeps
  <2>2. CASE Heartbeat(l)
    BY <2>2, HeartbeatKeeps
  <2>3. CASE RunEnds(l)
    BY <2>3, RunEndsKeeps
  <2>4. CASE HelperSignals(l) \/ HelperExits(l) \/ RelayExits(l)
    BY <2>4, HostSteps
  <2> QED BY <1>3, <2>1, <2>2, <2>3, <2>4
<1> QED BY <1>1, <1>2, <1>3 DEF Next

\* What the launches rely on always holds.
THEOREM LaunchInductive == BlueprintSpec => []LaunchesHold
<1>1. BlueprintInit => LaunchesHold
  BY LaunchesStart DEF BlueprintInit
<1>2. LaunchesHold /\ [BlueprintNext]_BlueprintVars => LaunchesHold'
  <2> SUFFICES ASSUME LaunchesHold, [BlueprintNext]_BlueprintVars
               PROVE  LaunchesHold'
    OBVIOUS
  <2>1. CASE Next
    BY <2>1, LaunchesGoOn
  <2>2. CASE UNCHANGED vars
    BY <2>2, LaunchesRest
  <2> QED BY <2>1, <2>2 DEF BlueprintNext, BlueprintVars
<1> QED BY <1>1, <1>2, PTL DEF BlueprintSpec

\* Launches, directories, processes and Core's Jobs keep their types, and every launch is at one
\* of the stages of the handler.
THEOREM LaunchesAreTyped == BlueprintSpec => []TypeOK
<1>1. LaunchesHold => TypeOK
  <2> SUFFICES ASSUME LaunchesHold PROVE TypeOK
    OBVIOUS
  <2>1. StagesHold /\ DirectoriesHold /\ HelpersHold /\ LogsHold /\ RunsHold
    BY DEF LaunchesHold
  <2>2. ASSUME NEW l \in Launches
        PROVE  /\ launch[l].pc \in Stages
               /\ Run(l) \in Runs /\ launch[l].job \in Jobs /\ launch[l].progress \in Progress
               /\ launch[l].listed \subseteq Jobs /\ launch[l].todo \subseteq Runs
    BY <2>1, LaunchFacts DEF LaunchState, Run
  <2>3. \A p \in Progress : log[p].terminal \in {"none", "completed", "failed"}
    BY <2>1 DEF LogsHold, Logs
  <2>4. /\ scripts \subseteq {"pre", "post"} /\ definition \in [Jobs -> {"idle", "prepared", "running"}]
        /\ unlisted \in [Launches -> SUBSET Launches]
    BY <2>1 DEF RunsHold
  <2>5. /\ run \in [Launches -> {"none", "running", "ended"}] /\ helper \in [Launches -> ProcessStates]
        /\ beating \subseteq Launches
    BY <2>1 DEF StagesHold
  <2>6. /\ dir \in [Runs -> [made : BOOLEAN, hook : BOOLEAN, process : Launches \cup {NoLaunch}, ready : BOOLEAN,
                              relay : Launches \cup {NoLaunch}, job : Jobs \cup {NoJob}, aged : BOOLEAN]]
        /\ relay \in [Launches -> ProcessStates]
    BY <2>1 DEF DirectoriesHold, Directory
  <2>7. \A l \in Launches :
          launch[l].pc \in Outcomes \cup {"idle", "accepted", "requirements", "models",
             "listing", "listed", "sweeping", "pre_launch", "spawned", "waiting", "validating",
             "submitting", "joining", "starting", "mapping", "relaying"} \cup Packaging
    BY <2>2 DEF Stages
  <2> QED BY <2>2, <2>3, <2>4, <2>5, <2>6, <2>7 DEF TypeOK
<1> QED BY <1>1, LaunchInductive, PTL

\* A progress that says completed is of a launch whose run Core started, whoever shares it
\* (blueprint_launch.py:1072-1131).
THEOREM ProgressTellsTheTruth == BlueprintSpec => []ProgressIsTruthful
<1>1. LaunchesHold => ProgressIsTruthful
  BY LogsFacts DEF LaunchesHold, ProgressIsTruthful, Status, Completed
<1> QED BY <1>1, LaunchInductive, PTL

\* Nothing is recorded after the outcome of a launch that has its progress for itself and that no
\* exception of the hardware's check, the sweep or the validation has ended
\* (launch_progress.py:99-145, blueprint_launch.py:1055-1071).
THEOREM OutcomesAreLast == BlueprintSpec => []ReportingEnds
<1>1. LaunchesHold => ReportingEnds
  BY LogsFacts DEF LaunchesHold, ReportingEnds, OwnLog, Reported, Completed, At
<1> QED BY <1>1, LaunchInductive, PTL

\* A launch that failed before Core could have taken its definition, and used its directory alone,
\* has left no helper running, unless the helper's file could not be written, when nothing names it
\* to the cleanup, or the validation raised (blueprint_launch.py:868-1034 and 1132-1152,
\* blueprints.py:1928-1948).
THEOREM FailuresLeaveNoHelper == BlueprintSpec => []FailureLeavesNoHelper
<1>1. LaunchesHold => FailureLeavesNoHelper
  BY HelpersFacts DEF LaunchesHold, FailureLeavesNoHelper, At, Unstopped
<1> QED BY <1>1, LaunchInductive, PTL

\* Who stops a helper was told its launch by the directory that both have used, or sweeps it.
LEMMA EndingSpares ==
  ASSUME LaunchesHold, NEW k \in Launches, Ending(k), NEW l \in Launches, MayRun(l),
         helper[l] = "running", helper'[l] = "stopped"
  PROVE  Sharing(l) # {}
<1>1. StagesHold /\ DirectoriesHold
  BY DEF LaunchesHold
<1>2. k # l /\ launch[k].pc # "idle"
  BY DEF Ending
<1>d. PICK d : d = dir[Run(k)].process
  OBVIOUS
<1>p. PICK p : p = Stopped(helper, k)
  OBVIOUS
<1>3. helper' \in {helper, Stopped(helper, d), Stopped(p, d)}
  BY <1>d, <1>p DEF Ending
<1>4. helper \in [Launches -> ProcessStates]
  BY <1>1 DEF StagesHold
<1>5. p \in [Launches -> ProcessStates] /\ p[l] = helper[l]
  BY <1>2, <1>4, <1>p, StoppedFacts
<1>6. l # d => Stopped(helper, d)[l] = helper[l] /\ Stopped(p, d)[l] = p[l]
  BY <1>4, <1>5, StoppedFacts
<1>7. l = d
  BY <1>3, <1>5, <1>6
<1>8. Run(k) \in Runs
  BY <1>1, OwnDirectory
<1>9. launch[l].run = Run(k)
  BY <1>1, <1>7, <1>8, <1>d, LaunchAssumption DEF DirectoriesHold, NamesHold
<1>10. k \in Sharing(l)
  BY <1>2, <1>9 DEF Sharing, Run, At
<1> QED BY <1>10

LEMMA SweepSpares ==
  ASSUME LaunchesHold, NEW k \in Launches, NEW d \in Runs, Sweep(k, d), NEW l \in Launches,
         helper[l] = "running", helper'[l] = "stopped"
  PROVE  /\ k # l /\ At(k, "sweeping") /\ Run(l) = d /\ d \in launch[k].todo \ launch'[k].todo
         /\ IF dir[d].job = NoJob THEN dir[d].aged ELSE dir[d].job \notin launch[k].listed
<1>1. StagesHold /\ DirectoriesHold
  BY DEF LaunchesHold
<1>t. helper \in [Launches -> ProcessStates] /\ launch \in [Launches -> LaunchState] /\ launch[k] \in LaunchState
  BY <1>1 DEF StagesHold
<1>2. helper' = Stopped(helper, dir[d].process) /\ Stale(k, d)
  BY DEF Sweep, CleanupRun, host
<1>3. l = dir[d].process
  BY <1>t, <1>2, StoppedFacts
<1>4. Run(l) = d
  BY <1>1, <1>3, LaunchAssumption DEF DirectoriesHold, NamesHold, Run
<1>5. At(k, "sweeping") /\ d \in launch[k].todo /\ launch' = [launch EXCEPT ![k].todo = @ \ {d}]
  BY DEF Sweep
<1>6. launch'[k].todo = launch[k].todo \ {d}
  BY <1>t, <1>5 DEF LaunchState
<1>7. Run(k) \notin launch[k].todo
  BY <1>1, LaunchFacts DEF StageHolds, Run
<1>8. IF dir[d].job = NoJob THEN dir[d].aged ELSE dir[d].job \notin launch[k].listed
  BY <1>2 DEF Stale
<1> QED BY <1>4, <1>5, <1>6, <1>7, <1>8

\* Until the run of a launch has ended, its helper is stopped by another user of its directory or
\* by a sweep that may: of a directory whose Job was not on the page of active ones it had read, or
\* of an unmapped one left alone for two minutes (blueprint_launch.py:837-859 and 1132-1138, blueprints.py:2643-2670).
THEOREM CommittedLaunchesAreSpared == BlueprintSpec => CommittedIsSpared
<1>1. ASSUME LaunchesHold, Next, NEW l \in Launches, MayRun(l), helper[l] = "running", helper'[l] = "stopped"
      PROVE  \/ Sharing(l) # {}
             \/ \E k \in Launches \ {l} :
                  /\ At(k, "sweeping") /\ Run(l) \in launch[k].todo \ launch'[k].todo
                  /\ IF dir[Run(l)].job = NoJob THEN dir[Run(l)].aged ELSE dir[Run(l)].job \notin launch[k].listed
  <2>t. helper \in [Launches -> ProcessStates]
    BY <1>1 DEF LaunchesHold, StagesHold
  <2>1. CASE \E k \in Launches : Accept(k) \/ Serve(k)
    <3>1. PICK k \in Launches : Accept(k) \/ Serve(k)
      BY <2>1
    <3>2. CASE Passing(k)
      BY <1>1, <3>2 DEF Passing
    <3>3. CASE Ending(k)
      BY <1>1, <3>3, EndingSpares
    <3>4. ASSUME NEW d \in Runs, Sweep(k, d)
          PROVE  \E m \in Launches \ {l} :
                   /\ At(m, "sweeping") /\ Run(l) \in launch[m].todo \ launch'[m].todo
                   /\ IF dir[Run(l)].job = NoJob THEN dir[Run(l)].aged ELSE dir[Run(l)].job \notin launch[m].listed
      BY <1>1, <3>4, SweepSpares
    <3>5. CASE ListJobs(k) \/ ListDirectories(k) \/ SpawnHelper(k) \/ SubmitReturns(k) \/ Accepted(k) \/ StartRun(k)
      BY <1>1, <2>t, <3>5 DEF ListJobs, ListPage, Listed, ListDirectories, SpawnHelper, SubmitReturns, Accepted, StartRun, host
    <3> QED BY <1>1, <3>1, <3>2, <3>3, <3>4, <3>5, ServeKinds
  <2>2. CASE \E k \in Launches : Heartbeat(k) \/ HelperSignals(k) \/ RelayExits(k) \/ RunEnds(k)
    BY <1>1, <2>2 DEF Heartbeat, HelperSignals, RelayExits, RunEnds, host
  <2>3. CASE \E k \in Launches : HelperExits(k)
    BY <1>1, <2>t, <2>3 DEF HelperExits
  <2>4. CASE Restart \/ \E r \in Runs : Age(r)
    BY <1>1, <2>4 DEF Restart, Age, host
  <2> QED BY <1>1, <2>1, <2>2, <2>3, <2>4 DEF Next
<1>2. LaunchesHold /\ [BlueprintNext]_BlueprintVars =>
        [\A l \in Launches :
           MayRun(l) /\ run[l] # "ended" /\ helper[l] = "running" /\ helper'[l] = "stopped" =>
             \/ Sharing(l) # {}
             \/ \E k \in Launches \ {l} :
                  /\ At(k, "sweeping") /\ Run(l) \in launch[k].todo \ launch'[k].todo
                  /\ IF dir[Run(l)].job = NoJob THEN dir[Run(l)].aged ELSE dir[Run(l)].job \notin launch[k].listed]_vars
  BY <1>1 DEF BlueprintNext, BlueprintVars
<1> QED BY <1>2, LaunchInductive, PTL DEF BlueprintSpec, CommittedIsSpared

\* The only steps of a launch that shorten what it has to sweep.
LEMMA TodoSteps ==
  ASSUME LaunchesHold, Next, NEW k \in Launches, At(k, "sweeping"), NEW d \in launch[k].todo \ launch'[k].todo
  PROVE  Sweep(k, d)
<1>1. StagesHold /\ DirectoriesHold
  BY DEF LaunchesHold
<1>t. launch \in [Launches -> LaunchState]
  BY <1>1 DEF StagesHold
<1>2. ASSUME NEW l \in Launches, Accept(l) \/ Serve(l) PROVE Sweep(k, d)
  <2>1. CASE l # k
    <3>1. \E r : Replaced(l, r)
      BY <1>1, <1>2, ServeKinds, PassingStepsHold, EndingStepsHold, WorkingSteps DEF Working
    <3>2. launch'[k] = launch[k]
      BY <1>1, <2>1, <3>1, ReplacedKept
    <3> QED BY <3>2
  <2>2. CASE l = k
    <3>1. CASE Passing(k)
      <4>1. PICK to : Becomes(k, to)
        BY <3>1 DEF Passing
      <4>2. launch'[k].todo = launch[k].todo
        BY <1>t, <4>1 DEF Becomes, LaunchState
      <4> QED BY <4>2
    <3>2. CASE Ending(k)
      <4>1. PICK outcome, cause : Ends(k, outcome, cause)
        BY <3>2 DEF Ending, EndingWith
      <4>2. launch'[k].todo = launch[k].todo
        BY <1>t, <4>1 DEF Ends, LaunchState
      <4> QED BY <4>2
    <3>3. CASE ListJobs(k) \/ ListDirectories(k) \/ SpawnHelper(k) \/ SubmitReturns(k) \/ Accepted(k) \/ StartRun(k)
      BY <3>3 DEF ListJobs, ListPage, Listed, ListDirectories, SpawnHelper, SubmitReturns, Accepted, StartRun, At
    <3>4. ASSUME NEW r \in Runs, Sweep(k, r) PROVE Sweep(k, d)
      <4>1. launch' = [launch EXCEPT ![k].todo = @ \ {r}]
        BY <3>4 DEF Sweep
      <4>2. launch'[k].todo = launch[k].todo \ {r}
        BY <1>t, <4>1 DEF LaunchState
      <4>3. r = d
        BY <4>2
      <4> QED BY <3>4, <4>3
    <3> QED BY <1>2, <2>2, <3>1, <3>2, <3>3, <3>4, ServeKinds
  <2> QED BY <2>1, <2>2
<1>3. CASE Restart
  <2>1. launch'[k].todo = launch[k].todo
    BY <1>t, <1>3 DEF Restart, LaunchState
  <2> QED BY <2>1
<1>4. CASE (\E r \in Runs : Age(r))
           \/ \E l \in Launches : Heartbeat(l) \/ HelperSignals(l) \/ HelperExits(l) \/ RelayExits(l) \/ RunEnds(l)
  BY <1>4 DEF Age, Heartbeat, HelperSignals, HelperExits, RelayExits, RunEnds
<1> QED BY <1>2, <1>3, <1>4 DEF Next

\* The helper and the relay of a mapped run survive a sweep that found its Job on the one page of
\* Jobs it reads, or had no answer, when no other launch uses their directory
\* (blueprints.py:2651-2670, blueprint_launch.py:1616-1628).
THEOREM SweepsSpareRunning == BlueprintSpec => SweepSparesRunning
<1>1. ASSUME LaunchesHold, Next, NEW k \in Launches, NEW l \in Launches,
             At(k, "sweeping"), Run(l) \in launch[k].todo \ launch'[k].todo,
             run[l] = "running", l \notin unlisted[k], Alone(l), dir[Run(l)].job # NoJob
      PROVE  helper'[l] = helper[l] /\ relay'[l] = relay[l]
  <2>1. Sweep(k, Run(l))
    BY <1>1, TodoSteps
  <2>2. launch[l].job \in launch[k].listed
    BY <1>1 DEF LaunchesHold, RunsHold, At
  <2>3. dir[Run(l)].job = launch[l].job
    <3>1. DirectoriesHold /\ Run(l) \in Runs
      BY <1>1, OwnDirectory DEF LaunchesHold
    <3>2. PICK m \in Launches : launch[m].run = Run(l) /\ launch[m].pc # "idle" /\ launch[m].job = dir[Run(l)].job
      BY <1>1, <3>1 DEF DirectoriesHold, NamesHold
    <3>3. m = l
      BY <1>1, <3>2 DEF Alone, Sharing, Run, At
    <3> QED BY <3>2, <3>3
  <2>4. ~Stale(k, Run(l))
    BY <1>1, <2>2, <2>3 DEF Stale
  <2>5. UNCHANGED host
    BY <2>1, <2>4 DEF Sweep
  <2> QED BY <2>5 DEF host
<1>2. LaunchesHold /\ [BlueprintNext]_BlueprintVars =>
        [\A k, l \in Launches :
           /\ At(k, "sweeping") /\ Run(l) \in launch[k].todo \ launch'[k].todo
           /\ run[l] = "running" /\ l \notin unlisted[k] /\ Alone(l) /\ dir[Run(l)].job # NoJob
           => helper'[l] = helper[l] /\ relay'[l] = relay[l]]_vars
  BY <1>1 DEF BlueprintNext, BlueprintVars
<1> QED BY <1>2, LaunchInductive, PTL DEF BlueprintSpec, SweepSparesRunning
=============================================================================
