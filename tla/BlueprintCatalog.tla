----------------------------- MODULE BlueprintCatalog -----------------------------
(***************************************************************************)
(* What a computer keeps of its blueprints and their models: additions     *)
(* (mn_api/blueprint_additions.py), removals (mn_api/blueprint_launch.py), *)
(* model installations (mn_api/model_installation.py over                  *)
(* mn_api/blueprints.py) and registrations of remote models and proxies    *)
(* (routes/v1/infrastructure.py, routes/models.py).                        *)
(*                                                                         *)
(* Each is a thread of its own; none of the files and gateways they share  *)
(* is locked across two steps.  The ownership ledger, the model registry   *)
(* and the gateways are the SDK's: one call of theirs is one step.         *)
(***************************************************************************)
EXTENDS FiniteSets

CONSTANTS
  Tasks,        \* operations, each started once
  Blueprints, Models,
  Nodes, Here,  \* computers, and this one
  Nobody

VARIABLES
  record,     \* the addition that wrote each blueprint's record
  archived,   \* the additions whose record each blueprint's archive holds
  owners,     \* ownership ledger: the blueprints that claim each model
  manual,     \* ownership ledger: the models that were installed by hand
  placed,     \* the computers that hold each model
  registry,   \* the operation that wrote each model's registration
  route,      \* the computer each gateway sends a model's requests to
  task,
  superseded, \* additions whose record another operation replaced, or dropped unread (history)
  prepared    \* the computers that ever held each model (history)

files == <<record, archived>>
ledger == <<owners, manual>>
serving == <<registry, route>>
history == <<superseded, prepared>>
vars == <<files, ledger, placed, serving, task, history>>

ModelKinds == {"install model", "register", "deregister"}
Kinds == {"add", "remove", "install blueprint"} \cup ModelKinds
ModelChoices == {"keep", "remove"}   \* a report of the orphans keeps them, too

Idle == [pc |-> "idle", kind |-> "none", blueprint |-> Nobody, model |-> Nobody, choice |-> "keep",
         found |-> Nobody, orphans |-> {}, late |-> {}, node |-> Here, eligible |-> {}, todo |-> {}]

Init ==
  /\ record = [b \in Blueprints |-> Nobody]
  /\ archived = [b \in Blueprints |-> {}]
  /\ owners = [m \in Models |-> {}]
  /\ manual \in SUBSET Models
  /\ placed = [m \in Models |-> {}]
  /\ registry = [m \in Models |-> Nobody]
  /\ route = [n \in Nodes |-> [m \in Models |-> Nobody]]
  /\ task = [t \in Tasks |-> Idle]
  /\ superseded = {}
  /\ prepared = [m \in Models |-> {}]

At(t, kind, pc) == task[t].kind = kind /\ task[t].pc = pc
Installing(t, pc) == At(t, "install blueprint", pc) \/ At(t, "install model", pc)
Blueprint(t) == task[t].blueprint
Model(t) == task[t].model
Over == {"done", "failed", "dead"}
Becomes(t, pc) == task' = [task EXCEPT ![t].pc = pc]
Running(t) == task[t].pc \notin Over \cup {"idle"}

\* What an operation names: a blueprint, a model, or a blueprint and one model it requires.
Start(t, kind, b, m, choice) ==
  /\ task[t].pc = "idle"
  /\ (b = Nobody) = (kind \in ModelKinds) /\ (m = Nobody) = (kind \in {"add", "remove"})
  /\ kind # "remove" => choice = "keep"
  /\ task' = [task EXCEPT ![t].pc = "started", ![t].kind = kind, ![t].blueprint = b, ![t].model = m,
                          ![t].choice = choice]
  /\ UNCHANGED <<files, ledger, placed, serving, history>>

\* A step raises, or reports errors, before it has changed anything.
Fails(t) ==
  /\ Running(t)
  /\ Becomes(t, "failed")
  /\ UNCHANGED <<files, ledger, placed, serving, history>>

-----------------------------------------------------------------------------
(* Additions *)

Moves(t, from, to) ==
  /\ task[t].pc = from
  /\ Becomes(t, to)
  /\ UNCHANGED <<files, ledger, placed, serving, history>>

FindBlueprint(t) ==
  /\ task[t].kind \in {"add", "install blueprint"}
  /\ Moves(t, "started", "found")

ValidateBundle(t) ==
  /\ task[t].kind \in {"add", "install blueprint"}
  /\ Moves(t, "found", "validated")

\* The requirements are checked; models are installed on their first use.
DeferModels(t) ==
  /\ task[t].kind = "add"
  /\ Moves(t, "validated", "planned")

\* The context engine is a service of the host; asking for it again is harmless.
EnsureContextEngine(t) ==
  \/ task[t].kind = "add" /\ Moves(t, "planned", "ready")
  \/ task[t].kind = "install blueprint" /\ Moves(t, "claimed", "routing")

PrepareSkills(t) ==
  /\ task[t].kind = "add"
  /\ Moves(t, "ready", "recording")

\* A temporary file takes the record's place in one step.
WriteRecord(t) ==
  LET b == Blueprint(t) IN
  /\ At(t, "add", "recording")
  /\ record' = [record EXCEPT ![b] = t]
  /\ superseded' = superseded \cup ({record[b]} \ {Nobody})
  /\ Becomes(t, "done")
  /\ UNCHANGED <<archived, ledger, placed, serving, prepared>>

-----------------------------------------------------------------------------
(* Removals *)

\* A dry run projects the orphans and changes nothing.
PlanRemoval(t) ==
  /\ task[t].kind = "remove"
  /\ Moves(t, "started", "done")

\* A record that cannot be read counts as none.
ReadRecord(t) ==
  /\ At(t, "remove", "started")
  /\ \E found \in {record[Blueprint(t)], Nobody} : task' = [task EXCEPT ![t].pc = "read", ![t].found = found]
  /\ UNCHANGED <<files, ledger, placed, serving, history>>

\* Mutant: the record is unlinked before its archive is written.
UnlinkFirst(t) ==
  /\ At(t, "remove", "read")
  /\ record' = [record EXCEPT ![Blueprint(t)] = Nobody]
  /\ Becomes(t, "archived")
  /\ UNCHANGED <<archived, ledger, placed, serving, history>>

\* The archive's file is named by the second: a removal writes over the file of an earlier one of
\* the same second.  A write that is cut short leaves nothing in it and ends the removal.
Archive(t) ==
  LET b == Blueprint(t) IN
  /\ At(t, "remove", "read")
  /\ \E over \in archived[b] \cup {Nobody}, whole \in BOOLEAN :
       /\ archived' = [archived EXCEPT ![b] = (@ \ {over}) \cup (IF whole THEN {task[t].found} \ {Nobody} ELSE {})]
       /\ Becomes(t, IF whole THEN "archived" ELSE "failed")
  /\ superseded' = superseded \cup (archived[b] \ archived'[b])
  /\ UNCHANGED <<record, ledger, placed, serving, prepared>>

\* Whatever the record is by now goes.
Unlink(t) ==
  LET b == Blueprint(t) IN
  /\ At(t, "remove", "archived")
  /\ record' = [record EXCEPT ![b] = Nobody]
  /\ superseded' = IF record[b] # task[t].found THEN superseded \cup ({record[b]} \ {Nobody}) ELSE superseded
  /\ Becomes(t, "unlinked")
  /\ UNCHANGED <<archived, ledger, placed, serving, prepared>>

\* The blueprint's resources, unless they are kept; what they are is the SDK's.
CleanResources(t) == task[t].kind = "remove" /\ Moves(t, "unlinked", "cleaned")

Unclaimed(m, b) == owners[m] \subseteq {b} /\ m \notin manual

\* Mutant: whatever the blueprint claimed counts as an orphan.
ReleaseAll(t) ==
  LET b == Blueprint(t) IN
  /\ At(t, "remove", "cleaned")
  /\ owners' = [m \in Models |-> owners[m] \ {b}]
  /\ task' = [task EXCEPT ![t].pc = IF task[t].choice = "remove" THEN "purging" ELSE "done",
                          ![t].orphans = {m \in Models : b \in owners[m]}]
  /\ UNCHANGED <<files, manual, placed, serving, history>>

\* The claim is dropped; the models that nobody claims any more are reported or removed.
Release(t) ==
  LET b == Blueprint(t) IN
  /\ At(t, "remove", "cleaned")
  /\ owners' = [m \in Models |-> owners[m] \ {b}]
  /\ task' = [task EXCEPT ![t].pc = IF task[t].choice = "remove" THEN "purging" ELSE "done",
                          ![t].orphans = {m \in Models : b \in owners[m] /\ Unclaimed(m, b)}]
  /\ UNCHANGED <<files, manual, placed, serving, history>>

PurgeModel(t, m) ==
  /\ At(t, "remove", "purging") /\ m \in task[t].orphans
  /\ placed' = [placed EXCEPT ![m] = @ \ {Here}]
  /\ Becomes(t, "purged")
  /\ UNCHANGED <<files, ledger, serving, history>>

\* The model's entry of the ledger goes, with any claim it has got meanwhile.
ForgetModel(t, m) ==
  /\ At(t, "remove", "purged") /\ m \in task[t].orphans
  /\ owners' = [owners EXCEPT ![m] = {}]
  /\ task' = [task EXCEPT ![t].pc = "purging", ![t].orphans = @ \ {m}]
  /\ UNCHANGED <<files, manual, placed, serving, history>>

Purged(t) == At(t, "remove", "purging") /\ task[t].orphans = {} /\ Moves(t, "purging", "done")

-----------------------------------------------------------------------------
(* Installations: of a model, and of a blueprint's model *)

Placing(t) == At(t, "install blueprint", "validated") \/ At(t, "install model", "started")

\* A computer that can hold the model, by the report of its Core, or this one.
Place(t) ==
  /\ Placing(t)
  /\ \E n \in Nodes : task' = [task EXCEPT ![t].pc = "placed", ![t].node = n]
  /\ UNCHANGED <<files, ledger, placed, serving, history>>

\* The computer prepares the model; its reply may be lost.
Prepare(t) ==
  /\ Installing(t, "placed")
  /\ placed' = [placed EXCEPT ![Model(t)] = @ \cup {task[t].node}]
  /\ prepared' = [prepared EXCEPT ![Model(t)] = @ \cup {task[t].node}]
  /\ \/ Becomes(t, IF task[t].kind = "install model" THEN "routing" ELSE "prepared")
     \/ Becomes(t, "failed")
  /\ UNCHANGED <<files, ledger, serving, superseded>>

\* A blueprint's claim; removals under way take note of it for the property.
Claim(t) ==
  LET b == Blueprint(t) IN
  /\ At(t, "install blueprint", "prepared")
  /\ owners' = [owners EXCEPT ![Model(t)] = @ \cup {b}]
  /\ task' = [k \in Tasks |-> IF k = t THEN [task[k] EXCEPT !.pc = "claimed"]
                              ELSE IF task[k].pc \in {"purging", "purged"} THEN [task[k] EXCEPT !.late = @ \cup {b}]
                              ELSE task[k]]
  /\ UNCHANGED <<files, manual, placed, serving, history>>

\* A model that this computer holds is reached here, another one at its computer.  What this
\* computer's own gateway answers is not looked at: it may not have taken the route.
RouteHere(t) ==
  /\ Installing(t, "routing")
  /\ route' = [route EXCEPT ![Here][Model(t)] = task[t].node] \/ UNCHANGED route
  /\ Becomes(t, "listing") \/ Becomes(t, "failed")
  /\ UNCHANGED <<files, ledger, placed, registry, history>>

\* The other computers that Core calls healthy, neither draining nor in maintenance.
ListNodes(t) ==
  /\ Installing(t, "listing")
  /\ \E eligible \in SUBSET (Nodes \ {Here}) :
       task' = [task EXCEPT ![t].pc = "fanning", ![t].eligible = eligible, ![t].todo = eligible]
  /\ UNCHANGED <<files, ledger, placed, serving, history>>

\* Mutant: a gateway that does not accept the route is passed over.
RouteOnOrSkip(t, n) ==
  /\ Installing(t, "fanning") /\ n \in task[t].todo
  /\ route' = [route EXCEPT ![n][Model(t)] = task[t].node] \/ UNCHANGED route
  /\ task' = [task EXCEPT ![t].todo = @ \ {n}]
  /\ UNCHANGED <<files, ledger, placed, registry, history>>

\* Every other gateway has to accept; the first that does not ends the installation midway.
RouteOn(t, n) ==
  /\ Installing(t, "fanning") /\ n \in task[t].todo
  /\ \/ /\ route' = [route EXCEPT ![n][Model(t)] = task[t].node]
        /\ \/ task' = [task EXCEPT ![t].todo = @ \ {n}]
           \/ Becomes(t, "failed")
     \/ UNCHANGED route /\ Becomes(t, "failed")
  /\ UNCHANGED <<files, ledger, placed, registry, history>>

Routed(t) ==
  /\ task[t].todo = {}
  /\ \/ task[t].kind = "install blueprint" /\ Moves(t, "fanning", "done")
     \/ task[t].kind = "install model" /\ Moves(t, "fanning", "routed")

-----------------------------------------------------------------------------
(* The registry: an installation adds what is missing; remote models and proxies are *)
(* added or replaced.                                                                 *)

Registering(t) == At(t, "install model", "routed") \/ At(t, "register", "started")

LookUp(t) ==
  /\ Registering(t)
  /\ task' = [task EXCEPT ![t].found = registry[Model(t)],
       ![t].pc = IF task[t].kind = "install model" /\ registry[Model(t)] # Nobody THEN "done" ELSE "registering"]
  /\ UNCHANGED <<files, ledger, placed, serving, history>>

\* The registry may refuse what was registered, or deregistered, since it was looked up.
Register(t) ==
  /\ task[t].pc = "registering"
  /\ \/ registry' = [registry EXCEPT ![Model(t)] = t] /\ Becomes(t, "done")
     \/ /\ (task[t].found = Nobody) # (registry[Model(t)] = Nobody)
        /\ UNCHANGED registry /\ Becomes(t, "failed")
  /\ UNCHANGED <<files, ledger, placed, route, history>>

\* Only what was registered through the API is listed, and has a tag to match.
CheckTag(t) ==
  LET writer == registry[Model(t)] IN
  /\ At(t, "deregister", "started")
  /\ writer # Nobody /\ task[writer].kind = "register"
  /\ task' = [task EXCEPT ![t].pc = "deregistering", ![t].found = writer]
  /\ UNCHANGED <<files, ledger, placed, serving, history>>

Deregister(t) ==
  /\ At(t, "deregister", "deregistering")
  /\ registry' = [registry EXCEPT ![Model(t)] = Nobody]
  /\ Becomes(t, "done")
  /\ UNCHANGED <<files, ledger, placed, route, history>>

-----------------------------------------------------------------------------
(* The environment *)

\* Files, registry and gateways survive; threads do not.
Restart ==
  /\ \E t \in Tasks : Running(t)
  /\ task' = [t \in Tasks |-> IF Running(t) THEN [task[t] EXCEPT !.pc = "dead"] ELSE task[t]]
  /\ UNCHANGED <<files, ledger, placed, serving, history>>

Step(t) ==
  \/ FindBlueprint(t) \/ ValidateBundle(t) \/ DeferModels(t) \/ EnsureContextEngine(t)
  \/ PrepareSkills(t) \/ WriteRecord(t)
  \/ PlanRemoval(t) \/ ReadRecord(t) \/ Archive(t) \/ Unlink(t) \/ CleanResources(t) \/ Release(t) \/ Purged(t)
  \/ \E m \in Models : PurgeModel(t, m) \/ ForgetModel(t, m)
  \/ Place(t) \/ Prepare(t) \/ Claim(t) \/ RouteHere(t) \/ ListNodes(t) \/ Routed(t)
  \/ \E n \in Nodes : RouteOn(t, n)
  \/ LookUp(t) \/ Register(t) \/ CheckTag(t) \/ Deregister(t)
  \/ Fails(t)

Next ==
  \/ \E t \in Tasks :
       \/ \E kind \in Kinds, b \in Blueprints \cup {Nobody}, m \in Models \cup {Nobody}, choice \in ModelChoices :
            Start(t, kind, b, m, choice)
       \/ Step(t)
  \/ Restart

Spec == Init /\ [][Next]_vars

-----------------------------------------------------------------------------
(* Properties *)

TypeOK ==
  /\ record \in [Blueprints -> Tasks \cup {Nobody}] /\ archived \in [Blueprints -> SUBSET Tasks]
  /\ owners \in [Models -> SUBSET Blueprints] /\ manual \subseteq Models
  /\ placed \in [Models -> SUBSET Nodes] /\ registry \in [Models -> Tasks \cup {Nobody}]
  /\ route \in [Nodes -> [Models -> Nodes \cup {Nobody}]]
  /\ superseded \subseteq Tasks
  /\ \A t \in Tasks : task[t].kind \in Kinds \cup {"none"} /\ task[t].todo \subseteq task[t].eligible

\* A completed addition stays the blueprint's record, or in its archive, wherever a restart or a
\* failed write cuts removals short, until another addition replaces it, a removal that has not
\* read it (it was written since, or was not readable) unlinks it, or a later removal of the same
\* second writes over its archive (blueprint_additions.py:104-136, blueprint_launch.py:641-666).
AdditionsAreKept ==
  \A t \in Tasks :
    At(t, "add", "done") =>
      \/ record[Blueprint(t)] = t
      \/ t \in archived[Blueprint(t)]
      \/ t \in superseded

\* A removal takes a model from this computer only if it was installed by no hand and nobody else
\* claimed it when the removal dropped its own claim (blueprint_launch.py:669-698).
ClaimedModelsStay ==
  [][\A m \in Models :
       placed'[m] # placed[m] /\ placed'[m] \subseteq placed[m] =>
         /\ m \notin manual
         /\ \E t \in Tasks :
              /\ At(t, "remove", "purging") /\ task'[t].pc = "purged"
              /\ owners[m] \subseteq task[t].late]_vars

\* An installation that reported success, or registered its model, has given every other gateway
\* it was to reach a route, and each of these routes, and the one of this computer's own gateway if
\* it took one, leads to a computer that has held the model, whichever other installation wrote it
\* (model_installation.py:83-86, blueprints.py:632-767).
InstalledIsRouted ==
  \A t \in Tasks :
    \/ Installing(t, "done")
    \/ task[t].kind = "install model" /\ (registry[Model(t)] = t \/ task[t].pc \in {"routed", "registering"})
    => /\ \A n \in task[t].eligible : route[n][Model(t)] \in prepared[Model(t)]
       /\ route[Here][Model(t)] \in prepared[Model(t)] \cup {Nobody}
=============================================================================
