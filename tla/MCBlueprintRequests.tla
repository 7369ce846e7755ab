--------------------------- MODULE MCBlueprintRequests ---------------------------
(***************************************************************************)
(* Instances of BlueprintRequests for TLC.                                 *)
(***************************************************************************)
EXTENDS BlueprintRequests, Naturals

\* Launches, runs, Jobs and progress are interchangeable.
Symmetry == Permutations(Launches) \cup Permutations(Runs) \cup Permutations(Jobs) \cup Permutations(Progress)

Started(kinds) == {t \in Tasks : task[t].kind \in kinds}

\* The parts share no state, so the catalog moves only beside one idle choice of launches, and
\* launches only beside one idle catalog.
Launching ==
  /\ Started(Catalog!Kinds) = {} /\ manual = {}
  /\ Next /\ UNCHANGED catalog
Cataloguing ==
  /\ scripts = {}
  /\ \A l, k \in Launches : At(l, "idle") /\ launch[l] = launch[k]
  /\ Catalog!Next /\ UNCHANGED vars

NextInParts == Launching \/ Cataloguing

SpecInParts == BlueprintInit /\ [][NextInParts]_BlueprintVars

\* Bound of the launches: two of them share a run when one repeats the other's request, with its Job
\* and its progress; different requests may share a Job, and their blueprint has both scripts.
BothScriptsOrRepeated ==
  \A l, k \in Launches :
    \/ /\ launch[l].run = launch[k].run
       /\ launch[l].job = launch[k].job /\ launch[l].progress = launch[k].progress
    \/ scripts = {"pre", "post"} /\ launch[l].run # launch[k].run /\ launch[l].progress # launch[k].progress

\* Bound of the launches: an unmapped directory ages for a sweep in progress, or was swept.
AgedForSweep ==
  \A r \in Runs : dir[r].aged =>
    /\ dir[r].job = NoJob
    /\ \/ \E l \in Launches : launch[l].pc \in {"listed", "sweeping"}
       \/ \E l \in Launches : dir[r].process = l /\ helper[l] = "stopped"

\* Bound of the launches: a helper that exits does so before it is ready or after its run.
ExitsAtTheEnds ==
  \A l \in Launches : helper[l] = "exited" => ~dir[launch[l].run].ready \/ run[l] = "ended"

\* Bound of the catalog: the operations at work touch the same files, claims or registrations, and
\* at most two of them are of one kind.  A removal keeps the models unless installations are at
\* work; theirs are then on this computer, and only installations of models reach gateways.
OneConcern ==
  /\ \A kind \in Catalog!Kinds : Cardinality(Started({kind})) <= 2
  /\ Started({"add"}) = {} \/ Started(Catalog!Kinds \ {"add", "remove"}) = {}
  /\ Started({"remove", "install blueprint"}) = {} \/ Started(Catalog!ModelKinds) = {}
  /\ \A t, k \in Started({"add"}) : task[t].blueprint = task[k].blueprint
  /\ Started({"add"}) # {} => \A t \in Started({"remove"}) : task[t].choice = "keep"
  /\ Started({"remove"}) # {} /\ Started({"install blueprint"}) # {} =>
       /\ \A t \in Started({"remove"}) : task[t].choice = "remove"
       /\ \A t \in Tasks : task[t].node = Here
  /\ Started({"remove", "register", "deregister"}) # {} => \A t \in Tasks : task[t].eligible = {}

\* Operations and blueprints, numbered here, are interchangeable: what the operations are to be
\* and name may as well be given out in order.
Rank == [none |-> 0, add |-> 1, remove |-> 2] @@ "install blueprint" :> 3 @@ "install model" :> 4
        @@ "register" :> 5 @@ "deregister" :> 6
InOrder ==
  /\ \A t, k \in Started(Catalog!Kinds) : t < k => Rank[task[t].kind] <= Rank[task[k].kind]
  /\ task[1].blueprint # 2
=============================================================================
