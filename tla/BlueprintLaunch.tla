----------------------------- MODULE BlueprintLaunch -----------------------------
(***************************************************************************)
(* Launches of one catalog blueprint: run_blueprint_record and             *)
(* run_launch_preflight of mn_api/blueprint_launch.py, with the host       *)
(* processes of mn_api/blueprints.py (the pre-launch helper, the relay,    *)
(* their cleanup and the sweep of stale runs) and the progress log of      *)
(* mn_api/launch_progress_store.py and mn_api/launch_progress.py.          *)
(*                                                                         *)
(* Each launch is a handler's thread.  It sweeps the directories of        *)
(* earlier runs, starts a helper process that outlives the API, validates, *)
(* packages the bundle for minutes, submits the definition to Core and     *)
(* starts a run of it.  Any step may fail, Core may commit and lose its    *)
(* reply, and the API may restart; directories, helpers and the progress   *)
(* log survive.  Directories of other blueprints never match a sweep and   *)
(* are left out.                                                           *)
(***************************************************************************)
EXTENDS FiniteSets, TLC

CONSTANTS
  Launches,   \* requests, each executed once; a helper or a relay is named by its launch
  Runs,       \* run directories; the client may choose the run, so launches may share one
  Jobs,       \* durable Jobs of Core
  Progress,   \* progress identifiers; a client repeats one when it repeats a request
  NoLaunch, NoJob

ASSUME LaunchAssumption == NoLaunch \notin Launches /\ NoJob \notin Jobs

VARIABLES
  scripts,        \* which of the "pre" and "post" launch scripts the blueprint has
  definition,     \* Core: the state of each Job
  run,            \* Core: the run each launch started
  dir,            \* the run directories
  helper, relay,  \* the host processes of each launch
  launch,         \* the handlers' threads
  log,            \* the progress logs
  beating,        \* launches whose heartbeat thread lives
  unlisted        \* launches whose run the list a sweep uses does not show (history)

core == <<definition, run>>
host == <<dir, helper, relay>>
vars == <<scripts, core, host, launch, log, beating, unlisted>>

Outcomes == {"answered", "refused", "failed", "dead"}
ProcessStates == {"none", "running", "stopped", "exited"}

NoDirectory == [made |-> FALSE, hook |-> FALSE, process |-> NoLaunch, ready |-> FALSE,
                relay |-> NoLaunch, job |-> NoJob, aged |-> FALSE]

\* A launch names its run, its progress and a Job, or generates a Job nobody has used.
Requests == Runs \X Jobs \X Progress
Waiting(request) ==
  [pc |-> "idle", run |-> request[1], job |-> request[2], progress |-> request[3],
   listed |-> {}, todo |-> {}, reply |-> "none", committed |-> FALSE, cause |-> "none"]

NoEvent == [phase |-> "none", status |-> "pending"]

Init ==
  /\ scripts \in SUBSET {"pre", "post"}
  /\ definition = [j \in Jobs |-> "idle"]
  /\ run = [l \in Launches |-> "none"]
  /\ dir = [r \in Runs |-> NoDirectory]
  /\ helper = [l \in Launches |-> "none"]
  /\ relay = [l \in Launches |-> "none"]
  /\ \E request \in [Launches -> Requests] : launch = [l \in Launches |-> Waiting(request[l])]
  /\ log = [p \in Progress |-> [terminal |-> "none", latest |-> NoEvent]]
  /\ beating = {}
  /\ unlisted = [l \in Launches |-> {}]

At(l, pc) == launch[l].pc = pc
Run(l) == launch[l].run
Becomes(l, pc) == launch' = [launch EXCEPT ![l].pc = pc]
Ends(l, outcome, cause) == launch' = [launch EXCEPT ![l].pc = outcome, ![l].cause = cause]

-----------------------------------------------------------------------------
(* The progress log: appended to, read through its latest terminal launch event *)

Appended(entry, phase, status) ==
  [terminal |-> IF phase = "launch" /\ status \in {"completed", "failed"} THEN status ELSE entry.terminal,
   latest |-> [phase |-> phase, status |-> status]]

\* A step that records several events is represented by its last one.
Records(l, phase, status) ==
  log' = [log EXCEPT ![launch[l].progress] = Appended(@, phase, status)]

Completed(p) == log[p].terminal # "none"
Status(p) == IF Completed(p) THEN log[p].terminal ELSE log[p].latest.status

-----------------------------------------------------------------------------
(* Host processes *)

Stopped(processes, named) ==
  [l \in Launches |-> IF l = named /\ processes[l] = "running" THEN "stopped" ELSE processes[l]]

\* The processes the files of r name; the files stay.
CleanupRun(r) ==
  /\ helper' = Stopped(helper, dir[r].process)
  /\ relay' = Stopped(relay, dir[r].relay)
  /\ UNCHANGED dir

\* Creating a file renews the directory's modification time.
Touched(entry) == [entry EXCEPT !.made = TRUE, !.aged = FALSE]

Age(r) ==
  /\ dir[r].made /\ ~dir[r].aged
  /\ dir' = [dir EXCEPT ![r].aged = TRUE]
  /\ UNCHANGED <<scripts, core, helper, relay, launch, log, beating, unlisted>>

\* The helper writes its ready file.
HelperSignals(l) ==
  /\ helper[l] = "running" /\ ~dir[Run(l)].ready
  /\ dir' = [dir EXCEPT ![Run(l)] = [Touched(dir[Run(l)]) EXCEPT !.ready = TRUE]]
  /\ UNCHANGED <<scripts, core, helper, relay, launch, log, beating, unlisted>>

HelperExits(l) ==
  /\ helper[l] = "running"
  /\ helper' = [helper EXCEPT ![l] = "exited"]
  /\ UNCHANGED <<scripts, core, dir, relay, launch, log, beating, unlisted>>

\* The relay follows its run, runs the post-launch script and exits.
RelayExits(l) ==
  /\ relay[l] = "running" /\ run[l] = "ended"
  /\ relay' = [relay EXCEPT ![l] = "exited"]
  /\ UNCHANGED <<scripts, core, dir, helper, launch, log, beating, unlisted>>

-----------------------------------------------------------------------------
(* Before the host is touched *)

Accept(l) ==
  /\ At(l, "idle")
  /\ Becomes(l, "accepted")
  /\ Records(l, "resolve_source", "completed")
  /\ UNCHANGED <<scripts, core, host, beating, unlisted>>

Passes(l, from, to) ==
  /\ At(l, from)
  /\ Becomes(l, to)
  /\ UNCHANGED <<scripts, core, host, beating, unlisted>>

\* Everything that raises before the preflight, and an input that is not valid.
Refuse(l) ==
  /\ At(l, "accepted")
  /\ Ends(l, "refused", "inputs")
  /\ UNCHANGED log \/ Records(l, "validation", "failed")
  /\ UNCHANGED <<scripts, core, host, beating, unlisted>>

InputsValid(l) == Passes(l, "accepted", "requirements") /\ Records(l, "requirements", "running")

Unprepared(l, phase) ==
  /\ At(l, phase)
  /\ Ends(l, "failed", "preflight")
  /\ Records(l, "launch", "failed")
  /\ UNCHANGED <<scripts, core, host, beating, unlisted>>

\* No computer has what the blueprint requires.
HardwareMissing(l) == Unprepared(l, "requirements")

HardwareFound(l) == Passes(l, "requirements", "models") /\ Records(l, "model_install", "running")

\* A declaration is invalid or incompatible, or the context engine does not become ready.
ModelsRefused(l) == Unprepared(l, "models")

\* Only reports are recorded as failures here: an exception of the hardware's check, of the sweep
\* or of the validation leaves the handler at once, with no event of its end and nothing stopped.
Raises(l) ==
  /\ launch[l].pc \in {"requirements", "listing", "listed", "sweeping", "validating"}
  /\ Ends(l, "failed", "raised")
  /\ IF At(l, "validating") THEN Records(l, "validation", "running") ELSE UNCHANGED log
  /\ UNCHANGED <<scripts, core, host, beating, unlisted>>

\* Models are installed on their first use; the context engine is started now.
ModelsDeferred(l) == Passes(l, "models", "listing") /\ Records(l, "cleanup", "running")

-----------------------------------------------------------------------------
(* The sweep: the active Jobs are read once, then the directories, then each is decided *)

ActiveJobs == {j \in Jobs : definition[j] \in {"prepared", "running"}}

Listed(l, listed, missing) ==
  /\ At(l, "listing")
  /\ launch' = [launch EXCEPT ![l].pc = "listed", ![l].listed = listed]
  /\ unlisted' = [unlisted EXCEPT ![l] = {k \in Launches : run[k] = "running" /\ launch[k].job \in missing}]
  /\ UNCHANGED <<scripts, core, host, log, beating>>

\* One page of Jobs that are not archived: active ones may be on none, or on a later page.
ListPage(l) == \E page \in SUBSET ActiveJobs : Listed(l, page, ActiveJobs \ page)

\* Mutant: without an answer no Job counts as active.
ListJobsOrNone(l) == ListPage(l) \/ Listed(l, {}, {})

\* Without an answer every mapped run is spared, as if every Job were active.
ListJobs(l) == ListPage(l) \/ Listed(l, Jobs, {})

ListDirectories(l) ==
  /\ At(l, "listed")
  /\ launch' = [launch EXCEPT ![l].pc = "sweeping", ![l].todo = {r \in Runs \ {Run(l)} : dir[r].made}]
  /\ UNCHANGED <<scripts, core, host, log, beating, unlisted>>

MatchesBlueprint(r) == dir[r].hook \/ dir[r].job # NoJob

Stale(l, r) == IF dir[r].job # NoJob THEN dir[r].job \notin launch[l].listed ELSE dir[r].aged

Sweep(l, r) ==
  /\ At(l, "sweeping") /\ r \in launch[l].todo
  /\ launch' = [launch EXCEPT ![l].todo = @ \ {r}]
  /\ IF MatchesBlueprint(r) /\ Stale(l, r) THEN CleanupRun(r) ELSE UNCHANGED host
  /\ UNCHANGED <<scripts, core, log, beating, unlisted>>

Swept(l) ==
  /\ At(l, "sweeping") /\ launch[l].todo = {}
  /\ Becomes(l, "pre_launch")
  /\ Records(l, "pre_launch", "running")
  /\ UNCHANGED <<scripts, core, host, beating, unlisted>>

-----------------------------------------------------------------------------
(* The helper *)

Hooked(r) == IF "post" \in scripts THEN [Touched(dir[r]) EXCEPT !.hook = TRUE] ELSE dir[r]

\* The ready file of an earlier helper is removed first.
Prepared(r) == [Touched(Hooked(r)) EXCEPT !.ready = FALSE]

SkipHelper(l) ==
  /\ At(l, "pre_launch") /\ "pre" \notin scripts
  /\ dir' = [dir EXCEPT ![Run(l)] = Hooked(Run(l))]
  /\ Becomes(l, "validating")
  /\ Records(l, "pre_launch", "completed")
  /\ UNCHANGED <<scripts, core, helper, relay, beating, unlisted>>

SpawnHelper(l) ==
  /\ At(l, "pre_launch") /\ "pre" \in scripts
  /\ dir' = [dir EXCEPT ![Run(l)] = Prepared(Run(l))]
  /\ helper' = [helper EXCEPT ![l] = "running"]
  /\ Becomes(l, "spawned")
  /\ UNCHANGED <<scripts, core, relay, log, beating, unlisted>>

RecordHelper(l) ==
  /\ At(l, "spawned")
  /\ dir' = [dir EXCEPT ![Run(l)] = [Touched(dir[Run(l)]) EXCEPT !.process = l]]
  /\ Becomes(l, "waiting")
  /\ UNCHANGED <<scripts, core, helper, relay, log, beating, unlisted>>

\* The helper's file cannot be written, or is cut short: the helper runs on and is named nowhere.
\* The cleanup of the failed launch stops what the directory names instead.
RecordFails(l) ==
  /\ At(l, "spawned")
  /\ \E named \in {dir[Run(l)].process, NoLaunch} :
       /\ dir' = [dir EXCEPT ![Run(l)].process = named]
       /\ helper' = Stopped(helper, named)
  /\ relay' = Stopped(relay, dir[Run(l)].relay)
  /\ Ends(l, "failed", "unrecorded")
  /\ Records(l, "launch", "failed")
  /\ UNCHANGED <<scripts, core, beating, unlisted>>

HelperReady(l) ==
  /\ At(l, "waiting") /\ dir[Run(l)].ready
  /\ Becomes(l, "validating")
  /\ Records(l, "pre_launch", "completed")
  /\ UNCHANGED <<scripts, core, host, beating, unlisted>>

\* A step that failed before the submission stops what its directory names.
CleanedUp(l, cause) ==
  /\ CleanupRun(Run(l))
  /\ Ends(l, "failed", cause)
  /\ Records(l, "launch", "failed")
  /\ UNCHANGED <<scripts, core, unlisted>>

\* The helper exits or its deadline passes: it is terminated, whatever the directory names.
HelperFails(l) ==
  /\ At(l, "waiting")
  /\ helper' = Stopped(Stopped(helper, l), dir[Run(l)].process)
  /\ relay' = Stopped(relay, dir[Run(l)].relay)
  /\ Ends(l, "failed", "pre_launch")
  /\ Records(l, "launch", "failed")
  /\ UNCHANGED <<scripts, core, dir, beating, unlisted>>

\* The script cannot be started; the cleanup finds what an earlier use of the directory left.
SpawnFails(l) ==
  /\ At(l, "pre_launch") /\ "pre" \in scripts
  /\ helper' = Stopped(helper, dir[Run(l)].process)
  /\ relay' = Stopped(relay, dir[Run(l)].relay)
  /\ dir' = [dir EXCEPT ![Run(l)] = Prepared(Run(l))]
  /\ Ends(l, "failed", "pre_launch")
  /\ Records(l, "launch", "failed")
  /\ UNCHANGED <<scripts, core, beating, unlisted>>

-----------------------------------------------------------------------------
(* Validation and packaging *)

ValidationFails(l) ==
  /\ At(l, "validating")
  /\ CleanedUp(l, "validation")
  /\ UNCHANGED beating

\* Services, hardware and models are checked again, now that the helper runs.
Validated(l) ==
  /\ At(l, "validating")
  /\ Becomes(l, "package")
  /\ Records(l, "prepare_bundle", "running")
  /\ beating' = beating \cup {l}
  /\ UNCHANGED <<scripts, core, host, unlisted>>

\* The steps of the packaging; all but the placement have a heartbeat.
Packaging == {"package", "workflow", "placement", "environments", "payloads"}

\* The package is read and its inputs are checked with its dependencies in place.
ReadPackage(l) == Passes(l, "package", "workflow") /\ UNCHANGED log

\* The workflow is compiled, and the package's own models are imported.
ResolveWorkflow(l) ==
  /\ At(l, "workflow")
  /\ Becomes(l, "placement")
  /\ beating' = beating \ {l}
  /\ UNCHANGED <<scripts, core, host, log, unlisted>>

\* A workflow of one computer is pinned to it, with Core's nodes read again.
PlaceWorkflow(l) ==
  /\ At(l, "placement")
  /\ Becomes(l, "environments")
  /\ beating' = beating \cup {l}
  /\ UNCHANGED <<scripts, core, host, log, unlisted>>

\* The pinned computer builds the Python environments of local workers.
PrepareEnvironments(l) == Passes(l, "environments", "payloads") /\ UNCHANGED log

\* Mutant: the failure is reported, nothing is stopped.
PackagingFailsUncleaned(l) ==
  /\ launch[l].pc \in Packaging
  /\ beating' = beating \ {l}
  /\ Ends(l, "failed", "bundle")
  /\ Records(l, "launch", "failed")
  /\ UNCHANGED <<scripts, core, host, unlisted>>

\* Any step raises; its heartbeat is joined before the failure is recorded.
PackagingFails(l) ==
  /\ launch[l].pc \in Packaging
  /\ beating' = beating \ {l}
  /\ CleanedUp(l, "bundle")

\* Files and runtime resources are staged; the heartbeat of the submission follows.
Packaged(l) ==
  /\ At(l, "payloads")
  /\ Becomes(l, "submitting")
  /\ Records(l, "submit", "running")
  /\ UNCHANGED <<scripts, core, host, beating, unlisted>>

-----------------------------------------------------------------------------
(* Submission *)

Heartbeat(l) ==
  /\ l \in beating
  /\ Records(l, IF launch[l].pc \in Packaging THEN "prepare_bundle" ELSE "submit", "running")
  /\ UNCHANGED <<scripts, core, host, launch, beating, unlisted>>

\* The SDK's submit: Core commits and acknowledges, refuses, or the acknowledgement is lost.
SubmitReturns(l) ==
  /\ At(l, "submitting")
  /\ \E reply \in {"accepted", "refused", "uncertain"}, commits \in BOOLEAN :
       /\ reply = "accepted" => commits
       /\ reply = "refused" => ~commits
       /\ launch' = [launch EXCEPT ![l].pc = "joining", ![l].reply = reply]
       /\ definition' = IF commits /\ definition[launch[l].job] = "idle"
                        THEN [definition EXCEPT ![launch[l].job] = "prepared"] ELSE definition
  /\ UNCHANGED <<scripts, run, host, log, beating, unlisted>>

\* Mutant: the launch is reported complete when the definition is accepted.
AcceptedIsComplete(l) ==
  /\ At(l, "joining") /\ launch[l].reply = "accepted"
  /\ beating' = beating \ {l}
  /\ launch' = [launch EXCEPT ![l].pc = "starting", ![l].committed = TRUE]
  /\ Records(l, "launch", "completed")
  /\ UNCHANGED <<scripts, core, host, unlisted>>

\* The heartbeat thread is joined before the outcome is acted upon.
Accepted(l) ==
  /\ At(l, "joining") /\ launch[l].reply = "accepted"
  /\ beating' = beating \ {l}
  /\ launch' = [launch EXCEPT ![l].pc = "starting", ![l].committed = TRUE]
  /\ UNCHANGED <<scripts, core, host, log, unlisted>>

\* Mutant: an uncertain submission is cleaned up after, too.
SubmitFailsUncertain(l) ==
  /\ IF ~launch[l].committed THEN CleanupRun(Run(l)) ELSE UNCHANGED host
  /\ Ends(l, "failed", "submit")
  /\ Records(l, "launch", "failed")
  /\ UNCHANGED scripts

\* An exception of the submission or of anything after it.
SubmitFails(l) ==
  /\ IF ~launch[l].committed /\ launch[l].reply # "uncertain" THEN CleanupRun(Run(l)) ELSE UNCHANGED host
  /\ Ends(l, "failed", "submit")
  /\ Records(l, "launch", "failed")
  /\ UNCHANGED scripts

\* Mutant: the heartbeat is told to stop but not awaited.
NotAcceptedUnjoined(l) ==
  /\ At(l, "joining") /\ launch[l].reply # "accepted"
  /\ SubmitFails(l)
  /\ UNCHANGED <<core, beating, unlisted>>

NotAccepted(l) ==
  /\ At(l, "joining") /\ launch[l].reply # "accepted"
  /\ beating' = beating \ {l}
  /\ SubmitFails(l)
  /\ UNCHANGED <<core, unlisted>>

\* An active run of the Job is replaced.
Starts(l) ==
  LET j == launch[l].job IN
  /\ definition' = [definition EXCEPT ![j] = "running"]
  /\ run' = [k \in Launches |-> IF k = l THEN "running"
                                ELSE IF launch[k].job = j /\ run[k] = "running" THEN "ended" ELSE run[k]]
  /\ unlisted' = [k \in Launches |-> IF launch[k].pc \in {"listed", "sweeping"} THEN unlisted[k] \cup {l} ELSE unlisted[k]]

StartRun(l) ==
  /\ At(l, "starting")
  /\ Starts(l)
  /\ Becomes(l, "mapping")
  /\ UNCHANGED <<scripts, host, log, beating>>

\* Core refuses the run (a run is active and the request does not replace it, or anything
\* else), or starts it and loses the reply.
StartFails(l) ==
  /\ At(l, "starting")
  /\ SubmitFails(l)
  /\ Starts(l) \/ UNCHANGED <<core, unlisted>>
  /\ UNCHANGED beating

MapRun(l) ==
  /\ At(l, "mapping")
  /\ dir' = [dir EXCEPT ![Run(l)] = [Touched(dir[Run(l)]) EXCEPT !.job = launch[l].job]]
  /\ Becomes(l, "relaying")
  /\ UNCHANGED <<scripts, core, helper, relay, log, beating, unlisted>>

\* The mapping cannot be written, or the relay's preparation raises.
MapFails(l) ==
  /\ launch[l].pc \in {"mapping", "relaying"}
  /\ SubmitFails(l)
  /\ UNCHANGED <<core, beating, unlisted>>

\* A relay is started for a declared output copy or a post-launch script, and recorded.
Answer(l) ==
  /\ At(l, "relaying")
  /\ \/ /\ relay' = [relay EXCEPT ![l] = "running"]
        /\ dir' = [dir EXCEPT ![Run(l)] = [Touched(dir[Run(l)]) EXCEPT !.relay = l]]
     \/ UNCHANGED <<relay, dir>>
  /\ Ends(l, "answered", "none")
  /\ Records(l, "launch", "completed")
  /\ UNCHANGED <<scripts, core, helper, beating, unlisted>>

-----------------------------------------------------------------------------
(* The environment *)

RunEnds(l) ==
  /\ run[l] = "running"
  /\ run' = [run EXCEPT ![l] = "ended"]
  /\ definition' = [definition EXCEPT ![launch[l].job] = "idle"]
  /\ UNCHANGED <<scripts, host, launch, log, beating, unlisted>>

\* Threads end with the process; directories, helpers, relays and the log survive.
Restart ==
  /\ \E l \in Launches : launch[l].pc \notin Outcomes \cup {"idle"}
  /\ launch' = [l \in Launches |-> IF launch[l].pc \in Outcomes \cup {"idle"} THEN launch[l]
                                   ELSE [launch[l] EXCEPT !.pc = "dead"]]
  /\ beating' = {}
  /\ UNCHANGED <<scripts, core, host, log, unlisted>>

Serve(l) ==
  \/ Refuse(l) \/ InputsValid(l)
  \/ HardwareMissing(l) \/ HardwareFound(l) \/ ModelsRefused(l) \/ ModelsDeferred(l)
  \/ ListJobs(l) \/ ListDirectories(l) \/ (\E r \in Runs : Sweep(l, r)) \/ Swept(l)
  \/ SkipHelper(l) \/ SpawnHelper(l) \/ SpawnFails(l) \/ RecordHelper(l) \/ RecordFails(l)
  \/ HelperReady(l) \/ HelperFails(l)
  \/ ValidationFails(l) \/ Raises(l) \/ Validated(l)
  \/ ReadPackage(l) \/ ResolveWorkflow(l) \/ PlaceWorkflow(l) \/ PrepareEnvironments(l)
  \/ PackagingFails(l) \/ Packaged(l)
  \/ SubmitReturns(l) \/ Accepted(l) \/ NotAccepted(l)
  \/ StartRun(l) \/ StartFails(l) \/ MapRun(l) \/ MapFails(l) \/ Answer(l)

Next ==
  \/ \E l \in Launches :
       Accept(l) \/ Serve(l) \/ Heartbeat(l) \/ HelperSignals(l) \/ HelperExits(l) \/ RelayExits(l) \/ RunEnds(l)
  \/ \E r \in Runs : Age(r)
  \/ Restart

Spec == Init /\ [][Next]_vars

-----------------------------------------------------------------------------
(* Properties *)

Entry == [phase : STRING, status : STRING]

TypeOK ==
  /\ scripts \subseteq {"pre", "post"}
  /\ definition \in [Jobs -> {"idle", "prepared", "running"}]
  /\ run \in [Launches -> {"none", "running", "ended"}]
  /\ dir \in [Runs -> [made : BOOLEAN, hook : BOOLEAN, process : Launches \cup {NoLaunch}, ready : BOOLEAN,
                        relay : Launches \cup {NoLaunch}, job : Jobs \cup {NoJob}, aged : BOOLEAN]]
  /\ helper \in [Launches -> ProcessStates] /\ relay \in [Launches -> ProcessStates]
  /\ \A l \in Launches :
       /\ launch[l].pc \in Outcomes \cup {"idle", "accepted", "requirements", "models",
             "listing", "listed", "sweeping", "pre_launch", "spawned", "waiting", "validating",
             "submitting", "joining", "starting", "mapping", "relaying"} \cup Packaging
       /\ Run(l) \in Runs /\ launch[l].job \in Jobs /\ launch[l].progress \in Progress
       /\ launch[l].listed \subseteq Jobs /\ launch[l].todo \subseteq Runs
  /\ \A p \in Progress : log[p].terminal \in {"none", "completed", "failed"}
  /\ beating \subseteq Launches
  /\ unlisted \in [Launches -> SUBSET Launches]

\* Launches that have used the directory of l.
Sharing(l) == {k \in Launches \ {l} : Run(k) = Run(l) /\ ~At(k, "idle")}
Alone(l) == Sharing(l) = {}

\* A launch that failed before Core could have taken its definition leaves no helper behind, but
\* for two: the one whose file could not be written, which nothing names and nothing stops, and the
\* one under which the validation raised instead of reporting (blueprint_launch.py:868-1034 and
\* 1132-1152, blueprints.py:1928-1948).
FailureLeavesNoHelper ==
  \A l \in Launches :
    /\ At(l, "failed") /\ Alone(l)
    /\ launch[l].cause \notin {"raised", "unrecorded"} /\ ~launch[l].committed /\ launch[l].reply # "uncertain"
    => helper[l] # "running"

\* What Core may be executing for a launch: its run, or its definition when the reply is lost.
MayRun(l) == run[l] = "running" \/ launch[l].committed \/ launch[l].reply \in {"accepted", "uncertain"}

\* The API stops the helper of a launch whose definition Core may have only when another
\* launch uses the directory again, or sweeps it: a mapped one whose Job was not among the
\* active ones of the page that launch had read, or an unmapped one not touched for two minutes
\* (blueprint_launch.py:837-859 and 1132-1138, blueprints.py:2643-2670).
CommittedIsSpared ==
  [][\A l \in Launches :
       MayRun(l) /\ run[l] # "ended" /\ helper[l] = "running" /\ helper'[l] = "stopped" =>
         \/ Sharing(l) # {}
         \/ \E k \in Launches \ {l} :
              /\ At(k, "sweeping") /\ Run(l) \in launch[k].todo \ launch'[k].todo
              /\ IF dir[Run(l)].job = NoJob THEN dir[Run(l)].aged
                 ELSE dir[Run(l)].job \notin launch[k].listed]_vars

\* A sweep leaves the relay and the helper of a running, mapped run alone, whatever other launches
\* do meanwhile, unless its Job was not on the one page of Jobs the sweep reads, or the run started
\* after that; without an answer it leaves all of them alone (blueprints.py:2651-2670,
\* blueprint_launch.py:1616-1628).
SweepSparesRunning ==
  [][\A k, l \in Launches :
       /\ At(k, "sweeping") /\ Run(l) \in launch[k].todo \ launch'[k].todo
       /\ run[l] = "running" /\ l \notin unlisted[k] /\ Alone(l) /\ dir[Run(l)].job # NoJob
       => helper'[l] = helper[l] /\ relay'[l] = relay[l]]_vars

\* A progress that says completed is of a launch whose run Core started
\* (blueprint_launch.py:1072-1131, launch_progress_store.py:25-57).
ProgressIsTruthful ==
  \A p \in Progress :
    Status(p) = "completed" /\ Completed(p) =>
      \E l \in Launches : launch[l].progress = p /\ run[l] # "none"

\* No reporting thread outlives its submission: once a launch has ended with an outcome, the
\* outcome is the last event of a progress that no other launch uses.  An exception that leaves the
\* handler in the hardware's check, the sweep or the validation tells no outcome
\* (launch_progress.py:99-145, blueprint_launch.py:1055-1071).
ReportingEnds ==
  \A l \in Launches :
    /\ launch[l].pc \in {"answered", "failed"} /\ launch[l].cause # "raised"
    /\ \A k \in Launches \ {l} : launch[k].progress = launch[l].progress => At(k, "idle")
    => /\ log[launch[l].progress].latest.phase = "launch"
       /\ Completed(launch[l].progress)
=============================================================================
