-------------------------------- MODULE RunLaunch --------------------------------
(***************************************************************************)
(* Asynchronous launches of a catalog Job: create_job_run_operation and    *)
(* create_job_run of mn_api/routes/v1/jobs.py, and the delivery of the     *)
(* outputs to the submitting host by start_background_run_relay of         *)
(* mn_api/blueprints.py and mn_api/host_output_delivery.py.                *)
(*                                                                         *)
(* A launch merges its overrides into the configuration it read, prepares  *)
(* a definition for minutes, saves it under the revision it reads last and *)
(* starts a run.  Other launches, supervisors and status updates change    *)
(* the Job meanwhile; Core may commit and lose its reply, and the process  *)
(* may end.  Receipts are those of OperationReceipt; the record a          *)
(* successful create_job_run leaves in the registry answers the next       *)
(* attempt until the process ends.  A catalog Job with a declared output   *)
(* copy is modelled.                                                       *)
(***************************************************************************)
EXTENDS Naturals

CONSTANTS
  Keys,            \* Idempotency-Keys; Core identifies a run by the same key
  Fields, Values,  \* a configuration gives every field a value
  Attempts,        \* attempts of a launch (10)
  Tries,           \* conditional updates of an attempt (3)
  MaxRevision,     \* bound of the model: revisions of the Job
  NoReceipt, NoRun

ASSUME LaunchAssumption ==
  /\ Attempts \in Nat \ {0} /\ Tries \in Nat \ {0} /\ MaxRevision \in Nat \ {0}

Configurations == [Fields -> Values]
Overrides == UNION {[changed -> Values] : changed \in SUBSET Fields}

VARIABLES
  receipt, claims,   \* the durable operation of each key
  job,               \* Core: configuration and revision of the Job
  run,               \* Core: the configuration the run of each key was started with
  finished,          \* keys whose run has completed
  worker,            \* the attempt of each key
  recorded,          \* keys whose response the registry replays
  mapped,            \* keys whose run has a mapping to its definition
  relay,             \* relay processes: whose run, in which directory, recorded there or not
  delivered,         \* keys whose outputs were materialised in the directory of their run
  written,           \* times a key has saved its configuration (history)
  disturbed          \* keys whose Job changed since they last knew what it was (history)

core == <<job, run, finished>>
delivery == <<mapped, relay, delivered>>
history == <<written, disturbed>>
vars == <<receipt, claims, core, worker, recorded, delivery, history>>

Local == INSTANCE OperationReceipt WITH
  Ops <- Keys, Requests <- Overrides, Options <- {"none"}, RetryFailed <- {}

\* deep_merge
Merge(configuration, overrides) ==
  [f \in Fields |-> IF f \in DOMAIN overrides THEN overrides[f] ELSE configuration[f]]

Live(k) == receipt[k] # NoReceipt /\ receipt[k].status \in Local!LiveStatuses

Idle == [pc |-> "idle", attempt |-> 0, try |-> 0, base |-> NoRun, wanted |-> NoRun, revision |-> 0,
         saved |-> FALSE, retryable |-> FALSE]

Init ==
  /\ Local!Init
  /\ \E configuration \in Configurations : job = [configuration |-> configuration, revision |-> 1]
  /\ run = [k \in Keys |-> NoRun]
  /\ finished = {}
  /\ worker = [k \in Keys |-> Idle]
  /\ recorded = {} /\ mapped = {} /\ relay = {} /\ delivered = {}
  /\ written = [k \in Keys |-> 0]
  /\ disturbed = {}

At(k, pc) == worker[k].pc = pc
Becomes(k, pc) == worker' = [worker EXCEPT ![k].pc = pc]
Fails(k, retryable) == worker' = [worker EXCEPT ![k] = [Idle EXCEPT !.pc = "failing", !.retryable = retryable]]
Returns(k) == worker' = [worker EXCEPT ![k] = [Idle EXCEPT !.pc = "returned"]]
BacksOff(k, attempt) == worker' = [worker EXCEPT ![k] = [Idle EXCEPT !.pc = "backing off", !.attempt = attempt]]

-----------------------------------------------------------------------------
(* The durable operation *)

\* create_job_run_operation: the attempt is accepted, unless the receipt answers; a
\* live one that nobody works on is declared interrupted first.
Submit(k, overrides) ==
  /\ ~Live(k)
  /\ Local!Accept(k, overrides, "none")
  /\ worker' = [worker EXCEPT ![k] = [Idle EXCEPT !.pc = "starting"]]
  /\ UNCHANGED <<core, recorded, delivery, history>>

Look(k) ==
  /\ Local!Interrupt(k)
  /\ UNCHANGED <<core, worker, recorded, delivery, history>>

\* The head of the loop: report_progress, then create_job_run.
NextAttempt(k) ==
  /\ \/ At(k, "starting")
     \/ At(k, "backing off")
  /\ Local!Advance(k, worker[k].attempt + 1)
  /\ worker' = [worker EXCEPT ![k] = [Idle EXCEPT !.pc = "reading", !.attempt = worker[k].attempt + 1]]
  /\ UNCHANGED <<core, recorded, delivery, history>>

\* Mutant of TimesOut: the attempts are not counted.
TimesOutForEver(k) == BacksOff(k, 0)

\* A deadline or an unavailable Core ends the attempt; the last one is raised.
TimesOut(k) ==
  IF worker[k].attempt < Attempts THEN BacksOff(k, worker[k].attempt) ELSE Fails(k, TRUE)

PublishCompleted(k) ==
  /\ At(k, "returned") /\ Becomes(k, "cleanup")
  /\ Local!Complete(k)
  /\ UNCHANGED <<core, recorded, delivery, history>>

PublishFailed(k) ==
  /\ At(k, "failing") /\ Becomes(k, "cleanup")
  /\ Local!Fail(k, worker[k].retryable)
  /\ UNCHANGED <<core, recorded, delivery, history>>

\* The attempt ends after its outcome, or because it cannot publish or start.
Ends(k) ==
  /\ worker[k].pc \in {"starting", "returned", "failing", "cleanup"}
  /\ worker' = [worker EXCEPT ![k] = Idle]
  /\ Local!Release({k})
  /\ UNCHANGED <<core, recorded, delivery, history>>

-----------------------------------------------------------------------------
(* create_job_run *)

\* The registry replays a success of this process.
Replay(k) ==
  /\ At(k, "reading") /\ k \in recorded
  /\ Returns(k)
  /\ UNCHANGED <<receipt, claims, core, recorded, delivery, history>>

\* start reads the Job: an unchanged configuration needs no preparation.
ReadJob(k) ==
  LET base == job.configuration
      wanted == Merge(base, receipt[k].request)
  IN  /\ At(k, "reading") /\ k \notin recorded
      /\ worker' = [worker EXCEPT ![k] =
           [@ EXCEPT !.pc = IF wanted = base THEN "launching" ELSE "preparing", !.base = base, !.wanted = wanted]]
      /\ disturbed' = disturbed \ {k}
      /\ UNCHANGED <<receipt, claims, core, recorded, delivery, written>>

\* _prepare_catalog_job_update takes its time.
Prepare(k) ==
  /\ At(k, "preparing")
  /\ Becomes(k, "checking")
  /\ UNCHANGED <<receipt, claims, core, recorded, delivery, history>>

\* Mutant of CheckJob: whatever the Job has become, its revision will do.
CheckRevisionOnly(k) ==
  /\ At(k, "checking")
  /\ worker' = [worker EXCEPT ![k] = [@ EXCEPT !.pc = "updating", !.revision = job.revision]]
  /\ UNCHANGED <<receipt, claims, core, recorded, delivery, history>>

\* The Job is read again: somebody may have saved this very configuration, or another.
CheckJob(k) ==
  /\ At(k, "checking")
  /\ \/ job.configuration = worker[k].wanted /\ Becomes(k, "launching")
     \/ /\ job.configuration \notin {worker[k].wanted, worker[k].base}
        /\ Fails(k, FALSE)
     \/ /\ job.configuration = worker[k].base
        /\ worker' = [worker EXCEPT ![k] = [@ EXCEPT !.pc = "updating", !.revision = job.revision]]
  /\ disturbed' = IF job.configuration = worker[k].wanted THEN disturbed \ {k} ELSE disturbed
  /\ UNCHANGED <<receipt, claims, core, recorded, delivery, written>>

\* Core's conditional write, whose reply arrives or does not.
Save(k) ==
  /\ At(k, "updating")
  /\ job.revision = worker[k].revision /\ job.revision < MaxRevision
  /\ job' = [configuration |-> worker[k].wanted, revision |-> job.revision + 1]
  /\ \/ worker' = [worker EXCEPT ![k] = [@ EXCEPT !.pc = "launching", !.saved = TRUE]]
     \/ TimesOut(k)
  /\ written' = [written EXCEPT ![k] = @ + 1]
  /\ disturbed' = Keys \ {k}
  /\ UNCHANGED <<receipt, claims, run, finished, recorded, delivery>>

\* Mutant of Mismatch: after a mismatch the launch goes on.
MismatchGoesOn(k) ==
  /\ At(k, "updating") /\ job.revision # worker[k].revision
  /\ Becomes(k, "launching")
  /\ UNCHANGED <<receipt, claims, core, recorded, delivery, history>>

\* revision_mismatch: read again, or raise the last one.
Mismatch(k) ==
  /\ At(k, "updating") /\ job.revision # worker[k].revision
  /\ \/ /\ worker[k].try + 1 < Tries
        /\ worker' = [worker EXCEPT ![k] = [@ EXCEPT !.pc = "checking", !.try = worker[k].try + 1]]
     \/ /\ worker[k].try + 1 >= Tries
        /\ \E retryable \in BOOLEAN : Fails(k, retryable)
  /\ UNCHANGED <<receipt, claims, core, recorded, delivery, history>>

\* launch_run: Core starts one run for a key, with the Job's definition, or
\* answers with the one it started.
StartRun(k) ==
  /\ At(k, "launching")
  /\ run' = IF run[k] = NoRun THEN [run EXCEPT ![k] = job.configuration] ELSE run
  /\ Becomes(k, "launched") \/ TimesOut(k)
  /\ UNCHANGED <<receipt, claims, job, finished, recorded, delivery, history>>

\* start_background_run_relay: the process, then event_relay.json, which names
\* the last one started in the directory.
Relays(k, place) ==
  {r \in relay : r.key # k \/ r.place # place}
    \cup {[r EXCEPT !.recorded = FALSE] : r \in {q \in relay : q.key = k /\ q.place = place}}
    \cup {[key |-> k, place |-> place, recorded |-> TRUE]}

\* The mapping and the relay of a saved preparation, or the relay of the run; then
\* the registry records the response.
Launched(k) ==
  /\ At(k, "launched") /\ Returns(k)
  /\ \/ /\ worker[k].saved
        /\ mapped' = mapped \cup {k}
        /\ relay' = Relays(k, "preparation")
     \/ /\ ~worker[k].saved
        /\ relay' = Relays(k, "run")
        /\ UNCHANGED mapped
  /\ recorded' = recorded \cup {k}
  /\ UNCHANGED <<receipt, claims, core, delivered, history>>

\* A call of the attempt raises: Core, the catalog, the journal, the mapping.  A
\* run that was started is not undone.
Raises(k) ==
  /\ \/ /\ worker[k].pc \in {"backing off", "reading", "preparing", "checking", "updating", "launching", "launched"}
        /\ \E retryable \in BOOLEAN : Fails(k, retryable)
     \/ /\ worker[k].pc \in {"reading", "checking", "updating", "launching"}
        /\ TimesOut(k)
  /\ UNCHANGED <<receipt, claims, core, recorded, delivery, history>>

-----------------------------------------------------------------------------
(* Host output delivery *)

Running(k) == \E r \in relay : r.key = k /\ r.place = "run" /\ r.recorded

\* Mutant of Reconcile: a run that was launched here is left to its own relay.
ReconcileScheduled(k) ==
  /\ k \in finished \ delivered
  /\ k \notin recorded /\ ~Running(k)
  /\ relay' = Relays(k, "run")
  /\ UNCHANGED <<receipt, claims, core, worker, recorded, mapped, delivered, history>>

\* One pass of reconcile_host_output_delivery over a completed run.
Reconcile(k) ==
  /\ k \in finished \ delivered
  /\ ~Running(k)
  /\ relay' = Relays(k, "run")
  /\ UNCHANGED <<receipt, claims, core, worker, recorded, mapped, delivered, history>>

\* The relay process of the SDK copies the outputs of a completed run and ends.
Deliver(r) ==
  /\ r.key \in finished
  /\ relay' = relay \ {r}
  /\ delivered' = IF r.place = "run" THEN delivered \cup {r.key} ELSE delivered
  /\ UNCHANGED <<receipt, claims, core, worker, recorded, mapped, history>>

Die(r) ==
  /\ relay' = relay \ {r}
  /\ UNCHANGED <<receipt, claims, core, worker, recorded, mapped, delivered, history>>
-----------------------------------------------------------------------------
(* The rest of the world *)

\* Another supervisor saves a configuration, or a status or context update
\* advances the revision.
Change(configuration) ==
  /\ job.revision < MaxRevision
  /\ job' = [configuration |-> configuration, revision |-> job.revision + 1]
  /\ disturbed' = IF configuration = job.configuration THEN disturbed ELSE Keys
  /\ UNCHANGED <<receipt, claims, run, finished, worker, recorded, delivery, written>>

\* Core: a run completes and its receipt replicates.
Finish(k) ==
  /\ run[k] # NoRun
  /\ finished' = finished \cup {k}
  /\ UNCHANGED <<receipt, claims, job, run, worker, recorded, delivery, history>>

\* Relay processes have sessions of their own and survive the API.
Restart ==
  /\ Local!Release(claims)
  /\ worker' = [k \in Keys |-> Idle]
  /\ recorded' = {}
  /\ UNCHANGED <<core, delivery, history>>

Work(k) ==
  \/ NextAttempt(k) \/ Replay(k) \/ ReadJob(k) \/ Prepare(k) \/ CheckJob(k) \/ Save(k) \/ Mismatch(k)
  \/ StartRun(k) \/ Launched(k) \/ Raises(k)
  \/ PublishCompleted(k) \/ PublishFailed(k) \/ Ends(k)

Next ==
  \/ \E k \in Keys, overrides \in Overrides : Submit(k, overrides)
  \/ \E k \in Keys : Work(k) \/ Look(k) \/ Reconcile(k) \/ Finish(k)
  \/ \E r \in relay : Deliver(r) \/ Die(r)
  \/ \E configuration \in Configurations : Change(configuration)
  \/ Restart

Spec == Init /\ [][Next]_vars

\* Threads run, somebody polls, the reconciliation loop turns, and not every relay
\* of a run dies before it has copied.
DeliverFor(k) == \E r \in relay : r.key = k /\ r.place = "run" /\ Deliver(r)

LiveSpec ==
  /\ Spec
  /\ \A k \in Keys : /\ WF_vars(Work(k)) /\ WF_vars(Look(k))
                     /\ WF_vars(Reconcile(k)) /\ SF_vars(DeliverFor(k))

-----------------------------------------------------------------------------
(* Properties *)

States == {"idle", "starting", "reading", "preparing", "checking", "updating", "launching", "launched",
           "backing off", "returned", "failing", "cleanup"}

Worker ==
  [pc : States, attempt : 0..Attempts, try : 0..Tries, base : Configurations \cup {NoRun},
   wanted : Configurations \cup {NoRun}, revision : 0..MaxRevision, saved : BOOLEAN, retryable : BOOLEAN]

TypeOK ==
  /\ claims = {k \in Keys : worker[k].pc # "idle"}
  /\ job \in [configuration : Configurations, revision : 1..MaxRevision]
  /\ run \in [Keys -> Configurations \cup {NoRun}]
  /\ worker \in [Keys -> Worker]
  /\ relay \subseteq [key : Keys, place : {"run", "preparation"}, recorded : BOOLEAN]
  /\ finished \subseteq {k \in Keys : run[k] # NoRun}
  /\ written \in [Keys -> 0..MaxRevision]
  /\ recorded \cup mapped \cup delivered \cup disturbed \subseteq Keys

\* A launch saves its configuration only over the one its overrides were merged
\* into: nobody else's change is lost in the minutes of its preparation, and an
\* update that was committed before its deadline is not written a second time.
NothingOverwritten ==
  [][\A k \in Keys : written'[k] # written[k] => job.configuration = worker[k].base]_vars

\* A run is started with the overrides of its request, however its update
\* failed, timed out or was found done, unless somebody changed the Job after
\* the launch had last seen it as it wanted it.
RunUsesOverrides ==
  [][\A k \in Keys : run'[k] # run[k] => run'[k] = worker[k].wanted \/ k \in disturbed]_vars

\* A launch ends whatever Core answers, and what a restart cut short is
\* declared interrupted.
LaunchesSettle == \A k \in Keys : Live(k) ~> ~Live(k)

\* The outputs of every completed run are materialised in the run's directory
\* (README: the reconciliation loop starts missing relays), though the launch or
\* its relay ended before.
OutputsAreDelivered == \A k \in Keys : k \in finished ~> k \in delivered

\* Starting a catalog-backed Job creates a mapping of its run, also when no
\* configuration override is supplied (SPEC.md, background output relays).
StartedIsMapped == recorded \subseteq mapped
=============================================================================
