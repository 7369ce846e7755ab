------------------------------ MODULE JobPreparation ------------------------------
(***************************************************************************)
(* Durable preparations of a Job, mn_api/routes/v1/job_preparations.py:    *)
(* its creation, its correction after a failure, and the conditional       *)
(* update of its configuration, over the receipts of OperationReceipt      *)
(* (which LocalOperations implements) and the Jobs that Core keeps.        *)
(*                                                                         *)
(* A handler reads the previous receipt first and submits later; a worker  *)
(* reads the Job first and writes later.  Other handlers, workers and      *)
(* supervisors, a lost reply or a restart can come in between.  A Job's    *)
(* ETag is named by its revision.  The synchronous handlers the worker     *)
(* calls (create_job, update_job) are part of its steps; create_job's      *)
(* idempotency record never replays here, because it is reached only while *)
(* Core has no such Job.                                                   *)
(***************************************************************************)
EXTENDS Naturals, FiniteSets

CONSTANTS
  CreationKeys,    \* Idempotency-Keys of POST /job-preparations
  UpdateKeys,      \* Idempotency-Keys of POST /jobs/{id}/preparations
  Definitions,     \* what a creation request asks for besides its configuration
  Configurations,
  Jobs,            \* Job identities
  Prepared,        \* Jobs that exist from the start
  Handlers,
  MaxRevision,     \* bound of the model: revisions of a Job
  NoReceipt, NoJob

Requests == [definition : Definitions, configuration : Configurations]
Options == [job : Jobs, fence : Nat]
Receipt == [status : {"pending", "running", "interrupted", "completed", "failed"},
            request : Requests, options : Options, percent : 0..100, retryable : BOOLEAN]
Job == [configuration : Configurations, revision : Nat]

ASSUME PreparationAssumption ==
  /\ Prepared \subseteq Jobs
  /\ MaxRevision \in Nat \ {0}
  /\ NoReceipt \notin Receipt
  /\ NoJob \notin Job

\* _identity: the operation of a key, of a corrected request, of an update.
Creation(key) == <<"create", key>>
Correction(key, request) == <<"correct", key, request>>
Update(key, job) == <<"update", key, job>>

Creations == {Creation(key) : key \in CreationKeys}
Corrections == {Correction(key, request) : key \in CreationKeys, request \in Requests}
Updates == {Update(key, job) : key \in UpdateKeys, job \in Prepared}
Operations == Creations \cup Corrections \cup Updates

VARIABLES
  receipt,    \* what the journal answers for each operation
  claims,     \* operations a worker is running
  job,        \* Core: configuration and revision of each Job
  handler,    \* requests between reading the previous receipt and submitting
  worker,     \* the attempt of each operation
  applied,    \* the revision an update committed, 0 before (history)
  saved       \* <<job, configuration>> ever stored in Core (history)

vars == <<receipt, claims, job, handler, worker, applied, saved>>

Local == INSTANCE OperationReceipt WITH
  Ops <- Operations, RetryFailed <- Operations, Options <- Options, Requests <- Requests

Idle == [pc |-> "idle"]

\* Configurations of the Jobs that exist from the start.
Init ==
  /\ Local!Init
  /\ \E configuration \in Configurations :
       job = [j \in Jobs |-> IF j \in Prepared THEN [configuration |-> configuration, revision |-> 1]
                             ELSE NoJob]
  /\ handler = [h \in Handlers |-> Idle]
  /\ worker = [op \in Operations |-> Idle]
  /\ applied = [op \in Updates |-> 0]
  /\ saved = {<<j, job[j].configuration>> : j \in Prepared}

-----------------------------------------------------------------------------
(* Handlers *)

Orphaned(op) ==
  /\ receipt[op] # NoReceipt
  /\ receipt[op].status \in Local!LiveStatuses
  /\ op \notin claims

\* get_operation: reading a live receipt nobody works on declares it interrupted.
Look(op) ==
  /\ Local!Interrupt(op)
  /\ UNCHANGED <<job, handler, worker, applied, saved>>

Reads(h, op, request, options, uncertain) ==
  /\ handler[h].pc = "idle"
  /\ handler' = [handler EXCEPT ![h] =
       [pc |-> "submitting", op |-> op, request |-> request, options |-> options, uncertain |-> uncertain]]
  /\ UNCHANGED <<receipt, claims, job, worker, applied, saved>>

\* generate_stable_job_id
Reserved == {receipt[op].options.job : op \in {o \in Operations : receipt[o] # NoReceipt}}
              \cup {handler[h].options.job : h \in {g \in Handlers : handler[g].pc = "submitting"}}
Fresh(j) == job[j] = NoJob /\ j \notin Reserved

\* Mutant of ReadCreation: a correction reserves a Job of its own.
ReadCreationAnew(h, key, request) ==
  LET original == Creation(key)
      previous == receipt[original]
      corrected == previous # NoReceipt /\ previous.request # request
  IN  /\ ~Orphaned(original)
      /\ corrected => previous.status = "failed"
      /\ \E j \in Jobs : Fresh(j) /\
           Reads(h, IF corrected THEN Correction(key, request) ELSE original, request, [job |-> j, fence |-> 0], FALSE)

\* prepare_job, up to the submission.
ReadCreation(h, key, request) ==
  LET original == Creation(key)
      previous == receipt[original]
  IN  /\ ~Orphaned(original)
      /\ \/ /\ previous = NoReceipt
            /\ \E j \in Jobs : Fresh(j) /\ Reads(h, original, request, [job |-> j, fence |-> 0], FALSE)
         \/ /\ previous # NoReceipt /\ previous.request = request
            /\ Reads(h, original, request, previous.options, FALSE)
         \/ /\ previous # NoReceipt /\ previous.request # request
            /\ previous.status = "failed"
            /\ previous.request.definition = request.definition
            /\ Reads(h, Correction(key, request), request, previous.options, FALSE)

\* What the worker of an update remembers of the previous receipt.
Uncertain(previous) ==
  /\ previous # NoReceipt
  /\ \/ previous.status = "interrupted"
     \/ previous.status = "failed" /\ previous.retryable

\* prepare_job_update, up to the submission.
ReadUpdate(h, op, request, etag) ==
  LET previous == receipt[op]
      fence == IF previous = NoReceipt THEN etag ELSE previous.options.fence
  IN  /\ ~Orphaned(op)
      /\ Reads(h, op, request, [job |-> op[3], fence |-> fence], Uncertain(previous))

\* start_local_operation accepts the attempt; its worker keeps the handler's closure.
Submit(h) ==
  LET op == handler[h].op
  IN  /\ handler[h].pc = "submitting"
      /\ Local!Accept(op, handler[h].request, handler[h].options)
      /\ handler' = [handler EXCEPT ![h] = Idle]
      /\ worker' = [worker EXCEPT ![op] =
           [pc |-> "starting", request |-> handler[h].request, uncertain |-> handler[h].uncertain,
            retryable |-> FALSE, stale |-> FALSE, revision |-> 0]]
      /\ UNCHANGED <<job, applied, saved>>

\* It answers with the receipt it found, refuses the request, or cannot write.
Leave(h) ==
  /\ handler[h].pc = "submitting"
  /\ handler' = [handler EXCEPT ![h] = Idle]
  /\ UNCHANGED <<receipt, claims, job, worker, applied, saved>>

-----------------------------------------------------------------------------
(* Workers *)

At(op, pc) == worker[op].pc = pc
Becomes(op, pc) == worker' = [worker EXCEPT ![op].pc = pc]
Fails(op, retryable, stale) ==
  worker' = [worker EXCEPT ![op] = [@ EXCEPT !.pc = "failing", !.retryable = retryable, !.stale = stale]]
Fenced(op, revision) ==
  worker' = [worker EXCEPT ![op] = [@ EXCEPT !.pc = "updating", !.revision = revision]]

Begin(op) ==
  /\ At(op, "starting") /\ Becomes(op, "reading")
  /\ Local!Advance(op, 1)
  /\ UNCHANGED <<job, handler, applied, saved>>

\* Any call of the worker raises: Core, the catalog, validation, the journal.
Raises(op, retryable) ==
  /\ worker[op].pc \in {"reading", "creating", "updating", "writing"}
  /\ Fails(op, retryable, FALSE)
  /\ UNCHANGED <<receipt, claims, job, handler, applied, saved>>

Target(op) == receipt[op].options.job
Wanted(op) == worker[op].request.configuration

\* prepare_job's work: the Job of the claim, as Core knows it now.
ReadForCreation(op) ==
  LET current == job[Target(op)]
  IN  /\ op \in Creations \cup Corrections
      /\ At(op, "reading")
      /\ IF current = NoJob THEN Becomes(op, "creating")
         ELSE IF current.configuration = Wanted(op) THEN Becomes(op, "returned")
         ELSE IF op \in Corrections THEN Fenced(op, current.revision)
         ELSE Fails(op, FALSE, FALSE)
      /\ UNCHANGED <<receipt, claims, job, handler, applied, saved>>

\* The reply to a committed write arrives, or the deadline does.
Replied(op) == Becomes(op, "returned") \/ Fails(op, TRUE, FALSE)

\* create_job: Core refuses an identity it knows.
Create(op) ==
  /\ At(op, "creating")
  /\ job[Target(op)] = NoJob
  /\ Replied(op)
  /\ job' = [job EXCEPT ![Target(op)] = [configuration |-> Wanted(op), revision |-> 1]]
  /\ saved' = saved \cup {<<Target(op), Wanted(op)>>}
  /\ UNCHANGED <<receipt, claims, handler, applied>>

\* prepare_job_update's work: an uncertain outcome is recognised by its result.
ReadForUpdate(op) ==
  LET current == job[Target(op)]
      fence == receipt[op].options.fence
  IN  /\ op \in Updates
      /\ At(op, "reading")
      /\ IF worker[op].uncertain /\ current.revision # fence /\ current.configuration = Wanted(op)
           THEN Becomes(op, "returned")
           ELSE Fenced(op, fence)
      /\ UNCHANGED <<receipt, claims, job, handler, applied, saved>>

\* Mutant of CheckFence: a moved revision counts as the update itself.
CheckFenceLeniently(op) ==
  /\ At(op, "updating")
  /\ Becomes(op, IF job[Target(op)].revision = worker[op].revision THEN "writing" ELSE "returned")
  /\ UNCHANGED <<receipt, claims, job, handler, applied, saved>>

\* update_job: If-Match against a fresh read, whose revision fences the write.
CheckFence(op) ==
  LET current == job[Target(op)]
  IN  /\ At(op, "updating")
      /\ IF current.revision # worker[op].revision THEN Fails(op, FALSE, TRUE)
         ELSE IF current.configuration = Wanted(op) THEN Becomes(op, "returned")
         ELSE Becomes(op, "writing")
      /\ UNCHANGED <<receipt, claims, job, handler, applied, saved>>

\* Mutant of Write: the expected revision is not sent.
WriteUnconditionally(op) ==
  LET current == job[Target(op)]
  IN  /\ At(op, "writing")
      /\ current.revision < MaxRevision
      /\ Replied(op)
      /\ job' = [job EXCEPT ![Target(op)] = [configuration |-> Wanted(op), revision |-> current.revision + 1]]
      /\ applied' = IF op \in Updates THEN [applied EXCEPT ![op] = current.revision + 1] ELSE applied
      /\ saved' = saved \cup {<<Target(op), Wanted(op)>>}
      /\ UNCHANGED <<receipt, claims, handler>>

\* Core's conditional write.
Write(op) ==
  LET current == job[Target(op)]
  IN  /\ At(op, "writing")
      /\ current.revision = worker[op].revision
      /\ current.revision < MaxRevision
      /\ Replied(op)
      /\ job' = [job EXCEPT ![Target(op)] = [configuration |-> Wanted(op), revision |-> current.revision + 1]]
      /\ applied' = IF op \in Updates THEN [applied EXCEPT ![op] = current.revision + 1] ELSE applied
      /\ saved' = saved \cup {<<Target(op), Wanted(op)>>}
      /\ UNCHANGED <<receipt, claims, handler>>

PublishCompleted(op) ==
  /\ At(op, "returned") /\ Becomes(op, "cleanup")
  /\ Local!Complete(op)
  /\ UNCHANGED <<job, handler, applied, saved>>

PublishFailed(op) ==
  /\ At(op, "failing") /\ Becomes(op, "cleanup")
  /\ Local!Fail(op, worker[op].retryable)
  /\ UNCHANGED <<job, handler, applied, saved>>

\* The attempt ends: after its outcome, without one (the thread cannot start, the
\* outcome cannot be written), or with the first publication of the worker.
Ends(op) ==
  /\ worker[op].pc \in {"starting", "returned", "failing", "cleanup"}
  /\ worker' = [worker EXCEPT ![op] = Idle]
  /\ Local!Release({op})
  /\ UNCHANGED <<job, handler, applied, saved>>

-----------------------------------------------------------------------------
(* The rest of the world *)

\* Another supervisor saves a configuration, or a status or context update
\* advances the revision.
Change(j, configuration) ==
  /\ job[j] # NoJob
  /\ job[j].revision < MaxRevision
  /\ job' = [job EXCEPT ![j] = [configuration |-> configuration, revision |-> @.revision + 1]]
  /\ saved' = saved \cup {<<j, configuration>>}
  /\ UNCHANGED <<receipt, claims, handler, worker, applied>>

Restart ==
  /\ Local!Release(claims)
  /\ handler' = [h \in Handlers |-> Idle]
  /\ worker' = [op \in Operations |-> Idle]
  /\ UNCHANGED <<job, applied, saved>>

Handle(h) ==
  \/ \E key \in CreationKeys, request \in Requests : ReadCreation(h, key, request)
  \/ \E op \in Updates, request \in Requests :
       \E etag \in 1..job[op[3]].revision : ReadUpdate(h, op, request, etag)
  \/ Submit(h) \/ Leave(h)

Work(op) ==
  \/ Begin(op) \/ ReadForCreation(op) \/ Create(op)
  \/ ReadForUpdate(op) \/ CheckFence(op) \/ Write(op)
  \/ PublishCompleted(op) \/ PublishFailed(op) \/ Ends(op)
  \/ \E retryable \in BOOLEAN : Raises(op, retryable)

Next ==
  \/ \E h \in Handlers : Handle(h)
  \/ \E op \in Operations : Work(op) \/ Look(op)
  \/ \E j \in Jobs, configuration \in Configurations : Change(j, configuration)
  \/ Restart

Spec == Init /\ [][Next]_vars

-----------------------------------------------------------------------------
(* Properties *)

Accepted == {op \in Operations : receipt[op] # NoReceipt}
Working == {op \in Operations : worker[op].pc # "idle"}

Submission == [pc : {"submitting"}, op : Operations, request : Requests, options : Options, uncertain : BOOLEAN]
Attempt == [pc : {"starting", "reading", "creating", "updating", "writing", "returned", "failing", "cleanup"},
            request : Requests, uncertain : BOOLEAN, retryable : BOOLEAN, stale : BOOLEAN, revision : Nat]

TypeOK ==
  /\ receipt \in [Operations -> Receipt \cup {NoReceipt}]
  /\ claims = Working
  /\ job \in [Jobs -> Job \cup {NoJob}]
  /\ \A j \in Jobs : job[j] # NoJob => job[j].revision \in 1..MaxRevision
  /\ handler \in [Handlers -> Submission \cup {Idle}]
  /\ worker \in [Operations -> Attempt \cup {Idle}]
  /\ applied \in [Updates -> 0..MaxRevision]
  /\ saved \subseteq Jobs \X Configurations

\* One key reserves one Job, however many submissions race, fail, are corrected
\* or are repeated after a restart.
OneJobPerKey ==
  \A key \in CreationKeys :
    \A a, b \in Accepted \cap ({Creation(key)} \cup {Correction(key, request) : request \in Requests}) :
      receipt[a].options.job = receipt[b].options.job

\* A completed preparation has its configuration saved in its Job, also when it
\* recognised the outcome of an earlier attempt.
CompletedWasSaved ==
  \A op \in Accepted :
    receipt[op].status = "completed" => <<receipt[op].options.job, receipt[op].request.configuration>> \in saved

\* An update is written only over the revision its client had read when it was
\* first accepted: nobody else's change in between is overwritten.
FenceHolds ==
  [][\A op \in Updates :
       applied'[op] # applied[op] => job[op[3]].revision = receipt[op].options.fence]_vars

\* An update that was committed is recognised by a later attempt instead of
\* being reported as a stale write, while nobody has changed the Job since
\* (the comment in prepare_job_update: reconcile a committed update after an
\* interrupted HTTP/RPC response).
CommittedUpdateIsRecognised ==
  \A op \in Working \cap Updates :
    worker[op].stale => applied[op] = 0 \/ job[op[3]].revision # applied[op]
=============================================================================
