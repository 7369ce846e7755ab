----------------------------- MODULE RunLaunch_proofs -----------------------------
(***************************************************************************)
(* Theorems about asynchronous launches for any keys, configurations and   *)
(* bounds on attempts and conditional updates.                             *)
(*                                                                         *)
(* The inductive invariant says what a launch may rely on when it writes:  *)
(* while its update is under way the Job's revision is still the one it    *)
(* read only if the Job's configuration is the one its overrides were      *)
(* merged into; and while it starts its run, the Job has the configuration *)
(* it wants, unless somebody has changed the Job since.                    *)
(***************************************************************************)
EXTENDS RunLaunch, TLAPS

Receipt ==
  [status : {"pending", "running", "completed", "failed", "interrupted"}, request : Overrides,
   options : {"none"}, percent : Nat, retryable : BOOLEAN]

\* What is left of its attempts.
Waits(r) == (r.pc = "starting" => r.attempt = 0) /\ (r.pc = "backing off" => r.attempt < Attempts)

\* An update that can still succeed is over the configuration that was read.
Aims(r, j) ==
  r.pc = "updating" => r.revision <= j.revision /\ (r.revision = j.revision => j.configuration = r.base)

\* A run that is about to start finds the configuration it wants, or another change.
Wants(k, r, j, others) == r.pc = "launching" => j.configuration = r.wanted \/ k \in others

\* What a launch will write is a configuration.
Plans(r) == r.pc \in {"preparing", "checking", "updating", "launching", "launched"} => r.wanted \in Configurations

WorkerHolds(k, r, j, others) == Waits(r) /\ Plans(r) /\ Aims(r, j) /\ Wants(k, r, j, others)

ReceiptsTyped == receipt \in [Keys -> Receipt \cup {NoReceipt}]
DeliveryTyped ==
  /\ relay \subseteq [key : Keys, place : {"run", "preparation"}, recorded : BOOLEAN]
  /\ recorded \cup mapped \cup delivered \subseteq Keys

LaunchInductive ==
  /\ TypeOK /\ ReceiptsTyped
  /\ \A k \in Keys : worker[k].pc # "idle" => receipt[k] \in Receipt
  /\ \A k \in Keys : written[k] < job.revision
  /\ \A k \in Keys : WorkerHolds(k, worker[k], job, disturbed)

\* Receipts are written, and never withdrawn.
ReceiptsStay == ReceiptsTyped' /\ \A k \in Keys : receipt[k] \in Receipt => receipt'[k] \in Receipt

-----------------------------------------------------------------------------
(* Frames *)

LEMMA MergeType ==
  ASSUME NEW configuration \in Configurations, NEW overrides \in Overrides
  PROVE  Merge(configuration, overrides) \in Configurations
BY DEF Merge, Configurations, Overrides

LEMMA IdleType == Idle \in Worker /\ Idle.pc = "idle" /\ Idle.attempt = 0
BY LaunchAssumption DEF Idle, Worker, States

\* One launch goes on while the Job stands still.
LEMMA WorkerMoves ==
  ASSUME LaunchInductive, ReceiptsStay, DeliveryTyped', UNCHANGED <<job, run, finished, written>>,
         NEW k \in Keys, NEW r \in Worker, worker' = [worker EXCEPT ![k] = r],
         r.pc # "idle" => receipt'[k] \in Receipt,
         claims' = IF r.pc = "idle" THEN claims \ {k} ELSE claims \cup {k},
         disturbed' \subseteq Keys, \A q \in Keys \ {k} : q \in disturbed => q \in disturbed',
         WorkerHolds(k, r, job, disturbed')
  PROVE  LaunchInductive'
<1>1. worker' \in [Keys -> Worker] /\ worker'[k] = r /\ \A q \in Keys \ {k} : worker'[q] = worker[q]
  BY DEF LaunchInductive, TypeOK
<1>2. claims' = {q \in Keys : worker'[q].pc # "idle"}
  BY <1>1 DEF LaunchInductive, TypeOK
<1>3. TypeOK'
  BY <1>1, <1>2 DEF LaunchInductive, TypeOK, DeliveryTyped
<1>4. \A q \in Keys : worker'[q].pc # "idle" => receipt'[q] \in Receipt
  BY <1>1 DEF LaunchInductive, ReceiptsStay
<1>5. ASSUME NEW q \in Keys \ {k} PROVE WorkerHolds(q, worker'[q], job', disturbed')
  BY <1>1 DEF LaunchInductive, WorkerHolds, Waits, Plans, Aims, Wants
<1>6. \A q \in Keys : WorkerHolds(q, worker'[q], job', disturbed')
  BY <1>1, <1>5
<1> QED BY <1>3, <1>4, <1>6 DEF LaunchInductive, ReceiptsStay

\* The launches stand still, and so does the Job.
LEMMA OthersMove ==
  ASSUME LaunchInductive, ReceiptsStay, DeliveryTyped', UNCHANGED <<job, run, worker, claims, written, disturbed>>,
         finished' \subseteq {k \in Keys : run[k] # NoRun}
  PROVE  LaunchInductive'
<1>1. TypeOK'
  BY DEF LaunchInductive, TypeOK, DeliveryTyped
<1> QED BY <1>1 DEF LaunchInductive, ReceiptsStay

LEMMA ReceiptsUnchanged ==
  ASSUME LaunchInductive, UNCHANGED receipt
  PROVE  ReceiptsStay
BY DEF LaunchInductive, ReceiptsStay, ReceiptsTyped

LEMMA DeliveryUnchanged ==
  ASSUME LaunchInductive, UNCHANGED <<recorded, delivery>>
  PROVE  DeliveryTyped'
BY DEF LaunchInductive, TypeOK, DeliveryTyped, delivery

\* A receipt takes another form.
LEMMA ReceiptMoves ==
  ASSUME LaunchInductive, NEW k \in Keys, NEW new \in Receipt, receipt' = [receipt EXCEPT ![k] = new]
  PROVE  ReceiptsStay /\ receipt'[k] \in Receipt
BY DEF LaunchInductive, ReceiptsStay, ReceiptsTyped

\* A launch that has a receipt fails, backs off or goes on with another record.
LEMMA QuietStep ==
  ASSUME LaunchInductive, NEW k \in Keys, worker[k].pc # "idle",
         NEW r \in Worker, worker' = [worker EXCEPT ![k] = r], r.pc # "idle",
         UNCHANGED <<receipt, claims, core, recorded, delivery, history>>,
         WorkerHolds(k, r, job, disturbed)
  PROVE  LaunchInductive'
<1>1. ReceiptsStay /\ DeliveryTyped' /\ UNCHANGED <<job, run, finished, written, disturbed>>
  BY ReceiptsUnchanged, DeliveryUnchanged DEF core, history
<1>2. receipt'[k] \in Receipt
  BY DEF LaunchInductive
<1>3. k \in claims /\ claims' = claims \cup {k}
  BY DEF LaunchInductive, TypeOK
<1>4. disturbed' \subseteq Keys /\ \A q \in Keys \ {k} : q \in disturbed => q \in disturbed'
  BY <1>1 DEF LaunchInductive, TypeOK
<1> QED BY <1>1, <1>2, <1>3, <1>4, WorkerMoves

LEMMA FailsType ==
  ASSUME NEW retryable \in BOOLEAN, NEW r, r = [Idle EXCEPT !.pc = "failing", !.retryable = retryable]
  PROVE  r \in Worker /\ r.pc = "failing"
<1> PICK s \in Worker : s = Idle
  BY IdleType
<1> QED BY DEF Worker, States

LEMMA BacksOffType ==
  ASSUME NEW attempt \in 0..Attempts, NEW r, r = [Idle EXCEPT !.pc = "backing off", !.attempt = attempt]
  PROVE  r \in Worker /\ r.pc = "backing off" /\ r.attempt = attempt
<1> PICK s \in Worker : s = Idle
  BY IdleType
<1> QED BY DEF Worker, States

\* A deadline ends the attempt: the record it leaves.
LEMMA TimesOutFacts ==
  ASSUME LaunchInductive, NEW k \in Keys, TimesOut(k)
  PROVE  \E r \in Worker : /\ worker' = [worker EXCEPT ![k] = r] /\ r.pc \in {"failing", "backing off"}
                           /\ Waits(r)
<1> PICK attempt : attempt = worker[k].attempt
  OBVIOUS
<1>1. attempt \in 0..Attempts
  BY DEF LaunchInductive, TypeOK, Worker
<1>2. CASE attempt < Attempts
  <2> PICK r : r = [Idle EXCEPT !.pc = "backing off", !.attempt = attempt]
    OBVIOUS
  <2>1. r \in Worker /\ r.pc = "backing off" /\ r.attempt = attempt
    BY <1>1, BacksOffType
  <2>2. worker' = [worker EXCEPT ![k] = r]
    BY <1>2 DEF TimesOut, BacksOff
  <2> QED BY <1>2, <2>1, <2>2 DEF Waits
<1>3. CASE ~(attempt < Attempts)
  <2> PICK r : r = [Idle EXCEPT !.pc = "failing", !.retryable = TRUE]
    OBVIOUS
  <2>1. TRUE \in BOOLEAN
    OBVIOUS
  <2>2. r \in Worker /\ r.pc = "failing"
    BY <2>1, FailsType
  <2>3. worker' = [worker EXCEPT ![k] = r]
    BY <1>3 DEF TimesOut, Fails
  <2> QED BY <2>2, <2>3 DEF Waits
<1> QED BY <1>2, <1>3

LEMMA FailsFacts ==
  ASSUME LaunchInductive, NEW k \in Keys, NEW retryable \in BOOLEAN, Fails(k, retryable)
  PROVE  \E r \in Worker : worker' = [worker EXCEPT ![k] = r] /\ r.pc \in {"failing", "backing off"} /\ Waits(r)
<1> PICK r : r = [Idle EXCEPT !.pc = "failing", !.retryable = retryable]
  OBVIOUS
<1>1. r \in Worker /\ r.pc = "failing"
  BY FailsType
<1>2. worker' = [worker EXCEPT ![k] = r]
  BY DEF Fails
<1> QED BY <1>1, <1>2 DEF Waits

\* A launch that ends its attempt so promises nothing of the Job.
LEMMA EndedStep ==
  ASSUME LaunchInductive, NEW k \in Keys, worker[k].pc # "idle",
         \/ TimesOut(k)
         \/ \E retryable \in BOOLEAN : Fails(k, retryable),
         UNCHANGED <<receipt, claims, core, recorded, delivery, history>>
  PROVE  LaunchInductive'
<1>1. PICK r \in Worker : worker' = [worker EXCEPT ![k] = r] /\ r.pc \in {"failing", "backing off"} /\ Waits(r)
  BY TimesOutFacts, FailsFacts
<1>2. WorkerHolds(k, r, job, disturbed)
  BY <1>1 DEF WorkerHolds, Plans, Aims, Wants
<1> QED BY <1>1, <1>2, QuietStep

-----------------------------------------------------------------------------
(* The durable operation *)

LEMMA SubmitKeeps ==
  ASSUME LaunchInductive, NEW k \in Keys, NEW overrides \in Overrides, Submit(k, overrides)
  PROVE  LaunchInductive'
<1>1. PICK new \in Receipt : receipt' = [receipt EXCEPT ![k] = new]
  <2> PICK old : old = receipt[k]
    OBVIOUS
  <2>1. old \in Receipt \cup {NoReceipt}
    BY DEF LaunchInductive, ReceiptsTyped
  <2>2. CASE receipt' = [receipt EXCEPT ![k] = [status |-> "pending", request |-> overrides, options |-> "none",
                                                percent |-> 0, retryable |-> FALSE]]
    <3>1. [status |-> "pending", request |-> overrides, options |-> "none", percent |-> 0, retryable |-> FALSE] \in Receipt
      BY DEF Receipt
    <3> QED BY <2>2, <3>1
  <2>3. CASE /\ old # NoReceipt
             /\ receipt' = [receipt EXCEPT ![k] = [old EXCEPT !.status = "pending", !.percent = 0, !.retryable = FALSE]]
    <3> PICK new : new = [old EXCEPT !.status = "pending", !.percent = 0, !.retryable = FALSE]
      OBVIOUS
    <3>1. new \in Receipt
      BY <2>1, <2>3 DEF Receipt
    <3> QED BY <2>3, <3>1
  <2> QED BY <2>2, <2>3 DEF Submit, Local!Accept
<1>2. ReceiptsStay /\ receipt'[k] \in Receipt
  BY <1>1, ReceiptMoves
<1> PICK r : r = [Idle EXCEPT !.pc = "starting"]
  OBVIOUS
<1>3. r \in Worker /\ r.pc = "starting" /\ r.attempt = 0
  <2> PICK s : s = Idle
    OBVIOUS
  <2>1. s \in Worker /\ s.attempt = 0
    BY IdleType
  <2> QED BY <2>1 DEF Worker, States
<1>4. worker' = [worker EXCEPT ![k] = r] /\ UNCHANGED <<job, run, finished, written, disturbed, recorded, delivery>>
  BY DEF Submit, core, history
<1>5. claims' = claims \cup {k}
  BY DEF Submit, Local!Accept
<1>6. WorkerHolds(k, r, job, disturbed')
  BY <1>3 DEF WorkerHolds, Waits, Plans, Aims, Wants
<1>7. disturbed' \subseteq Keys /\ DeliveryTyped'
  BY <1>4, DeliveryUnchanged DEF LaunchInductive, TypeOK
<1> QED BY <1>2, <1>3, <1>4, <1>5, <1>6, <1>7, WorkerMoves

LEMMA LookKeeps ==
  ASSUME LaunchInductive, NEW k \in Keys, Look(k)
  PROVE  LaunchInductive'
<1> PICK old : old = receipt[k]
  OBVIOUS
<1> PICK new : new = [old EXCEPT !.status = "interrupted"]
  OBVIOUS
<1>1. new \in Receipt
  BY DEF LaunchInductive, ReceiptsTyped, Receipt, Look, Local!Interrupt
<1>2. receipt' = [receipt EXCEPT ![k] = new] /\ UNCHANGED claims
  BY DEF Look, Local!Interrupt
<1>3. ReceiptsStay
  BY <1>1, <1>2, ReceiptMoves
<1>4. UNCHANGED <<job, run, finished, worker, written, disturbed, recorded, delivery>>
  BY DEF Look, core, history
<1>5. DeliveryTyped' /\ finished' \subseteq {q \in Keys : run[q] # NoRun}
  BY <1>4, DeliveryUnchanged DEF LaunchInductive, TypeOK
<1> QED BY <1>2, <1>3, <1>4, <1>5, OthersMove

\* A launch publishes: its receipt and its record change.
LEMMA PublishStep ==
  ASSUME LaunchInductive, NEW k \in Keys, worker[k].pc # "idle", NEW new \in Receipt,
         receipt' = [receipt EXCEPT ![k] = new], UNCHANGED <<claims, core, recorded, delivery, history>>,
         NEW r \in Worker, worker' = [worker EXCEPT ![k] = r], r.pc \in {"reading", "cleanup"}
  PROVE  LaunchInductive'
<1>1. ReceiptsStay /\ receipt'[k] \in Receipt
  BY ReceiptMoves
<1>2. UNCHANGED <<job, run, finished, written, disturbed>> /\ DeliveryTyped'
  BY DeliveryUnchanged DEF core, history
<1>3. r.pc # "idle" /\ claims' = claims \cup {k} /\ disturbed' \subseteq Keys
  BY <1>2 DEF LaunchInductive, TypeOK
<1>4. WorkerHolds(k, r, job, disturbed')
  BY DEF WorkerHolds, Waits, Plans, Aims, Wants
<1> QED BY <1>1, <1>2, <1>3, <1>4, WorkerMoves

LEMMA NextAttemptKeeps ==
  ASSUME LaunchInductive, NEW k \in Keys, NextAttempt(k)
  PROVE  LaunchInductive'
<1> PICK s : s = worker[k]
  OBVIOUS
<1>1. s \in Worker /\ s.attempt + 1 \in 0..Attempts /\ s.pc # "idle"
  <2>1. s \in Worker /\ Waits(s) /\ s.pc \in {"starting", "backing off"}
    BY DEF LaunchInductive, TypeOK, WorkerHolds, NextAttempt, At
  <2>2. s.attempt \in 0..Attempts /\ Attempts \in Nat \ {0}
    BY <2>1, LaunchAssumption DEF Worker
  <2> PICK a : a = s.attempt
    OBVIOUS
  <2>3. a < Attempts
    <3>1. a = 0 \/ a < Attempts
      BY <2>1 DEF Waits
    <3> QED BY <2>2, <3>1
  <2>4. a + 1 \in 0..Attempts
    BY <2>2, <2>3
  <2> QED BY <2>1, <2>4
<1> PICK attempt : attempt = s.attempt + 1
  OBVIOUS
<1> PICK old : old = receipt[k]
  OBVIOUS
<1> PICK new : new = [old EXCEPT !.status = "running", !.percent = attempt]
  OBVIOUS
<1>2. new \in Receipt
  <2>1. old \in Receipt
    BY <1>1 DEF LaunchInductive
  <2>2. attempt \in Nat
    BY <1>1 DEF Worker
  <2> QED BY <2>1, <2>2 DEF Receipt
<1>3. receipt' = [receipt EXCEPT ![k] = new] /\ UNCHANGED claims
  BY DEF NextAttempt, Local!Advance
<1> PICK r : r = [Idle EXCEPT !.pc = "reading", !.attempt = attempt]
  OBVIOUS
<1>4. r \in Worker /\ r.pc = "reading"
  <2> PICK idle \in Worker : idle = Idle
    BY IdleType
  <2> QED BY <1>1 DEF Worker, States
<1>5. worker' = [worker EXCEPT ![k] = r] /\ UNCHANGED <<core, recorded, delivery, history>>
  BY DEF NextAttempt
<1> QED BY <1>1, <1>2, <1>3, <1>4, <1>5, PublishStep

LEMMA PublishKeeps ==
  ASSUME LaunchInductive, NEW k \in Keys, PublishCompleted(k) \/ PublishFailed(k)
  PROVE  LaunchInductive'
<1> PICK s : s = worker[k]
  OBVIOUS
<1>1. s \in Worker /\ s.pc # "idle"
  BY DEF LaunchInductive, TypeOK, PublishCompleted, PublishFailed, At
<1> PICK old : old = receipt[k]
  OBVIOUS
<1> PICK retryable : retryable = s.retryable
  OBVIOUS
<1>2. old \in Receipt /\ retryable \in BOOLEAN
  BY <1>1 DEF LaunchInductive, Worker
<1>3. PICK new \in Receipt : receipt' = [receipt EXCEPT ![k] = new]
  <2>1. CASE receipt' = [receipt EXCEPT ![k] = [old EXCEPT !.status = "completed", !.percent = 100]]
    <3> PICK new : new = [old EXCEPT !.status = "completed", !.percent = 100]
      OBVIOUS
    <3>1. new \in Receipt
      BY <1>2 DEF Receipt
    <3> QED BY <2>1, <3>1
  <2>2. CASE receipt' = [receipt EXCEPT ![k] = [old EXCEPT !.status = "failed", !.retryable = retryable]]
    <3> PICK new : new = [old EXCEPT !.status = "failed", !.retryable = retryable]
      OBVIOUS
    <3>1. new \in Receipt
      BY <1>2 DEF Receipt
    <3> QED BY <2>2, <3>1
  <2> QED BY <2>1, <2>2 DEF PublishCompleted, PublishFailed, Local!Complete, Local!Fail
<1> PICK r : r = [s EXCEPT !.pc = "cleanup"]
  OBVIOUS
<1>4. r \in Worker /\ r.pc = "cleanup"
  BY <1>1 DEF Worker, States
<1>5. worker' = [worker EXCEPT ![k] = r] /\ UNCHANGED <<claims, core, recorded, delivery, history>>
  BY DEF PublishCompleted, PublishFailed, Becomes, Local!Complete, Local!Fail
<1> QED BY <1>1, <1>3, <1>4, <1>5, PublishStep

LEMMA EndsKeeps ==
  ASSUME LaunchInductive, NEW k \in Keys, Ends(k)
  PROVE  LaunchInductive'
<1> PICK r : r = Idle
  OBVIOUS
<1>1. r \in Worker /\ r.pc = "idle"
  BY IdleType
<1>2. /\ worker' = [worker EXCEPT ![k] = r] /\ claims' = claims \ {k}
      /\ UNCHANGED <<job, run, finished, written, disturbed, receipt, recorded, delivery>>
  BY DEF Ends, Local!Release, core, history
<1>3. ReceiptsStay /\ DeliveryTyped' /\ disturbed' \subseteq Keys
  BY <1>2, ReceiptsUnchanged, DeliveryUnchanged DEF LaunchInductive, TypeOK
<1>4. WorkerHolds(k, r, job, disturbed')
  BY <1>1 DEF WorkerHolds, Waits, Plans, Aims, Wants
<1> QED BY <1>1, <1>2, <1>3, <1>4, WorkerMoves

-----------------------------------------------------------------------------
(* create_job_run *)

\* A record that promises nothing of the Job: where its fields come from.
LEMMA QuietRecord ==
  ASSUME LaunchInductive, NEW k \in Keys, worker[k].pc # "idle", NEW r \in Worker,
         worker' = [worker EXCEPT ![k] = r],
         r.pc \notin {"idle", "starting", "backing off", "updating", "launching"}, Plans(r),
         UNCHANGED <<receipt, claims, core, recorded, delivery, history>>
  PROVE  LaunchInductive'
<1>1. WorkerHolds(k, r, job, disturbed)
  BY DEF WorkerHolds, Waits, Plans, Aims, Wants
<1> QED BY <1>1, QuietStep

LEMMA ReplayKeeps ==
  ASSUME LaunchInductive, NEW k \in Keys, Replay(k)
  PROVE  LaunchInductive'
<1> PICK r : r = [Idle EXCEPT !.pc = "returned"]
  OBVIOUS
<1>1. r \in Worker /\ r.pc = "returned"
  <2> PICK s \in Worker : s = Idle
    BY IdleType
  <2> QED BY DEF Worker, States
<1>2. worker' = [worker EXCEPT ![k] = r] /\ worker[k].pc # "idle"
  BY DEF Replay, Returns, At
<1>3. UNCHANGED <<receipt, claims, core, recorded, delivery, history>>
  BY DEF Replay
<1>4. Plans(r)
  BY <1>1 DEF Plans
<1> QED BY <1>1, <1>2, <1>3, <1>4, QuietRecord

LEMMA ReadJobKeeps ==
  ASSUME LaunchInductive, NEW k \in Keys, ReadJob(k)
  PROVE  LaunchInductive'
<1> PICK s : s = worker[k]
  OBVIOUS
<1> PICK base : base = job.configuration
  OBVIOUS
<1> PICK overrides : overrides = receipt[k].request
  OBVIOUS
<1> PICK wanted : wanted = Merge(base, overrides)
  OBVIOUS
<1> PICK pc : pc = IF wanted = base THEN "launching" ELSE "preparing"
  OBVIOUS
<1> PICK r : r = [s EXCEPT !.pc = pc, !.base = base, !.wanted = wanted]
  OBVIOUS
<1>1. s \in Worker /\ s.pc = "reading" /\ base \in Configurations /\ overrides \in Overrides
  BY DEF LaunchInductive, TypeOK, ReadJob, At, Receipt
<1>2. wanted \in Configurations
  BY <1>1, MergeType
<1>3. r \in Worker /\ r.pc = pc /\ r.base = base /\ r.wanted = wanted
  BY <1>1, <1>2 DEF Worker, States
<1>4. /\ worker' = [worker EXCEPT ![k] = r] /\ disturbed' = disturbed \ {k}
      /\ UNCHANGED <<job, run, finished, written, receipt, claims, recorded, delivery>>
  BY DEF ReadJob, core
<1>5. ReceiptsStay /\ DeliveryTyped' /\ disturbed' \subseteq Keys
  BY <1>4, ReceiptsUnchanged, DeliveryUnchanged DEF LaunchInductive, TypeOK
<1>6. WorkerHolds(k, r, job, disturbed')
  <2>1. pc \in {"launching", "preparing"} /\ (pc = "launching" => wanted = base)
    OBVIOUS
  <2>2. Waits(r) /\ Plans(r) /\ Aims(r, job)
    BY <1>2, <1>3, <2>1 DEF Waits, Plans, Aims
  <2>3. Wants(k, r, job, disturbed')
    BY <1>3, <2>1 DEF Wants
  <2> QED BY <2>2, <2>3 DEF WorkerHolds
<1>7. r.pc # "idle" /\ receipt'[k] \in Receipt /\ claims' = claims \cup {k}
  BY <1>1, <1>3, <1>4 DEF LaunchInductive, TypeOK
<1>8. \A q \in Keys \ {k} : q \in disturbed => q \in disturbed'
  BY <1>4
<1> QED BY <1>3, <1>4, <1>5, <1>6, <1>7, <1>8, WorkerMoves

LEMMA PrepareKeeps ==
  ASSUME LaunchInductive, NEW k \in Keys, Prepare(k)
  PROVE  LaunchInductive'
<1> PICK s : s = worker[k]
  OBVIOUS
<1> PICK r : r = [s EXCEPT !.pc = "checking"]
  OBVIOUS
<1>1. s \in Worker /\ s.pc # "idle" /\ s.wanted \in Configurations
  BY DEF LaunchInductive, TypeOK, Prepare, At, WorkerHolds, Plans
<1>2. r \in Worker /\ r.pc = "checking" /\ Plans(r)
  BY <1>1 DEF Worker, States, Plans
<1>3. worker' = [worker EXCEPT ![k] = r] /\ UNCHANGED <<receipt, claims, core, recorded, delivery, history>>
  BY DEF Prepare, Becomes
<1> QED BY <1>1, <1>2, <1>3, QuietRecord

LEMMA CheckJobKeeps ==
  ASSUME LaunchInductive, NEW k \in Keys, CheckJob(k)
  PROVE  LaunchInductive'
<1> PICK s : s = worker[k]
  OBVIOUS
<1> PICK revision : revision = job.revision
  OBVIOUS
<1>1. /\ s \in Worker /\ s.pc = "checking" /\ s.wanted \in Configurations
      /\ revision \in 0..MaxRevision /\ revision \in Nat
  BY DEF LaunchInductive, TypeOK, CheckJob, At, WorkerHolds, Plans
<1>2. UNCHANGED <<job, run, finished, written, receipt, claims, recorded, delivery>>
  BY DEF CheckJob, core
<1>3. /\ disturbed' \subseteq Keys /\ \A q \in Keys \ {k} : q \in disturbed => q \in disturbed'
      /\ ReceiptsStay /\ DeliveryTyped'
  BY <1>2, ReceiptsUnchanged, DeliveryUnchanged DEF LaunchInductive, TypeOK, CheckJob
<1>4. ASSUME NEW r \in Worker, worker' = [worker EXCEPT ![k] = r], r.pc # "idle", WorkerHolds(k, r, job, disturbed')
      PROVE  LaunchInductive'
  <2>1. receipt'[k] \in Receipt /\ claims' = claims \cup {k}
    BY <1>1, <1>2 DEF LaunchInductive, TypeOK
  <2> QED BY <1>2, <1>3, <1>4, <2>1, WorkerMoves
<1>5. CASE job.configuration = s.wanted /\ Becomes(k, "launching")
  <2> PICK r : r = [s EXCEPT !.pc = "launching"]
    OBVIOUS
  <2>1. r \in Worker /\ r.pc = "launching" /\ r.wanted = s.wanted
    BY <1>1 DEF Worker, States
  <2>2. worker' = [worker EXCEPT ![k] = r]
    BY <1>5 DEF Becomes
  <2>3. WorkerHolds(k, r, job, disturbed')
    BY <1>1, <1>5, <2>1 DEF WorkerHolds, Waits, Plans, Aims, Wants
  <2> QED BY <1>4, <2>1, <2>2, <2>3
<1>6. CASE Fails(k, FALSE)
  <2>1. FALSE \in BOOLEAN
    OBVIOUS
  <2>2. PICK r \in Worker : worker' = [worker EXCEPT ![k] = r] /\ r.pc \in {"failing", "backing off"} /\ Waits(r)
    BY <1>6, <2>1, FailsFacts
  <2>3. WorkerHolds(k, r, job, disturbed')
    BY <2>2 DEF WorkerHolds, Plans, Aims, Wants
  <2> QED BY <1>4, <2>2, <2>3
<1>7. CASE job.configuration = s.base /\ worker' = [worker EXCEPT ![k] = [s EXCEPT !.pc = "updating", !.revision = job.revision]]
  <2> PICK r : r = [s EXCEPT !.pc = "updating", !.revision = revision]
    OBVIOUS
  <2>1. r \in Worker /\ r.pc = "updating" /\ r.base = s.base /\ r.revision = revision /\ r.wanted = s.wanted
    BY <1>1 DEF Worker, States
  <2>2. WorkerHolds(k, r, job, disturbed')
    BY <1>1, <1>7, <2>1 DEF WorkerHolds, Waits, Plans, Aims, Wants
  <2>3. worker' = [worker EXCEPT ![k] = r]
    BY <1>7
  <2> QED BY <1>4, <2>1, <2>2, <2>3
<1> QED BY <1>5, <1>6, <1>7 DEF CheckJob

\* The Job changes: its revision is a new one.
LEMMA JobMoves ==
  ASSUME LaunchInductive, UNCHANGED <<run, finished, receipt, claims, recorded, delivery>>,
         NEW configuration \in Configurations, job.revision < MaxRevision,
         job' = [configuration |-> configuration, revision |-> job.revision + 1],
         disturbed' \subseteq Keys,
         worker' \in [Keys -> Worker], \A q \in Keys : worker'[q].pc = "idle" <=> worker[q].pc = "idle",
         written' \in [Keys -> Nat], \A q \in Keys : written'[q] < job.revision + 1,
         \A q \in Keys : Waits(worker'[q]) /\ Plans(worker'[q]) /\ Wants(q, worker'[q], job', disturbed'),
         \A q \in Keys : worker'[q].pc = "updating" => worker'[q] = worker[q]
  PROVE  LaunchInductive'
<1>1. job.revision \in 1..MaxRevision /\ MaxRevision \in Nat
  BY LaunchAssumption DEF LaunchInductive, TypeOK
<1>2. job' \in [configuration : Configurations, revision : 1..MaxRevision] /\ job'.revision = job.revision + 1
  BY <1>1
<1>3. written' \in [Keys -> 0..MaxRevision]
  <2>1. \A q \in Keys : written'[q] \in Nat /\ written'[q] < job.revision + 1
    OBVIOUS
  <2>2. \A q \in Keys : written'[q] \in 0..MaxRevision
    BY <1>1, <2>1
  <2> QED BY <2>2
<1>4. TypeOK'
  BY <1>2, <1>3 DEF LaunchInductive, TypeOK, delivery
<1>5. ASSUME NEW q \in Keys PROVE Aims(worker'[q], job')
  <2> PICK r : r = worker[q]
    OBVIOUS
  <2>1. r \in Worker /\ Aims(r, job)
    BY DEF LaunchInductive, TypeOK, WorkerHolds
  <2>2. r.revision \in Nat
    BY <2>1 DEF Worker
  <2> QED BY <1>1, <1>2, <2>1, <2>2 DEF Aims
<1>6. \A q \in Keys : worker'[q].pc # "idle" => receipt'[q] \in Receipt
  BY DEF LaunchInductive
<1>7. ReceiptsTyped'
  BY DEF LaunchInductive, ReceiptsTyped
<1>8. \A q \in Keys : written'[q] < job'.revision
  BY <1>2
<1> QED BY <1>4, <1>5, <1>6, <1>7, <1>8 DEF LaunchInductive, WorkerHolds

LEMMA ChangeKeeps ==
  ASSUME LaunchInductive, NEW configuration \in Configurations, Change(configuration)
  PROVE  LaunchInductive'
<1>1. UNCHANGED <<run, finished, worker, receipt, claims, recorded, delivery, written>>
  BY DEF Change
<1>2. job.revision < MaxRevision /\ job' = [configuration |-> configuration, revision |-> job.revision + 1]
  BY DEF Change
<1>3. disturbed' = IF configuration = job.configuration THEN disturbed ELSE Keys
  BY DEF Change
<1>4. disturbed' \subseteq Keys /\ job'.configuration = configuration /\ disturbed \subseteq disturbed'
  BY <1>2, <1>3 DEF LaunchInductive, TypeOK
<1>5. ASSUME NEW q \in Keys PROVE Waits(worker'[q]) /\ Plans(worker'[q]) /\ Wants(q, worker'[q], job', disturbed')
  BY <1>1, <1>3, <1>4 DEF LaunchInductive, WorkerHolds, Wants
<1>6. job.revision \in Nat /\ \A q \in Keys : written[q] \in Nat /\ written[q] < job.revision
  BY DEF LaunchInductive, TypeOK
<1>7. written' \in [Keys -> Nat] /\ \A q \in Keys : written'[q] < job.revision + 1
  BY <1>1, <1>6 DEF LaunchInductive, TypeOK
<1>8. worker' \in [Keys -> Worker]
  BY <1>1 DEF LaunchInductive, TypeOK
<1> QED BY <1>1, <1>2, <1>4, <1>5, <1>7, <1>8, JobMoves

LEMMA SaveKeeps ==
  ASSUME LaunchInductive, NEW k \in Keys, Save(k)
  PROVE  LaunchInductive'
<1> PICK s : s = worker[k]
  OBVIOUS
<1> PICK configuration : configuration = s.wanted
  OBVIOUS
<1>1. /\ UNCHANGED <<run, finished, receipt, claims, recorded, delivery>>
      /\ job.revision < MaxRevision /\ job' = [configuration |-> configuration, revision |-> job.revision + 1]
      /\ disturbed' = Keys \ {k} /\ written' = [written EXCEPT ![k] = @ + 1]
  BY DEF Save
<1>2. s \in Worker /\ s.pc = "updating" /\ configuration \in Configurations
  BY DEF LaunchInductive, TypeOK, Save, At, WorkerHolds, Plans
<1>3. PICK r \in Worker : /\ worker' = [worker EXCEPT ![k] = r] /\ Waits(r)
                          /\ \/ r.pc \in {"failing", "backing off"}
                             \/ r.pc = "launching" /\ r.wanted = configuration
  <2>1. CASE worker' = [worker EXCEPT ![k] = [s EXCEPT !.pc = "launching", !.saved = TRUE]]
    <3> PICK r : r = [s EXCEPT !.pc = "launching", !.saved = TRUE]
      OBVIOUS
    <3>1. r \in Worker /\ r.pc = "launching" /\ r.wanted = configuration
      BY <1>2 DEF Worker, States
    <3> QED BY <2>1, <3>1 DEF Waits
  <2>2. CASE TimesOut(k)
    BY <2>2, TimesOutFacts
  <2> QED BY <2>1, <2>2 DEF Save
<1>4. worker' \in [Keys -> Worker] /\ worker'[k] = r /\ \A q \in Keys \ {k} : worker'[q] = worker[q]
  BY <1>3 DEF LaunchInductive, TypeOK
<1>5. job'.configuration = configuration
  BY <1>1
<1>6. ASSUME NEW q \in Keys PROVE Waits(worker'[q]) /\ Plans(worker'[q]) /\ Wants(q, worker'[q], job', disturbed')
  BY <1>1, <1>2, <1>3, <1>4, <1>5 DEF LaunchInductive, WorkerHolds, Plans, Wants
<1>7. job.revision \in Nat /\ \A q \in Keys : written[q] \in Nat /\ written[q] < job.revision
  BY DEF LaunchInductive, TypeOK
<1>8. written' \in [Keys -> Nat] /\ \A q \in Keys : written'[q] < job.revision + 1
  <2>1. written \in [Keys -> Nat]
    BY DEF LaunchInductive, TypeOK
  <2> QED BY <1>1, <1>7, <2>1
<1>9. disturbed' \subseteq Keys
  BY <1>1
<1>10. \A q \in Keys : worker'[q].pc = "idle" <=> worker[q].pc = "idle"
  BY <1>2, <1>3, <1>4
<1>11. \A q \in Keys : worker'[q].pc = "updating" => worker'[q] = worker[q]
  BY <1>3, <1>4
<1> QED BY <1>1, <1>2, <1>4, <1>6, <1>8, <1>9, <1>10, <1>11, JobMoves

LEMMA MismatchKeeps ==
  ASSUME LaunchInductive, NEW k \in Keys, Mismatch(k)
  PROVE  LaunchInductive'
<1> PICK s : s = worker[k]
  OBVIOUS
<1>1. s \in Worker /\ s.pc = "updating" /\ s.wanted \in Configurations
  BY DEF LaunchInductive, TypeOK, Mismatch, At, WorkerHolds, Plans
<1>2. UNCHANGED <<receipt, claims, core, recorded, delivery, history>>
  BY DEF Mismatch
<1>3. CASE s.try + 1 < Tries /\ worker' = [worker EXCEPT ![k] = [s EXCEPT !.pc = "checking", !.try = s.try + 1]]
  <2> PICK try : try = s.try + 1
    OBVIOUS
  <2>1. try \in 0..Tries
    <3> PICK t : t = s.try
      OBVIOUS
    <3>1. t \in 0..Tries /\ Tries \in Nat
      BY <1>1, LaunchAssumption DEF Worker
    <3> QED BY <1>3, <3>1
  <2> PICK r : r = [s EXCEPT !.pc = "checking", !.try = try]
    OBVIOUS
  <2>2. r \in Worker /\ r.pc = "checking" /\ Plans(r)
    BY <1>1, <2>1 DEF Worker, States, Plans
  <2>3. worker' = [worker EXCEPT ![k] = r]
    BY <1>3
  <2> QED BY <1>1, <1>2, <2>2, <2>3, QuietRecord
<1>4. CASE \E retryable \in BOOLEAN : Fails(k, retryable)
  BY <1>1, <1>2, <1>4, EndedStep
<1> QED BY <1>3, <1>4 DEF Mismatch

LEMMA RaisesKeeps ==
  ASSUME LaunchInductive, NEW k \in Keys, Raises(k)
  PROVE  LaunchInductive'
<1>1. worker[k].pc # "idle"
  BY DEF Raises
<1>2. UNCHANGED <<receipt, claims, core, recorded, delivery, history>>
  BY DEF Raises
<1>3. TimesOut(k) \/ \E retryable \in BOOLEAN : Fails(k, retryable)
  BY DEF Raises
<1> QED BY <1>1, <1>2, <1>3, EndedStep

\* A run is started, or its reply is lost.
LEMMA StartRunKeeps ==
  ASSUME LaunchInductive, NEW k \in Keys, StartRun(k)
  PROVE  LaunchInductive'
<1> PICK s : s = worker[k]
  OBVIOUS
<1> PICK configuration : configuration = job.configuration
  OBVIOUS
<1>1. s \in Worker /\ s.pc = "launching" /\ s.wanted \in Configurations /\ configuration \in Configurations
  BY DEF LaunchInductive, TypeOK, StartRun, At, WorkerHolds, Plans
<1>2. PICK r \in Worker : /\ worker' = [worker EXCEPT ![k] = r] /\ Waits(r) /\ Plans(r)
                          /\ r.pc \in {"failing", "backing off", "launched"}
  <2>1. CASE Becomes(k, "launched")
    <3> PICK r : r = [s EXCEPT !.pc = "launched"]
      OBVIOUS
    <3>1. r \in Worker /\ r.pc = "launched" /\ r.wanted = s.wanted
      BY <1>1 DEF Worker, States
    <3>2. worker' = [worker EXCEPT ![k] = r] /\ Waits(r) /\ Plans(r)
      BY <1>1, <2>1, <3>1 DEF Becomes, Waits, Plans
    <3> QED BY <3>1, <3>2
  <2>2. CASE TimesOut(k)
    <3>1. PICK r \in Worker : worker' = [worker EXCEPT ![k] = r] /\ r.pc \in {"failing", "backing off"} /\ Waits(r)
      BY <2>2, TimesOutFacts
    <3>2. Plans(r)
      BY <3>1 DEF Plans
    <3> QED BY <3>1, <3>2
  <2> QED BY <2>1, <2>2 DEF StartRun
<1>3. UNCHANGED <<receipt, claims, job, finished, recorded, delivery, written, disturbed>>
  BY DEF StartRun, history
<1>4. run' \in [Keys -> Configurations \cup {NoRun}] /\ \A q \in Keys : run[q] # NoRun => run'[q] # NoRun
  <2>1. run' = IF run[k] = NoRun THEN [run EXCEPT ![k] = configuration] ELSE run
    BY DEF StartRun
  <2>2. run \in [Keys -> Configurations \cup {NoRun}]
    BY DEF LaunchInductive, TypeOK
  <2> QED BY <1>1, <2>1, <2>2
<1>5. worker' \in [Keys -> Worker] /\ worker'[k] = r /\ \A q \in Keys \ {k} : worker'[q] = worker[q]
  BY <1>2 DEF LaunchInductive, TypeOK
<1>6. claims' = {q \in Keys : worker'[q].pc # "idle"}
  BY <1>1, <1>2, <1>3, <1>5 DEF LaunchInductive, TypeOK
<1>7. finished' \subseteq {q \in Keys : run'[q] # NoRun}
  BY <1>3, <1>4 DEF LaunchInductive, TypeOK
<1>8. TypeOK'
  BY <1>3, <1>4, <1>5, <1>6, <1>7 DEF LaunchInductive, TypeOK, delivery
<1>9. ASSUME NEW q \in Keys PROVE WorkerHolds(q, worker'[q], job', disturbed')
  <2>1. CASE q = k
    BY <1>2, <1>5, <2>1 DEF WorkerHolds, Aims, Wants
  <2>2. CASE q # k
    BY <1>3, <1>5, <2>2 DEF LaunchInductive
  <2> QED BY <2>1, <2>2
<1>10. \A q \in Keys : worker'[q].pc # "idle" => receipt'[q] \in Receipt
  BY <1>1, <1>3, <1>5 DEF LaunchInductive
<1>11. ReceiptsTyped' /\ \A q \in Keys : written'[q] < job'.revision
  BY <1>3 DEF LaunchInductive, ReceiptsTyped
<1> QED BY <1>8, <1>9, <1>10, <1>11 DEF LaunchInductive

LEMMA RelaysType ==
  ASSUME LaunchInductive, NEW k \in Keys, NEW place \in {"run", "preparation"}
  PROVE  Relays(k, place) \subseteq [key : Keys, place : {"run", "preparation"}, recorded : BOOLEAN]
<1> PICK types : types = [key : Keys, place : {"run", "preparation"}, recorded : BOOLEAN]
  OBVIOUS
<1>1. relay \subseteq types
  BY DEF LaunchInductive, TypeOK
<1>2. ASSUME NEW r \in types PROVE [r EXCEPT !.recorded = FALSE] \in types
  OBVIOUS
<1>3. [key |-> k, place |-> place, recorded |-> TRUE] \in types
  OBVIOUS
<1>4. ASSUME NEW r \in Relays(k, place) PROVE r \in types
  BY <1>1, <1>2, <1>3 DEF Relays
<1> QED BY <1>4

LEMMA LaunchedKeeps ==
  ASSUME LaunchInductive, NEW k \in Keys, Launched(k)
  PROVE  LaunchInductive'
<1> PICK r : r = [Idle EXCEPT !.pc = "returned"]
  OBVIOUS
<1>1. r \in Worker /\ r.pc = "returned"
  <2> PICK s \in Worker : s = Idle
    BY IdleType
  <2> QED BY DEF Worker, States
<1>2. worker' = [worker EXCEPT ![k] = r] /\ worker[k].pc # "idle"
  BY DEF Launched, Returns, At
<1>3. UNCHANGED <<receipt, claims, job, run, finished, delivered, written, disturbed>>
  BY DEF Launched, core, history
<1>4. DeliveryTyped'
  <2>1. relay' = Relays(k, "run") \/ relay' = Relays(k, "preparation")
    BY DEF Launched
  <2>2. relay' \subseteq [key : Keys, place : {"run", "preparation"}, recorded : BOOLEAN]
    BY <2>1, RelaysType
  <2>3. recorded' \subseteq recorded \cup {k} /\ mapped' \subseteq mapped \cup {k}
    BY DEF Launched
  <2> QED BY <1>3, <2>2, <2>3 DEF DeliveryTyped, LaunchInductive, TypeOK
<1>5. ReceiptsStay /\ disturbed' \subseteq Keys /\ receipt'[k] \in Receipt /\ claims' = claims \cup {k}
  BY <1>2, <1>3, ReceiptsUnchanged DEF LaunchInductive, TypeOK
<1>6. WorkerHolds(k, r, job, disturbed')
  BY <1>1 DEF WorkerHolds, Waits, Plans, Aims, Wants
<1> QED BY <1>1, <1>2, <1>3, <1>4, <1>5, <1>6, WorkerMoves

-----------------------------------------------------------------------------
(* The outputs, Core and the process *)

LEMMA ReconcileKeeps ==
  ASSUME LaunchInductive, NEW k \in Keys, Reconcile(k)
  PROVE  LaunchInductive'
<1>1. /\ UNCHANGED <<receipt, claims, job, run, finished, worker, recorded, mapped, delivered, written, disturbed>>
      /\ relay' = Relays(k, "run")
  BY DEF Reconcile, core, history
<1>2. DeliveryTyped'
  BY <1>1, RelaysType DEF DeliveryTyped, LaunchInductive, TypeOK
<1>3. ReceiptsStay /\ finished' \subseteq {q \in Keys : run[q] # NoRun}
  BY <1>1, ReceiptsUnchanged DEF LaunchInductive, TypeOK
<1> QED BY <1>1, <1>2, <1>3, OthersMove

LEMMA RelayEndsKeeps ==
  ASSUME LaunchInductive, NEW r \in relay, Deliver(r) \/ Die(r)
  PROVE  LaunchInductive'
<1>1. /\ UNCHANGED <<receipt, claims, job, run, finished, worker, recorded, mapped, written, disturbed>>
      /\ relay' = relay \ {r} /\ delivered' \subseteq delivered \cup {r.key}
  BY DEF Deliver, Die, core, history
<1>2. DeliveryTyped'
  BY <1>1 DEF DeliveryTyped, LaunchInductive, TypeOK
<1>3. ReceiptsStay /\ finished' \subseteq {q \in Keys : run[q] # NoRun}
  BY <1>1, ReceiptsUnchanged DEF LaunchInductive, TypeOK
<1> QED BY <1>1, <1>2, <1>3, OthersMove

LEMMA FinishKeeps ==
  ASSUME LaunchInductive, NEW k \in Keys, Finish(k)
  PROVE  LaunchInductive'
<1>1. /\ UNCHANGED <<receipt, claims, job, run, worker, recorded, delivery, written, disturbed>>
      /\ run[k] # NoRun /\ finished' = finished \cup {k}
  BY DEF Finish, history
<1>2. ReceiptsStay /\ DeliveryTyped' /\ finished' \subseteq {q \in Keys : run[q] # NoRun}
  BY <1>1, ReceiptsUnchanged, DeliveryUnchanged DEF LaunchInductive, TypeOK
<1> QED BY <1>1, <1>2, OthersMove

LEMMA RestartKeeps ==
  ASSUME LaunchInductive, Restart
  PROVE  LaunchInductive'
<1> PICK idle \in Worker : idle = Idle /\ idle.pc = "idle"
  BY IdleType
<1>1. /\ UNCHANGED <<receipt, job, run, finished, mapped, relay, delivered, written, disturbed>>
      /\ claims' = {} /\ recorded' = {} /\ worker' = [k \in Keys |-> idle]
  BY DEF Restart, Local!Release, core, delivery, history
<1>2. TypeOK'
  BY <1>1 DEF LaunchInductive, TypeOK
<1>3. \A q \in Keys : worker'[q].pc = "idle"
  BY <1>1
<1>4. \A q \in Keys : WorkerHolds(q, worker'[q], job', disturbed')
  BY <1>3 DEF WorkerHolds, Waits, Plans, Aims, Wants
<1>5. ReceiptsTyped' /\ \A q \in Keys : written'[q] < job'.revision
  BY <1>1 DEF LaunchInductive, ReceiptsTyped
<1> QED BY <1>2, <1>3, <1>4, <1>5 DEF LaunchInductive

LEMMA LaunchInit ==
  ASSUME Init
  PROVE  LaunchInductive
<1> PICK idle \in Worker : idle = Idle /\ idle.pc = "idle"
  BY IdleType
<1>1. /\ receipt = [k \in Keys |-> NoReceipt] /\ claims = {} /\ worker = [k \in Keys |-> idle]
      /\ run = [k \in Keys |-> NoRun] /\ written = [k \in Keys |-> 0]
      /\ finished = {} /\ recorded = {} /\ mapped = {} /\ relay = {} /\ delivered = {} /\ disturbed = {}
  BY DEF Init, Local!Init
<1>2. job \in [configuration : Configurations, revision : 1..MaxRevision] /\ job.revision = 1
  BY LaunchAssumption DEF Init
<1>3. 0 \in 0..MaxRevision
  BY LaunchAssumption
<1>4. TypeOK
  BY <1>1, <1>2, <1>3 DEF TypeOK
<1>5. ReceiptsTyped /\ \A k \in Keys : worker[k].pc = "idle"
  BY <1>1 DEF ReceiptsTyped
<1>6. \A k \in Keys : WorkerHolds(k, worker[k], job, disturbed)
  BY <1>5 DEF WorkerHolds, Waits, Plans, Aims, Wants
<1>7. \A k \in Keys : written[k] < job.revision
  <2>1. \A k \in Keys : written[k] = 0
    BY <1>1
  <2> PICK n : n = job.revision
    OBVIOUS
  <2>2. 0 < n
    BY <1>2
  <2> QED BY <2>1, <2>2
<1> QED BY <1>4, <1>5, <1>6, <1>7 DEF LaunchInductive

LEMMA LaunchStep ==
  ASSUME LaunchInductive, [Next]_vars
  PROVE  LaunchInductive'
<1>1. ASSUME NEW k \in Keys, Work(k) PROVE LaunchInductive'
  BY <1>1, NextAttemptKeeps, ReplayKeeps, ReadJobKeeps, PrepareKeeps, CheckJobKeeps, SaveKeeps, MismatchKeeps,
     StartRunKeeps, LaunchedKeeps, RaisesKeeps, PublishKeeps, EndsKeeps DEF Work
<1>2. ASSUME NEW k \in Keys, Look(k) \/ Reconcile(k) \/ Finish(k) PROVE LaunchInductive'
  BY <1>2, LookKeeps, ReconcileKeeps, FinishKeeps
<1>3. ASSUME NEW r \in relay, Deliver(r) \/ Die(r) PROVE LaunchInductive'
  BY <1>3, RelayEndsKeeps
<1>4. CASE UNCHANGED vars
  <2>1. UNCHANGED <<receipt, claims, job, run, finished, worker, recorded, mapped, relay, delivered, written, disturbed>>
    BY <1>4 DEF vars, core, delivery, history
  <2>2. TypeOK' /\ ReceiptsTyped'
    BY <2>1 DEF LaunchInductive, TypeOK, ReceiptsTyped
  <2> QED BY <2>1, <2>2 DEF LaunchInductive
<1> QED BY <1>1, <1>2, <1>3, <1>4, SubmitKeeps, ChangeKeeps, RestartKeeps DEF Next

LEMMA LaunchInvariant == Spec => []LaunchInductive
BY LaunchInit, LaunchStep, PTL DEF Spec

\* The launches, their workers, the Job and its runs have the types of the model.
THEOREM LaunchesAreTyped == Spec => []TypeOK
<1>1. LaunchInductive => TypeOK
  BY DEF LaunchInductive
<1> QED BY <1>1, LaunchInvariant, PTL

\* create_job_run: a launch saves the configuration of its request only over the
\* configuration its overrides were merged into.
THEOREM SavesOverwriteNothing == Spec => NothingOverwritten
<1>1. ASSUME LaunchInductive, [Next]_vars, NEW k \in Keys, written'[k] # written[k]
      PROVE  job.configuration = worker[k].base
  <2>1. PICK q \in Keys : Save(q)
    BY <1>1 DEF Next, Work, vars, history, Submit, Look, Reconcile, Finish, Deliver, Die, Change, Restart, NextAttempt,
       Replay, ReadJob, Prepare, CheckJob, Mismatch, StartRun, Launched, Raises, PublishCompleted, PublishFailed, Ends
  <2>2. q = k
    BY <1>1, <2>1 DEF Save, LaunchInductive, TypeOK
  <2>3. worker[k].pc = "updating" /\ job.revision = worker[k].revision
    BY <2>1, <2>2 DEF Save, At
  <2> QED BY <1>1, <2>3 DEF LaunchInductive, WorkerHolds, Aims
<1>2. LaunchInductive /\ [Next]_vars => [\A k \in Keys : written'[k] # written[k] => job.configuration = worker[k].base]_vars
  BY <1>1
<1> QED BY <1>2, LaunchInvariant, PTL DEF Spec, NothingOverwritten

\* create_job_run: the run of a launch has the overrides of its request, unless
\* the Job was changed after the launch had seen it as it wanted it.
THEOREM RunsUseTheirOverrides == Spec => RunUsesOverrides
<1>1. ASSUME LaunchInductive, [Next]_vars, NEW k \in Keys, run'[k] # run[k]
      PROVE  run'[k] = worker[k].wanted \/ k \in disturbed
  <2>1. PICK q \in Keys : StartRun(q)
    BY <1>1 DEF Next, Work, vars, core, Submit, Look, Reconcile, Finish, Deliver, Die, Change, Restart, NextAttempt,
       Replay, ReadJob, Prepare, CheckJob, Mismatch, Save, Launched, Raises, PublishCompleted, PublishFailed, Ends
  <2>2. q = k /\ run'[k] = job.configuration
    BY <1>1, <2>1 DEF StartRun, LaunchInductive, TypeOK
  <2>3. worker[k].pc = "launching"
    BY <2>1, <2>2 DEF StartRun, At
  <2> QED BY <1>1, <2>2, <2>3 DEF LaunchInductive, WorkerHolds, Wants
<1>2. LaunchInductive /\ [Next]_vars => [\A k \in Keys : run'[k] # run[k] => run'[k] = worker[k].wanted \/ k \in disturbed]_vars
  BY <1>1
<1> QED BY <1>2, LaunchInvariant, PTL DEF Spec, RunUsesOverrides
=============================================================================
