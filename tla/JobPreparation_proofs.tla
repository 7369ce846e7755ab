------------------------- MODULE JobPreparation_proofs -------------------------
(***************************************************************************)
(* Theorems about JobPreparation for any keys, requests, Jobs and handlers. *)
(* A handler submits what it read earlier and a worker writes what it read *)
(* earlier; the argument is that everything they carry is pinned by a      *)
(* receipt, which never changes its request and its options once it is     *)
(* accepted, or by a Job that never goes away.                             *)
(***************************************************************************)
EXTENDS JobPreparation, TLAPS

\* A correction follows the receipt of the key it corrects, and takes its Job.
Follows(c, o) ==
  /\ receipt[c] # NoReceipt => receipt[o] # NoReceipt /\ receipt[c].options.job = receipt[o].options.job
  /\ \A h \in Handlers :
       handler[h].pc = "submitting" /\ handler[h].op = c =>
         receipt[o] # NoReceipt /\ handler[h].options.job = receipt[o].options.job

CorrectionsFollow == \A c \in Corrections, o \in Creations : c[2] = o[2] => Follows(c, o)

\* An update is about the Job of its path, which exists.
UpdatesAim ==
  \A op \in Updates :
    /\ receipt[op] # NoReceipt => receipt[op].options.job = op[3]
    /\ \A h \in Handlers :
         handler[h].pc = "submitting" /\ handler[h].op = op => handler[h].options.job = op[3]

\* Core holds a Job that was prepared, and every configuration it holds was saved.
JobsStand ==
  /\ \A j \in Prepared : job[j] # NoJob
  /\ \A j \in Jobs : job[j] # NoJob => <<j, job[j].configuration>> \in saved

\* What a worker carries is what its receipt says.
AttemptHolds(op) ==
  /\ ~At(op, "idle") => receipt[op] # NoReceipt /\ worker[op].request = receipt[op].request
  /\ worker[op].pc \in {"updating", "writing"} =>
       /\ job[Target(op)] # NoJob
       /\ op \in Updates => worker[op].revision = receipt[op].options.fence
  /\ At(op, "returned") => <<Target(op), Wanted(op)>> \in saved

AttemptsHold == \A op \in Operations : AttemptHolds(op)

Inductive ==
  TypeOK /\ CorrectionsFollow /\ UpdatesAim /\ JobsStand /\ AttemptsHold /\ CompletedWasSaved

-----------------------------------------------------------------------------
(* The identities of operations *)

LEMMA IdentitiesDiffer ==
  /\ Creations \subseteq Operations /\ Corrections \subseteq Operations /\ Updates \subseteq Operations
  /\ \A k \in CreationKeys : Creation(k) \in Creations /\ Creation(k)[2] = k
  /\ \A k \in CreationKeys, r \in Requests : Correction(k, r) \in Corrections /\ Correction(k, r)[2] = k
  /\ \A o, p \in Creations : o[2] = p[2] => o = p
  /\ \A op \in Updates : op[3] \in Prepared /\ op \notin Creations /\ op \notin Corrections
  /\ \A o \in Creations : o \notin Corrections
<1>1. Creations \subseteq Operations /\ Corrections \subseteq Operations /\ Updates \subseteq Operations
  BY DEF Operations
<1>2. \A k \in CreationKeys : Creation(k) \in Creations /\ Creation(k)[2] = k
  BY DEF Creations, Creation
<1>3. \A k \in CreationKeys, r \in Requests : Correction(k, r) \in Corrections /\ Correction(k, r)[2] = k
  BY DEF Corrections, Correction
<1>4. \A o, p \in Creations : o[2] = p[2] => o = p
  BY DEF Creations, Creation
<1>5. \A op \in Updates : op[3] \in Prepared /\ op \notin Creations /\ op \notin Corrections
  BY DEF Creations, Corrections, Updates, Creation, Correction, Update
<1>6. \A o \in Creations : o \notin Corrections
  BY DEF Creations, Corrections, Creation, Correction
<1> QED BY <1>1, <1>2, <1>3, <1>4, <1>5, <1>6

-----------------------------------------------------------------------------
(* What a step keeps *)

\* No receipt is accepted or lost, and every one keeps its request and options.
ReceiptsArePinned ==
  /\ receipt' \in [Operations -> Receipt \cup {NoReceipt}]
  /\ \A op \in Operations : receipt'[op] = NoReceipt <=> receipt[op] = NoReceipt
  /\ \A op \in Operations : receipt[op] # NoReceipt =>
       receipt'[op].request = receipt[op].request /\ receipt'[op].options = receipt[op].options

\* A receipt of the operation says the status, and no other receipt changes.
Publishes(op, status) ==
  /\ ReceiptsArePinned
  /\ receipt'[op].status = status
  /\ \A o \in Operations \ {op} : receipt'[o] = receipt[o]

HandlersLeave == \A h \in Handlers : handler'[h] = handler[h] \/ handler'[h] = Idle

\* Core forgets no Job and the history no configuration.
JobsStay ==
  /\ \A j \in Jobs : job[j] # NoJob => job'[j] # NoJob
  /\ saved \subseteq saved'

\* The attempt of one operation goes on, the others stand still.
Moves(op, pc) ==
  /\ worker' \in [Operations -> Attempt \cup {Idle}]
  /\ worker'[op].pc = pc
  /\ worker'[op].request = worker[op].request
  /\ \A o \in Operations \ {op} : worker'[o] = worker[o]

LEMMA ReceiptsStay ==
  ASSUME TypeOK, UNCHANGED receipt
  PROVE  ReceiptsArePinned
BY DEF TypeOK, ReceiptsArePinned

LEMMA OneReceiptPublished ==
  ASSUME TypeOK, NEW op \in Operations, receipt[op] # NoReceipt,
         NEW status, NEW published \in Receipt,
         published.request = receipt[op].request, published.options = receipt[op].options,
         published.status = status,
         receipt' = [receipt EXCEPT ![op] = published]
  PROVE  Publishes(op, status)
<1>1. receipt' \in [Operations -> Receipt \cup {NoReceipt}]
  BY DEF TypeOK
<1>2. receipt'[op] = published /\ \A o \in Operations \ {op} : receipt'[o] = receipt[o]
  BY DEF TypeOK
<1>3. published # NoReceipt
  BY PreparationAssumption
<1> QED BY <1>1, <1>2, <1>3 DEF Publishes, ReceiptsArePinned

LEMMA InterruptPublishes ==
  ASSUME TypeOK, NEW op \in Operations, Local!Interrupt(op)
  PROVE  Publishes(op, "interrupted")
<1> PICK published : published = [receipt[op] EXCEPT !.status = "interrupted"]
  OBVIOUS
<1>1. receipt[op] \in Receipt /\ receipt[op] # NoReceipt
  BY DEF TypeOK, Local!Interrupt
<1>2. receipt' = [receipt EXCEPT ![op] = published]
  BY DEF Local!Interrupt
<1>3. /\ published \in Receipt /\ published.request = receipt[op].request
      /\ published.options = receipt[op].options /\ published.status = "interrupted"
  BY <1>1 DEF Receipt
<1> QED BY <1>1, <1>2, <1>3, OneReceiptPublished

LEMMA AdvancePublishes ==
  ASSUME TypeOK, NEW op \in Operations, Local!Advance(op, 1)
  PROVE  Publishes(op, "running")
<1> PICK published : published = [receipt[op] EXCEPT !.status = "running", !.percent = 1]
  OBVIOUS
<1>1. receipt[op] \in Receipt /\ receipt[op] # NoReceipt
  BY DEF TypeOK, Local!Advance
<1>2. receipt' = [receipt EXCEPT ![op] = published]
  BY DEF Local!Advance
<1>3. /\ published \in Receipt /\ published.request = receipt[op].request
      /\ published.options = receipt[op].options /\ published.status = "running"
  <2>1. 1 \in 0..100
    OBVIOUS
  <2> QED BY <1>1, <2>1 DEF Receipt
<1> QED BY <1>1, <1>2, <1>3, OneReceiptPublished

LEMMA CompletePublishes ==
  ASSUME TypeOK, NEW op \in Operations, Local!Complete(op)
  PROVE  Publishes(op, "completed")
<1> PICK published : published = [receipt[op] EXCEPT !.status = "completed", !.percent = 100]
  OBVIOUS
<1>1. receipt[op] \in Receipt /\ receipt[op] # NoReceipt
  BY DEF TypeOK, Local!Complete
<1>2. receipt' = [receipt EXCEPT ![op] = published]
  BY DEF Local!Complete
<1>3. /\ published \in Receipt /\ published.request = receipt[op].request
      /\ published.options = receipt[op].options /\ published.status = "completed"
  <2>1. 100 \in 0..100
    OBVIOUS
  <2> QED BY <1>1, <2>1 DEF Receipt
<1> QED BY <1>1, <1>2, <1>3, OneReceiptPublished

LEMMA FailPublishes ==
  ASSUME TypeOK, NEW op \in Operations, NEW retryable \in BOOLEAN, Local!Fail(op, retryable)
  PROVE  Publishes(op, "failed")
<1> PICK published : published = [receipt[op] EXCEPT !.status = "failed", !.retryable = retryable]
  OBVIOUS
<1>1. receipt[op] \in Receipt /\ receipt[op] # NoReceipt
  BY DEF TypeOK, Local!Fail
<1>2. receipt' = [receipt EXCEPT ![op] = published]
  BY DEF Local!Fail
<1>3. /\ published \in Receipt /\ published.request = receipt[op].request
      /\ published.options = receipt[op].options /\ published.status = "failed"
  BY <1>1 DEF Receipt
<1> QED BY <1>1, <1>2, <1>3, OneReceiptPublished

LEMMA BecomesMoves ==
  ASSUME TypeOK, NEW op \in Operations, ~At(op, "idle"),
         NEW pc \in {"starting", "reading", "creating", "updating", "writing", "returned", "failing", "cleanup"},
         Becomes(op, pc)
  PROVE  Moves(op, pc) /\ worker'[op].revision = worker[op].revision
<1> PICK w : w = worker[op]
  OBVIOUS
<1> PICK v : v = [w EXCEPT !.pc = pc]
  OBVIOUS
<1>1. worker \in [Operations -> Attempt \cup {Idle}]
  BY DEF TypeOK
<1>2. w \in Attempt
  BY <1>1 DEF At, Idle
<1>3. v \in Attempt /\ v.pc = pc /\ v.request = w.request /\ v.revision = w.revision
  BY <1>2 DEF Attempt
<1>4. worker' = [worker EXCEPT ![op] = v]
  BY DEF Becomes
<1> QED BY <1>1, <1>3, <1>4 DEF Moves

LEMMA FailsMoves ==
  ASSUME TypeOK, NEW op \in Operations, ~At(op, "idle"),
         NEW retryable \in BOOLEAN, NEW stale \in BOOLEAN, Fails(op, retryable, stale)
  PROVE  Moves(op, "failing")
<1> PICK w : w = worker[op]
  OBVIOUS
<1> PICK v : v = [w EXCEPT !.pc = "failing", !.retryable = retryable, !.stale = stale]
  OBVIOUS
<1>1. worker \in [Operations -> Attempt \cup {Idle}]
  BY DEF TypeOK
<1>2. w \in Attempt
  BY <1>1 DEF At, Idle
<1>3. v \in Attempt /\ v.pc = "failing" /\ v.request = w.request
  BY <1>2 DEF Attempt
<1>4. worker' = [worker EXCEPT ![op] = v]
  BY DEF Fails
<1> QED BY <1>1, <1>3, <1>4 DEF Moves

LEMMA FencedMoves ==
  ASSUME TypeOK, NEW op \in Operations, ~At(op, "idle"), NEW revision \in Nat, Fenced(op, revision)
  PROVE  Moves(op, "updating") /\ worker'[op].revision = revision
<1> PICK w : w = worker[op]
  OBVIOUS
<1> PICK v : v = [w EXCEPT !.pc = "updating", !.revision = revision]
  OBVIOUS
<1>1. worker \in [Operations -> Attempt \cup {Idle}]
  BY DEF TypeOK
<1>2. w \in Attempt
  BY <1>1 DEF At, Idle
<1>3. v \in Attempt /\ v.pc = "updating" /\ v.request = w.request /\ v.revision = revision
  BY <1>2 DEF Attempt
<1>4. worker' = [worker EXCEPT ![op] = v]
  BY DEF Fenced
<1> QED BY <1>1, <1>3, <1>4 DEF Moves

-----------------------------------------------------------------------------
(* What quiet steps preserve *)

LEMMA StillFollow ==
  ASSUME CorrectionsFollow, ReceiptsArePinned, HandlersLeave
  PROVE  CorrectionsFollow'
<1> SUFFICES ASSUME NEW c \in Corrections, NEW o \in Creations, c[2] = o[2]
             PROVE  Follows(c, o)'
  BY DEF CorrectionsFollow
<1>1. c \in Operations /\ o \in Operations /\ Follows(c, o)
  BY IdentitiesDiffer DEF CorrectionsFollow
<1>2. \A h \in Handlers : handler'[h].pc = "submitting" => handler'[h] = handler[h]
  BY DEF HandlersLeave, Idle
<1> QED BY <1>1, <1>2 DEF Follows, ReceiptsArePinned

LEMMA StillAim ==
  ASSUME UpdatesAim, ReceiptsArePinned, HandlersLeave
  PROVE  UpdatesAim'
<1>1. \A op \in Updates : op \in Operations
  BY IdentitiesDiffer
<1>2. \A h \in Handlers : handler'[h].pc = "submitting" => handler'[h] = handler[h]
  BY DEF HandlersLeave, Idle
<1>3. ASSUME NEW op \in Updates, receipt'[op] # NoReceipt
      PROVE  receipt'[op].options.job = op[3]
  BY <1>1, <1>3 DEF UpdatesAim, ReceiptsArePinned
<1>4. ASSUME NEW op \in Updates, NEW h \in Handlers, handler'[h].pc = "submitting", handler'[h].op = op
      PROVE  handler'[h].options.job = op[3]
  BY <1>2, <1>4 DEF UpdatesAim
<1> QED BY <1>3, <1>4 DEF UpdatesAim

LEMMA StillHolds ==
  ASSUME TypeOK, JobsStay, NEW op \in Operations, AttemptHolds(op),
         receipt[op] # NoReceipt =>
           /\ receipt'[op] # NoReceipt
           /\ receipt'[op].request = receipt[op].request /\ receipt'[op].options = receipt[op].options,
         worker'[op] = worker[op] \/ worker'[op] = Idle
  PROVE  AttemptHolds(op)'
<1>1. CASE worker'[op] = Idle
  BY <1>1 DEF AttemptHolds, At, Idle
<1>2. CASE worker'[op] = worker[op] /\ ~At(op, "idle")
  <2>1. /\ receipt[op] # NoReceipt /\ receipt'[op] # NoReceipt
        /\ receipt'[op].request = receipt[op].request /\ receipt'[op].options = receipt[op].options
    BY <1>2 DEF AttemptHolds
  <2>2. receipt[op].options.job \in Jobs
    BY <2>1 DEF TypeOK, Receipt, Options
  <2> QED BY <1>2, <2>1, <2>2 DEF AttemptHolds, At, Target, Wanted, JobsStay
<1>3. CASE worker'[op] = worker[op] /\ At(op, "idle")
  BY <1>3 DEF AttemptHolds, At
<1> QED BY <1>1, <1>2, <1>3

LEMMA StillSaved ==
  ASSUME CompletedWasSaved, ReceiptsArePinned, saved \subseteq saved',
         \A op \in Operations : receipt[op] # NoReceipt /\ receipt'[op].status = "completed" => receipt[op].status = "completed"
  PROVE  CompletedWasSaved'
BY DEF CompletedWasSaved, Accepted, ReceiptsArePinned

JobsTyped ==
  /\ job \in [Jobs -> Job \cup {NoJob}]
  /\ \A j \in Jobs : job[j] # NoJob => job[j].revision \in 1..MaxRevision
  /\ applied \in [Updates -> 0..MaxRevision]
  /\ saved \subseteq Jobs \X Configurations

\* A worker goes on: what has to be shown about its step alone.
LEMMA WorkKeeps ==
  ASSUME Inductive, NEW op \in Operations, NEW pc, ~At(op, "idle"), pc # "idle", Moves(op, pc),
         ReceiptsArePinned, UNCHANGED <<claims, handler>>, JobsStay, JobsTyped', JobsStand',
         AttemptHolds(op)', CompletedWasSaved'
  PROVE  Inductive'
<1>1. HandlersLeave
  BY DEF HandlersLeave
<1>2. claims' = Working'
  <2>1. Working' = Working
    BY DEF Working, Moves, At
  <2> QED BY <2>1 DEF Inductive, TypeOK
<1>3. TypeOK'
  BY <1>2 DEF Inductive, TypeOK, JobsTyped, ReceiptsArePinned, Moves, Submission, Idle, Attempt
<1>4. CorrectionsFollow' /\ UpdatesAim'
  BY <1>1, StillFollow, StillAim DEF Inductive
<1>5. AttemptsHold'
  <2>1. \A o \in Operations \ {op} : AttemptHolds(o)'
    BY StillHolds DEF Moves, Inductive, AttemptsHold, ReceiptsArePinned
  <2> QED BY <2>1 DEF AttemptsHold
<1> QED BY <1>3, <1>4, <1>5 DEF Inductive

-----------------------------------------------------------------------------
(* The steps *)

\* Where the attempt stands, nothing of Core or the journal changes.
LEMMA LookedAtJobs ==
  ASSUME Inductive, NEW op \in Operations, ~At(op, "idle"), NEW pc,
         pc \notin {"idle", "updating", "writing", "returned"}, Moves(op, pc),
         UNCHANGED <<receipt, claims, job, handler, applied, saved>>
  PROVE  Inductive'
<1>1. ReceiptsArePinned /\ JobsStay
  BY ReceiptsStay DEF Inductive, JobsStay
<1>2. JobsTyped' /\ JobsStand'
  BY DEF Inductive, TypeOK, JobsTyped, JobsStand
<1>3. CompletedWasSaved'
  BY DEF Inductive, CompletedWasSaved, Accepted
<1>4. AttemptHolds(op)'
  BY DEF AttemptHolds, AttemptsHold, Inductive, Moves, At
<1> QED BY <1>1, <1>2, <1>3, <1>4, WorkKeeps

LEMMA ReturnedFromJobs ==
  ASSUME Inductive, NEW op \in Operations, ~At(op, "idle"), Becomes(op, "returned"),
         <<Target(op), Wanted(op)>> \in saved,
         UNCHANGED <<receipt, claims, job, handler, applied, saved>>
  PROVE  Inductive'
<1>1. ReceiptsArePinned /\ JobsStay
  BY ReceiptsStay DEF Inductive, JobsStay
<1>2. JobsTyped' /\ JobsStand'
  BY DEF Inductive, TypeOK, JobsTyped, JobsStand
<1>3. CompletedWasSaved'
  BY DEF Inductive, CompletedWasSaved, Accepted
<1>4. Moves(op, "returned")
  BY BecomesMoves DEF Inductive
<1>5. AttemptHolds(op)'
  BY <1>4 DEF AttemptHolds, AttemptsHold, Inductive, Moves, At, Target, Wanted
<1> QED BY <1>1, <1>2, <1>3, <1>4, <1>5, WorkKeeps

LEMMA FencedByJobs ==
  ASSUME Inductive, NEW op \in Operations, ~At(op, "idle"), NEW revision \in Nat, Fenced(op, revision),
         job[Target(op)] # NoJob, op \in Updates => revision = receipt[op].options.fence,
         UNCHANGED <<receipt, claims, job, handler, applied, saved>>
  PROVE  Inductive'
<1>1. ReceiptsArePinned /\ JobsStay
  BY ReceiptsStay DEF Inductive, JobsStay
<1>2. JobsTyped' /\ JobsStand'
  BY DEF Inductive, TypeOK, JobsTyped, JobsStand
<1>3. CompletedWasSaved'
  BY DEF Inductive, CompletedWasSaved, Accepted
<1>4. Moves(op, "updating") /\ worker'[op].revision = revision
  BY FencedMoves DEF Inductive
<1>5. AttemptHolds(op)'
  BY <1>4 DEF AttemptHolds, AttemptsHold, Inductive, Moves, At, Target, Wanted
<1> QED BY <1>1, <1>2, <1>3, <1>4, <1>5, WorkKeeps

LEMMA HasTarget ==
  ASSUME Inductive, NEW op \in Operations, ~At(op, "idle")
  PROVE  /\ receipt[op] \in Receipt /\ receipt[op] # NoReceipt
         /\ worker[op].request = receipt[op].request
         /\ Target(op) \in Jobs /\ Wanted(op) \in Configurations
         /\ receipt[op].options.fence \in Nat
<1>1. receipt[op] # NoReceipt /\ worker[op].request = receipt[op].request
  BY DEF Inductive, AttemptsHold, AttemptHolds
<1>2. receipt[op] \in Receipt
  BY <1>1 DEF Inductive, TypeOK
<1> QED BY <1>1, <1>2 DEF Receipt, Options, Requests, Target, Wanted

LEMMA ReadForCreationKeeps ==
  ASSUME Inductive, NEW op \in Operations, ReadForCreation(op)
  PROVE  Inductive'
<1> USE DEF ReadForCreation
<1>1. ~At(op, "idle") /\ UNCHANGED <<receipt, claims, job, handler, applied, saved>>
  BY DEF At
<1>2. CASE job[Target(op)] = NoJob
  <2>1. Moves(op, "creating")
    BY <1>1, <1>2, BecomesMoves DEF Inductive
  <2> QED BY <1>1, <2>1, LookedAtJobs
<1>3. CASE job[Target(op)] # NoJob /\ job[Target(op)].configuration = Wanted(op)
  <2>1. <<Target(op), Wanted(op)>> \in saved
    BY <1>1, <1>3, HasTarget DEF Inductive, JobsStand
  <2> QED BY <1>1, <1>3, <2>1, ReturnedFromJobs
<1>4. CASE /\ job[Target(op)] # NoJob /\ job[Target(op)].configuration # Wanted(op)
           /\ op \in Corrections
  <2>1. op \notin Updates
    BY <1>4, IdentitiesDiffer
  <2>2. job[Target(op)].revision \in Nat
    BY <1>1, <1>4, HasTarget DEF Inductive, TypeOK, Job
  <2> QED BY <1>1, <1>4, <2>1, <2>2, FencedByJobs
<1>5. CASE /\ job[Target(op)] # NoJob /\ job[Target(op)].configuration # Wanted(op)
           /\ op \notin Corrections
  <2>1. Moves(op, "failing")
    BY <1>1, <1>5, FailsMoves DEF Inductive
  <2> QED BY <1>1, <2>1, LookedAtJobs
<1> QED BY <1>2, <1>3, <1>4, <1>5

LEMMA ReadForUpdateKeeps ==
  ASSUME Inductive, NEW op \in Operations, ReadForUpdate(op)
  PROVE  Inductive'
<1> USE DEF ReadForUpdate
<1>1. ~At(op, "idle") /\ UNCHANGED <<receipt, claims, job, handler, applied, saved>>
  BY DEF At
<1>2. job[Target(op)] # NoJob
  <2>1. Target(op) = op[3] /\ op[3] \in Prepared
    BY <1>1, HasTarget, IdentitiesDiffer DEF Inductive, UpdatesAim, Target
  <2> QED BY <2>1 DEF Inductive, JobsStand
<1>3. CASE /\ worker[op].uncertain /\ job[Target(op)].revision # receipt[op].options.fence
           /\ job[Target(op)].configuration = Wanted(op)
  <2>1. <<Target(op), Wanted(op)>> \in saved
    BY <1>1, <1>2, <1>3, HasTarget DEF Inductive, JobsStand
  <2> QED BY <1>1, <1>3, <2>1, ReturnedFromJobs
<1>4. CASE ~(/\ worker[op].uncertain /\ job[Target(op)].revision # receipt[op].options.fence
             /\ job[Target(op)].configuration = Wanted(op))
  <2>1. receipt[op].options.fence \in Nat
    BY <1>1, HasTarget
  <2> QED BY <1>1, <1>2, <1>4, <2>1, FencedByJobs
<1> QED BY <1>3, <1>4

LEMMA CheckFenceKeeps ==
  ASSUME Inductive, NEW op \in Operations, CheckFence(op)
  PROVE  Inductive'
<1> USE DEF CheckFence
<1>1. ~At(op, "idle") /\ UNCHANGED <<receipt, claims, job, handler, applied, saved>>
  BY DEF At
<1>2. job[Target(op)] # NoJob
  BY DEF At, Inductive, AttemptsHold, AttemptHolds
<1>3. CASE job[Target(op)].revision # worker[op].revision
  <2>1. Moves(op, "failing")
    BY <1>1, <1>3, FailsMoves DEF Inductive
  <2> QED BY <1>1, <2>1, LookedAtJobs
<1>4. CASE job[Target(op)].revision = worker[op].revision /\ job[Target(op)].configuration = Wanted(op)
  <2>1. <<Target(op), Wanted(op)>> \in saved
    BY <1>1, <1>2, <1>4, HasTarget DEF Inductive, JobsStand
  <2> QED BY <1>1, <1>4, <2>1, ReturnedFromJobs
<1>5. CASE job[Target(op)].revision = worker[op].revision /\ job[Target(op)].configuration # Wanted(op)
  <2>1. Moves(op, "writing") /\ worker'[op].revision = worker[op].revision
    BY <1>1, <1>5, BecomesMoves DEF Inductive
  <2>2. AttemptHolds(op)'
    BY <2>1 DEF AttemptHolds, AttemptsHold, Inductive, Moves, At, Target, Wanted
  <2>3. ReceiptsArePinned /\ JobsStay
    BY ReceiptsStay DEF Inductive, JobsStay
  <2>4. JobsTyped' /\ JobsStand'
    BY DEF Inductive, TypeOK, JobsTyped, JobsStand
  <2>5. CompletedWasSaved'
    BY DEF Inductive, CompletedWasSaved, Accepted
  <2> QED BY <1>1, <2>1, <2>2, <2>3, <2>4, <2>5, WorkKeeps
<1> QED BY <1>3, <1>4, <1>5

\* A Job takes a configuration with a revision of the model's bound.
JobTakes(j, configuration, revision) ==
  /\ job' = [job EXCEPT ![j] = [configuration |-> configuration, revision |-> revision]]
  /\ saved' = saved \cup {<<j, configuration>>}

LEMMA JobTaken ==
  ASSUME Inductive, NEW j \in Jobs, NEW configuration \in Configurations, NEW revision \in 1..MaxRevision,
         JobTakes(j, configuration, revision), applied' \in [Updates -> 0..MaxRevision]
  PROVE  JobsStay /\ JobsTyped' /\ JobsStand' /\ job'[j] # NoJob /\ <<j, configuration>> \in saved'
<1> PICK new : new = [configuration |-> configuration, revision |-> revision]
  OBVIOUS
<1>1. revision \in Nat
  BY PreparationAssumption
<1>2. new \in Job /\ new # NoJob /\ new.configuration = configuration /\ new.revision = revision
  BY <1>1, PreparationAssumption DEF Job
<1>3. job \in [Jobs -> Job \cup {NoJob}] /\ job' = [job EXCEPT ![j] = new]
  BY DEF JobTakes, Inductive, TypeOK
<1>4. job' \in [Jobs -> Job \cup {NoJob}] /\ job'[j] = new /\ \A i \in Jobs \ {j} : job'[i] = job[i]
  BY <1>2, <1>3
<1>5. saved \subseteq saved' /\ <<j, configuration>> \in saved' /\ saved' \subseteq Jobs \X Configurations
  BY DEF JobTakes, Inductive, TypeOK
<1>6. JobsStay
  BY <1>2, <1>4, <1>5 DEF JobsStay
<1>7. \A i \in Jobs : job'[i] # NoJob => job'[i].revision \in 1..MaxRevision
  BY <1>2, <1>4 DEF Inductive, TypeOK
<1>8. \A i \in Prepared : job'[i] # NoJob
  BY <1>2, <1>4, PreparationAssumption DEF Inductive, JobsStand
<1>9. \A i \in Jobs : job'[i] # NoJob => <<i, job'[i].configuration>> \in saved'
  BY <1>2, <1>4, <1>5 DEF Inductive, JobsStand
<1> QED BY <1>2, <1>4, <1>5, <1>6, <1>7, <1>8, <1>9 DEF JobsTyped, JobsStand

\* The write of a worker, whose reply arrives or is lost.
LEMMA WrittenKeeps ==
  ASSUME Inductive, NEW op \in Operations, ~At(op, "idle"), Replied(op),
         NEW revision \in 1..MaxRevision, JobTakes(Target(op), Wanted(op), revision),
         applied' \in [Updates -> 0..MaxRevision],
         UNCHANGED <<receipt, claims, handler>>
  PROVE  Inductive'
<1>1. Target(op) \in Jobs /\ Wanted(op) \in Configurations
  BY HasTarget
<1>2. JobsStay /\ JobsTyped' /\ JobsStand' /\ <<Target(op), Wanted(op)>> \in saved'
  BY <1>1, JobTaken
<1>3. ReceiptsArePinned
  BY ReceiptsStay DEF Inductive
<1>4. CompletedWasSaved'
  BY <1>2, <1>3, StillSaved DEF Inductive, JobsStay
<1>5. PICK pc \in {"returned", "failing"} : Moves(op, pc)
  BY BecomesMoves, FailsMoves DEF Inductive, Replied
<1>6. AttemptHolds(op)'
  BY <1>2, <1>5 DEF AttemptHolds, AttemptsHold, Inductive, Moves, At, Target, Wanted
<1> QED BY <1>2, <1>3, <1>4, <1>5, <1>6, WorkKeeps

LEMMA CreateKeeps ==
  ASSUME Inductive, NEW op \in Operations, Create(op)
  PROVE  Inductive'
<1>1. ~At(op, "idle") /\ Replied(op) /\ UNCHANGED <<receipt, claims, handler, applied>>
  BY DEF Create, At
<1>2. 1 \in 1..MaxRevision
  BY PreparationAssumption
<1>3. JobTakes(Target(op), Wanted(op), 1)
  BY DEF Create, JobTakes
<1>4. applied' \in [Updates -> 0..MaxRevision]
  BY <1>1 DEF Inductive, TypeOK
<1> QED BY <1>1, <1>2, <1>3, <1>4, WrittenKeeps

LEMMA WriteKeeps ==
  ASSUME Inductive, NEW op \in Operations, Write(op)
  PROVE  Inductive'
<1>1. ~At(op, "idle") /\ Replied(op) /\ UNCHANGED <<receipt, claims, handler>>
  BY DEF Write, At
<1>2. job[Target(op)] # NoJob
  BY DEF Write, At, Inductive, AttemptsHold, AttemptHolds
<1>3. PICK revision : revision = job[Target(op)].revision + 1
  OBVIOUS
<1>4. revision \in 1..MaxRevision
  <2>1. Target(op) \in Jobs
    BY <1>1, HasTarget
  <2>2. job[Target(op)].revision \in 1..MaxRevision /\ job[Target(op)].revision < MaxRevision
    BY <1>2, <2>1 DEF Write, Inductive, TypeOK
  <2> QED BY <1>3, <2>2, PreparationAssumption
<1>5. JobTakes(Target(op), Wanted(op), revision)
  BY <1>3 DEF Write, JobTakes
<1>6. applied' \in [Updates -> 0..MaxRevision]
  <2>1. applied' = [applied EXCEPT ![op] = revision] \/ applied' = applied
    BY <1>3 DEF Write
  <2>2. revision \in 0..MaxRevision
    BY <1>4
  <2> QED BY <2>1, <2>2 DEF Inductive, TypeOK
<1> QED BY <1>1, <1>4, <1>5, <1>6, WrittenKeeps

\* A worker publishes: the first progress, its outcome.
LEMMA PublicationKeeps ==
  ASSUME Inductive, NEW op \in Operations, ~At(op, "idle"),
         NEW pc \in {"reading", "cleanup"}, Becomes(op, pc),
         NEW status, Publishes(op, status),
         status = "completed" => At(op, "returned"),
         UNCHANGED <<claims, job, handler, applied, saved>>
  PROVE  Inductive'
<1>1. ReceiptsArePinned /\ JobsStay
  BY DEF Publishes, JobsStay
<1>2. JobsTyped' /\ JobsStand'
  BY DEF Inductive, TypeOK, JobsTyped, JobsStand
<1>3. Moves(op, pc)
  BY BecomesMoves DEF Inductive
<1>4. receipt[op] # NoReceipt /\ worker[op].request = receipt[op].request
  BY HasTarget
<1>5. CompletedWasSaved'
  <2> SUFFICES ASSUME NEW o \in Operations, receipt'[o] # NoReceipt, receipt'[o].status = "completed"
               PROVE  <<receipt'[o].options.job, receipt'[o].request.configuration>> \in saved
    BY DEF CompletedWasSaved, Accepted
  <2>1. CASE o # op
    BY <2>1 DEF Publishes, Inductive, CompletedWasSaved, Accepted
  <2>2. CASE o = op
    <3>1. At(op, "returned")
      BY <2>2 DEF Publishes
    <3>2. <<Target(op), Wanted(op)>> \in saved
      BY <3>1 DEF Inductive, AttemptsHold, AttemptHolds
    <3> QED BY <1>1, <1>4, <2>2, <3>2 DEF Target, Wanted, ReceiptsArePinned
  <2> QED BY <2>1, <2>2
<1>6. AttemptHolds(op)'
  BY <1>1, <1>3, <1>4 DEF AttemptHolds, Moves, At, ReceiptsArePinned
<1> QED BY <1>1, <1>2, <1>3, <1>5, <1>6, WorkKeeps

\* Nobody works, reads or submits, but attempts and requests may end.
LEMMA RestKeeps ==
  ASSUME Inductive, ReceiptsArePinned, JobsStay, JobsTyped', JobsStand', CompletedWasSaved',
         HandlersLeave, handler' \in [Handlers -> Submission \cup {Idle}],
         worker' \in [Operations -> Attempt \cup {Idle}],
         \A op \in Operations : worker'[op] = worker[op] \/ worker'[op] = Idle,
         claims' = Working'
  PROVE  Inductive'
<1>1. TypeOK'
  BY DEF TypeOK, JobsTyped, ReceiptsArePinned, Submission, Attempt, Idle
<1>2. CorrectionsFollow' /\ UpdatesAim'
  BY StillFollow, StillAim DEF Inductive
<1>3. AttemptsHold'
  BY StillHolds DEF Inductive, AttemptsHold, ReceiptsArePinned
<1> QED BY <1>1, <1>2, <1>3 DEF Inductive

LEMMA LeaveKeeps ==
  ASSUME Inductive, NEW h \in Handlers, Leave(h)
  PROVE  Inductive'
<1>1. UNCHANGED <<receipt, claims, job, worker, applied, saved>>
  BY DEF Leave
<1>2. ReceiptsArePinned /\ JobsStay
  BY <1>1, ReceiptsStay DEF Inductive, JobsStay
<1>3. JobsTyped' /\ JobsStand'
  BY <1>1 DEF Inductive, TypeOK, JobsTyped, JobsStand
<1>4. CompletedWasSaved'
  BY <1>1 DEF Inductive, CompletedWasSaved, Accepted
<1>5. HandlersLeave /\ handler' \in [Handlers -> Submission \cup {Idle}]
  BY DEF Leave, HandlersLeave, Inductive, TypeOK
<1>6. claims' = Working'
  BY <1>1 DEF Inductive, TypeOK, Working
<1>7. worker' \in [Operations -> Attempt \cup {Idle}]
  BY <1>1 DEF Inductive, TypeOK
<1> QED BY <1>1, <1>2, <1>3, <1>4, <1>5, <1>6, <1>7, RestKeeps

LEMMA EndsKeeps ==
  ASSUME Inductive, NEW op \in Operations, Ends(op)
  PROVE  Inductive'
<1>1. UNCHANGED <<receipt, job, handler, applied, saved>> /\ worker' = [worker EXCEPT ![op] = Idle]
      /\ claims' = claims \ {op}
  BY DEF Ends, Local!Release
<1>2. ReceiptsArePinned /\ JobsStay
  BY <1>1, ReceiptsStay DEF Inductive, JobsStay
<1>3. JobsTyped' /\ JobsStand'
  BY <1>1 DEF Inductive, TypeOK, JobsTyped, JobsStand
<1>4. CompletedWasSaved'
  BY <1>1 DEF Inductive, CompletedWasSaved, Accepted
<1>5. HandlersLeave /\ handler' \in [Handlers -> Submission \cup {Idle}]
  BY <1>1 DEF HandlersLeave, Inductive, TypeOK
<1>6. /\ worker' \in [Operations -> Attempt \cup {Idle}]
      /\ worker'[op] = Idle /\ \A o \in Operations \ {op} : worker'[o] = worker[o]
  BY <1>1 DEF Inductive, TypeOK
<1>7. claims' = Working'
  BY <1>1, <1>6 DEF Inductive, TypeOK, Working, Idle
<1> QED BY <1>2, <1>3, <1>4, <1>5, <1>6, <1>7, RestKeeps

LEMMA RestartKeeps ==
  ASSUME Inductive, Restart
  PROVE  Inductive'
<1>1. UNCHANGED <<receipt, job, applied, saved>> /\ claims' = {}
  BY DEF Restart, Local!Release
<1>2. ReceiptsArePinned /\ JobsStay
  BY <1>1, ReceiptsStay DEF Inductive, JobsStay
<1>3. JobsTyped' /\ JobsStand'
  BY <1>1 DEF Inductive, TypeOK, JobsTyped, JobsStand
<1>4. CompletedWasSaved'
  BY <1>1 DEF Inductive, CompletedWasSaved, Accepted
<1>5. HandlersLeave /\ handler' \in [Handlers -> Submission \cup {Idle}]
  BY DEF Restart, HandlersLeave
<1>6. worker' \in [Operations -> Attempt \cup {Idle}] /\ \A op \in Operations : worker'[op] = Idle
  BY DEF Restart
<1>7. claims' = Working'
  BY <1>1, <1>6 DEF Working, Idle
<1> QED BY <1>2, <1>3, <1>4, <1>5, <1>6, <1>7, RestKeeps

LEMMA LookKeeps ==
  ASSUME Inductive, NEW op \in Operations, Look(op)
  PROVE  Inductive'
<1>1. UNCHANGED <<claims, job, handler, worker, applied, saved>>
  BY DEF Look, Local!Interrupt
<1>2. Publishes(op, "interrupted")
  BY InterruptPublishes DEF Inductive, Look
<1>3. ReceiptsArePinned /\ JobsStay
  BY <1>1, <1>2 DEF Publishes, JobsStay
<1>4. JobsTyped' /\ JobsStand'
  BY <1>1 DEF Inductive, TypeOK, JobsTyped, JobsStand
<1>5. CompletedWasSaved'
  BY <1>1, <1>2, <1>3, StillSaved DEF Inductive, Publishes
<1>6. HandlersLeave /\ handler' \in [Handlers -> Submission \cup {Idle}]
  BY <1>1 DEF HandlersLeave, Inductive, TypeOK
<1>7. claims' = Working' /\ worker' \in [Operations -> Attempt \cup {Idle}]
  BY <1>1 DEF Inductive, TypeOK, Working
<1> QED BY <1>1, <1>3, <1>4, <1>5, <1>6, <1>7, RestKeeps

LEMMA ChangeKeeps ==
  ASSUME Inductive, NEW j \in Jobs, NEW configuration \in Configurations, Change(j, configuration)
  PROVE  Inductive'
<1>1. UNCHANGED <<receipt, claims, handler, worker, applied>>
  BY DEF Change
<1>2. PICK revision : revision = job[j].revision + 1
  OBVIOUS
<1>3. revision \in 1..MaxRevision
  <2>1. job[j].revision \in 1..MaxRevision /\ job[j].revision < MaxRevision
    BY DEF Change, Inductive, TypeOK
  <2> QED BY <1>2, <2>1, PreparationAssumption
<1>4. JobTakes(j, configuration, revision)
  BY <1>2 DEF Change, JobTakes, Inductive, TypeOK
<1>5. applied' \in [Updates -> 0..MaxRevision]
  BY <1>1 DEF Inductive, TypeOK
<1>6. JobsStay /\ JobsTyped' /\ JobsStand'
  BY <1>3, <1>4, <1>5, JobTaken
<1>7. ReceiptsArePinned
  BY <1>1, ReceiptsStay DEF Inductive
<1>8. CompletedWasSaved'
  BY <1>1, <1>6, <1>7, StillSaved DEF Inductive, JobsStay
<1>9. HandlersLeave /\ handler' \in [Handlers -> Submission \cup {Idle}]
  BY <1>1 DEF HandlersLeave, Inductive, TypeOK
<1>10. claims' = Working' /\ worker' \in [Operations -> Attempt \cup {Idle}]
  BY <1>1 DEF Inductive, TypeOK, Working
<1> QED BY <1>1, <1>6, <1>7, <1>8, <1>9, <1>10, RestKeeps

\* A handler has read what it is going to submit.
LEMMA ReadKeeps ==
  ASSUME Inductive, NEW h \in Handlers, NEW op \in Operations, NEW request \in Requests,
         NEW options \in Options, NEW uncertain \in BOOLEAN, Reads(h, op, request, options, uncertain),
         op \in Updates => options.job = op[3],
         \A o \in Creations : op \in Corrections /\ op[2] = o[2] =>
           receipt[o] # NoReceipt /\ options.job = receipt[o].options.job
  PROVE  Inductive'
<1> PICK r : r = [pc |-> "submitting", op |-> op, request |-> request, options |-> options, uncertain |-> uncertain]
  OBVIOUS
<1>1. r \in Submission /\ r.pc = "submitting" /\ r.op = op /\ r.options = options
  BY DEF Submission
<1>2. UNCHANGED <<receipt, claims, job, worker, applied, saved>> /\ handler' = [handler EXCEPT ![h] = r]
  BY DEF Reads
<1>3. /\ handler' \in [Handlers -> Submission \cup {Idle}]
      /\ handler'[h] = r /\ \A g \in Handlers \ {h} : handler'[g] = handler[g]
  BY <1>1, <1>2 DEF Inductive, TypeOK
<1>4. TypeOK'
  BY <1>2, <1>3 DEF Inductive, TypeOK, Working, Submission, Attempt, Idle
<1>5. UpdatesAim'
  BY <1>1, <1>2, <1>3 DEF Inductive, UpdatesAim
<1>6. CorrectionsFollow'
  <2> SUFFICES ASSUME NEW c \in Corrections, NEW o \in Creations, c[2] = o[2]
               PROVE  Follows(c, o)'
    BY DEF CorrectionsFollow
  <2>1. Follows(c, o)
    BY DEF Inductive, CorrectionsFollow
  <2> QED BY <1>1, <1>2, <1>3, <2>1 DEF Follows
<1>7. JobsStand' /\ CompletedWasSaved'
  BY <1>2 DEF Inductive, JobsStand, CompletedWasSaved, Accepted
<1>8. AttemptsHold'
  BY <1>2 DEF Inductive, AttemptsHold, AttemptHolds, At, Target, Wanted
<1> QED BY <1>4, <1>5, <1>6, <1>7, <1>8 DEF Inductive

LEMMA ReadCreationKeeps ==
  ASSUME Inductive, NEW h \in Handlers, NEW key \in CreationKeys, NEW request \in Requests,
         ReadCreation(h, key, request)
  PROVE  Inductive'
<1>1. Creation(key) \in Creations /\ Creation(key) \in Operations /\ Creation(key) \notin Updates \cup Corrections
  BY IdentitiesDiffer
<1>2. Correction(key, request) \in Operations /\ Correction(key, request) \notin Updates
  BY IdentitiesDiffer
<1>3. ASSUME receipt[Creation(key)] = NoReceipt, NEW j \in Jobs,
             Reads(h, Creation(key), request, [job |-> j, fence |-> 0], FALSE)
      PROVE  Inductive'
  <2> PICK options : options = [job |-> j, fence |-> 0]
    OBVIOUS
  <2>1. options \in Options /\ Reads(h, Creation(key), request, options, FALSE)
    BY <1>3 DEF Options
  <2>2. FALSE \in BOOLEAN
    OBVIOUS
  <2> QED BY <1>1, <2>1, <2>2, ReadKeeps
<1>4. ASSUME receipt[Creation(key)] # NoReceipt,
             \/ Reads(h, Creation(key), request, receipt[Creation(key)].options, FALSE)
             \/ Reads(h, Correction(key, request), request, receipt[Creation(key)].options, FALSE)
      PROVE  Inductive'
  <2> PICK options : options = receipt[Creation(key)].options
    OBVIOUS
  <2>1. options \in Options
    BY <1>1, <1>4 DEF Inductive, TypeOK, Receipt
  <2>2. \A o \in Creations : Correction(key, request)[2] = o[2] => o = Creation(key)
    BY IdentitiesDiffer
  <2>3. CASE Reads(h, Creation(key), request, options, FALSE)
    <3>1. FALSE \in BOOLEAN
      OBVIOUS
    <3> QED BY <1>1, <2>1, <2>3, <3>1, ReadKeeps
  <2>4. CASE Reads(h, Correction(key, request), request, options, FALSE)
    <3>1. FALSE \in BOOLEAN
      OBVIOUS
    <3> QED BY <1>2, <1>4, <2>1, <2>2, <2>4, <3>1, ReadKeeps
  <2> QED BY <1>4, <2>3, <2>4
<1> QED BY <1>3, <1>4 DEF ReadCreation

LEMMA ReadUpdateKeeps ==
  ASSUME Inductive, NEW h \in Handlers, NEW op \in Updates, NEW request \in Requests,
         NEW etag \in 1..job[op[3]].revision, ReadUpdate(h, op, request, etag)
  PROVE  Inductive'
<1>1. op \in Operations /\ op[3] \in Prepared /\ op \notin Creations \cup Corrections
  BY IdentitiesDiffer
<1> PICK fence : fence = IF receipt[op] = NoReceipt THEN etag ELSE receipt[op].options.fence
  OBVIOUS
<1> PICK options : options = [job |-> op[3], fence |-> fence]
  OBVIOUS
<1> PICK uncertain : uncertain = Uncertain(receipt[op])
  OBVIOUS
<1>2. etag \in Nat
  OBVIOUS
<1>3. receipt[op] # NoReceipt => receipt[op] \in Receipt
  BY <1>1 DEF Inductive, TypeOK
<1>4. options \in Options /\ options.job = op[3]
  BY <1>1, <1>2, <1>3, PreparationAssumption DEF Receipt, Options
<1>5. uncertain \in BOOLEAN
  BY <1>3 DEF Uncertain, Receipt
<1>6. Reads(h, op, request, options, uncertain)
  BY DEF ReadUpdate
<1> QED BY <1>1, <1>4, <1>5, <1>6, ReadKeeps

LEMMA SubmitKeeps ==
  ASSUME Inductive, NEW h \in Handlers, Submit(h)
  PROVE  Inductive'
<1> PICK r : r = handler[h]
  OBVIOUS
<1> PICK op : op = r.op
  OBVIOUS
<1>1. r \in Submission
  BY DEF Submit, Inductive, TypeOK, Idle
<1>2. op \in Operations /\ r.request \in Requests /\ r.options \in Options /\ r.uncertain \in BOOLEAN
  BY <1>1 DEF Submission
<1> PICK w : w = [pc |-> "starting", request |-> r.request, uncertain |-> r.uncertain,
                  retryable |-> FALSE, stale |-> FALSE, revision |-> 0]
  OBVIOUS
<1>3. w \in Attempt /\ w.pc = "starting" /\ w.request = r.request
  BY <1>2 DEF Attempt
<1>4. worker' = [worker EXCEPT ![op] = w] /\ handler' = [handler EXCEPT ![h] = Idle]
      /\ UNCHANGED <<job, applied, saved>>
  BY DEF Submit
<1>5. Local!Accept(op, r.request, r.options)
  BY DEF Submit
<1>6. /\ worker' \in [Operations -> Attempt \cup {Idle}]
      /\ worker'[op] = w /\ \A o \in Operations \ {op} : worker'[o] = worker[o]
  BY <1>2, <1>3, <1>4 DEF Inductive, TypeOK
<1>7. HandlersLeave /\ handler' \in [Handlers -> Submission \cup {Idle}]
  BY <1>4 DEF Inductive, TypeOK, HandlersLeave
<1>8. claims' = Working'
  <2>1. claims' = claims \cup {op}
    BY <1>5 DEF Local!Accept
  <2> QED BY <1>2, <1>3, <1>6, <2>1 DEF Inductive, TypeOK, Working
<1>9. JobsStay /\ JobsStand' /\ JobsTyped'
  BY <1>4 DEF Inductive, JobsStay, JobsStand, TypeOK, JobsTyped
<1>10. CASE receipt[op] # NoReceipt
  <2> PICK published : published = [receipt[op] EXCEPT !.status = "pending", !.percent = 0, !.retryable = FALSE]
    OBVIOUS
  <2>1. receipt' = [receipt EXCEPT ![op] = published] /\ receipt[op].request = r.request
    BY <1>5, <1>10 DEF Local!Accept
  <2>2. receipt[op] \in Receipt
    BY <1>2, <1>10 DEF Inductive, TypeOK
  <2>3. /\ published \in Receipt /\ published.request = receipt[op].request
        /\ published.options = receipt[op].options /\ published.status = "pending"
    <3>1. 0 \in 0..100
      OBVIOUS
    <3> QED BY <2>2, <3>1 DEF Receipt
  <2>4. Publishes(op, "pending")
    BY <1>2, <1>10, <2>1, <2>3, OneReceiptPublished DEF Inductive
  <2>5. ReceiptsArePinned
    BY <2>4 DEF Publishes
  <2>6. TypeOK'
    BY <1>6, <1>7, <1>8, <1>9, <2>5 DEF TypeOK, JobsTyped, ReceiptsArePinned, Submission, Attempt, Idle
  <2>7. CorrectionsFollow' /\ UpdatesAim'
    BY <1>7, <2>5, StillFollow, StillAim DEF Inductive
  <2>8. CompletedWasSaved'
    BY <1>9, <2>4, <2>5, StillSaved DEF Inductive, Publishes, JobsStay
  <2>9. AttemptHolds(op)'
    BY <1>2, <1>3, <1>6, <1>10, <2>1, <2>5 DEF AttemptHolds, At, ReceiptsArePinned
  <2>10. AttemptsHold'
    <3>1. \A o \in Operations \ {op} : AttemptHolds(o)'
      BY <1>6, <1>9, <2>5, StillHolds DEF Inductive, AttemptsHold, ReceiptsArePinned
    <3> QED BY <2>9, <3>1 DEF AttemptsHold
  <2> QED BY <1>9, <2>6, <2>7, <2>8, <2>10 DEF Inductive
<1>11. CASE receipt[op] = NoReceipt
  <2> PICK accepted : accepted = [status |-> "pending", request |-> r.request, options |-> r.options,
                                  percent |-> 0, retryable |-> FALSE]
    OBVIOUS
  <2>1. receipt' = [receipt EXCEPT ![op] = accepted]
    BY <1>5, <1>11 DEF Local!Accept
  <2>2. /\ accepted \in Receipt /\ accepted.request = r.request
        /\ accepted.options = r.options /\ accepted.status = "pending"
    <3>1. 0 \in 0..100
      OBVIOUS
    <3> QED BY <1>2, <3>1 DEF Receipt
  <2>3. accepted # NoReceipt
    BY <2>2, PreparationAssumption
  <2>4. /\ receipt' \in [Operations -> Receipt \cup {NoReceipt}]
        /\ receipt'[op] = accepted /\ \A o \in Operations \ {op} : receipt'[o] = receipt[o]
    BY <1>2, <2>1, <2>2 DEF Inductive, TypeOK
  <2>5. TypeOK'
    BY <1>6, <1>7, <1>8, <1>9, <2>4 DEF TypeOK, JobsTyped, Submission, Attempt, Idle
  <2>6. handler[h].pc = "submitting"
    BY <1>1 DEF Submission
  <2>7. \A g \in Handlers : handler'[g].pc = "submitting" => handler'[g] = handler[g]
    BY <1>7 DEF HandlersLeave, Idle
  <2>8. CorrectionsFollow'
    <3> SUFFICES ASSUME NEW c \in Corrections, NEW o \in Creations, c[2] = o[2]
                 PROVE  Follows(c, o)'
      BY DEF CorrectionsFollow
    <3>1. c \in Operations /\ o \in Operations /\ c # o /\ Follows(c, o)
      BY IdentitiesDiffer DEF Inductive, CorrectionsFollow
    <3>2. CASE op = o
      BY <1>11, <2>4, <2>7, <3>1, <3>2 DEF Follows
    <3>3. CASE op = c
      <4>1. receipt[o] # NoReceipt /\ r.options.job = receipt[o].options.job
        BY <2>6, <3>1, <3>3 DEF Follows
      <4>2. receipt'[o] = receipt[o] /\ receipt'[c] # NoReceipt /\ receipt'[c].options = r.options
        BY <2>2, <2>3, <2>4, <3>1, <3>3
      <4>3. \A g \in Handlers : handler'[g].pc = "submitting" /\ handler'[g].op = c =>
              handler'[g].options.job = receipt[o].options.job
        BY <2>7, <3>1 DEF Follows
      <4> QED BY <4>1, <4>2, <4>3 DEF Follows
    <3>4. CASE op # o /\ op # c
      BY <2>4, <2>7, <3>1, <3>4 DEF Follows
    <3> QED BY <3>2, <3>3, <3>4
  <2>9. UpdatesAim'
    <3>1. \A o \in Updates : o \in Operations
      BY IdentitiesDiffer
    <3>2. op \in Updates => r.options.job = op[3]
      BY <2>6 DEF Inductive, UpdatesAim
    <3>3. ASSUME NEW o \in Updates, receipt'[o] # NoReceipt
          PROVE  receipt'[o].options.job = o[3]
      BY <2>2, <2>4, <3>1, <3>2, <3>3 DEF Inductive, UpdatesAim
    <3>4. ASSUME NEW o \in Updates, NEW g \in Handlers, handler'[g].pc = "submitting", handler'[g].op = o
          PROVE  handler'[g].options.job = o[3]
      BY <2>7, <3>4 DEF Inductive, UpdatesAim
    <3> QED BY <3>3, <3>4 DEF UpdatesAim
  <2>10. CompletedWasSaved'
    BY <1>4, <2>2, <2>4 DEF Inductive, CompletedWasSaved, Accepted
  <2>11. AttemptHolds(op)'
    BY <1>2, <1>3, <1>6, <2>2, <2>3, <2>4 DEF AttemptHolds, At
  <2>12. AttemptsHold'
    <3>1. \A o \in Operations \ {op} : AttemptHolds(o)'
      BY <1>6, <1>9, <2>4, StillHolds DEF Inductive, AttemptsHold
    <3> QED BY <2>11, <3>1 DEF AttemptsHold
  <2> QED BY <1>9, <2>5, <2>8, <2>9, <2>10, <2>12 DEF Inductive
<1> QED BY <1>10, <1>11

LEMMA WorkersKeep ==
  ASSUME Inductive, NEW op \in Operations, Work(op)
  PROVE  Inductive'
<1>1. CASE Begin(op)
  <2>1. ~At(op, "idle") /\ Becomes(op, "reading") /\ UNCHANGED <<claims, job, handler, applied, saved>>
    BY <1>1 DEF Begin, At, Local!Advance
  <2>2. Publishes(op, "running")
    BY <1>1, AdvancePublishes DEF Begin, Inductive
  <2> QED BY <2>1, <2>2, PublicationKeeps
<1>2. CASE ReadForCreation(op)
  BY <1>2, ReadForCreationKeeps
<1>3. CASE Create(op)
  BY <1>3, CreateKeeps
<1>4. CASE ReadForUpdate(op)
  BY <1>4, ReadForUpdateKeeps
<1>5. CASE CheckFence(op)
  BY <1>5, CheckFenceKeeps
<1>6. CASE Write(op)
  BY <1>6, WriteKeeps
<1>7. CASE PublishCompleted(op)
  <2>1. /\ At(op, "returned") /\ ~At(op, "idle") /\ Becomes(op, "cleanup")
        /\ UNCHANGED <<claims, job, handler, applied, saved>>
    BY <1>7 DEF PublishCompleted, At, Local!Complete
  <2>2. Publishes(op, "completed")
    BY <1>7, CompletePublishes DEF PublishCompleted, Inductive
  <2> QED BY <2>1, <2>2, PublicationKeeps
<1>8. CASE PublishFailed(op)
  <2>1. ~At(op, "idle") /\ Becomes(op, "cleanup") /\ UNCHANGED <<claims, job, handler, applied, saved>>
    BY <1>8 DEF PublishFailed, At, Local!Fail
  <2>2. PICK retryable : retryable = worker[op].retryable
    OBVIOUS
  <2>3. retryable \in BOOLEAN
    BY <2>1, <2>2 DEF Inductive, TypeOK, Attempt, At, Idle
  <2>4. Publishes(op, "failed")
    BY <1>8, <2>2, <2>3, FailPublishes DEF PublishFailed, Inductive
  <2> QED BY <2>1, <2>4, PublicationKeeps
<1>9. CASE Ends(op)
  BY <1>9, EndsKeeps
<1>10. ASSUME NEW retryable \in BOOLEAN, Raises(op, retryable)
       PROVE  Inductive'
  <2>1. ~At(op, "idle") /\ UNCHANGED <<receipt, claims, job, handler, applied, saved>>
    BY <1>10 DEF Raises, At
  <2>2. Fails(op, retryable, FALSE) /\ FALSE \in BOOLEAN
    BY <1>10 DEF Raises
  <2>3. Moves(op, "failing")
    BY <2>1, <2>2, FailsMoves DEF Inductive
  <2> QED BY <2>1, <2>3, LookedAtJobs
<1> QED BY <1>1, <1>2, <1>3, <1>4, <1>5, <1>6, <1>7, <1>8, <1>9, <1>10 DEF Work

LEMMA Start == Init => Inductive
<1> SUFFICES ASSUME Init PROVE Inductive
  OBVIOUS
<1>1. /\ receipt = [op \in Operations |-> NoReceipt] /\ claims = {}
      /\ handler = [h \in Handlers |-> Idle] /\ worker = [op \in Operations |-> Idle]
      /\ applied = [op \in Updates |-> 0]
      /\ saved = {<<j, job[j].configuration>> : j \in Prepared}
  BY DEF Init, Local!Init
<1> PICK configuration \in Configurations :
      job = [j \in Jobs |-> IF j \in Prepared THEN [configuration |-> configuration, revision |-> 1] ELSE NoJob]
  BY DEF Init
<1> PICK new : new = [configuration |-> configuration, revision |-> 1]
  OBVIOUS
<1>2. new \in Job /\ new # NoJob /\ new.configuration = configuration /\ new.revision = 1
  BY PreparationAssumption DEF Job
<1>3. \A j \in Jobs : job[j] = IF j \in Prepared THEN new ELSE NoJob
  OBVIOUS
<1>4. job \in [Jobs -> Job \cup {NoJob}] /\ \A j \in Jobs : job[j] # NoJob => job[j].revision \in 1..MaxRevision
  BY <1>2, <1>3, PreparationAssumption
<1>5. \A op \in Operations : worker[op].pc = "idle"
  BY <1>1 DEF Idle
<1>6. saved \subseteq Jobs \X Configurations
  BY <1>1, <1>2, <1>3, PreparationAssumption
<1>7. TypeOK
  BY <1>1, <1>4, <1>5, <1>6, PreparationAssumption DEF TypeOK, Working
<1>8. JobsStand
  BY <1>1, <1>2, <1>3, PreparationAssumption DEF JobsStand
<1>9. CorrectionsFollow
  BY <1>1, IdentitiesDiffer DEF CorrectionsFollow, Follows, Idle
<1>10. UpdatesAim
  BY <1>1, IdentitiesDiffer DEF UpdatesAim, Idle
<1>11. AttemptsHold
  BY <1>5 DEF AttemptsHold, AttemptHolds, At
<1>12. CompletedWasSaved
  BY <1>1 DEF CompletedWasSaved, Accepted
<1> QED BY <1>7, <1>8, <1>9, <1>10, <1>11, <1>12 DEF Inductive

LEMMA Step == Inductive /\ [Next]_vars => Inductive'
<1> SUFFICES ASSUME Inductive, [Next]_vars PROVE Inductive'
  OBVIOUS
<1>1. CASE UNCHANGED vars
  <2>1. UNCHANGED <<receipt, claims, job, handler, worker, applied, saved>>
    BY <1>1 DEF vars
  <2>2. TypeOK'
    BY <2>1 DEF Inductive, TypeOK, Working, Submission, Attempt, Idle
  <2>3. CorrectionsFollow' /\ UpdatesAim'
    BY <2>1, ReceiptsStay, StillFollow, StillAim DEF Inductive, HandlersLeave
  <2>4. JobsStand' /\ CompletedWasSaved'
    BY <2>1 DEF Inductive, JobsStand, CompletedWasSaved, Accepted
  <2>5. AttemptsHold'
    BY <2>1 DEF Inductive, AttemptsHold, AttemptHolds, At, Target, Wanted
  <2> QED BY <2>2, <2>3, <2>4, <2>5 DEF Inductive
<1>2. ASSUME NEW h \in Handlers, Handle(h)
      PROVE  Inductive'
  <2>1. ASSUME NEW key \in CreationKeys, NEW request \in Requests, ReadCreation(h, key, request)
        PROVE  Inductive'
    BY <2>1, ReadCreationKeeps
  <2>2. ASSUME NEW op \in Updates, NEW request \in Requests, NEW etag \in 1..job[op[3]].revision,
               ReadUpdate(h, op, request, etag)
        PROVE  Inductive'
    BY <2>2, ReadUpdateKeeps
  <2>3. CASE Submit(h)
    BY <2>3, SubmitKeeps
  <2>4. CASE Leave(h)
    BY <2>4, LeaveKeeps
  <2> QED BY <1>2, <2>1, <2>2, <2>3, <2>4 DEF Handle
<1>3. ASSUME NEW op \in Operations, Work(op) \/ Look(op)
      PROVE  Inductive'
  BY <1>3, WorkersKeep, LookKeeps
<1>4. ASSUME NEW j \in Jobs, NEW configuration \in Configurations, Change(j, configuration)
      PROVE  Inductive'
  BY <1>4, ChangeKeeps
<1>5. CASE Restart
  BY <1>5, RestartKeeps
<1> QED BY <1>1, <1>2, <1>3, <1>4, <1>5 DEF Next

LEMMA InductiveHolds == Spec => []Inductive
<1> QED BY Start, Step, PTL DEF Spec

-----------------------------------------------------------------------------
(* Theorems *)

\* Receipts, attempts, Jobs and their history always have their types, and the
\* claims of the journal are exactly the operations a worker is on.
THEOREM PreparationsAreTyped == Spec => []TypeOK
<1>1. Inductive => TypeOK
  BY DEF Inductive
<1> QED BY <1>1, InductiveHolds, PTL

\* All the preparations of one creation key, the first and any correction of it,
\* are about one Job: prepare_job never reserves a second identity.
THEOREM OneKeyOneJob == Spec => []OneJobPerKey
<1>1. Inductive => OneJobPerKey
  <2> SUFFICES ASSUME Inductive, NEW key \in CreationKeys, NEW a \in Accepted, NEW b \in Accepted,
                      a = Creation(key) \/ \E request \in Requests : a = Correction(key, request),
                      b = Creation(key) \/ \E request \in Requests : b = Correction(key, request)
               PROVE  receipt[a].options.job = receipt[b].options.job
    BY DEF OneJobPerKey
  <2>1. receipt[a].options.job = receipt[Creation(key)].options.job
    BY IdentitiesDiffer DEF Inductive, CorrectionsFollow, Follows, Accepted
  <2>2. receipt[b].options.job = receipt[Creation(key)].options.job
    BY IdentitiesDiffer DEF Inductive, CorrectionsFollow, Follows, Accepted
  <2> QED BY <2>1, <2>2
<1> QED BY <1>1, InductiveHolds, PTL

\* What a receipt calls completed was saved in Core, by this attempt, by an
\* earlier one whose reply was lost, or by somebody who saved the same.
THEOREM CompletedMeansSaved == Spec => []CompletedWasSaved
<1>1. Inductive => CompletedWasSaved
  BY DEF Inductive
<1> QED BY <1>1, InductiveHolds, PTL

\* The write of an update is fenced by the ETag of its first submission, through
\* retries, lost replies and the writes of other supervisors.
THEOREM WritesAreFenced == Spec => FenceHolds
<1>1. ASSUME Inductive, [Next]_vars, NEW op \in Updates, applied'[op] # applied[op]
      PROVE  job[op[3]].revision = receipt[op].options.fence
  <2>1. op \in Operations
    BY IdentitiesDiffer
  <2>2. PICK o \in Operations : Write(o)
    <3>1. CASE UNCHANGED vars
      BY <1>1, <3>1 DEF vars
    <3>2. ASSUME NEW h \in Handlers, Handle(h)
          PROVE  applied' = applied
      BY <3>2 DEF Handle, ReadCreation, ReadUpdate, Reads, Submit, Leave
    <3>3. ASSUME NEW o \in Operations, Work(o) \/ Look(o), ~Write(o)
          PROVE  applied' = applied
      BY <3>3 DEF Work, Look, Begin, ReadForCreation, Create, ReadForUpdate, CheckFence, PublishCompleted,
                  PublishFailed, Ends, Raises
    <3>4. ASSUME NEW j \in Jobs, NEW configuration \in Configurations, Change(j, configuration)
          PROVE  applied' = applied
      BY <3>4 DEF Change
    <3>5. ASSUME Restart
          PROVE  applied' = applied
      BY <3>5 DEF Restart
    <3> QED BY <1>1, <3>1, <3>2, <3>3, <3>4, <3>5 DEF Next
  <2>3. o = op
    BY <1>1, <2>1, <2>2 DEF Write, Inductive, TypeOK
  <2>4. /\ worker[op].revision = receipt[op].options.fence
        /\ job[Target(op)].revision = worker[op].revision
    BY <1>1, <2>1, <2>2, <2>3 DEF Write, At, Inductive, AttemptsHold, AttemptHolds
  <2>5. Target(op) = op[3]
    <3>1. ~At(op, "idle")
      BY <2>2, <2>3 DEF Write, At
    <3> QED BY <1>1, <2>1, <3>1, HasTarget DEF Inductive, UpdatesAim, Target
  <2> QED BY <2>4, <2>5
<1>2. Inductive /\ [Next]_vars =>
        [\A op \in Updates : applied'[op] # applied[op] => job[op[3]].revision = receipt[op].options.fence]_vars
  BY <1>1
<1> QED BY <1>2, InductiveHolds, PTL DEF Spec, FenceHolds
=============================================================================
