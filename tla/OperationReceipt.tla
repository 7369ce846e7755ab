---------------------------- MODULE OperationReceipt ----------------------------
(***************************************************************************)
(* What a durable local operation promises to its clients: one receipt per *)
(* operation identity, at most one live attempt at a time, a request and   *)
(* options that never change once accepted, and a completed receipt that   *)
(* is final.  LocalOperations implements it with a journal, a bounded      *)
(* cache, worker threads and restarts.                                     *)
(***************************************************************************)
EXTENDS Naturals

CONSTANTS
  Ops,           \* operation identities
  Requests,      \* request fingerprints
  Options,       \* options a submission proposes (the reserved Job identity)
  RetryFailed,   \* identities whose failure may always be retried
  NoReceipt      \* the identity was never accepted

LiveStatuses == {"pending", "running"}

VARIABLES
  receipt,       \* what the journal answers for each identity
  claims         \* identities an attempt is working on

vars == <<receipt, claims>>

Init ==
  /\ receipt = [op \in Ops |-> NoReceipt]
  /\ claims = {}

\* A finished receipt another attempt may not replace.
Settled(op) ==
  \/ receipt[op].status = "completed"
  \/ /\ receipt[op].status = "failed"
     /\ ~receipt[op].retryable
     /\ op \notin RetryFailed

Accept(op, request, options) ==
  /\ op \notin claims
  /\ \/ /\ receipt[op] = NoReceipt
        /\ receipt' = [receipt EXCEPT ![op] =
             [status |-> "pending", request |-> request, options |-> options,
              percent |-> 0, retryable |-> FALSE]]
     \/ /\ receipt[op] # NoReceipt
        /\ receipt[op].request = request
        /\ ~Settled(op)
        /\ receipt' = [receipt EXCEPT ![op] =
             [@ EXCEPT !.status = "pending", !.percent = 0, !.retryable = FALSE]]
  /\ claims' = claims \cup {op}

Advance(op, percent) ==
  /\ op \in claims
  /\ receipt[op] # NoReceipt
  /\ receipt[op].status \in LiveStatuses
  /\ percent >= receipt[op].percent
  /\ receipt' = [receipt EXCEPT ![op] = [@ EXCEPT !.status = "running", !.percent = percent]]
  /\ UNCHANGED claims

Complete(op) ==
  /\ op \in claims
  /\ receipt[op] # NoReceipt
  /\ receipt[op].status = "running"
  /\ receipt' = [receipt EXCEPT ![op] = [@ EXCEPT !.status = "completed", !.percent = 100]]
  /\ UNCHANGED claims

Fail(op, retryable) ==
  /\ op \in claims
  /\ receipt[op] # NoReceipt
  /\ receipt[op].status = "running"
  /\ receipt' = [receipt EXCEPT ![op] = [@ EXCEPT !.status = "failed", !.retryable = retryable]]
  /\ UNCHANGED claims

\* Only an attempt nobody works on any more is declared interrupted.
Interrupt(op) ==
  /\ op \notin claims
  /\ receipt[op] # NoReceipt
  /\ receipt[op].status \in LiveStatuses
  /\ receipt' = [receipt EXCEPT ![op] = [@ EXCEPT !.status = "interrupted"]]
  /\ UNCHANGED claims

\* An attempt ends, or a restart ends all of them: the receipt keeps what was last published.
Release(ended) ==
  /\ claims' = claims \ ended
  /\ UNCHANGED receipt

Next ==
  \/ \E op \in Ops, request \in Requests, options \in Options : Accept(op, request, options)
  \/ \E op \in Ops, percent \in 0..100 : Advance(op, percent)
  \/ \E op \in Ops : Complete(op) \/ Interrupt(op)
  \/ \E op \in Ops, retryable \in BOOLEAN : Fail(op, retryable)
  \/ \E ended \in SUBSET claims : Release(ended)

Spec == Init /\ [][Next]_vars

=============================================================================
