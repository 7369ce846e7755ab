------------------------------- MODULE RunStream -------------------------------
(***************************************************************************)
(* Reading one run while it goes on: GET /runs/{id}, its monitor, its      *)
(* workflow progress and the event stream of routes/v1/jobs.py, over       *)
(* job_projection.py, run_projection.py and run_recovery.py.               *)
(*                                                                         *)
(* Every step asks Core first and, when Core has no such run or cannot be  *)
(* reached, falls back on the replicated record of the run, which lags     *)
(* behind.  A stream reads the progress, then the events, then the status, *)
(* and the run goes on between the three.  A failed run may be retried.    *)
(***************************************************************************)
EXTENDS Naturals, Sequences, FiniteSets

CONSTANTS
  Watchers,     \* clients that read the run
  Window,       \* events one read returns at most (5000)
  MaxEvents,    \* bound of the model: events the run writes
  MaxAttempts   \* bound of the model: attempts of the run

VARIABLES
  run,        \* Core's record of the run: its status and its attempt
  replica,    \* the status in the replicated record, or "none"
  events,     \* how many events the run's directory holds
  outcomes,   \* the statuses some attempt ended with (history)
  watcher     \* each client's request

vars == <<run, replica, events, outcomes, watcher>>

Outcomes == {"completed", "failed", "cancelled"}
Ended(status) == status \in Outcomes

\* shown is the last status the client was told, was the run's when it was read.
Idle == [pc |-> "idle", seen |-> {}, told |-> <<>>, shown |-> "nothing", was |-> "nothing"]

Init ==
  /\ run = [status |-> "running", attempt |-> 1]
  /\ replica = "none"
  /\ events = 0
  /\ outcomes = {}
  /\ watcher = [w \in Watchers |-> Idle]

-----------------------------------------------------------------------------
(* Two sources of one status *)

\* Core knows the run; it may still be out of reach when it is asked.
Answers == run.status # "missing"

\* Mutant of Stored: the replicated record is shown as it is.
StoredAsItIs(status) == status

\* stored_run: a record that has not ended says nothing about the run now.
Stored(status) == IF Ended(status) THEN status ELSE "unknown"

\* What a read of the run may show, from either source.  The progress of a run that
\* Core answers for is derived by the SDK; stored progress has the record's status.
History == IF replica = "none" THEN {} ELSE {Stored(replica)}
Shown == (IF Answers THEN {run.status} ELSE {}) \cup History
Progress == (IF Answers THEN {"derived"} ELSE {}) \cup History

Told(w, pc, status) ==
  watcher' = [watcher EXCEPT ![w] = [@ EXCEPT !.pc = pc, !.shown = status, !.was = run.status]]

\* Core fails with another error, or there is no stored record either.
Raises(w) ==
  /\ watcher[w].pc # "idle"
  /\ watcher' = [watcher EXCEPT ![w] = Idle]
  /\ UNCHANGED <<run, replica, events, outcomes>>

-----------------------------------------------------------------------------
(* One read *)

\* get_run and get_run_monitor: the status comes from one source, whatever else of
\* the answer was inferred from events and files.
ReadRun(w) ==
  /\ watcher[w].pc = "idle"
  /\ \E status \in Shown : Told(w, "idle", status)
  /\ UNCHANGED <<run, replica, events, outcomes>>

\* get_run_workflow_progress resolves the output location first.
AskProgress(w) ==
  /\ watcher[w].pc = "idle"
  /\ Shown # {}
  /\ watcher' = [watcher EXCEPT ![w] = [Idle EXCEPT !.pc = "asking"]]
  /\ UNCHANGED <<run, replica, events, outcomes>>

ShowProgress(w) ==
  /\ watcher[w].pc = "asking"
  /\ \E status \in Progress : Told(w, "idle", status)
  /\ UNCHANGED <<run, replica, events, outcomes>>

-----------------------------------------------------------------------------
(* The event stream *)

Open(w) ==
  /\ watcher[w].pc = "idle"
  /\ Shown # {}
  /\ watcher' = [watcher EXCEPT ![w] = [Idle EXCEPT !.pc = "progress"]]
  /\ UNCHANGED <<run, replica, events, outcomes>>

StreamProgress(w) ==
  /\ watcher[w].pc = "progress"
  /\ \E status \in Progress : Told(w, "events", status)
  /\ UNCHANGED <<run, replica, events, outcomes>>

\* The newest events, oldest first; older ones are read no more.  None while the directory is missing.
Recent == {e \in 1..events : e + Window > events}

OldestFirst(E) == CHOOSE s \in [1..Cardinality(E) -> E] : \A i, j \in DOMAIN s : i < j => s[i] < s[j]

\* Mutant of Unseen: what was sent is remembered for one round.
UnseenInRound(w) == OldestFirst(Recent)

Unseen(w) == OldestFirst(Recent \ watcher[w].seen)

StreamEvents(w) ==
  /\ watcher[w].pc = "events"
  /\ watcher' = [watcher EXCEPT ![w] =
       [@ EXCEPT !.pc = "status", !.told = watcher[w].told \o Unseen(w),
                 !.seen = watcher[w].seen \cup Recent]]
  /\ UNCHANGED <<run, replica, events, outcomes>>

\* Mutant of Over: a run whose status is unknown is followed on.
OverIfEnded(status) == Ended(status)

Over(status) == Ended(status) \/ status = "unknown"

\* run.completed or run.unavailable ends the stream; otherwise it goes round again.
StreamStatus(w) ==
  /\ watcher[w].pc = "status"
  /\ \E status \in Shown : Told(w, IF Over(status) THEN "ended" ELSE "progress", status)
  /\ UNCHANGED <<run, replica, events, outcomes>>

\* The client leaves, or starts anew; Last-Event-ID only numbers what it gets.
Leave(w) ==
  /\ watcher[w].pc # "idle"
  /\ watcher' = [watcher EXCEPT ![w] = Idle]
  /\ UNCHANGED <<run, replica, events, outcomes>>

-----------------------------------------------------------------------------
(* The run *)

Write ==
  /\ run.status = "running" /\ events < MaxEvents
  /\ events' = events + 1
  /\ UNCHANGED <<run, replica, outcomes, watcher>>

\* Core ends the run, by itself or asked by update_run.
End(status) ==
  /\ run.status = "running"
  /\ run' = [run EXCEPT !.status = status]
  /\ outcomes' = outcomes \cup {status}
  /\ UNCHANGED <<replica, events, watcher>>

\* retry_run names the attempt its plan was made for.
Retry ==
  /\ run.status = "failed" /\ run.attempt < MaxAttempts
  /\ run' = [status |-> "running", attempt |-> run.attempt + 1]
  /\ UNCHANGED <<replica, events, outcomes, watcher>>

\* Core loses sight of the run (its owner left, or delete_run).
Lose ==
  /\ Answers
  /\ run' = [run EXCEPT !.status = "missing"]
  /\ UNCHANGED <<replica, events, outcomes, watcher>>

\* The shared record arrives here.
Replicate ==
  /\ Answers /\ replica # run.status
  /\ replica' = run.status
  /\ UNCHANGED <<run, events, outcomes, watcher>>

Streaming(w) == StreamProgress(w) \/ StreamEvents(w) \/ StreamStatus(w) \/ Raises(w)

Next ==
  \/ \E w \in Watchers : ReadRun(w) \/ AskProgress(w) \/ ShowProgress(w) \/ Open(w) \/ Leave(w) \/ Streaming(w)
  \/ Write \/ Retry \/ Lose \/ Replicate
  \/ \E status \in Outcomes : End(status)

Spec == Init /\ [][Next]_vars

\* A thread of the server produces the stream as long as its client stays.
Fairness == \A w \in Watchers : WF_vars(Streaming(w))
FairSpec == Spec /\ Fairness

-----------------------------------------------------------------------------
(* Properties *)

\* A client that is told a run goes on is told so by Core, of the run as it is; an
\* old replicated record never says it.  An outcome shown is one some attempt had.
StatusIsTruthful ==
  \A w \in Watchers :
    LET r == watcher[w]
    IN  /\ r.shown = "running" => r.was = "running"
        /\ Ended(r.shown) => r.shown \in outcomes

\* One stream sends no event twice, and sends them oldest first.  Between two reads more may be
\* written than one read returns: events are passed over, and never sent, only if a whole window
\* of newer ones is sent instead.  A client that reconnects is sent everything anew
\* (stream_run_events of routes/v1/jobs.py).
EventsToldInOrder ==
  \A w \in Watchers :
    LET told == watcher[w].told
        sent == {told[i] : i \in DOMAIN told}
    IN  /\ \A i, j \in DOMAIN told : i < j => told[i] < told[j]
        /\ \A e \in sent : e = 1 \/ e - 1 \in sent \/ e..(e + Window - 1) \subseteq sent

\* A stream of a run that is over, or that Core has lost, ends (SPEC.md: runs whose
\* control record is missing show retained history as unknown).
RunStreamsEnd ==
  \A w \in Watchers :
    watcher[w].pc \in {"progress", "events", "status"} /\ run.status # "running"
      ~> watcher[w].pc \notin {"progress", "events", "status"} \/ run.status = "running"
=============================================================================
