----------------------------- MODULE LocalOperations -----------------------------
(***************************************************************************)
(* The API-owned operations of mn_api/operations.py and their journal      *)
(* mn_api/operation_journal.py: submissions, worker threads, the bounded   *)
(* cache, the durable receipts, event streams, write faults and restarts.  *)
(*                                                                         *)
(* One action is one critical section of `_condition` (or one thread step  *)
(* outside it).  A journal write either fails before os.replace and        *)
(* changes nothing, or replaces the whole receipt.                         *)
(***************************************************************************)
EXTENDS Naturals, Sequences, FiniteSets

CONSTANTS
  Durable,        \* identities submitted with durable=True (derived from the request key)
  Volatile,       \* identities drawn fresh for a non-durable operation
  Core,           \* identities owned by Core, only cached here
  RetryFailed,    \* durable identities submitted with retry_failed=True
  Requests,       \* request fingerprints
  Options,        \* options a submission proposes
  Reports,        \* percentages the work may report
  Calls,          \* concurrent start_local_operation calls, each with its thread
  Streams,        \* event stream clients
  MaxOperations,  \* _MAX_OPERATIONS
  Window,         \* events kept per operation (200)
  MaxSequence,    \* bound of the model: no attempt starts beyond this sequence
  Snapshot,       \* a cached Core operation, whose content Core owns
  NoEntry, NoJournal, NoEvent, NoOp, NoRequest, NoOptions

Ops == Durable \cup Volatile \cup Core

ASSUME OperationsAssumption ==
  /\ Durable \cap Volatile = {} /\ Durable \cap Core = {} /\ Volatile \cap Core = {}
  /\ RetryFailed \subseteq Durable
  /\ Reports \subseteq 0..100
  /\ MaxOperations \in Nat \ {0}
  /\ Window \in Nat \ {0}
  /\ MaxSequence \in Nat
  /\ NoOp \notin Ops
  /\ NoRequest \notin Requests /\ NoOptions \notin Options

Statuses == {"pending", "running", "interrupted", "completed", "failed"}
LiveStatuses == {"pending", "running"}
TerminalStatuses == {"interrupted", "completed", "failed"}

Receipt == [status : Statuses, request : Requests \cup {NoRequest}, options : Options \cup {NoOptions},
            percent : 0..100, retryable : BOOLEAN]
Event == [sequence : Nat \ {0}, status : Statuses, percent : 0..100]
Record == [receipt : Receipt, events : Seq(Event)]

\* "Nothing" and Core snapshots are told apart from records and events.
ASSUME NothingAssumption ==
  /\ NoJournal \notin Record \cup Receipt /\ NoEntry \notin Record /\ Snapshot \notin Record
  /\ Snapshot # NoEntry
  /\ NoEvent \notin Event

VARIABLES
  journal,     \* api_operations/<id>.json
  entry,       \* _operations with _local_operation_events, by identity
  older,       \* the order of _operations: pairs <<a, b>>, a before b
  active,      \* _active_local_operation_ids
  call,        \* start_local_operation calls and their worker threads
  committed,   \* identities whose work has returned a result (history)
  stream       \* stream_local_operation_events generators and their clients

vars == <<journal, entry, older, active, call, committed, stream>>

Idle == [pc |-> "idle", op |-> NoOp, retryable |-> FALSE]
Closed(op, last) == [pc |-> "closed", op |-> op, last |-> last, batch |-> {}, terminal |-> FALSE]

Init ==
  /\ journal = [op \in Durable |-> NoJournal]
  /\ entry = [op \in Ops |-> NoEntry]
  /\ older = {}
  /\ active = {}
  /\ call = [c \in Calls |-> Idle]
  /\ committed = {}
  /\ stream = [s \in Streams |-> Closed(NoOp, NoEvent)]

-----------------------------------------------------------------------------
(* Events and the bounded cache *)

LastSequence(events) == IF events = <<>> THEN 0 ELSE events[Len(events)].sequence

NextEvents(events, receipt) ==
  Append(IF Len(events) < Window THEN events ELSE Tail(events),
         [sequence |-> LastSequence(events) + 1,
          status |-> receipt.status, percent |-> receipt.percent])

Cached(entries) == {op \in Ops : entries[op] # NoEntry}

\* Mutant of Victims: running operations are evicted too.
OldestVictims(entries, order, pinned) ==
  {op \in Cached(entries) :
     Cardinality({o \in Cached(entries) : <<o, op>> \in order}) < Cardinality(Cached(entries)) - MaxOperations}
\* The oldest identities without a worker, as many as exceed the limit.
Victims(entries, order, pinned) ==
  LET idle == Cached(entries) \ pinned
      excess == Cardinality(Cached(entries)) - Cardinality(pinned) - MaxOperations
  IN  {op \in idle : Cardinality({o \in idle : <<o, op>> \in order}) < excess}

MovedToEnd(entries, order, op) ==
  {pair \in order : op \notin {pair[1], pair[2]}} \cup ((Cached(entries) \ {op}) \X {op})

Without(entries, gone) == [op \in Ops |-> IF op \in gone THEN NoEntry ELSE entries[op]]
OrderWithout(order, gone) == {pair \in order : pair[1] \notin gone /\ pair[2] \notin gone}

\* _store_operation_locked as a pair: the entries and their order after it.
Stored(entries, order, op, value, pinned) ==
  LET added == [entries EXCEPT ![op] = value]
      moved == MovedToEnd(entries, order, op)
      gone == Victims(added, moved, pinned)
  IN  [entry |-> Without(added, gone), older |-> OrderWithout(moved, gone)]

-----------------------------------------------------------------------------
(* Reading a durable receipt *)

\* A live receipt without a worker in this process: the API restarted, or
\* its worker could not publish.
Live(record) == record # NoJournal /\ record.receipt.status \in LiveStatuses

\* Mutant of Orphaned: every live receipt is taken for interrupted.
AnyLive(op) == Live(journal[op])

Orphaned(op) == Live(journal[op]) /\ op \notin active

\* Mutants of Interrupted: the recovered receipt tells no event, or starts a new sequence.
InterruptedSilently(record) == [record EXCEPT !.receipt = [@ EXCEPT !.status = "interrupted"]]
InterruptedAnew(record) ==
  LET receipt == [record.receipt EXCEPT !.status = "interrupted"]
  IN  [receipt |-> receipt, events |-> NextEvents(<<>>, receipt)]

Interrupted(record) ==
  LET receipt == [record.receipt EXCEPT !.status = "interrupted"]
  IN  [receipt |-> receipt, events |-> NextEvents(record.events, receipt)]

\* The record _load_durable_operation_locked leaves in the journal and the cache.
Recovered(op) == IF Orphaned(op) THEN Interrupted(journal[op]) ELSE journal[op]

\* The load returns a durable receipt and caches it.  A load that raises
\* (unreadable, missing or corrupt receipt, failed write) changes nothing.
Load(op) ==
  LET kept == Stored(entry, older, op, Recovered(op), active)
  IN  /\ journal[op] # NoJournal
      /\ journal' = [journal EXCEPT ![op] = Recovered(op)]
      /\ entry' = kept.entry
      /\ older' = kept.older

\* GET /operations/{id}, is_local_operation, and a submission that is
\* replayed, refused or whose acceptance cannot be written.
Look(op) ==
  /\ Load(op)
  /\ UNCHANGED <<active, call, committed, stream>>

-----------------------------------------------------------------------------
(* Publishing *)

EventsOf(op) == IF entry[op] = NoEntry THEN <<>> ELSE entry[op].events

\* _publish_locked: the journal first, then memory.
Publish(op, receipt, pinned) ==
  LET record == [receipt |-> receipt, events |-> NextEvents(EventsOf(op), receipt)]
      kept == Stored(entry, older, op, record, pinned)
  IN  /\ journal' = IF op \in Durable THEN [journal EXCEPT ![op] = record] ELSE journal
      /\ entry' = kept.entry
      /\ older' = kept.older

\* update_local_operation raises: the write failed, or the entry is gone.
CannotPublish(op) == op \in Durable \/ entry[op] = NoEntry

NewReceipt(request, options) ==
  [status |-> "pending", request |-> request, options |-> options,
   percent |-> 0, retryable |-> FALSE]

\* A loaded receipt is answered as it is instead of being attempted again.
Answered(op, receipt) ==
  \/ receipt.status = "completed"
  \/ receipt.status = "failed" /\ ~receipt.retryable /\ op \notin RetryFailed
  \/ op \in active

\* start_local_operation, up to the accepted receipt.
AcceptDurable(c, op, request, options) ==
  /\ call[c].pc = "idle"
  /\ IF journal[op] = NoJournal
       THEN Publish(op, NewReceipt(request, options), active \cup {op})
       ELSE LET found == Recovered(op)
                loaded == Stored(entry, older, op, found, active)
                receipt == NewReceipt(request, found.receipt.options)
                record == [receipt |-> receipt, events |-> NextEvents(found.events, receipt)]
                kept == Stored(loaded.entry, loaded.older, op, record, active \cup {op})
            IN  /\ found.receipt.request = request
                /\ ~Answered(op, found.receipt)
                /\ LastSequence(journal[op].events) + 4 <= MaxSequence
                /\ journal' = [journal EXCEPT ![op] = record]
                /\ entry' = kept.entry
                /\ older' = kept.older
  /\ active' = active \cup {op}
  /\ call' = [call EXCEPT ![c] = [pc |-> "starting", op |-> op, retryable |-> FALSE]]
  /\ UNCHANGED <<committed, stream>>

\* The identity was never handed out: a new uuid4.
Fresh(op) ==
  /\ entry[op] = NoEntry
  /\ \A s \in Streams : stream[s].op # op

AcceptVolatile(c, op) ==
  /\ call[c].pc = "idle"
  /\ Fresh(op)
  /\ Publish(op, NewReceipt(NoRequest, NoOptions), active \cup {op})
  /\ active' = active \cup {op}
  /\ call' = [call EXCEPT ![c] = [pc |-> "starting", op |-> op, retryable |-> FALSE]]
  /\ UNCHANGED <<committed, stream>>

\* complete_local_operation: published once, already completed.
CompleteLocal(op) ==
  /\ Fresh(op)
  /\ Publish(op, [NewReceipt(NoRequest, NoOptions) EXCEPT !.status = "completed", !.percent = 100], active)
  /\ committed' = committed \cup {op}
  /\ UNCHANGED <<active, call, stream>>

\* register_operation: a Core snapshot enters the cache.
RegisterCore(op) ==
  LET kept == Stored(entry, older, op, Snapshot, active)
  IN  /\ entry' = kept.entry
      /\ older' = kept.older
      /\ UNCHANGED <<journal, active, call, committed, stream>>

-----------------------------------------------------------------------------
(* The worker thread of a call *)

Moved(c, from, to) ==
  /\ call[c].pc = from
  /\ call' = [call EXCEPT ![c].pc = to]

StartThread(c) ==
  /\ Moved(c, "starting", "queued")
  /\ UNCHANGED <<journal, entry, older, active, committed, stream>>

\* threading.Thread.start raised RuntimeError: the claim goes, the receipt stays.
StartFails(c) ==
  /\ call[c].pc = "starting"
  /\ active' = active \ {call[c].op}
  /\ call' = [call EXCEPT ![c] = Idle]
  /\ UNCHANGED <<journal, entry, older, committed, stream>>

Greater(a, b) == IF a >= b THEN a ELSE b

\* update_local_operation: status and a percentage that never falls.
Updated(receipt, status, percent, retryable) ==
  [receipt EXCEPT !.status = status, !.percent = Greater(@, percent), !.retryable = retryable]

Update(c, status, percent, retryable) ==
  LET op == call[c].op
  IN  /\ entry[op] # NoEntry
      /\ Publish(op, Updated(entry[op].receipt, status, percent, retryable), active)
      /\ UNCHANGED <<active, committed, stream>>

Begin(c) ==
  /\ Moved(c, "queued", "working")
  /\ Update(c, "running", 1, FALSE)

BeginFails(c) ==
  /\ Moved(c, "queued", "cleanup")
  /\ CannotPublish(call[c].op)
  /\ UNCHANGED <<journal, entry, older, active, committed, stream>>

Report(c, percent) ==
  /\ call[c].pc = "working"
  /\ LastSequence(EventsOf(call[c].op)) + 2 <= MaxSequence
  /\ Update(c, "running", percent, FALSE)
  /\ UNCHANGED call

\* The publication error propagates into the work, as a retryable 503.
ReportFails(c) ==
  /\ call[c].pc = "working"
  /\ CannotPublish(call[c].op)
  /\ call' = [call EXCEPT ![c] = [@ EXCEPT !.pc = "failing", !.retryable = TRUE]]
  /\ UNCHANGED <<journal, entry, older, active, committed, stream>>

WorkReturns(c) ==
  /\ Moved(c, "working", "returned")
  /\ committed' = committed \cup {call[c].op}
  /\ UNCHANGED <<journal, entry, older, active, stream>>

WorkRaises(c, retryable) ==
  /\ call[c].pc = "working"
  /\ call' = [call EXCEPT ![c] = [@ EXCEPT !.pc = "failing", !.retryable = retryable]]
  /\ UNCHANGED <<journal, entry, older, active, committed, stream>>

\* Mutant of PublishCompleted: published while the work still runs.
PublishCompletedEarly(c) ==
  /\ Moved(c, "working", "cleanup")
  /\ Update(c, "completed", 100, FALSE)

PublishCompleted(c) ==
  /\ Moved(c, "returned", "cleanup")
  /\ Update(c, "completed", 100, FALSE)

PublishFailed(c) ==
  /\ Moved(c, "failing", "cleanup")
  /\ Update(c, "failed", 0, call[c].retryable)

\* The outcome is only logged; the receipt still says running.
OutcomeLost(c) ==
  /\ call[c].pc \in {"returned", "failing"}
  /\ CannotPublish(call[c].op)
  /\ call' = [call EXCEPT ![c].pc = "cleanup"]
  /\ UNCHANGED <<journal, entry, older, active, committed, stream>>

\* The finally block: unpin the identity, then trim the cache.
Cleanup(c) ==
  LET pinned == active \ {call[c].op}
      gone == Victims(entry, older, pinned)
  IN  /\ call[c].pc = "cleanup"
      /\ active' = pinned
      /\ entry' = Without(entry, gone)
      /\ older' = OrderWithout(older, gone)
      /\ call' = [call EXCEPT ![c] = Idle]
      /\ UNCHANGED <<journal, committed, stream>>

-----------------------------------------------------------------------------
(* Event streams.  The client keeps the last event it received and sends   *)
(* its sequence as Last-Event-ID when it reconnects.                       *)

\* Mutant of Terminal: an interrupted attempt is not an outcome.
TerminalUnlessInterrupted(op, record) == record # NoEntry /\ record.receipt.status \in {"completed", "failed"}

Terminal(op, record) == record # NoEntry /\ record.receipt.status \in TerminalStatuses

Unseen(events, last) ==
  {events[i] : i \in {j \in DOMAIN events : last = NoEvent \/ events[j].sequence > last.sequence}}

\* The route's is_local_operation finds the operation and opens the generator.
Connect(s, op) ==
  /\ stream[s].pc \in {"closed", "ended"}
  /\ stream[s].op \in {NoOp, op}
  /\ IF op \in Durable
       THEN Load(op)
       ELSE entry[op] # NoEntry /\ UNCHANGED <<journal, entry, older>>
  /\ stream' = [stream EXCEPT ![s] = [Closed(op, stream[s].last) EXCEPT !.pc = "reading"]]
  /\ UNCHANGED <<active, call, committed>>

\* What the generator finds under the lock.
Found(op) == IF op \in Durable THEN Recovered(op) ELSE entry[op]

\* There is something to send, or nothing more to wait for.
Read(s) ==
  LET op == stream[s].op
      batch == Unseen(Found(op).events, stream[s].last)
      over == Terminal(op, Found(op))
  IN  /\ stream[s].pc = "reading"
      /\ op \in Volatile => entry[op] # NoEntry
      /\ batch # {} \/ over
      /\ IF op \in Durable THEN Load(op) ELSE UNCHANGED <<journal, entry, older>>
      /\ stream' = [stream EXCEPT ![s] =
           [pc |-> IF batch = {} THEN "ended" ELSE "sending",
            op |-> op, last |-> @.last, batch |-> batch, terminal |-> over]]
      /\ UNCHANGED <<active, call, committed>>

\* The operation is gone: evicted since the stream opened.
Vanished(s) ==
  /\ stream[s].pc = "reading"
  /\ stream[s].op \in Volatile /\ entry[stream[s].op] = NoEntry
  /\ stream' = [stream EXCEPT ![s] = Closed(@.op, @.last)]
  /\ UNCHANGED <<journal, entry, older, active, call, committed>>

\* The receipt cannot be read, or its recovery cannot be written.
ReadFails(s) ==
  /\ stream[s].pc = "reading"
  /\ stream[s].op \in Durable
  /\ stream' = [stream EXCEPT ![s] = Closed(@.op, @.last)]
  /\ UNCHANGED <<journal, entry, older, active, call, committed>>

Send(s) ==
  \E event \in stream[s].batch :
    LET rest == stream[s].batch \ {event}
    IN  /\ stream[s].pc = "sending"
        /\ \A later \in rest : event.sequence <= later.sequence
        /\ stream' = [stream EXCEPT ![s] =
             [pc |-> IF rest # {} THEN "sending" ELSE IF @.terminal THEN "ended" ELSE "reading",
              op |-> @.op, last |-> event, batch |-> rest, terminal |-> @.terminal]]
        /\ UNCHANGED <<journal, entry, older, active, call, committed>>

Disconnect(s) ==
  /\ stream[s].pc \in {"reading", "sending"}
  /\ stream' = [stream EXCEPT ![s] = Closed(@.op, @.last)]
  /\ UNCHANGED <<journal, entry, older, active, call, committed>>

-----------------------------------------------------------------------------
\* The API process ends and starts again: only the journal survives.
Restart ==
  /\ entry' = [op \in Ops |-> NoEntry]
  /\ older' = {}
  /\ active' = {}
  /\ call' = [c \in Calls |-> Idle]
  /\ stream' = [s \in Streams |-> IF stream[s].pc = "ended" THEN stream[s]
                                  ELSE Closed(stream[s].op, stream[s].last)]
  /\ UNCHANGED <<journal, committed>>

Submit(c) ==
  \/ \E op \in Durable, request \in Requests, options \in Options : AcceptDurable(c, op, request, options)
  \/ \E op \in Volatile : AcceptVolatile(c, op)

Worker(c) ==
  \/ StartThread(c) \/ StartFails(c)
  \/ Begin(c) \/ BeginFails(c)
  \/ WorkReturns(c) \/ \E retryable \in BOOLEAN : WorkRaises(c, retryable)
  \/ PublishCompleted(c) \/ PublishFailed(c) \/ OutcomeLost(c)
  \/ Cleanup(c)

Progress(c) == ReportFails(c) \/ \E percent \in Reports : Report(c, percent)

Streaming(s) == Read(s) \/ Vanished(s) \/ Send(s)

Next ==
  \/ \E op \in Durable : Look(op)
  \/ \E c \in Calls : Submit(c) \/ Worker(c) \/ Progress(c)
  \/ \E op \in Volatile : CompleteLocal(op)
  \/ \E op \in Core : RegisterCore(op)
  \/ \E s \in Streams : Streaming(s) \/ ReadFails(s) \/ Disconnect(s) \/ \E op \in Durable \cup Volatile : Connect(s, op)
  \/ Restart

Spec == Init /\ [][Next]_vars

\* Threads run and the work returns or raises; a generator that has something
\* to send sends it; someone polls the operation.  Faults and clients' choices
\* (submitting, connecting, leaving) are not fair.
Fairness ==
  /\ \A c \in Calls : WF_vars(Worker(c))
  /\ \A s \in Streams : WF_vars(Streaming(s))
  /\ \A op \in Durable : WF_vars(Look(op))

FairSpec == Spec /\ Fairness

-----------------------------------------------------------------------------
(* Properties *)

Busy == {c \in Calls : call[c].pc # "idle"}
Entries == {op \in Cached(entry) : entry[op] # Snapshot}

CallStates == {"idle", "starting", "queued", "working", "returned", "failing", "cleanup"}

TypeOK ==
  /\ journal \in [Durable -> Record \cup {NoJournal}]
  /\ entry \in [Ops -> Record \cup {Snapshot, NoEntry}]
  /\ older \subseteq Ops \X Ops
  /\ active \subseteq Ops
  /\ call \in [Calls -> [pc : CallStates, op : Ops \cup {NoOp}, retryable : BOOLEAN]]
  /\ committed \subseteq Ops
  /\ stream \in [Streams -> [pc : {"closed", "reading", "sending", "ended"}, op : Ops \cup {NoOp},
                             last : Event \cup {NoEvent}, batch : SUBSET Event, terminal : BOOLEAN]]

\* The identities pinned as active are exactly those of the running calls, and
\* no two calls (threads) ever work on one identity: whatever the order of
\* submissions, failed thread starts, lost publications and restarts, a claim
\* neither leaks nor is shared.
ClaimsMatchCalls ==
  /\ active = {call[c].op : c \in Busy}
  /\ \A c, d \in Busy : call[c].op = call[d].op => c = d

\* A running operation is never evicted by completed ones, so its worker can
\* always find it (update_local_operation never raises KeyError).
ActiveIsCached == active \subseteq Entries

\* Memory never answers something the journal does not hold: a failed write
\* leaves neither a published nor an advanced receipt behind.
CacheAgreesWithJournal ==
  \A op \in Durable : entry[op] # NoEntry => entry[op] = journal[op]

\* While a call works on an identity nobody else writes its receipt: it says
\* pending until the worker begins and running until the worker ends.
WorkerOwnsReceipt ==
  \A c \in Calls :
    /\ call[c].pc \in {"starting", "queued"} => entry[call[c].op].receipt.status = "pending"
    /\ call[c].pc \in {"working", "returned", "failing"} => entry[call[c].op].receipt.status = "running"

\* A client told "completed", by polling or by a stream, can rely on the work
\* having returned its result, in this process or in an earlier one.
CompletedWasDone ==
  /\ \A op \in Entries : entry[op].receipt.status = "completed" => op \in committed
  /\ \A s \in Streams : stream[s].last # NoEvent /\ stream[s].last.status = "completed"
                          => stream[s].op \in committed

\* An event a client received stays true: after any restart the journal still
\* covers its sequence and never shows another event under that sequence, so
\* resuming with Last-Event-ID neither repeats nor hides a different event.
DeliveredIsDurable ==
  \A s \in Streams :
    stream[s].op \in Durable /\ stream[s].last # NoEvent =>
      LET events == journal[stream[s].op].events
      IN  /\ stream[s].last.sequence <= LastSequence(events)
          /\ \A i \in DOMAIN events :
               events[i].sequence = stream[s].last.sequence => events[i] = stream[s].last

\* A stream of a durable operation that ends by itself has told its client how
\* the attempt ended, even when it was opened after the last event.
EndedStreamToldOutcome ==
  \A s \in Streams :
    stream[s].pc = "ended" /\ stream[s].op \in Durable =>
      stream[s].last # NoEvent /\ stream[s].last.status \in TerminalStatuses

\* A completed receipt is final: no retry, restart or late publication changes it.
CompletedIsFinal ==
  [][\A op \in Durable :
       journal[op] # NoJournal /\ journal[op].receipt.status = "completed" => journal'[op] = journal[op]]_vars

\* Every attempt keeps the request and the options of the first accepted
\* submission (the reserved Job identity, the conditional revision), whichever
\* concurrent submission proposed other ones.
ClaimIsPinned ==
  [][\A op \in Durable : journal[op] # NoJournal =>
       /\ journal'[op] # NoJournal
       /\ journal'[op].receipt.request = journal[op].receipt.request
       /\ journal'[op].receipt.options = journal[op].receipt.options]_vars

\* Every stream of a durable operation ends, even when the worker never
\* started, could not publish its outcome, or died with the process.  A stream of
\* a volatile operation does once a worker has started, although the receipt may
\* be evicted before the stream reads it.
StartedStreamsEnd ==
  \A s \in Streams :
    (/\ stream[s].pc \in {"reading", "sending"}
     /\ \/ stream[s].op \in Durable
        \/ \E c \in Busy : call[c].op = stream[s].op /\ call[c].pc # "starting")
      ~> stream[s].pc \in {"closed", "ended"}

\* Every stream terminates on completion, error, timeout or disconnect
\* (SPEC.md, "Interface Contract"), those of operations kept only in memory
\* included.
EveryStreamEnds ==
  \A s \in Streams :
    stream[s].pc \in {"reading", "sending"} ~> stream[s].pc \in {"closed", "ended"}

\* The abstract promise this module implements.
Promise == INSTANCE OperationReceipt WITH
  Ops <- Durable,
  NoReceipt <- NoJournal,
  receipt <- [op \in Durable |-> IF journal[op] = NoJournal THEN NoJournal ELSE journal[op].receipt],
  claims <- active \cap Durable

PromiseSpec == Promise!Spec
=============================================================================
