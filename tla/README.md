# Verification of mn-api

TLA+ models of the concurrent core of the MirrorNeuron HTTP API (`mn_api/`), the
TLC runs that check them on small instances, and theorems about them that TLAPS
proves for every value of the constants. `PROJECT.json` lists the components, the
runs, the mutations that each property is known to catch, the source lines behind
every definition, the hazards of the code and the theorems.

## The system

mn-api is one `uvicorn` process. Request handlers run in its thread pool (or on its
event loop), background work in daemon threads, and the state they share is in
module-level dictionaries under a lock, in JSON and SQLite files under `MN_HOME`, and in
the MirrorNeuron Core, reached by gRPC. The process may end at any moment; the files
and Core survive it.

| Component | State it keeps | Operations | Hard behaviour | What makes it correct |
|---|---|---|---|---|
| Local operations (`operations.py`, `operation_journal.py`) | cached operations in LRU order, events, active claims; one JSON receipt per durable operation | submit, report, complete, fail, poll, stream, evict, recover | racing submissions, failed writes and thread starts, restarts, resuming streams | one live attempt per identity, memory and disk never disagree, completion is final, a stream tells what the receipt says and ends |
| Idempotent requests (`http_semantics.py`, `public.py`) | records with a time to live, in-flight claims with a Future | execute, join, replay, refuse, store, prune | repeats at every moment of an execution | one execution at a time, a success is repeated only after its record is gone, nobody waits for ever |
| External MCP connections (`mcp_access.py`, `mcp_oauth.py`) | policies and grants in SQLite | configure, consent, exchange, refresh, revoke, authorise | the owner's change between two transactions of a handler | authority comes from an approval of the current policy, is never given twice and never returns |
| Job preparation (`routes/v1/job_preparations.py`) | the options of its durable receipt, the Job in Core | prepare, prepare an update | stale reads before the claim, commits whose reply is lost | one Job per key, an update is applied once and only to what its caller had seen |
| Run launch (`routes/v1/jobs.py`) | the Job's revision and runs in Core | create a run, its durable operation | long preparation against a moving revision, deadlines after a commit | no configuration is overwritten unseen, the run has the requested overrides, every launch settles |
| Host output delivery (`host_output_delivery.py`) | relay metadata files | reconcile | a relay started twice, one that dies, a restart | the outputs of every completed run arrive |
| Pagination (`pagination.py`, the listings of `routes/v1/jobs.py`) | page tokens with a snapshot and an offset, in LRU order | first page, next page, issue, resolve, evict | runs that come, end and vanish between two pages and between the two reads of one | no run appears twice; a run that stays is shown |
| Reading a run (`routes/v1/jobs.py`, `job_projection.py`, `run_projection.py`, `run_recovery.py`) | none of its own; Core's record, the replicated record, the events of the run | status, progress, event stream | three reads of a run that goes on, a replicated record that lags behind, retries | only Core says that a run goes on; outcomes were real; no event is sent twice, and each after the older ones; streams of runs that are over end |
| Blueprint launches (`blueprint_launch.py`, `blueprints.py`, `launch_progress*.py`) | run directories, process metadata, progress logs, heartbeat threads | sweep, start helper, validate, package, submit, start, map, relay, report | minutes between two phases, lost replies, launches that sweep each other, restarts | a failed launch leaves no helper that it has recorded; a sweep spares the active runs it is shown; its progress says what happened and ends |
| Blueprint additions and models (`blueprint_additions.py`, `model_installation.py`, `blueprint_launch.py`, `routes/v1/infrastructure.py`) | records and archives of additions; ledger of claims, registry and gateways of models (the SDK's) | add, remove, install, route, register, deregister | files and gateways shared by threads without a lock | what a removal unlinks it has archived, models others claim stay, installed models are routed to where they are |
| Job MCP context (`job_mcp.py`) | base and context caches, per-Job locks, refreshes | read, refresh, invalidate, evict | refreshes that race with each other and with invalidation | a deleted Job is not served from memory; an answer is never older than an earlier one |
| Reply streams (`job_reply_stream.py`) | a cursor | start, read, cancel | commands in abandoned threads, deadline, cancellation in the middle | a reply is told once, in order and whole; nobody writes for a caller who left |
| Owner routing (`job_mcp_routing.py`, `run_file_routing.py`, `job_ui*.py`, `routes/v1/job_ui_relay.py`, `web_ui_server.py`) | cached owner sessions | locate, relay, confirm, answer | placements that differ between two computers and change on the way | whoever answers acts under the placement the request was located by; one hop |
| Decisions of people (`routes/v1/interactions.py`, `job_mcp.py`) | none; Core's interactions | show, elicit, respond, resume | two devices, edits, lost replies, another request becoming pending | who is told "accepted" gave the decision that stands |
| Job supervision (`job_supervision.py`) | the SDK's store of MCP operations | bind and launch, poll, pause, resume, cancel | the credential-only launch | a launch is found again by the identity it was bound to |
| Core client (`state.py`) | one shared client | get, replace | replaced while in use | a request never uses a closed client |
| The rest | none | validation, formatting, forwarding | none | |

`web_ui_server.py` serves static files and proxies to the Web UI that the runtime runs for
a Job; it manages no process.

Handlers reach Core through `state.client`. Durable preparations and launches are
local operations whose work calls the synchronous handlers, which themselves go
through the idempotency registry and Core's conditional writes; MCP requests pass the
connection store before they reach a Job's context or supervision.

## Modules

| Module | What it is |
|---|---|
| `OperationReceipt` | What a durable operation promises: one receipt, one live attempt at a time, a request and options that never change, a completion that is final |
| `LocalOperations` | `operations.py` and `operation_journal.py`: implements `OperationReceipt` |
| `LocalOperations_proofs` | Theorems about `LocalOperations` |
| `IdempotencyRegistry` | The registry as `idempotent_response` drives it |
| `IdempotencyRegistry_proofs` | Theorems about `IdempotencyRegistry` |
| `McpAuthority` | What external access promises the owner of a Job |
| `McpConnections` | The connection store and the OAuth handlers: implements `McpAuthority` |
| `McpConnections_proofs` | Theorems about `McpConnections`, its refinement among them |
| `JobPreparation` | The durable preparations of a Job and of its update, over the receipts of `OperationReceipt` and the Jobs of Core |
| `JobPreparation_proofs` | Theorems about `JobPreparation` |
| `RunLaunch` | The durable launches of a catalog Job and the delivery of their outputs, over the same receipts and Jobs |
| `RunLaunch_proofs` | Theorems about `RunLaunch` |
| `BlueprintLaunch` | Launches of a catalog blueprint: phases, host processes, the sweep of stale runs, progress |
| `BlueprintCatalog` | Additions, removals and models of a computer |
| `BlueprintRequests` | The two beside each other |
| `BlueprintRequests_proofs` | Theorems about both |
| `JobContext` | The caches behind a Job's MCP connection |
| `JobReplies` | `JobContext` with the relay of answers that follow a context |
| `JobReplies_proofs` | Theorems about both |
| `RunListing` | Listings of runs and their page tokens |
| `RunStream` | Reading one run while it goes on |
| `OwnerRouting` | Requests that only the computer holding a Job or run answers |
| `HumanDecisions` | The decisions co-workers ask of people |
| `ApiRequests` | The request layer: `IdempotencyRegistry` with the four before |
| `ApiRequests_proofs` | Theorems about the four |
| `MC*` | The instances for TLC: symmetry sets and bounds |

Definitions named as mutants in their comment are plausible wrong versions of the
definition that follows them. No specification uses them; each shows that some property
would notice.

### LocalOperations

`journal` is the directory of receipts, `entry` the cache (`_operations` with
`_local_operation_events`), `older` its order, `active` the claims. A call of
`start_local_operation` goes `starting` (accepted, thread not started), `queued`,
`working`, `returned` or `failing`, `cleanup`; one action is one critical section of
`_condition`, or the thread's step between two. `journal.write` writes a temporary file,
syncs and renames it, so a receipt is replaced as a whole or not at all; a write that
fails is an action of its own (`BeginFails`, `ReportFails`, `OutcomeLost`), and an
acceptance that fails leaves nothing behind but what the load recovered (`Look`).
A read of a live receipt without a worker declares it interrupted and publishes that
event (`Recovered`). `Restart` keeps the journal only. A stream keeps the last event its
client received and may connect again after a disconnect or a restart.

Identities are of three sorts: derived from the request key (`Durable`), drawn for a
volatile operation and never reused (`Volatile`), and Core's (`Core`), of which only the
place in the cache matters. Options stand for what a submission fixes at acceptance, the
reserved Job identity or the conditional revision.

### IdempotencyRegistry

A request is `running` its work, has `stored` its record, has `settled` its Future, or is
`waiting` for another's. The order is that of the code: `idempotent_response` records
the response inside the call, the Future is settled next, the claim is released last. A
ready-made `JSONResponse` is not recorded (`"response"`), a failure is not either
(`"error"`). Records expire at any time and the oldest are evicted beyond the maximum.

### McpConnections

One action is one SQLite transaction. `ConnectionStore.grant` finds (or consumes) the row
in one transaction and reads the policy in the next, so the owner may come between them.
A handler carries what it has read: the Job and the generation of the grant, which the
grants it issues inherit. A key is the number of its row, a connection code is named by
the generation it was made for. `since` and `approved` are history variables.

### JobPreparation

A handler reads the previous receipt (`ReadCreation`, `ReadUpdate`) and submits later
(`Submit`), with what it has read: the reserved Job or the fence, and, for an update, the
receipt its worker will judge by (`uncertain`). The receipts are the actions of
`OperationReceipt`, which `LocalOperations` is checked to implement, so the preparation
is modelled over the promise and not over the cache and the journal. Request and receipt
are read in one action where one `get_operation` does it; a live receipt nobody works on
is first declared interrupted (`Look`).

The synchronous handlers that the worker calls are steps of it: `create_job` (`Create`)
and `update_job` (`CheckFence`, which reads the Job again and compares `If-Match`, then
`Write`, conditional on the revision it read). `create_job` is called only when Core
does not know the Job, so its idempotency record never answers. An ETag is the revision
of the Job: Core changes the one with every change of the other. Core refuses to create an
identity it knows and to write over another revision; both are failures of the attempt
(`Raises`). A committed write may lose its reply (`Replied`). Jobs are not deleted.

### RunLaunch

`create_job_run_operation` accepts a receipt (`Submit`, `Look`, the actions of
`OperationReceipt` again) and its worker calls `create_job_run` up to `Attempts` times
(`NextAttempt`, `TimesOut`). `worker` holds the local variables of the attempt: the
configuration it read (`base`), that with the overrides merged in (`wanted`), the revision it
read last, and whether it is the one that saved (`saved`, the code's `relay`). Each of Core's
calls is an action, so anybody may change the Job between two of them; `Change` stands for
every other writer, other launches included. A call may commit and then time out (`Save`,
`StartRun`), or fail in any way (`Raises`). `recorded` is the record of
the idempotency registry, which answers a later attempt until the process ends; a direct
`POST` of a run is one attempt of this worker.

A relay is a process that outlives the API. It is known by the run whose outputs it copies and by
the directory it was started in, that of the run or that of a saved preparation
(`Launched`); `event_relay.json` names the last one started in a directory only
(`recorded` of the relay record). `Reconcile` is one pass of the loop over one completed run:
it starts a relay unless the run's directory has its marker or names a process that lives.
`written` and `disturbed` are history variables: how often a launch saved, and whether the Job
changed since the launch last knew its configuration.

### BlueprintLaunch

`launch` holds the handler's thread, one program point per call that fails, waits or changes
something others see; `dir`, `helper` and `relay` are the run directories and the processes
their metadata names, which survive a `Restart`; `definition` and `run` are Core's. The sweep is
two steps and a loop: the active Jobs are listed once (`ListJobs`), then one directory after the
other is judged by that list, by its mapping and by its age. A submission may be answered, refused, or
committed with its reply lost. `log` is reduced to what `snapshot` derives from it, the terminal
event and the latest one; a heartbeat may record at any moment between its start and its
join. A client may choose the run, the Job and the progress, so launches may share
them.

Three paths leave something behind, and the model has them. The list of active Jobs is one page, of 500
Jobs that are not archived, and no further page is asked for (`ListPage`, `blueprint_launch.py:1616-1620`): a
running Job that is archived or further down counts as inactive, and a sweep stops what its directory names. Without any answer all
mapped runs are spared. `unlisted`, a history variable, holds the launches whose runs a sweep's list does not
show, because of the page or because they were started since. The helper's file is written after `Popen` and outside the
`try` that terminates the helper (`blueprints.py:1928`): if it cannot be written, the helper runs on and no cleanup
finds it (`RecordFails`). Exceptions of the hardware's check, of the sweep and of the validation are caught nowhere in
the launch: they stop no helper and record no terminal event (`Raises`).

### BlueprintCatalog

`task` holds one operation of six kinds. A record is the number of the addition that wrote it,
a registration that of the operation. A removal reads the record, archives what it read, and
unlinks whatever is there (`ReadRecord`, `Archive`, `Unlink`). A record that cannot be read is archived as an
empty one, and unlinked all the same (`blueprint_launch.py:646-651,665`). The archive's file is named by the blueprint and the second,
so a removal may write over that of an earlier one; a write that fails midway ends the removal before the record is unlinked. Then it drops its claims and
takes the orphaned models from the computer one by one (`Release`, `PurgeModel`, `ForgetModel`).
An installation prepares a model on a computer, routes this computer's gateway and then the
others in any order (`RouteHere`, `RouteOn`); the first one that fails ends the operation. The status that this
computer's own gateway returns is not looked at (`blueprints.py:651-654`), so that one may have no route.
`superseded` and `prepared` are history variables.

### JobContext and JobReplies

One action is one critical section of `_cache_lock`, or what a thread does between two; the
per-Job lock of base lookups is `lock`. A snapshot's age is fresh, known or old, and time passes
one snapshot at a time. Requests of the MCP guard and of the tool it admits are one. A context is
the version of the Job its base was read at. A cache is an ordered dictionary: a sequence of entries
with one for each Job it has, `Position` being that Job's place in it. `gone`, `served` and `asked` are
history variables or bounds.

A relay sends its commands to the owner in threads it may abandon, so `command` is a set of messages
that may be executed late or be lost (`Lose`). The claim and the text are the owner's. Each
command's own lookup of the Job is covered by the loss of the command and by the steps of other requests.

### RunListing and RunStream

Runs are numbered in the order of their creation, the sort order of a listing. A first page merges two
reads, Core's and that of the records kept here, each an action; a token carries the snapshot and
the offset. `told` is what the client got. `kept`, `gone` and `back` are history: the runs that every page
could have shown, the runs of the snapshot that were absent from some page (deleted, or their Job's owner did
not answer), and whether one of these was there again for a later page. The code cuts a page from the runs of
the snapshot that are still there, at an offset counted when there were others (`pagination.py:134-140`). A run that
is gone moves the offset past another one, which is never shown; a run that is back moves the runs behind it
past the offset again, and one is shown twice. `tests/test_v1_contract.py:359` inserts runs between two pages and
nothing promises more, so the properties say in which walks the pages are right.
`RunStream` reads progress, events and status of one run, each from Core or, when it
is unreachable or has lost the run, from the replicated record. One read of the events returns the last 5000
(`Window`). If more are written between two rounds of a stream, it passes over the older ones and sends them never,
and says so nowhere. A stream that is opened again starts with nothing seen: `Last-Event-ID` only sets the number of the
first event it sends (`routes/v1/jobs.py:1333-1366`). `EventsToldInOrder` therefore speaks of one connection, and says
when it passes over events, not that it never does.

### OwnerRouting

`current` is the true placement, its version standing for owner, execution, data generation and
revision; `view` is what each computer's Core answers, which lags behind. A request carries the
binding it was located by, and the owner compares it with its own view in the step in which it
answers files and MCP requests. A Web UI request is confirmed in one step and forwarded to the owner's own
proxy in another, which reads the handle again.

### HumanDecisions

`interaction` is Core's: it changes one when the expected revision is current, repeats its answer
to a repeated command, and refuses otherwise. A client of `person` reads before it responds; the
connection puts the oldest pending request to its caller and resumes that one by its
identity. Any reply may be lost and is asked for again.

### The compositions

`ApiRequests` and `BlueprintRequests` put components of one process beside each other. These share no
state in the code, so a step of the composition is a step of one part that leaves the others
alone, and the instances for TLC (`SpecInParts`) explore the behaviours in which one part moves:
interleaving two of them adds no state of either. `JobReplies`, `JobPreparation` and `RunLaunch` are
compositions of the other kind, in which parts do share state.

## Runs

| Run | Question | Bounds, and why they are enough |
|---|---|---|
| `receipts` | Are running operations kept, and is the promise kept, when submissions race and anything fails? | Two calls, two requests, two proposed options: every pair of submissions. Four identities and a cache of one: eviction in every order. Seven events with a window of three: trimming within an attempt, and a second attempt |
| `streams` | Does what a client was told stay true, and do streams end? | One client, two calls, eight events with a window of three: two attempts that run and report, or several that are cut short, and more events than the window while the client is away. Or an operation kept only in memory, beside one of Core's and a cache of one: it is evicted while its stream waits (`OneSort`) |
| `volatile_stream` | Does every stream end? | One volatile operation: the counterexample needs no more |
| `mcp_connections` | Who has authority, and can it return? | Two handlers of any kind, four keys: ticket, code, access and refresh, or two of one kind. Two changes of policy: enable and rotate, or enable and disable |
| `preparation` | Does one key keep one Job, and is an update written over somebody else's? | One key of a creation, two configurations, two Jobs, two handlers: every pair of submissions, repeats and corrections. Or updates of one Job: by one key, against its other supervisor, or by two, one handler at a time, since the claim admits one worker per key (`OneKindOfRequest`). Three revisions: somebody else's change before or after |
| `stale_update` | Is a committed update recognised? | Two handlers with one key |
| `launch` | Does a launch save, start and deliver what was asked for? | One key: other launches are `Change`s. Two fields, so overrides may be partial, and two values, of which the Job starts with the same (`SameAtFirst`). Two attempts of two conditional updates: one timeout and one conflict, each with a last one. Three revisions: somebody else's change before and after the save |
| `unmapped_start` | Has every launched run a mapping? | The same |
| `blueprints` | What do launches leave behind, and what do catalog operations do to each other? | Two launches: the one that sweeps and the one that is swept. They have runs and progress of their own, the same Job or two, and a blueprint with both scripts, or one repeats the request of the other, with any scripts (`BothScriptsOrRepeated`). Directories age where a sweep would tell (`AgedForSweep`), helpers exit before they are ready or after their run (`ExitsAtTheEnds`). Three operations on two blueprints, a model and two computers, at most two of one kind and only kinds that share state, with what those kinds tell apart (`OneConcern`), numbered in order of kind (`InOrder`): removal, second addition and a third party to a claim |
| `job_replies` | Does memory outlive a Job, do contexts go back, are answers told whole? | Two requests, two Jobs of which one changes once or is deleted, caches of one entry: eviction, and a refresh beside a lookup. Three requests in all. A deleted Job is alone (`DeletedAlone`). One relay of two pieces, beside nothing else, since it shares only its start with the context (`RelayedAlone`) |
| `requests` | The request layer, part by part | Keys: two threads, two keys, two bodies, one record retained, two executions: an owner and a waiter or newcomer, and eviction. Listings: three runs, one per page, two tokens retained, three names; one run, not the newest, ends or is deleted or has its record here (`FewChanges`). Streams: two attempts, four events, a window of two: a stream may pass over events, or be overtaken by one. Routing: one request, three computers, one with an older API, one disabled, two placements. Decisions: two people, two requests, two answers, one edit or withdrawal |
| `ui_relay` | Is a relayed Web UI request answered for the execution it names? | One request among the same computers |

Deadlock is not checked in `requests`, `blueprints` and `job_replies`, whose bounded numbers of
requests, operations and versions come to an end; it is checked in every other passing run.
Where a run bounds a temporal property by a constraint, the constraint concerns a part
that the property's behaviours do not move (`FewChanges`), or keeps two kinds of
operation apart (`OneSort`) that meet only in the cache, which `receipts` checks.

`volatile_stream` is expected to fail. `SPEC.md` says that streaming endpoints terminate
on completion, error, timeout or disconnect. When the worker thread of a volatile operation
cannot start, its receipt stays pending in memory and a stream of it waits for ever; a
durable receipt in the same situation is declared interrupted at the next read, which
`StartedStreamsEnd` shows.

`stale_update` is expected to fail. The comment in `prepare_job_update` says that its worker
reconciles a committed update after an interrupted response. It judges by the receipt its
handler read before the attempt was accepted. When the earlier attempt commits and loses its
reply in between, the copy shows no uncertainty, the old fence is sent, and the client is
told that its precondition failed although its own configuration is the latest revision
of the Job. `FenceHolds` and `CompletedWasSaved` hold nevertheless: the
answer is wrong, the Job is not.

`unmapped_start` is expected to fail. `SPEC.md` says that starting a catalog Job creates the
mapping of its run also when no override is supplied. `create_job_run` writes it only in the call
that itself saved a changed configuration; a start without overrides, or whose overrides are already
saved, gets a relay of the run and no mapping.

`ui_relay` is expected to fail. `SPEC.md` says that changed ownership fails closed. The owner confirms
the execution and then forwards to its own Web UI proxy, which reads the Job's handle
again and does not compare. A Job that moves on to another execution in between answers with
that one's page.

### Differences from the documents that no run shows

- `README.md:359-361` says that owners without an HTTP advertisement keep the replica reader.
  `run_file_routing.py:102-105` answers 503 when there is no advertisement; only a disabled one
  is read from the replica.
- `SPEC.md` calls the event streams resumable. A run's stream sends its whole window again to a client that
  reconnects with `Last-Event-ID` (`routes/v1/jobs.py:1333-1366`); the streams of local operations do resume.
- Additions honour `MN_BLUEPRINT_INSTALLS_DIR` (`blueprint_additions.py:39`); the removal's archive does not
  (`blueprint_launch.py:642`) and leaves such an addition where it is.
- The native launch of a supervised Job stores whatever response body it gets
  (`job_supervision.py:109-113`): a preflight that `create_blueprint_run` refuses with a problem response
  becomes the result of a completed operation. `create_job_run_operation` checks the
  run's identity instead.

### Fairness

Threads run, and the work of an operation returns or raises (`WF` of `Worker`): the code
has no other scheduling. A generator that has something to send, or nothing more to wait
for, proceeds (`WF` of `Streaming`); the code wakes it every fifteen seconds at the latest.
`StartedStreamsEnd` further assumes that somebody polls (`WF` of `Look`), because recovery
happens in a read. Nothing is assumed of submissions, of clients, of faults and of
restarts; the actions `StartFails`, `BeginFails` and `OutcomeLost` are ways in which a
worker makes its step, never obligations. In the registry, owners finish and waiters wake.
The generator of a run's stream goes on as long as its client does (`WF` of `RunStream`'s
`Streaming`); it sleeps between two rounds and holds no lock.
A launch's worker runs and somebody polls it; the reconciliation loop, which catches every
exception and sleeps ten seconds, keeps turning (`WF` of `Reconcile`). A relay may die, but not
every one of them before it has copied: when relays of a completed run are there again and
again, one delivers (`SF` of `DeliverFor`). Nothing makes a run complete, so
`OutputsAreDelivered` speaks of those that did.

## Proofs

The theorems hold for any sets and bounds that satisfy the modules' named assumptions
(`OperationsAssumption`, `NothingAssumption`, `RegistryAssumption`, `ConnectionsAssumption`, `PreparationAssumption`,
the two `LaunchAssumption`s, `RequestAssumption`, `ContextAssumption`, `TextAssumption`, `CatalogAssumption`), which
the runs evaluate; the proofs use nothing else. They are about all of a module's behaviours: the
bounds by which the instances for TLC are kept small (`SpecInParts`, `OneConcern`, `InOrder` and the
constraints) are not among their hypotheses, and a composition's theorem is about parts that move in any order.

Almost every invariant is too weak to be inductive, because a thread acts on what it read some
steps ago. Each argument says what still holds of what was read.

`LocalOperations_proofs`. `CompletedStaysFinal` needs that a worker only overwrites a live receipt. That takes
`WorkerOwnsReceipt` (the receipt is pending or running while the worker lives), which takes
`ClaimsMatchCalls` (nobody else works on the identity), `ActiveIsCached` (the worker finds its own entry) and
`CacheAgreesWithJournal` (the entry it finds is the journal's); together they are `Inductive`. Lemmas about
`Victims` and `Stored` say what an insertion into the cache keeps. `Journals` adds the shape of receipts (a live one is not
retryable, events are numbered without gaps, the latest tells the status). Every step keeps, recovers or
publishes the journal of an operation (`JournalStep`), and so is a step of `OperationReceipt` or a stutter:
`KeepsThePromise`. `Deliveries` says that the journal shows no other event under the number of one that a stream
has sent or is about to send, and `Truthful` that nothing says completed before the work returned.

`IdempotencyRegistry_proofs`. The argument is the life of one call. While its owner works,
the key has no record (`OwnersProgress`) and no later call (`OwnersAreLatest`), so a second
execution cannot start; the record is made before the Future is settled, so whoever finds
the claim gone finds the record (`RecordsAreValues`, `ValuesAreRecorded`); and a Future that
is not settled has an owner (`PendingIsOwned`), which also says that no waiter is
forgotten. `SuccessIsExecutedOnce` needs in addition that a success of the past is still recorded
unless pruning dropped it.

`McpConnections_proofs`. A handler acts on checks it
made in earlier transactions; what makes that sound is what the row says when it is found
again. A ticket that is still there was not deleted by the owner, so the policy is the one
its handler checked (`HandlersOK`) and the code the user typed is that policy's; a row that
is gone was consumed by this handler and no other (`SpentByOne`) and nothing else descends
from it (`OriginsAreSpent`), so what is issued from it is the first of its kind. From there
every external grant carries an approved generation (`GrantsAreApproved`). For
the refinement of `McpAuthority` and the action properties every step is first shown to have one of five
shapes (`StepsHaveShapes`): it reads, approves, drops a row, issues one, or is the owner's;
each shape is a step of the promise or a stutter.

`JobPreparation_proofs`. Everything a handler or a worker carries is pinned by a receipt, whose request and
options never change, or by a Job, which never goes away: a correction follows the receipt of the key it corrects and
takes its Job (`CorrectionsFollow`), an update is about the Job of its path (`UpdatesAim`), what a Job holds was
saved (`JobsStand`), and a worker wants what its receipt says, under its receipt's fence (`AttemptsHold`).

`RunLaunch_proofs`. A worker may be overtaken by anybody at every call. While its update is under way the
Job's revision is the one it read only if the configuration is the one its overrides were merged into
(`Aims`), so Core's condition guards the merge too; while it starts its run, the Job has the configuration it
wants or somebody has changed the Job since (`Wants`).

`ApiRequests_proofs`. The parts of the request layer share no variable, so each has an invariant of its own:
what a client read of a decision still stands (`DecisionsInductive`); a request that was relayed acts under the
authority and the binding it was relayed with, and a confirmed reply is the bound owner's (`RoutingInductive`); every
outcome that is shown was one of the run's, and a connection is told events in ascending order, each of them written,
and after one it passes over a whole window of newer ones; it has told the newest of what it has seen (`StreamInductive`). For the listings, `ListingInductive` says of a token somebody holds
that what its client was told is the beginning of the snapshot it was issued with: whatever was told and not
missing since is no further than the offset, counted without the runs that were missing (`Lists`), and
while none was missing everything up to the offset was told. A page shows what
comes next of the runs that are left (`ListPage`), and a run that goes only makes that count smaller: it may skip
another one, which `KeptRunsAreListed` excepts, and repeats none until it is back. Of a Job's runs, what was told
is ascending and ends with the last one Core was asked after (`JobTells`). The snapshot is a sorted sequence chosen for
its set of runs and a page is cut by a set of places, so that nothing has to be shown of a recursive operator;
`NumbersSort` shows that such a sequence exists.

`JobReplies_proofs`. The holder of a Job's lock is the only one that brings something of it, and what is
known of a Job gets newer along one chain: answers, context, refresh, base, what was looked up, Core (`Chain` in
`ContextInductive`). A relay has told the beginning of what its owner has written (`Tells`), and an
ended relay's cancellation is on its way until the answer stops (`Stops`).

`BlueprintRequests_proofs`. No two steps of an operation are under one lock. `CatalogHolds`: the record that a removal
is about to unlink is in the archive, or in `superseded` because another removal has written over it, a claim made during a purge is noted in `late`, a route leads to a computer
that has held the model, and what is registered belongs to an operation that is done. `LaunchesHold`: what a launch has begun at
each stage (`StagesHold`), that a directory names only launches that used it (`DirectoriesHold`), that a
helper alone in its directory is found by it, unless its file could not be written (`HelpersHold`), that the progress of a launch that has ended tells its
outcome last, unless others share it (`LogsHold`), and that an active run's Job is running, has no other run, and is in the list of every sweep that does not have it as
`unlisted` (`RunsHold`). Every step of a launch is first shown to pass on, to end or to work at its
point (`Passing`, `Ending`, `Working`), and what each of the three keeps is shown once.

Some theorems state what no run repeats, because a run's time goes to what is not
proved: the type invariants (`TypeCorrect`, `PreparationsAreTyped`, `LaunchesAreTyped`, `ContextsAreTyped`, `RepliesAreTyped`,
`CatalogIsTyped`), `ClaimsAreExclusive`, `CacheIsDurable`, `WorkerKeepsReceipt`, `CompletedStaysFinal`, `ClaimStaysPinned`,
`FailuresAreForgotten`, `WaitersAreServed`, `RevokedStaysRevoked` and `SessionsStay`.

Model-checked only are the liveness properties `StartedStreamsEnd`, `RequestsEnd`, `RunStreamsEnd`, `LaunchesSettle` and
`OutputsAreDelivered`: liveness is out of the prover's reach. Every safety property that a passing run checks has a theorem.

## What is not modelled

Core is outside: its operations are identities in the cache, its Jobs a store with
conditional writes, its interactions and placements external. `JobPreparation` leaves out the Job identity that a client
may choose, and the 409 when a correction names another one (`job_preparations.py:110,120-125`); the model's
identities are drawn, so what it says of Jobs is about preparations that choose none. A worker that finds its Job
there compares the definition and the configuration, chosen identity or not. So are the SDK's ledger, registry and
gateways, of which a call is a step. Corrupt receipts and unreadable files are reads that raise and
change nothing. The content of results, errors, progress labels, HTTP headers, problem documents, listings
and contexts is abstracted. Times are abstracted to events that may happen at any moment (expiry, ages,
deadlines). PKCE and client registration are the mcp library's. The operating system never reuses a
process identity.

Components without a model, and why:

- Job supervision: its native launch calls `create_blueprint_run`, whose phases
  `BlueprintLaunch` has; the supervisor is the SDK's.
- The Core client: one lazily made object; what closing it does to a call under way is the SDK's, and every
  call of the models may fail.
- Bundles, system, backups, assistance and the rest of infrastructure: forwarding and files. `routes/models.py` (but for
  `_upsert_registry_record`), `routes/system.py` and the routers of `run_projection.py` and
  `job_projection.py` are not mounted by the application.
- The record-based launch (`run_blueprint_launch_record`), `install_blueprint`, `cleanup_blueprints`
  and `update_blueprints`: no mounted route calls them (the cleanup route starts an operation of Core).
- Most of `blueprints.py`, `job_projection.py` and `job_mcp.py` formats records, catalogs and
  contexts; there is no state in it that two actors share.

Four hazards have no property, for the reasons given in `PROJECT.json`: a client closed under others, a
refresh whose thread cannot start, the supervised launch above, and the sweep of a directory that is older than two minutes and
not mapped yet (`blueprints.py:2667`), which takes the helper of a launch that is still packaging. The model takes that
step, as it does the page that leaves a Job out; the properties except both.

## Plan

Every passing run's safety properties are proved. What is left is breadth: the liveness properties hold of
the instances only, and of the four hazards without a property, two await a model of what the SDK does with a client that
is closed and with a supervisor's receipts; the other two are losses that the code accepts.
