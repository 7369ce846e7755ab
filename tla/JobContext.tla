------------------------------- MODULE JobContext -------------------------------
(***************************************************************************)
(* The context of a Job for its MCP requests: JobContextProvider of        *)
(* mn_api/job_mcp.py.  A request first needs the Job's base snapshot, read *)
(* from Core under a lock of that Job, then its context, which one refresh *)
(* thread per Job loads in the background.  Both are kept in bounded,      *)
(* ordered caches, answered as fresh or as last known good, and dropped    *)
(* when the Job is gone.                                                   *)
(*                                                                         *)
(* Core may change or delete a Job, or not answer, at any moment.  Ages    *)
(* stand for the clock: a snapshot is fresh, then known (good enough when  *)
(* Core does not answer), then old.  A context is represented by the       *)
(* version of the Job its base was read at; the text of the last error and *)
(* the response timestamps, which the fingerprint leaves out, are not      *)
(* modelled.                                                               *)
(***************************************************************************)
EXTENDS Naturals, Sequences, SequencesExt

CONSTANTS
  Requests,     \* request threads of the MCP server
  Jobs,
  MaxEntries,   \* entries of each cache (100)
  Changing,     \* bound of the model: the Jobs that change or are deleted
  MaxAsks,      \* bound of the model: requests
  MaxVersion,   \* bound of the model: versions of a Job
  None          \* no thread, no Job

ASSUME ContextAssumption ==
  /\ MaxEntries \in Nat \ {0} /\ MaxVersion \in Nat \ {0} /\ MaxAsks \in Nat /\ Changing \subseteq Jobs
  /\ Requests \cap Jobs = {} /\ None \notin Requests \cup Jobs

\* A Job's refresh thread has the Job's name.
Actors == Requests \cup Jobs

VARIABLES
  core,            \* Core: version of each Job, and whether it is deleted
  base, context,   \* OrderedDicts of snapshots, least recently used first
  lock,            \* who holds the base lock of each Job
  actor,           \* request and refresh threads
  gone,            \* Jobs whose deletion was observed (history)
  served,          \* the newest version a request of each Job was answered with (history)
  asked            \* number of requests so far

caches == <<base, context>>
contextVars == <<core, caches, lock, actor, gone, served, asked>>

Idle(j) == [pc |-> "idle", job |-> j, known |-> FALSE, look |-> "none", version |-> 0,
            signal |-> "none", late |-> FALSE, floor |-> 0]

Init ==
  /\ core = [j \in Jobs |-> [version |-> 1, deleted |-> FALSE]]
  /\ base = <<>> /\ context = <<>>
  /\ lock = [j \in Jobs |-> None]
  /\ actor = [a \in Actors |-> Idle(IF a \in Jobs THEN a ELSE None)]
  /\ gone = {}
  /\ served = [j \in Jobs |-> 0]
  /\ asked = 0

At(a, pc) == actor[a].pc = pc
Job(a) == actor[a].job
Becomes(a, pc) == actor' = [actor EXCEPT ![a].pc = pc]

-----------------------------------------------------------------------------
(* The ordered caches *)

Has(cache, j) == \E i \in DOMAIN cache : cache[i].job = j
Position(cache, j) == CHOOSE i \in DOMAIN cache : cache[i].job = j
Entry(cache, j) == cache[Position(cache, j)]
Aged(cache, j, ages) == Has(cache, j) /\ Entry(cache, j).age \in ages
Drop(cache, j) == IF Has(cache, j) THEN RemoveAt(cache, Position(cache, j)) ELSE cache
MovedToEnd(cache, j) == Append(Drop(cache, j), Entry(cache, j))
Trimmed(cache) == IF Len(cache) > MaxEntries THEN Tail(cache) ELSE cache
Put(cache, j, version) == Trimmed(Append(Drop(cache, j), [job |-> j, version |-> version, age |-> "fresh"]))

Older(cache, j) ==
  [i \in DOMAIN cache |->
     IF cache[i].job = j /\ cache[i].age # "old"
     THEN [cache[i] EXCEPT !.age = IF @ = "fresh" THEN "known" ELSE "old"] ELSE cache[i]]

Age(j) ==
  /\ \/ Aged(base, j, {"fresh", "known"}) /\ base' = Older(base, j) /\ UNCHANGED context
     \/ Aged(context, j, {"fresh", "known"}) /\ context' = Older(context, j) /\ UNCHANGED base
  /\ UNCHANGED <<asked, core, lock, actor, gone, served>>

-----------------------------------------------------------------------------
(* The base snapshot, for a request or a refresh thread *)

Returns(a, version) ==
  actor' = [actor EXCEPT ![a] =
    [@ EXCEPT !.pc = "ready", !.version = version, !.known = FALSE, !.look = "none"]]
Raises(a, error) ==
  actor' = [actor EXCEPT ![a] =
    [@ EXCEPT !.pc = "raised", !.signal = error, !.version = 0, !.known = FALSE, !.look = "none"]]

BaseHit(a) ==
  /\ At(a, "base") /\ Aged(base, Job(a), {"fresh"})
  /\ base' = MovedToEnd(base, Job(a))
  /\ Returns(a, Entry(base, Job(a)).version)
  /\ UNCHANGED <<asked, core, context, lock, gone, served>>

\* Mutant: lookups of one Job are not serialised.
LockAnyway(a) ==
  /\ At(a, "base") /\ ~Aged(base, Job(a), {"fresh"})
  /\ lock' = [lock EXCEPT ![Job(a)] = a]
  /\ actor' = [actor EXCEPT ![a].pc = "lookup", ![a].known = Aged(base, Job(a), {"known"})]
  /\ UNCHANGED <<asked, core, caches, gone, served>>

\* Another lookup may have filled the cache before the lock was free: then BaseHit.
Lock(a) ==
  /\ At(a, "base") /\ ~Aged(base, Job(a), {"fresh"})
  /\ lock[Job(a)] = None
  /\ lock' = [lock EXCEPT ![Job(a)] = a]
  /\ actor' = [actor EXCEPT ![a].pc = "lookup", ![a].known = Aged(base, Job(a), {"known"})]
  /\ UNCHANGED <<asked, core, caches, gone, served>>

Lookup(a) ==
  /\ At(a, "lookup")
  /\ \E look \in {IF core[Job(a)].deleted THEN "not_found" ELSE "found", "unavailable"} :
       actor' = [actor EXCEPT ![a].pc = "looked", ![a].look = look,
                              ![a].version = IF look = "found" THEN core[Job(a)].version ELSE 0]
  /\ UNCHANGED <<asked, core, caches, lock, gone, served>>

Unlock(a) == lock' = [lock EXCEPT ![Job(a)] = None]

\* A changed fingerprint drops the Job's context.
Found(a) ==
  LET j == Job(a)
      changed == Has(base, j) /\ Entry(base, j).version # actor[a].version
  IN /\ At(a, "looked") /\ actor[a].look = "found"
     /\ base' = Put(base, j, actor[a].version)
     /\ context' = IF changed THEN Drop(context, j) ELSE context
     /\ Returns(a, actor[a].version)
     /\ Unlock(a)
     /\ UNCHANGED <<asked, core, gone, served>>

\* Mutant: only the context of a Job that is gone is dropped.
GoneKeepsBase(a) ==
  /\ At(a, "looked") /\ actor[a].look = "not_found"
  /\ context' = Drop(context, Job(a)) /\ UNCHANGED base
  /\ gone' = gone \cup {Job(a)}
  /\ Raises(a, "not_found")
  /\ Unlock(a)
  /\ UNCHANGED <<asked, core, served>>

Gone(a) ==
  /\ At(a, "looked") /\ actor[a].look = "not_found"
  /\ base' = Drop(base, Job(a)) /\ context' = Drop(context, Job(a))
  /\ gone' = gone \cup {Job(a)}
  /\ Raises(a, "not_found")
  /\ Unlock(a)
  /\ UNCHANGED <<asked, core, served>>

\* The last known good base answers; its age is that of the moment the lock was taken.
Unavailable(a) ==
  /\ At(a, "looked") /\ actor[a].look = "unavailable"
  /\ IF actor[a].known /\ Has(base, Job(a))
     THEN Returns(a, Entry(base, Job(a)).version)
     ELSE Raises(a, "unavailable")
  /\ Unlock(a)
  /\ UNCHANGED <<asked, core, caches, gone, served>>

BaseStep(a) == BaseHit(a) \/ Lock(a) \/ Lookup(a) \/ Found(a) \/ Gone(a) \/ Unavailable(a)

-----------------------------------------------------------------------------
(* The refresh thread of a Job *)

\* The waiting requests of j learn how its refresh ended, and the thread ends.
Finished(j, outcome) ==
  actor' = [a \in Actors |->
              IF a = j THEN Idle(j)
              ELSE IF At(a, "waiting") /\ Job(a) = j THEN [actor[a] EXCEPT !.signal = outcome] ELSE actor[a]]

\* The runs, the workflow and the result were read, completely or with warnings.
StoreContext(j) ==
  /\ At(j, "ready")
  /\ context' = Put(context, j, actor[j].version)
  /\ Finished(j, "loaded")
  /\ UNCHANGED <<asked, core, base, lock, gone, served>>

RefreshFails(j) ==
  /\ At(j, "raised")
  /\ IF actor[j].signal = "not_found"
     THEN base' = Drop(base, j) /\ context' = Drop(context, j) ELSE UNCHANGED caches
  /\ Finished(j, actor[j].signal)
  /\ UNCHANGED <<asked, core, lock, gone, served>>

RefreshStep(j) == BaseStep(j) \/ StoreContext(j) \/ RefreshFails(j)

-----------------------------------------------------------------------------
(* Requests *)

\* A thread that has answered serves another request.  The guard's lookup of the response mode and
\* the tool's own are one.
Ask(t, j) ==
  /\ actor[t].pc \in {"idle", "answered", "partial", "not_found", "unavailable"}
  /\ asked < MaxAsks /\ asked' = asked + 1
  /\ actor' = [actor EXCEPT ![t] =
       [Idle(j) EXCEPT !.pc = "base", !.late = j \in gone, !.floor = served[j]]]
  /\ UNCHANGED <<core, caches, lock, gone, served>>

Answers(t, how, version) ==
  /\ actor' = [actor EXCEPT ![t].pc = how, ![t].version = version]
  /\ served' = [served EXCEPT ![Job(t)] = IF @ < version THEN version ELSE @]

Refuse(t) ==
  /\ At(t, "raised")
  /\ Becomes(t, actor[t].signal)
  /\ UNCHANGED <<asked, core, caches, lock, gone, served>>

AnswerFresh(t) ==
  /\ At(t, "ready") /\ Aged(context, Job(t), {"fresh"})
  /\ context' = MovedToEnd(context, Job(t))
  /\ Answers(t, "answered", Entry(context, Job(t)).version)
  /\ UNCHANGED <<asked, core, base, lock, gone>>

\* The refresh in progress is joined, or one is started; a known context does not wait for it.
Refreshes(t) ==
  LET j == Job(t)
      known == Aged(context, j, {"known"})
      started == IF At(j, "idle") THEN [Idle(j) EXCEPT !.pc = "base"] ELSE actor[j]
  IN /\ At(t, "ready") /\ ~Aged(context, j, {"fresh"})
     /\ actor' = [actor EXCEPT ![j] = started,
                               ![t].pc = IF known THEN "answered" ELSE "waiting",
                               ![t].version = IF known THEN Entry(context, j).version ELSE 0]
     /\ served' = IF known /\ served[j] < Entry(context, j).version
                  THEN [served EXCEPT ![j] = Entry(context, j).version] ELSE served
     /\ UNCHANGED <<asked, core, caches, lock, gone>>

\* The thread cannot be started: its registration stays, nobody will ever remove it.
RefreshCannotStart(t) ==
  /\ At(t, "ready") /\ ~Aged(context, Job(t), {"fresh"}) /\ At(Job(t), "idle")
  /\ actor' = [actor EXCEPT ![Job(t)].pc = "lost", ![t].pc = "unavailable"]
  /\ UNCHANGED <<asked, core, caches, lock, gone, served>>

\* The refresh ended, or the wait for it timed out; without a context the request goes on
\* with what the base says of the Job.
Woken(t) ==
  /\ At(t, "waiting")
  /\ IF Aged(context, Job(t), {"fresh", "known"})
     THEN Answers(t, "answered", Entry(context, Job(t)).version)
     ELSE /\ Becomes(t, IF actor[t].signal = "not_found" THEN "not_found" ELSE "partial")
          /\ UNCHANGED served
  /\ UNCHANGED <<asked, core, caches, lock, gone>>

ContextStep(t) ==
  BaseStep(t) \/ Refuse(t) \/ AnswerFresh(t) \/ Refreshes(t) \/ RefreshCannotStart(t) \/ Woken(t)

-----------------------------------------------------------------------------
(* Core *)

Change(j) ==
  /\ j \in Changing /\ ~core[j].deleted /\ core[j].version < MaxVersion
  /\ core' = [core EXCEPT ![j].version = @ + 1]
  /\ UNCHANGED <<asked, caches, lock, actor, gone, served>>

Delete(j) ==
  /\ j \in Changing /\ ~core[j].deleted
  /\ core' = [core EXCEPT ![j].deleted = TRUE]
  /\ UNCHANGED <<asked, caches, lock, actor, gone, served>>

-----------------------------------------------------------------------------
(* Properties *)

Entries == [job : Jobs, version : 1..MaxVersion, age : {"fresh", "known", "old"}]

ContextTypeOK ==
  /\ core \in [Jobs -> [version : 1..MaxVersion, deleted : BOOLEAN]]
  /\ \A cache \in {base, context} :
       /\ Len(cache) <= MaxEntries /\ Range(cache) \subseteq Entries
       /\ \A i, k \in DOMAIN cache : cache[i].job = cache[k].job => i = k
  /\ lock \in [Jobs -> Actors \cup {None}]
  /\ \A a \in Actors : Job(a) \in Jobs \cup {None} /\ actor[a].version \in 0..MaxVersion /\ actor[a].floor \in 0..MaxVersion
  /\ gone \subseteq Jobs
  /\ served \in [Jobs -> 0..MaxVersion]

\* Nobody who asks after the deletion of a Job was observed is answered from what was known of
\* it, whatever lookups and refreshes were in progress then (job_mcp.py:472-478, 513-515).
DeletedIsNotServed ==
  /\ \A j \in gone : ~Has(base, j)
  /\ \A t \in Requests : actor[t].late => actor[t].pc \in {"base", "lookup", "looked", "raised", "not_found", "unavailable"}

\* A context never goes back: whoever asks after an answer was given gets one that is at least
\* as new, although a refresh uses a base it read long before (job_mcp.py:488-553, 593-602).
ContextNeverGoesBack ==
  \A t \in Requests : At(t, "answered") => actor[t].version >= actor[t].floor
=============================================================================
