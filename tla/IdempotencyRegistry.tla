--------------------------- MODULE IdempotencyRegistry ---------------------------
(***************************************************************************)
(* Requests that carry an Idempotency-Key: IdempotencyRegistry of          *)
(* mn_api/http_semantics.py as mn_api/public.py's idempotent_response      *)
(* drives it.  One action is one critical section of `_lock`, or one step  *)
(* of the request's thread outside it.                                     *)
(*                                                                         *)
(* A call is one execution of the route's work together with the Future    *)
(* its waiters share; calls are numbered in the order they start.          *)
(***************************************************************************)
EXTENDS Naturals, Sequences, FiniteSets

CONSTANTS
  Threads,        \* request threads
  Identities,     \* (principal, route, key)
  Fingerprints,   \* request bodies
  Maximum,        \* records retained (10,000)
  MaxCalls,       \* bound of the model: executions that may start
  NoIdentity, NoFingerprint

ASSUME RegistryAssumption ==
  /\ Maximum \in Nat \ {0}
  /\ MaxCalls \in Nat
  /\ NoIdentity \notin Identities /\ NoFingerprint \notin Fingerprints

\* No call: neither a record nor a claim.
NoCall == 0

VARIABLES
  call,       \* every execution: whose it is and what became of its Future
  record,     \* _records: the call whose response is replayed, by identity
  older,      \* the order of _records: pairs <<a, b>>, a before b
  expired,    \* retained records whose time to live has passed
  inflight,   \* _inflight: the call that owns an identity
  request,    \* the request each thread serves
  dropped     \* calls whose record expired or was evicted (history)

vars == <<call, record, older, expired, inflight, request, dropped>>

States == {"pending", "value", "response", "error"}
Owning == {"running", "stored", "settled"}

NoRequest == [pc |-> "idle", identity |-> NoIdentity, fingerprint |-> NoFingerprint, call |-> NoCall]

Init ==
  /\ call = <<>>
  /\ record = [id \in Identities |-> NoCall]
  /\ older = {}
  /\ expired = {}
  /\ inflight = [id \in Identities |-> NoCall]
  /\ request = [t \in Threads |-> NoRequest]
  /\ dropped = {}

Retained(records) == {id \in Identities : records[id] # NoCall}

\* _prune
Pruned == [id \in Identities |-> IF id \in expired THEN NoCall ELSE record[id]]
OrderWithout(order, gone) == {pair \in order : pair[1] \notin gone /\ pair[2] \notin gone}

\* The oldest records, as many as exceed the maximum (popitem(last=False)).
Evicted(records, order) ==
  {id \in Retained(records) :
     Cardinality({a \in Retained(records) : <<a, id>> \in order})
       < Cardinality(Retained(records)) - Maximum}

\* Mutant of Previous: the claims are not consulted.
PreviousRecord(id) == Pruned[id]

\* What execute finds for an identity: the record first, then the claim.
Previous(id) == IF Pruned[id] # NoCall THEN Pruned[id] ELSE inflight[id]

Free(t) == request[t].pc \in {"idle", "answered", "refused"}

Prune ==
  /\ record' = Pruned
  /\ older' = OrderWithout(older, expired)
  /\ expired' = {}
  /\ dropped' = dropped \cup {record[id] : id \in expired}

-----------------------------------------------------------------------------
(* execute: the four answers of its first critical section *)

\* The key was used with another body: 409.
Refuse(t, id, fingerprint) ==
  /\ Free(t)
  /\ Previous(id) # NoCall /\ call[Previous(id)].fingerprint # fingerprint
  /\ Prune
  /\ request' = [request EXCEPT ![t] =
       [pc |-> "refused", identity |-> id, fingerprint |-> fingerprint, call |-> NoCall]]
  /\ UNCHANGED <<call, inflight>>

\* A retained response is replayed and becomes the most recently used.
Replay(t, id, fingerprint) ==
  /\ Free(t)
  /\ Pruned[id] # NoCall /\ call[Pruned[id]].fingerprint = fingerprint
  /\ record' = Pruned
  /\ older' = {pair \in OrderWithout(older, expired) : id \notin {pair[1], pair[2]}}
                \cup ((Retained(Pruned) \ {id}) \X {id})
  /\ expired' = {}
  /\ dropped' = dropped \cup {record[i] : i \in expired}
  /\ request' = [request EXCEPT ![t] =
       [pc |-> "answered", identity |-> id, fingerprint |-> fingerprint, call |-> Pruned[id]]]
  /\ UNCHANGED <<call, inflight>>

\* Mutant of Join: waits whatever the body.
JoinAnyBody(t, id, fingerprint) ==
  /\ Free(t)
  /\ Pruned[id] = NoCall /\ inflight[id] # NoCall
  /\ Prune
  /\ request' = [request EXCEPT ![t] =
       [pc |-> "waiting", identity |-> id, fingerprint |-> fingerprint, call |-> inflight[id]]]
  /\ UNCHANGED <<call, inflight>>

\* The same request is being executed: wait for its Future.
Join(t, id, fingerprint) ==
  /\ Free(t)
  /\ Pruned[id] = NoCall
  /\ inflight[id] # NoCall /\ call[inflight[id]].fingerprint = fingerprint
  /\ Prune
  /\ request' = [request EXCEPT ![t] =
       [pc |-> "waiting", identity |-> id, fingerprint |-> fingerprint, call |-> inflight[id]]]
  /\ UNCHANGED <<call, inflight>>

\* Nobody holds the identity: claim it and execute.
Own(t, id, fingerprint) ==
  /\ Free(t)
  /\ Len(call) < MaxCalls
  /\ Previous(id) = NoCall
  /\ Prune
  /\ call' = Append(call, [identity |-> id, fingerprint |-> fingerprint, state |-> "pending"])
  /\ inflight' = [inflight EXCEPT ![id] = Len(call) + 1]
  /\ request' = [request EXCEPT ![t] =
       [pc |-> "running", identity |-> id, fingerprint |-> fingerprint, call |-> Len(call) + 1]]

\* A request without a key executes its work and touches nothing here.
Unkeyed(t) ==
  /\ Free(t)
  /\ request' = [request EXCEPT ![t] = NoRequest]
  /\ UNCHANGED <<call, record, older, expired, inflight, dropped>>

-----------------------------------------------------------------------------
(* The owner: the work, its record, its Future and its claim *)

\* The work returned a value: its response is recorded before anyone sees it.
Store(t) ==
  LET id == request[t].identity
      added == [Pruned EXCEPT ![id] = request[t].call]
      order == OrderWithout(older, expired) \cup ((Retained(Pruned) \ {id}) \X {id})
      gone == Evicted(added, order)
  IN  /\ request[t].pc = "running"
      /\ record' = [i \in Identities |-> IF i \in gone THEN NoCall ELSE added[i]]
      /\ older' = OrderWithout(order, gone)
      /\ expired' = {}
      /\ dropped' = dropped \cup {record[i] : i \in expired} \cup {added[i] : i \in gone}
      /\ request' = [request EXCEPT ![t].pc = "stored"]
      /\ UNCHANGED <<call, inflight>>

\* Mutants of Settle: a value that was not recorded, and a failure nobody is told of.
Settling(t, from, call2) ==
  /\ request[t].pc = from
  /\ call' = call2
  /\ request' = [request EXCEPT ![t].pc = "settled"]
  /\ UNCHANGED <<record, older, expired, inflight, dropped>>
SettleUnrecorded(t, state) == Settling(t, "running", [call EXCEPT ![request[t].call].state = state])
SettleSilently(t, state) ==
  Settling(t, IF state = "value" THEN "stored" ELSE "running",
           IF state = "error" THEN call ELSE [call EXCEPT ![request[t].call].state = state])

\* future.set_result or set_exception.
Settle(t, state) ==
  /\ request[t].pc = IF state = "value" THEN "stored" ELSE "running"
  /\ call' = [call EXCEPT ![request[t].call].state = state]
  /\ request' = [request EXCEPT ![t].pc = "settled"]
  /\ UNCHANGED <<record, older, expired, inflight, dropped>>

\* The finally block: the claim goes, whatever the outcome.
Release(t) ==
  /\ request[t].pc = "settled"
  /\ inflight' = [inflight EXCEPT ![request[t].identity] = NoCall]
  /\ request' = [request EXCEPT ![t].pc = "answered"]
  /\ UNCHANGED <<call, record, older, expired, dropped>>

\* future.result() returns or raises in a waiter.
Wake(t) ==
  /\ request[t].pc = "waiting"
  /\ call[request[t].call].state # "pending"
  /\ request' = [request EXCEPT ![t].pc = "answered"]
  /\ UNCHANGED <<call, record, older, expired, inflight, dropped>>

\* The record reaches its time to live; it is removed by the next prune.
Expire(id) ==
  /\ record[id] # NoCall /\ id \notin expired
  /\ expired' = expired \cup {id}
  /\ UNCHANGED <<call, record, older, inflight, request, dropped>>

Serve(t) == Store(t) \/ (\E state \in States \ {"pending"} : Settle(t, state)) \/ Release(t) \/ Wake(t)

Next ==
  \/ \E t \in Threads, id \in Identities, fingerprint \in Fingerprints :
       \/ Refuse(t, id, fingerprint) \/ Replay(t, id, fingerprint)
       \/ Join(t, id, fingerprint) \/ Own(t, id, fingerprint)
  \/ \E t \in Threads : Serve(t) \/ Unkeyed(t)
  \/ \E id \in Identities : Expire(id)

Spec == Init /\ [][Next]_vars

\* The work of a route returns or raises, and threads run.
FairSpec == Spec /\ \A t \in Threads : WF_vars(Serve(t))

-----------------------------------------------------------------------------
(* Properties *)

Owners == {t \in Threads : request[t].pc \in Owning}
Calls == DOMAIN call

TypeOK ==
  /\ call \in Seq([identity : Identities, fingerprint : Fingerprints, state : States])
  /\ record \in [Identities -> Calls \cup {NoCall}]
  /\ older \subseteq Identities \X Identities
  /\ expired \subseteq Retained(record)
  /\ inflight \in [Identities -> Calls \cup {NoCall}]
  /\ request \in [Threads -> [pc : {"idle", "waiting", "answered", "refused"} \cup Owning,
                              identity : Identities \cup {NoIdentity},
                              fingerprint : Fingerprints \cup {NoFingerprint},
                              call : Calls \cup {NoCall}]]
  /\ dropped \subseteq Calls

\* Two requests with one key never execute at once, and a claim is held exactly
\* while its owner runs: no outcome leaks it and none frees it early.
OneExecutionPerKey ==
  /\ \A t \in Owners : inflight[request[t].identity] = request[t].call
  /\ \A t, u \in Owners : request[t].identity = request[u].identity => t = u
  /\ \A id \in Identities : inflight[id] # NoCall => \E t \in Owners : request[t].identity = id

\* Whether it executed, waited or was replayed, a request is answered with an
\* execution of the same key and the same body.
AnswerMatchesRequest ==
  \A t \in Threads : request[t].pc = "answered" =>
    /\ call[request[t].call].identity = request[t].identity
    /\ call[request[t].call].fingerprint = request[t].fingerprint

\* Work that returned a value is executed again only after its record expired
\* or was evicted: there is no moment at which a repeat finds neither the
\* claim nor the record.
SuccessIsExecutedOnce ==
  \A c, d \in Calls :
    c < d /\ call[c].identity = call[d].identity /\ call[c].state = "value" => c \in dropped

\* A failure, or a ready-made response, is shared with the requests that waited
\* for it and never replayed.
FailureIsNotRetained ==
  \A id \in Identities : record[id] # NoCall => call[record[id]].state \in {"pending", "value"}

\* Every request is answered, also when the owner it waits for fails.
RequestsEnd ==
  \A t \in Threads : request[t].pc \in Owning \cup {"waiting"} ~> request[t].pc = "answered"
=============================================================================
