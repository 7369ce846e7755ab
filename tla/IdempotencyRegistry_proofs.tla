---------------------- MODULE IdempotencyRegistry_proofs ----------------------
(***************************************************************************)
(* Theorems about IdempotencyRegistry for any threads, keys, bodies and    *)
(* retention.  The argument is about the life of one call: while its owner *)
(* works the key has no record and no later call; its record is made       *)
(* before its Future is settled, and its claim outlives both.              *)
(***************************************************************************)
EXTENDS IdempotencyRegistry, TLAPS

Identified(c, r) == call[c].identity = r.identity /\ call[c].fingerprint = r.fingerprint

\* A request that executes, waits or was answered names a call of its key and body.
RequestsNameCalls ==
  \A t \in Threads : request[t].pc \in Owning \cup {"waiting", "answered"} =>
    request[t].call \in Calls /\ Identified(request[t].call, request[t])

\* Nobody starts a second call of a key that has an owner.
OwnersAreLatest ==
  \A t \in Owners : \A d \in Calls :
    call[d].identity = request[t].identity => d <= request[t].call

\* How far an owner is, by its record and its Future.
OwnersProgress ==
  \A t \in Threads :
    /\ request[t].pc = "running" =>
         call[request[t].call].state = "pending" /\ record[request[t].identity] = NoCall
    /\ request[t].pc = "stored" =>
         /\ call[request[t].call].state = "pending"
         /\ record[request[t].identity] = request[t].call \/ request[t].call \in dropped
    /\ request[t].pc = "settled" => call[request[t].call].state # "pending"

\* A record is a value of its key, or is about to be.
RecordsAreValues ==
  \A id \in Identities : record[id] # NoCall =>
    /\ call[record[id]].identity = id
    /\ \/ call[record[id]].state = "value"
       \/ /\ call[record[id]].state = "pending"
          /\ \E t \in Threads : request[t].pc = "stored" /\ request[t].call = record[id]

\* A value is replayed until its record is dropped.
ValuesAreRecorded ==
  \A c \in Calls : call[c].state = "value" => record[call[c].identity] = c \/ c \in dropped

\* A Future that is not settled has an owner.
PendingIsOwned ==
  \A c \in Calls : call[c].state = "pending" =>
    \E t \in Threads : request[t].pc \in {"running", "stored"} /\ request[t].call = c

Claims == OneExecutionPerKey /\ OwnersAreLatest
Records == OwnersProgress /\ RecordsAreValues /\ ValuesAreRecorded
Inductive == TypeOK /\ RequestsNameCalls /\ Claims /\ Records /\ PendingIsOwned /\ SuccessIsExecutedOnce

Execution == [identity : Identities, fingerprint : Fingerprints, state : States]
Request == [pc : {"idle", "waiting", "answered", "refused"} \cup Owning,
            identity : Identities \cup {NoIdentity},
            fingerprint : Fingerprints \cup {NoFingerprint},
            call : Calls \cup {NoCall}]

-----------------------------------------------------------------------------
(* What pruning keeps *)

\* The domain of the executions, as numbers.
LEMMA CallsAreNumbers ==
  ASSUME TypeOK
  PROVE  /\ Len(call) \in Nat /\ Calls = 1..Len(call) /\ NoCall \notin Calls
         /\ \A c \in Calls : call[c] \in Execution
<1>1. call \in Seq(Execution)
  BY DEF TypeOK, Execution
<1>2. Len(call) \in Nat /\ Calls = 1..Len(call)
  BY <1>1 DEF Calls
<1>3. \A c \in 1..Len(call) : call[c] \in Execution
  BY <1>1
<1> QED BY <1>2, <1>3 DEF NoCall

\* A pruned record is the record or nothing, and nothing only if it expired.
LEMMA PrunedRecords ==
  ASSUME TypeOK
  PROVE  /\ Pruned \in [Identities -> Calls \cup {NoCall}]
         /\ \A id \in Identities : Pruned[id] = record[id] \/ (Pruned[id] = NoCall /\ id \in expired)
         /\ {record[id] : id \in expired} \subseteq Calls
         /\ \A id \in expired : record[id] # NoCall
<1>1. expired \subseteq Identities /\ \A id \in expired : record[id] # NoCall
  BY DEF TypeOK, Retained
<1>2. record \in [Identities -> Calls \cup {NoCall}]
  BY DEF TypeOK
<1> QED BY <1>1, <1>2 DEF Pruned

\* Expired records leave; nothing else in the registry changes.
Prunes ==
  /\ record' = Pruned
  /\ dropped' = dropped \cup {record[id] : id \in expired}
  /\ expired' = {}
  /\ older' \subseteq Identities \X Identities
  /\ UNCHANGED <<call, inflight>>

\* What the registry says of calls and their owners survives pruning and a new
\* answer to a request that owned nothing.
LEMMA AnswerKeepsInductive ==
  ASSUME Inductive, NEW t \in Threads, Free(t) \/ request[t].pc = "waiting", NEW r \in Request,
         request' = [request EXCEPT ![t] = r],
         r.pc \notin Owning,
         r.pc \in {"waiting", "answered"} => r.call \in Calls /\ Identified(r.call, r),
         Prunes \/ UNCHANGED <<call, record, older, expired, inflight, dropped>>
  PROVE  Inductive'
<1> USE DEF Inductive, Claims, Records
<1>1. call' = call /\ inflight' = inflight /\ Calls' = Calls
  BY DEF Prunes, Calls
<1>2. request \in [Threads -> Request]
  BY DEF TypeOK, Request
<1>3. \A u \in Threads : u # t => request'[u] = request[u]
  BY <1>2
<1>4. request'[t] = r /\ t \notin Owners /\ t \notin Owners'
  BY <1>2 DEF Owners, Owning, Free
<1>5. Owners' = Owners /\ \A u \in Owners : request'[u] = request[u]
  BY <1>3, <1>4 DEF Owners
<1>6. \A id \in Identities : record'[id] = record[id] \/ (record'[id] = NoCall /\ record[id] \in dropped')
  BY PrunedRecords DEF Prunes
<1>7. dropped \subseteq dropped' /\ dropped' \subseteq Calls
  BY PrunedRecords DEF Prunes, TypeOK
<1>8. TypeOK'
  <2>1. record' \in [Identities -> Calls \cup {NoCall}]
    BY PrunedRecords DEF Prunes, TypeOK
  <2>2. older' \subseteq Identities \X Identities /\ expired' \subseteq Retained(record)'
    BY DEF Prunes, TypeOK, Retained
  <2>3. request' \in [Threads -> Request]
    BY <1>2
  <2> QED BY <1>1, <1>7, <2>1, <2>2, <2>3 DEF TypeOK, Request
<1>9. RequestsNameCalls'
  BY <1>1, <1>3, <1>4 DEF RequestsNameCalls, Identified
<1>10. OneExecutionPerKey'
  BY <1>1, <1>5 DEF OneExecutionPerKey
<1>11. OwnersAreLatest'
  BY <1>1, <1>5 DEF OwnersAreLatest
<1>12. \A u \in Threads : request'[u].pc \in Owning => u \in Owners /\ request'[u] = request[u]
  BY <1>5 DEF Owners
<1>13. \A u \in Owners : request[u].identity \in Identities
  BY CallsAreNumbers DEF RequestsNameCalls, Owners, Identified, Execution
<1>14. OwnersProgress'
  <2> SUFFICES ASSUME NEW u \in Threads, request'[u].pc \in Owning
               PROVE  /\ request'[u].pc = "running" =>
                           call[request'[u].call].state = "pending" /\ record'[request'[u].identity] = NoCall
                      /\ request'[u].pc = "stored" =>
                           /\ call[request'[u].call].state = "pending"
                           /\ record'[request'[u].identity] = request'[u].call \/ request'[u].call \in dropped'
                      /\ request'[u].pc = "settled" => call[request'[u].call].state # "pending"
    BY <1>1 DEF OwnersProgress, Owning
  <2>1. u \in Owners /\ request'[u] = request[u] /\ request[u].identity \in Identities
    BY <1>12, <1>13
  <2> QED BY <2>1, <1>6, <1>7 DEF OwnersProgress
<1>15. RecordsAreValues'
  <2> SUFFICES ASSUME NEW id \in Identities, record'[id] # NoCall
               PROVE  /\ call[record'[id]].identity = id
                      /\ \/ call[record'[id]].state = "value"
                         \/ /\ call[record'[id]].state = "pending"
                            /\ \E u \in Threads : request'[u].pc = "stored" /\ request'[u].call = record'[id]
    BY <1>1 DEF RecordsAreValues
  <2>1. record'[id] = record[id]
    BY <1>6
  <2>2. \A u \in Threads : request[u].pc = "stored" => request'[u] = request[u]
    BY <1>5 DEF Owners, Owning
  <2> QED BY <2>1, <2>2 DEF RecordsAreValues
<1>16. ValuesAreRecorded'
  <2> SUFFICES ASSUME NEW c \in Calls, call[c].state = "value"
               PROVE  record'[call[c].identity] = c \/ c \in dropped'
    BY <1>1 DEF ValuesAreRecorded
  <2>1. call[c].identity \in Identities
    BY CallsAreNumbers DEF Execution
  <2> QED BY <2>1, <1>6, <1>7 DEF ValuesAreRecorded
<1>17. PendingIsOwned'
  <2>1. \A u \in Threads : request[u].pc \in {"running", "stored"} => request'[u] = request[u]
    BY <1>5 DEF Owners, Owning
  <2> QED BY <1>1, <2>1 DEF PendingIsOwned
<1>18. SuccessIsExecutedOnce'
  BY <1>1, <1>7 DEF SuccessIsExecutedOnce
<1> QED BY <1>8, <1>9, <1>10, <1>11, <1>14, <1>15, <1>16, <1>17, <1>18

-----------------------------------------------------------------------------
(* The answers of the first critical section, and of a waiter *)

\* Pruning as the four answers do it.
LEMMA PruneIsPruning ==
  ASSUME TypeOK, Prune, UNCHANGED <<call, inflight>> PROVE Prunes
BY DEF Prune, Prunes, TypeOK, OrderWithout

LEMMA RefuseKeepsInductive ==
  ASSUME Inductive, NEW t \in Threads, NEW id \in Identities, NEW fingerprint \in Fingerprints,
         Refuse(t, id, fingerprint)
  PROVE  Inductive'
<1> DEFINE r == [pc |-> "refused", identity |-> id, fingerprint |-> fingerprint, call |-> NoCall]
<1>1. r \in Request /\ r.pc \notin Owning /\ r.pc \notin {"waiting", "answered"}
  BY DEF Request, Owning
<1>2. Free(t) /\ Prunes /\ request' = [request EXCEPT ![t] = r]
  BY PruneIsPruning DEF Refuse, Inductive
<1> QED BY <1>1, <1>2, AnswerKeepsInductive

LEMMA ReplayKeepsInductive ==
  ASSUME Inductive, NEW t \in Threads, NEW id \in Identities, NEW fingerprint \in Fingerprints,
         Replay(t, id, fingerprint)
  PROVE  Inductive'
<1> DEFINE r == [pc |-> "answered", identity |-> id, fingerprint |-> fingerprint, call |-> Pruned[id]]
<1>1. Pruned[id] = record[id] /\ record[id] \in Calls
  BY PrunedRecords DEF Replay, Inductive
<1>2. Identified(Pruned[id], r) /\ r.call \in Calls
  BY <1>1 DEF Inductive, Records, RecordsAreValues, Replay, Identified, Inductive, TypeOK, Retained, Pruned
<1>3. r \in Request /\ r.pc \notin Owning
  BY <1>2 DEF Request, Owning
<1>4. Prunes
  BY DEF Replay, Prunes, Inductive, TypeOK, OrderWithout, Retained
<1>5. Free(t) /\ request' = [request EXCEPT ![t] = r]
  BY DEF Replay
<1> QED BY <1>2, <1>3, <1>4, <1>5, AnswerKeepsInductive

LEMMA JoinKeepsInductive ==
  ASSUME Inductive, NEW t \in Threads, NEW id \in Identities, NEW fingerprint \in Fingerprints,
         Join(t, id, fingerprint)
  PROVE  Inductive'
<1> DEFINE r == [pc |-> "waiting", identity |-> id, fingerprint |-> fingerprint, call |-> inflight[id]]
<1>1. PICK u \in Owners : request[u].identity = id
  BY DEF Join, Inductive, Claims, OneExecutionPerKey
<1>2. inflight[id] = request[u].call
  BY <1>1 DEF Inductive, Claims, OneExecutionPerKey
<1>3. r.call \in Calls /\ Identified(r.call, r)
  BY <1>1, <1>2 DEF Inductive, RequestsNameCalls, Identified, Owners, Join
<1>4. r \in Request /\ r.pc \notin Owning
  BY <1>3 DEF Request, Owning
<1>5. Free(t) /\ Prunes /\ request' = [request EXCEPT ![t] = r]
  BY PruneIsPruning DEF Join, Inductive
<1> QED BY <1>3, <1>4, <1>5, AnswerKeepsInductive

LEMMA UnkeyedKeepsInductive ==
  ASSUME Inductive, NEW t \in Threads, Unkeyed(t) PROVE Inductive'
<1>1. NoRequest \in Request /\ NoRequest.pc \notin Owning \cup {"waiting", "answered"}
  BY DEF NoRequest, Request, Owning
<1> QED BY <1>1, AnswerKeepsInductive DEF Unkeyed

LEMMA WakeKeepsInductive ==
  ASSUME Inductive, NEW t \in Threads, Wake(t) PROVE Inductive'
<1> DEFINE r == [request[t] EXCEPT !.pc = "answered"]
<1>1. request[t] \in Request
  BY DEF Inductive, TypeOK, Request
<1>2. r \in Request /\ r.pc = "answered" /\ r.call = request[t].call
        /\ r.identity = request[t].identity /\ r.fingerprint = request[t].fingerprint
  BY <1>1 DEF Request
<1>3. r.call \in Calls /\ Identified(r.call, r)
  BY <1>2 DEF Wake, Inductive, RequestsNameCalls, Identified
<1>4. request' = [request EXCEPT ![t] = r]
  BY DEF Wake
<1>5. request[t].pc = "waiting" /\ UNCHANGED <<call, record, older, expired, inflight, dropped>>
  BY DEF Wake
<1>6. r.pc \notin Owning
  BY <1>2 DEF Owning
<1> QED BY <1>2, <1>3, <1>4, <1>5, <1>6, AnswerKeepsInductive

\* Time passes for a record.
LEMMA ExpireKeepsInductive ==
  ASSUME Inductive, NEW id \in Identities, Expire(id) PROVE Inductive'
<1> USE DEF Expire
<1>1. TypeOK'
  BY DEF Inductive, TypeOK, Calls, Retained
<1>2. RequestsNameCalls' /\ PendingIsOwned' /\ SuccessIsExecutedOnce'
  BY DEF Inductive, RequestsNameCalls, PendingIsOwned, SuccessIsExecutedOnce, Calls, Identified
<1>3. Claims'
  BY DEF Inductive, Claims, OneExecutionPerKey, OwnersAreLatest, Owners, Calls
<1>4. Records'
  BY DEF Inductive, Records, OwnersProgress, RecordsAreValues, ValuesAreRecorded, Calls
<1> QED BY <1>1, <1>2, <1>3, <1>4 DEF Inductive

-----------------------------------------------------------------------------
(* The life of an owner *)

\* An owner's request, its call and its key.
LEMMA OwnerFacts ==
  ASSUME TypeOK, RequestsNameCalls, OneExecutionPerKey, NEW t \in Owners
  PROVE  /\ t \in Threads /\ request[t] \in Request /\ request[t].call \in Calls
         /\ request[t].identity \in Identities
         /\ call[request[t].call].identity = request[t].identity
         /\ call[request[t].call].fingerprint = request[t].fingerprint
         /\ inflight[request[t].identity] = request[t].call
         /\ \A u \in Owners : request[u].identity = request[t].identity => u = t
<1>1. t \in Threads /\ request[t] \in Request
  BY DEF TypeOK, Request, Owners
<1>2. request[t].call \in Calls /\ Identified(request[t].call, request[t])
  BY DEF RequestsNameCalls, Owners
<1>3. request[t].identity \in Identities
  BY <1>2, CallsAreNumbers DEF Identified, Execution
<1> QED BY <1>1, <1>2, <1>3 DEF OneExecutionPerKey, Identified

LEMMA OwnKeepsInductive ==
  ASSUME Inductive, NEW t \in Threads, NEW id \in Identities, NEW fingerprint \in Fingerprints,
         Own(t, id, fingerprint)
  PROVE  Inductive'
<1> USE DEF Inductive, Claims, Records
<1> DEFINE new == Len(call) + 1
           made == [identity |-> id, fingerprint |-> fingerprint, state |-> "pending"]
           r == [pc |-> "running", identity |-> id, fingerprint |-> fingerprint, call |-> new]
<1>1. call \in Seq(Execution) /\ made \in Execution
  BY DEF TypeOK, Execution, States
<1>2. Len(call) \in Nat /\ Calls = 1..Len(call) /\ NoCall \notin Calls
  BY CallsAreNumbers
<1>3. call' = Append(call, made)
  BY DEF Own
<1>4. call' \in Seq(Execution) /\ Calls' = 1..new /\ call'[new] = made /\ \A c \in Calls : call'[c] = call[c]
  BY <1>1, <1>2, <1>3 DEF Calls
<1> HIDE DEF made
<1>5. made.identity = id /\ made.fingerprint = fingerprint /\ made.state = "pending"
  BY DEF made
<1>6. new \notin Calls /\ new \in Calls' /\ Calls' = Calls \cup {new} /\ new # NoCall /\ \A c \in Calls : c < new
  BY <1>2, <1>4 DEF NoCall
<1>7. request \in [Threads -> Request]
  BY DEF TypeOK, Request
<1>8. request'[t] = r /\ \A u \in Threads : u # t => request'[u] = request[u]
  BY <1>7 DEF Own
<1>9. t \notin Owners /\ Owners' = Owners \cup {t} /\ \A u \in Owners : request'[u] = request[u]
  BY <1>8 DEF Owners, Owning, Own, Free
<1>10. inflight[id] = NoCall /\ Pruned[id] = NoCall
  BY PrunedRecords DEF Own, Previous
<1>11. \A u \in Owners : request[u].identity # id
  BY <1>6, <1>2, <1>10, OwnerFacts
<1>12. inflight' = [inflight EXCEPT ![id] = new] /\ inflight \in [Identities -> Calls \cup {NoCall}]
  BY DEF Own, TypeOK
<1>13. /\ record' = Pruned /\ dropped' = dropped \cup {record[i] : i \in expired}
       /\ expired' = {} /\ older' \subseteq Identities \X Identities
  BY DEF Own, Prune, TypeOK, OrderWithout
<1>14. \A i \in Identities : record'[i] = record[i] \/ (record'[i] = NoCall /\ record[i] \in dropped')
  BY <1>13, PrunedRecords
<1>15. dropped \subseteq dropped' /\ dropped' \subseteq Calls
  BY <1>13, PrunedRecords DEF TypeOK
<1>16. TypeOK'
  <2>1. record' \in [Identities -> Calls' \cup {NoCall}] /\ dropped' \subseteq Calls'
    BY <1>6, <1>13, <1>15, PrunedRecords
  <2>2. inflight' \in [Identities -> Calls' \cup {NoCall}]
    BY <1>6, <1>12
  <2>3. request' \in [Threads -> Request']
    <3>1. Request \subseteq Request' /\ r \in Request'
      BY <1>6 DEF Request, Owning
    <3>2. \A u \in Threads : request'[u] \in Request'
      BY <3>1, <1>7, <1>8
    <3>3. request' = [u \in Threads |-> request'[u]]
      BY <1>7 DEF Own
    <3> QED BY <3>2, <3>3
  <2>4. expired' \subseteq Retained(record)' /\ older' \subseteq Identities \X Identities
    BY <1>13
  <2> QED BY <1>4, <2>1, <2>2, <2>3, <2>4 DEF TypeOK, Request, Execution
<1>17. RequestsNameCalls'
  <2>1. /\ request'[t].call \in Calls'
        /\ call'[request'[t].call].identity = request'[t].identity
        /\ call'[request'[t].call].fingerprint = request'[t].fingerprint
    BY <1>4, <1>5, <1>6, <1>8 DEF Identified
  <2>2. ASSUME NEW u \in Threads, u # t, request'[u].pc \in Owning \cup {"waiting", "answered"}
        PROVE  /\ request'[u].call \in Calls'
               /\ call'[request'[u].call].identity = request'[u].identity
               /\ call'[request'[u].call].fingerprint = request'[u].fingerprint
    BY <2>2, <1>4, <1>6, <1>8 DEF RequestsNameCalls, Identified
  <2> QED BY <2>1, <2>2 DEF RequestsNameCalls, Identified
<1>18. OneExecutionPerKey'
  <2>1. \A u \in Owners' : inflight'[request'[u].identity] = request'[u].call
    BY <1>8, <1>9, <1>11, <1>12, OwnerFacts
  <2>2. \A u, v \in Owners' : request'[u].identity = request'[v].identity => u = v
    BY <1>8, <1>9, <1>11 DEF OneExecutionPerKey
  <2>3. \A i \in Identities : inflight'[i] # NoCall => \E u \in Owners' : request'[u].identity = i
    BY <1>8, <1>9, <1>12 DEF OneExecutionPerKey
  <2> QED BY <2>1, <2>2, <2>3 DEF OneExecutionPerKey
<1>19. OwnersAreLatest'
  <2>1. ASSUME NEW d \in Calls' PROVE d <= request'[t].call
    BY <1>2, <1>4, <1>8
  <2>2. ASSUME NEW u \in Owners, NEW d \in Calls', call'[d].identity = request[u].identity
        PROVE  d <= request[u].call
    BY <2>2, <1>4, <1>5, <1>6, <1>11 DEF OwnersAreLatest
  <2> QED BY <2>1, <2>2, <1>9 DEF OwnersAreLatest
<1>20. \A u \in Owners : call'[request[u].call] = call[request[u].call]
  BY <1>4, OwnerFacts
<1>21. OwnersProgress'
  <2>1. call'[request'[t].call].state = "pending" /\ record'[request'[t].identity] = NoCall /\ request'[t].pc = "running"
    BY <1>4, <1>5, <1>8, <1>10, <1>13
  <2>2. \A u \in Threads : u # t /\ request'[u].pc \in Owning =>
          /\ u \in Owners /\ request'[u] = request[u] /\ request[u].identity \in Identities
          /\ call'[request[u].call] = call[request[u].call]
    BY <1>8, <1>9, <1>20, OwnerFacts DEF Owners
  <2> QED BY <2>1, <2>2, <1>14, <1>15 DEF OwnersProgress, Owning
<1>22. RecordsAreValues'
  <2> SUFFICES ASSUME NEW i \in Identities, record'[i] # NoCall
               PROVE  /\ call'[record'[i]].identity = i
                      /\ \/ call'[record'[i]].state = "value"
                         \/ /\ call'[record'[i]].state = "pending"
                            /\ \E u \in Threads : request'[u].pc = "stored" /\ request'[u].call = record'[i]
    BY DEF RecordsAreValues
  <2>1. record'[i] = record[i] /\ record[i] \in Calls
    BY <1>14, <1>13, PrunedRecords
  <2>2. \A u \in Threads : request[u].pc = "stored" => request'[u] = request[u]
    BY <1>9 DEF Owners, Owning
  <2> QED BY <2>1, <2>2, <1>4 DEF RecordsAreValues
<1>23. ValuesAreRecorded'
  <2> SUFFICES ASSUME NEW c \in Calls', call'[c].state = "value"
               PROVE  record'[call'[c].identity] = c \/ c \in dropped'
    BY DEF ValuesAreRecorded
  <2>1. c \in Calls /\ call'[c] = call[c]
    BY <1>4, <1>5, <1>6
  <2>2. call[c].identity \in Identities
    BY <2>1, CallsAreNumbers DEF Execution
  <2> QED BY <2>1, <2>2, <1>14, <1>15 DEF ValuesAreRecorded
<1>24. PendingIsOwned'
  <2> SUFFICES ASSUME NEW c \in Calls', call'[c].state = "pending"
               PROVE  \E u \in Threads : request'[u].pc \in {"running", "stored"} /\ request'[u].call = c
    BY DEF PendingIsOwned
  <2>1. CASE c = new
    BY <2>1, <1>8
  <2>2. CASE c # new
    <3>1. PICK u \in Threads : request[u].pc \in {"running", "stored"} /\ request[u].call = c
      BY <2>2, <1>4, <1>6 DEF PendingIsOwned
    <3>2. request'[u] = request[u]
      BY <3>1, <1>9 DEF Owners, Owning
    <3> QED BY <3>1, <3>2
  <2> QED BY <2>1, <2>2
<1>25. SuccessIsExecutedOnce'
  <2> SUFFICES ASSUME NEW c \in Calls', NEW d \in Calls', c < d,
                      call'[c].identity = call'[d].identity, call'[c].state = "value"
               PROVE  c \in dropped'
    BY DEF SuccessIsExecutedOnce
  <2>1. c \in Calls /\ call'[c] = call[c]
    BY <1>4, <1>5, <1>6
  <2>2. CASE d = new
    <3>1. call[c].identity = id
      BY <2>1, <2>2, <1>4, <1>5
    <3>2. record[id] = c \/ c \in dropped
      BY <2>1, <3>1 DEF ValuesAreRecorded
    <3> QED BY <3>2, <1>10, <1>13, <1>14, <1>15, <1>2, <2>1
  <2>3. CASE d # new
    BY <2>1, <2>3, <1>4, <1>6, <1>15 DEF SuccessIsExecutedOnce
  <2> QED BY <2>2, <2>3
<1> QED BY <1>16, <1>17, <1>18, <1>19, <1>21, <1>22, <1>23, <1>24, <1>25

\* The request of an owner after its step: the same key, body and call.
LEMMA OwnerMoves ==
  ASSUME TypeOK, NEW t \in Owners, NEW pc, request' = [request EXCEPT ![t].pc = pc],
         pc \in {"stored", "settled", "answered"}
  PROVE  /\ request'[t].pc = pc /\ request'[t].identity = request[t].identity
         /\ request'[t].fingerprint = request[t].fingerprint /\ request'[t].call = request[t].call
         /\ \A u \in Threads : u # t => request'[u] = request[u]
         /\ request' \in [Threads -> Request]
<1>1. request \in [Threads -> Request] /\ t \in Threads
  BY DEF TypeOK, Request, Owners
<1>2. [request[t] EXCEPT !.pc = pc] \in Request
  BY <1>1 DEF Request, Owning
<1>3. request' = [request EXCEPT ![t] = [request[t] EXCEPT !.pc = pc]]
  OBVIOUS
<1> QED BY <1>1, <1>2, <1>3 DEF Request

LEMMA StoreKeepsInductive ==
  ASSUME Inductive, NEW t \in Threads, Store(t) PROVE Inductive'
<1> USE DEF Inductive, Claims, Records
<1> DEFINE id == request[t].identity
           c == request[t].call
           added == [Pruned EXCEPT ![id] = c]
           order == OrderWithout(older, expired) \cup ((Retained(Pruned) \ {id}) \X {id})
           gone == Evicted(added, order)
<1>1. t \in Owners /\ request[t].pc = "running"
  BY DEF Store, Owners, Owning
<1>2. id \in Identities /\ c \in Calls /\ call[c].identity = id /\ c # NoCall
  BY <1>1, OwnerFacts, CallsAreNumbers
<1>3. call' = call /\ inflight' = inflight /\ Calls' = Calls
  BY DEF Store, Calls
<1>4. /\ request'[t].pc = "stored" /\ request'[t].identity = id
      /\ request'[t].fingerprint = request[t].fingerprint /\ request'[t].call = c
      /\ \A u \in Threads : u # t => request'[u] = request[u]
      /\ request' \in [Threads -> Request]
  <2>1. request' = [request EXCEPT ![t].pc = "stored"]
    BY DEF Store
  <2> QED BY <1>1, <2>1, OwnerMoves
<1>5. Owners' = Owners /\ \A u \in Owners : request'[u].identity = request[u].identity /\ request'[u].call = request[u].call
  BY <1>1, <1>4 DEF Owners, Owning
<1>6. /\ record' = [i \in Identities |-> IF i \in gone THEN NoCall ELSE added[i]]
      /\ dropped' = dropped \cup {record[i] : i \in expired} \cup {added[i] : i \in gone}
      /\ expired' = {} /\ older' = OrderWithout(order, gone)
  BY DEF Store
<1>7. /\ added \in [Identities -> Calls \cup {NoCall}] /\ added[id] = c
      /\ \A i \in Identities : i # id => added[i] = Pruned[i]
  BY <1>2, PrunedRecords
<1>8. gone \subseteq Identities /\ \A i \in gone : added[i] # NoCall
  BY DEF Evicted, Retained
<1> HIDE DEF id, c, added, gone, order
<1>9. \A i \in Identities : i # id => record'[i] = record[i] \/ (record'[i] = NoCall /\ record[i] \in dropped')
  BY <1>6, <1>7, <1>8, PrunedRecords
<1>10. record'[id] = c \/ (record'[id] = NoCall /\ c \in dropped')
  BY <1>2, <1>6, <1>7, <1>8
<1>11. dropped \subseteq dropped' /\ dropped' \subseteq Calls
  BY <1>6, <1>7, <1>8, PrunedRecords DEF TypeOK
<1>12. record[id] = NoCall
  BY <1>1 DEF OwnersProgress, id
<1>13. TypeOK'
  <2>1. record' \in [Identities -> Calls \cup {NoCall}]
    BY <1>6, <1>7
  <2>2. order \subseteq Identities \X Identities
    BY <1>2 DEF order, OrderWithout, TypeOK, Retained
  <2>3. older' \subseteq Identities \X Identities /\ expired' \subseteq Retained(record)'
    BY <1>6, <2>2 DEF OrderWithout
  <2> QED BY <1>3, <1>4, <1>11, <2>1, <2>3 DEF TypeOK, Request
<1>14. RequestsNameCalls'
  BY <1>1, <1>3, <1>4 DEF RequestsNameCalls, Identified, Owning, id, c
<1>15. OneExecutionPerKey' /\ OwnersAreLatest'
  BY <1>3, <1>5 DEF OneExecutionPerKey, OwnersAreLatest
<1>16. \A u \in Owners : u # t => request[u].identity \in Identities \ {id}
  BY <1>1, OwnerFacts DEF id
<1>17. OwnersProgress'
  <2>1. call[request'[t].call].state = "pending" /\ (record'[request'[t].identity] = request'[t].call \/ request'[t].call \in dropped')
    BY <1>1, <1>4, <1>10 DEF OwnersProgress, c
  <2>2. \A u \in Threads : u # t /\ request'[u].pc \in Owning =>
          u \in Owners /\ request'[u] = request[u] /\ request[u].identity \in Identities \ {id}
    BY <1>4, <1>5, <1>16 DEF Owners
  <2> QED BY <2>1, <2>2, <1>3, <1>4, <1>9, <1>11 DEF OwnersProgress, Owning
<1>18. RecordsAreValues'
  <2> SUFFICES ASSUME NEW i \in Identities, record'[i] # NoCall
               PROVE  /\ call[record'[i]].identity = i
                      /\ \/ call[record'[i]].state = "value"
                         \/ /\ call[record'[i]].state = "pending"
                            /\ \E u \in Threads : request'[u].pc = "stored" /\ request'[u].call = record'[i]
    BY <1>3 DEF RecordsAreValues
  <2>1. CASE i = id
    <3>1. call[c].state = "pending"
      BY <1>1 DEF OwnersProgress, c
    <3> QED BY <2>1, <3>1, <1>2, <1>4, <1>10
  <2>2. CASE i # id
    <3>1. record'[i] = record[i]
      BY <2>2, <1>9
    <3>2. \A u \in Threads : request[u].pc = "stored" => request'[u] = request[u]
      BY <1>1, <1>4
    <3> QED BY <3>1, <3>2 DEF RecordsAreValues
  <2> QED BY <2>1, <2>2
<1>19. ValuesAreRecorded'
  <2> SUFFICES ASSUME NEW d \in Calls, call[d].state = "value"
               PROVE  record'[call[d].identity] = d \/ d \in dropped'
    BY <1>3 DEF ValuesAreRecorded
  <2>1. call[d].identity \in Identities /\ d # NoCall
    BY CallsAreNumbers DEF Execution
  <2>2. record[call[d].identity] = d \/ d \in dropped
    BY DEF ValuesAreRecorded
  <2> QED BY <2>1, <2>2, <1>9, <1>11, <1>12
<1>20. PendingIsOwned'
  <2>1. \A u \in Threads : request[u].pc \in {"running", "stored"} =>
          request'[u].pc \in {"running", "stored"} /\ request'[u].call = request[u].call
    BY <1>4 DEF c
  <2> QED BY <2>1, <1>3 DEF PendingIsOwned
<1>21. SuccessIsExecutedOnce'
  BY <1>3, <1>11 DEF SuccessIsExecutedOnce
<1> QED BY <1>13, <1>14, <1>15, <1>17, <1>18, <1>19, <1>20, <1>21

LEMMA SettleKeepsInductive ==
  ASSUME Inductive, NEW t \in Threads, NEW state \in States \ {"pending"}, Settle(t, state) PROVE Inductive'
<1> USE DEF Inductive, Claims, Records
<1> DEFINE c == request[t].call
<1>1. t \in Owners /\ request[t].pc \in {"running", "stored"} /\ (request[t].pc = "stored" <=> state = "value")
  BY DEF Settle, Owners, Owning
<1>2. c \in Calls /\ call[c].identity = request[t].identity /\ request[t].identity \in Identities
  BY <1>1, OwnerFacts
<1>3. /\ request'[t].pc = "settled" /\ request'[t].identity = request[t].identity
      /\ request'[t].fingerprint = request[t].fingerprint /\ request'[t].call = c
      /\ \A u \in Threads : u # t => request'[u] = request[u]
      /\ request' \in [Threads -> Request]
  <2>1. request' = [request EXCEPT ![t].pc = "settled"]
    BY DEF Settle
  <2> QED BY <1>1, <2>1, OwnerMoves
<1>4. UNCHANGED <<record, older, expired, inflight, dropped>>
  BY DEF Settle
<1>5. call \in Seq(Execution) /\ Len(call) \in Nat /\ Calls = 1..Len(call)
  BY CallsAreNumbers DEF TypeOK, Execution
<1>6. call' = [call EXCEPT ![c] = [call[c] EXCEPT !.state = state]]
  BY DEF Settle
<1>7. call[c] \in Execution /\ [call[c] EXCEPT !.state = state] \in Execution
  BY <1>2, CallsAreNumbers DEF Execution
<1>8. /\ call' \in Seq(Execution) /\ Calls' = Calls
      /\ \A d \in Calls : d # c => call'[d] = call[d]
  BY <1>2, <1>5, <1>6, <1>7 DEF Calls
<1>9. /\ call'[c].state = state /\ state # "pending"
      /\ \A d \in Calls : call'[d].identity = call[d].identity /\ call'[d].fingerprint = call[d].fingerprint
  BY <1>2, <1>5, <1>6, <1>7, <1>8 DEF Execution, Calls
<1> HIDE DEF c
<1>10. Owners' = Owners /\ \A u \in Owners : request'[u].identity = request[u].identity /\ request'[u].call = request[u].call
  BY <1>1, <1>3 DEF Owners, Owning, c
<1>11. \A u \in Owners : request[u].call = c => u = t
  BY <1>1, OwnerFacts DEF c
<1>12. TypeOK'
  <2>1. expired' \subseteq Retained(record)' /\ dropped' \subseteq Calls'
    BY <1>4, <1>8 DEF TypeOK, Retained
  <2> QED BY <1>3, <1>4, <1>8, <2>1 DEF TypeOK, Request, Execution
<1>13. RequestsNameCalls'
  BY <1>1, <1>3, <1>8, <1>9 DEF RequestsNameCalls, Identified, Owning, c
<1>14. OneExecutionPerKey' /\ OwnersAreLatest'
  BY <1>4, <1>8, <1>9, <1>10 DEF OneExecutionPerKey, OwnersAreLatest
<1>15. OwnersProgress'
  <2>1. \A u \in Threads : u # t /\ request'[u].pc \in Owning =>
          u \in Owners /\ request'[u] = request[u] /\ call'[request[u].call] = call[request[u].call]
    BY <1>3, <1>8, <1>10, <1>11, OwnerFacts DEF Owners
  <2> QED BY <2>1, <1>3, <1>4, <1>9 DEF OwnersProgress, Owning
<1>16. RecordsAreValues'
  <2> SUFFICES ASSUME NEW i \in Identities, record[i] # NoCall
               PROVE  /\ call'[record[i]].identity = i
                      /\ \/ call'[record[i]].state = "value"
                         \/ /\ call'[record[i]].state = "pending"
                            /\ \E u \in Threads : request'[u].pc = "stored" /\ request'[u].call = record[i]
    BY <1>4 DEF RecordsAreValues
  <2>1. record[i] \in Calls
    BY DEF TypeOK
  <2>2. CASE record[i] = c
    <3>1. call[c].state = "pending"
      BY <1>1 DEF OwnersProgress, c
    <3>2. PICK u \in Threads : request[u].pc = "stored" /\ request[u].call = c
      BY <2>2, <3>1 DEF RecordsAreValues
    <3>3. u = t
      BY <3>2, <1>11 DEF Owners, Owning
    <3> QED BY <2>1, <2>2, <3>2, <3>3, <1>1, <1>9 DEF RecordsAreValues
  <2>3. CASE record[i] # c
    <3>1. call'[record[i]] = call[record[i]]
      BY <2>1, <2>3, <1>8
    <3>2. \A u \in Threads : request[u].call = record[i] => request'[u] = request[u]
      BY <2>3, <1>3 DEF c
    <3> QED BY <3>1, <3>2 DEF RecordsAreValues
  <2> QED BY <2>2, <2>3
<1>17. ValuesAreRecorded'
  <2> SUFFICES ASSUME NEW d \in Calls, call'[d].state = "value" PROVE record[call[d].identity] = d \/ d \in dropped
    BY <1>4, <1>8, <1>9 DEF ValuesAreRecorded
  <2>1. CASE d = c
    BY <2>1, <1>1, <1>2, <1>9 DEF OwnersProgress, c
  <2>2. CASE d # c
    BY <2>2, <1>8 DEF ValuesAreRecorded
  <2> QED BY <2>1, <2>2
<1>18. PendingIsOwned'
  <2>1. \A u \in Threads : request[u].call # c => request'[u] = request[u]
    BY <1>3 DEF c
  <2> QED BY <2>1, <1>8, <1>9 DEF PendingIsOwned
<1>19. SuccessIsExecutedOnce'
  <2> SUFFICES ASSUME NEW a \in Calls, NEW d \in Calls, a < d, call[a].identity = call[d].identity, call'[a].state = "value"
               PROVE  a \in dropped
    BY <1>4, <1>8, <1>9 DEF SuccessIsExecutedOnce
  <2>1. a # c
    <3>1. ASSUME a = c PROVE FALSE
      <4>1. d <= c
        BY <3>1, <1>1, <1>2 DEF OwnersAreLatest, c
      <4> QED BY <3>1, <4>1, <1>5
    <3> QED BY <3>1
  <2> QED BY <2>1, <1>8 DEF SuccessIsExecutedOnce
<1> QED BY <1>12, <1>13, <1>14, <1>15, <1>16, <1>17, <1>18, <1>19

LEMMA ReleaseKeepsInductive ==
  ASSUME Inductive, NEW t \in Threads, Release(t) PROVE Inductive'
<1> USE DEF Inductive, Claims, Records
<1> DEFINE id == request[t].identity
<1>1. t \in Owners /\ request[t].pc = "settled"
  BY DEF Release, Owners, Owning
<1>2. /\ request'[t].pc = "answered" /\ request'[t].identity = id
      /\ request'[t].fingerprint = request[t].fingerprint /\ request'[t].call = request[t].call
      /\ \A u \in Threads : u # t => request'[u] = request[u]
      /\ request' \in [Threads -> Request]
  <2>1. request' = [request EXCEPT ![t].pc = "answered"]
    BY DEF Release
  <2> QED BY <1>1, <2>1, OwnerMoves
<1>3. UNCHANGED <<call, record, older, expired, dropped>> /\ Calls' = Calls
  BY DEF Release, Calls
<1>4. inflight' = [inflight EXCEPT ![id] = NoCall] /\ inflight \in [Identities -> Calls \cup {NoCall}]
  BY DEF Release, TypeOK
<1>5. Owners' = Owners \ {t} /\ \A u \in Owners' : request'[u] = request[u] /\ request[u].identity # id
  BY <1>1, <1>2, OwnerFacts DEF Owners, Owning
<1> HIDE DEF id
<1>6. TypeOK'
  BY <1>2, <1>3, <1>4 DEF TypeOK, Request, Retained
<1>7. RequestsNameCalls'
  BY <1>1, <1>2, <1>3 DEF RequestsNameCalls, Identified, Owning, id
<1>8. OneExecutionPerKey'
  <2>1. \A u \in Owners' : inflight'[request'[u].identity] = request'[u].call
    BY <1>4, <1>5, OwnerFacts
  <2>2. \A i \in Identities : inflight'[i] # NoCall => \E u \in Owners' : request'[u].identity = i
    BY <1>4, <1>5 DEF OneExecutionPerKey, id
  <2> QED BY <2>1, <2>2, <1>5 DEF OneExecutionPerKey
<1>9. OwnersAreLatest'
  BY <1>3, <1>5 DEF OwnersAreLatest
<1>10. OwnersProgress'
  BY <1>2, <1>3 DEF OwnersProgress
<1>11. RecordsAreValues' /\ ValuesAreRecorded' /\ PendingIsOwned' /\ SuccessIsExecutedOnce'
  BY <1>1, <1>2, <1>3 DEF RecordsAreValues, ValuesAreRecorded, PendingIsOwned, SuccessIsExecutedOnce
<1> QED BY <1>6, <1>7, <1>8, <1>9, <1>10, <1>11

-----------------------------------------------------------------------------
(* Theorems *)

LEMMA InitEstablishesInductive == Init => Inductive
<1> SUFFICES ASSUME Init PROVE Inductive
  OBVIOUS
<1>1. call = <<>> /\ Calls = {} /\ Owners = {}
  BY DEF Init, Calls, Owners, Owning, NoRequest
<1>2. TypeOK
  <2>1. call \in Seq(Execution)
    BY <1>1
  <2>2. NoRequest \in Request
    BY DEF NoRequest, Request, Owning
  <2>3. request \in [Threads -> Request]
    BY <2>2 DEF Init
  <2>4. record \in [Identities -> Calls \cup {NoCall}] /\ inflight \in [Identities -> Calls \cup {NoCall}]
    BY DEF Init
  <2> QED BY <2>1, <2>3, <2>4 DEF Init, TypeOK, Retained, Request, Execution
<1>3. RequestsNameCalls /\ OwnersProgress
  BY DEF Init, NoRequest, RequestsNameCalls, OwnersProgress, Owning
<1>4. Claims
  BY <1>1 DEF Claims, OneExecutionPerKey, OwnersAreLatest, Init
<1>5. RecordsAreValues /\ ValuesAreRecorded /\ PendingIsOwned /\ SuccessIsExecutedOnce
  BY <1>1 DEF Init, RecordsAreValues, ValuesAreRecorded, PendingIsOwned, SuccessIsExecutedOnce
<1> QED BY <1>2, <1>3, <1>4, <1>5 DEF Inductive, Records

LEMMA NextKeepsInductive == Inductive /\ [Next]_vars => Inductive'
<1> SUFFICES ASSUME Inductive, [Next]_vars PROVE Inductive'
  OBVIOUS
<1>1. ASSUME NEW t \in Threads, NEW id \in Identities, NEW fingerprint \in Fingerprints,
             Refuse(t, id, fingerprint) \/ Replay(t, id, fingerprint)
               \/ Join(t, id, fingerprint) \/ Own(t, id, fingerprint)
      PROVE  Inductive'
  BY <1>1, RefuseKeepsInductive, ReplayKeepsInductive, JoinKeepsInductive, OwnKeepsInductive
<1>2. ASSUME NEW t \in Threads, Serve(t) PROVE Inductive'
  BY <1>2, StoreKeepsInductive, SettleKeepsInductive, ReleaseKeepsInductive, WakeKeepsInductive DEF Serve
<1>3. ASSUME NEW t \in Threads, Unkeyed(t) PROVE Inductive'
  BY <1>3, UnkeyedKeepsInductive
<1>4. ASSUME NEW id \in Identities, Expire(id) PROVE Inductive'
  BY <1>4, ExpireKeepsInductive
<1>5. CASE UNCHANGED vars
  <2>1. TypeOK' /\ RequestsNameCalls'
    BY <1>5 DEF vars, Inductive, TypeOK, Calls, Retained, RequestsNameCalls, Identified
  <2>2. Claims' /\ SuccessIsExecutedOnce' /\ PendingIsOwned'
    BY <1>5 DEF vars, Inductive, Claims, OneExecutionPerKey, OwnersAreLatest, Owners, Calls,
                SuccessIsExecutedOnce, PendingIsOwned
  <2>3. Records'
    BY <1>5 DEF vars, Inductive, Records, OwnersProgress, RecordsAreValues, ValuesAreRecorded, Calls
  <2> QED BY <2>1, <2>2, <2>3 DEF Inductive
<1> QED BY <1>1, <1>2, <1>3, <1>4, <1>5 DEF Next

LEMMA AlwaysInductive == Spec => []Inductive
BY InitEstablishesInductive, NextKeepsInductive, PTL DEF Spec

\* The registry of http_semantics.py is well typed: calls, records, claims and
\* requests name each other.
THEOREM TypeCorrect == Spec => []TypeOK
<1>1. Inductive => TypeOK
  BY DEF Inductive
<1> QED BY <1>1, AlwaysInductive, PTL

\* IdempotencyRegistry.execute never runs the work of one key twice at once, and
\* a claim lives exactly as long as its owner.
THEOREM KeysExecuteOnce == Spec => []OneExecutionPerKey
<1>1. Inductive => OneExecutionPerKey
  BY DEF Inductive, Claims
<1> QED BY <1>1, AlwaysInductive, PTL

\* Whoever gets an answer gets that of its own key and body.
THEOREM AnswersMatch == Spec => []AnswerMatchesRequest
<1>1. Inductive => AnswerMatchesRequest
  BY DEF Inductive, RequestsNameCalls, Identified, AnswerMatchesRequest
<1> QED BY <1>1, AlwaysInductive, PTL

\* A value is computed again only after its record was dropped: the record is
\* stored before the claim is released.
THEOREM SuccessesAreReplayed == Spec => []SuccessIsExecutedOnce
<1>1. Inductive => SuccessIsExecutedOnce
  BY DEF Inductive
<1> QED BY <1>1, AlwaysInductive, PTL

\* Failures and ready-made responses are never retained.
THEOREM FailuresAreForgotten == Spec => []FailureIsNotRetained
<1>1. Inductive => FailureIsNotRetained
  BY DEF Inductive, Records, RecordsAreValues, FailureIsNotRetained
<1> QED BY <1>1, AlwaysInductive, PTL

\* A request that waits for a Future of execute waits for one that is settled or
\* that an owner still has to settle: the safety half of RequestsEnd.
WaitersHaveAnOwner ==
  \A t \in Threads : request[t].pc = "waiting" =>
    \/ call[request[t].call].state \in {"value", "response", "error"}
    \/ \E u \in Owners : request[u].call = request[t].call

THEOREM WaitersAreServed == Spec => []WaitersHaveAnOwner
<1>1. Inductive => WaitersHaveAnOwner
  <2> SUFFICES ASSUME Inductive, NEW t \in Threads, request[t].pc = "waiting"
               PROVE  \/ call[request[t].call].state \in {"value", "response", "error"}
                      \/ \E u \in Owners : request[u].call = request[t].call
    BY DEF WaitersHaveAnOwner
  <2>1. request[t].call \in Calls
    BY DEF Inductive, RequestsNameCalls
  <2>2. call[request[t].call] \in Execution
    BY <2>1, CallsAreNumbers DEF Inductive
  <2>3. CASE call[request[t].call].state = "pending"
    BY <2>1, <2>3 DEF Inductive, PendingIsOwned, Owners, Owning
  <2> QED BY <2>2, <2>3 DEF Execution, States
<1> QED BY <1>1, AlwaysInductive, PTL
=============================================================================
