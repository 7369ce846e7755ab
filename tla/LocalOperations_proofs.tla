------------------------ MODULE LocalOperations_proofs ------------------------
(***************************************************************************)
(* Theorems about LocalOperations for any identities, calls, streams,      *)
(* cache limit and window.  The inductive invariant is Inductive: the      *)
(* claim and journal invariants hold only together, because a receipt is   *)
(* protected by the claim of its worker, and the claim is only as good as  *)
(* the cached receipt the worker updates.  On it stand Journals (the shape *)
(* of the records and how they extend), Deliveries (what streams have sent *)
(* is still in the journal) and Truthful (nothing is told completed before *)
(* its work returned).                                                     *)
(***************************************************************************)
EXTENDS LocalOperations, TLAPS

\* The inductive part of the state: which identities a call may name, which
\* entries an identity may have, and the invariants checked by TLC.
CallsNameOperations ==
  \A c \in Calls : call[c].pc # "idle" => call[c].op \in Durable \cup Volatile

SnapshotsAreCore ==
  \A op \in Ops : entry[op] = Snapshot => op \in Core

\* What the cache holds for an identity.
Cacheable == Record \cup {Snapshot, NoEntry}

MemoryTypeOK ==
  /\ journal \in [Durable -> Record \cup {NoJournal}]
  /\ entry \in [Ops -> Cacheable]
  /\ older \subseteq Ops \X Ops
  /\ active \subseteq Ops
  /\ call \in [Calls -> [pc : CallStates, op : Ops \cup {NoOp}, retryable : BOOLEAN]]

ClientTypeOK ==
  /\ committed \subseteq Ops
  /\ stream \in [Streams -> [pc : {"closed", "reading", "sending", "ended"}, op : Ops \cup {NoOp},
                             last : Event \cup {NoEvent}, batch : SUBSET Event, terminal : BOOLEAN]]

Memory ==
  /\ MemoryTypeOK
  /\ CallsNameOperations
  /\ SnapshotsAreCore
  /\ ClaimsMatchCalls
  /\ ActiveIsCached
  /\ CacheAgreesWithJournal
  /\ WorkerOwnsReceipt

StreamsNameOperations ==
  \A s \in Streams : stream[s].pc \in {"reading", "sending"} => stream[s].op \in Durable \cup Volatile

Clients == ClientTypeOK /\ StreamsNameOperations

Inductive == Memory /\ Clients

-----------------------------------------------------------------------------
(* The operators on events and on the cache *)

LEMMA LastSequenceType ==
  ASSUME NEW events \in Seq(Event) PROVE LastSequence(events) \in Nat
<1>1. CASE events = <<>>
  BY <1>1 DEF LastSequence
<1>2. CASE events # <<>>
  <2>1. Len(events) \in 1..Len(events)
    BY <1>2
  <2>2. events[Len(events)] \in Event
    BY <2>1
  <2> QED BY <1>2, <2>2 DEF LastSequence, Event
<1> QED BY <1>1, <1>2

LEMMA NextEventsType ==
  ASSUME NEW events \in Seq(Event), NEW receipt \in Receipt
  PROVE  NextEvents(events, receipt) \in Seq(Event)
<1> DEFINE kept == IF Len(events) < Window THEN events ELSE Tail(events)
           new == [sequence |-> LastSequence(events) + 1,
                   status |-> receipt.status, percent |-> receipt.percent]
<1>1. kept \in Seq(Event)
  <2>1. CASE Len(events) < Window
    BY <2>1
  <2>2. CASE ~(Len(events) < Window)
    <3>1. events # <<>>
      BY <2>2, OperationsAssumption
    <3> QED BY <2>2, <3>1
  <2> QED BY <2>1, <2>2
<1>2. new \in Event
  <2>1. LastSequence(events) + 1 \in Nat \ {0}
    BY LastSequenceType
  <2> QED BY <2>1 DEF Receipt, Event
<1> HIDE DEF kept, new
<1>3. Append(kept, new) \in Seq(Event)
  BY <1>1, <1>2
<1> QED BY <1>3 DEF NextEvents, kept, new

LEMMA RecordType ==
  ASSUME NEW receipt \in Receipt, NEW events \in Seq(Event)
  PROVE  [receipt |-> receipt, events |-> NextEvents(events, receipt)] \in Record
BY NextEventsType DEF Record

LEMMA InterruptedType ==
  ASSUME NEW record \in Record
  PROVE  /\ Interrupted(record) \in Record
         /\ Interrupted(record).receipt = [record.receipt EXCEPT !.status = "interrupted"]
<1>1. record.receipt \in Receipt /\ record.events \in Seq(Event)
  BY DEF Record
<1>2. [record.receipt EXCEPT !.status = "interrupted"] \in Receipt
  BY <1>1 DEF Receipt, Statuses
<1> QED BY <1>1, <1>2, RecordType DEF Interrupted

\* Eviction spares the pinned identities.
LEMMA VictimsAreIdle ==
  ASSUME NEW entries, NEW order, NEW pinned
  PROVE  /\ Victims(entries, order, pinned) \subseteq Ops
         /\ Victims(entries, order, pinned) \cap pinned = {}
BY DEF Victims, Cached

\* What storing a value leaves in the cache: the value, nothing new elsewhere,
\* and every pinned identity.
Keeps(before, kept, op, value, pinned) ==
  /\ kept.entry \in [Ops -> Cacheable]
  /\ kept.older \subseteq Ops \X Ops
  /\ \A o \in Ops \ {op} : kept.entry[o] \in {before[o], NoEntry}
  /\ kept.entry[op] \in {value, NoEntry}
  /\ \A o \in (Ops \ {op}) \cap pinned : kept.entry[o] = before[o]
  /\ op \in pinned => kept.entry[op] = value

LEMMA StoredFacts ==
  ASSUME NEW entries \in [Ops -> Cacheable], NEW order \in SUBSET (Ops \X Ops),
         NEW op \in Ops, NEW value \in Cacheable, NEW pinned
  PROVE  Keeps(entries, Stored(entries, order, op, value, pinned), op, value, pinned)
<1> DEFINE added == [entries EXCEPT ![op] = value]
           moved == MovedToEnd(entries, order, op)
           gone == Victims(added, moved, pinned)
<1>1. added \in [Ops -> Cacheable] /\ NoEntry \in Cacheable
  BY DEF Cacheable
<1>2. moved \subseteq Ops \X Ops
  BY DEF MovedToEnd, Cached
<1>3. gone \subseteq Ops /\ gone \cap pinned = {}
  BY VictimsAreIdle
<1> HIDE DEF gone, moved
<1>4. Stored(entries, order, op, value, pinned)
        = [entry |-> Without(added, gone), older |-> OrderWithout(moved, gone)]
  BY DEF Stored, gone, moved
<1>5. OrderWithout(moved, gone) \subseteq Ops \X Ops
  BY <1>2 DEF OrderWithout
<1>6. Without(added, gone) \in [Ops -> Cacheable]
  BY <1>1 DEF Without
<1>7. \A o \in Ops : Without(added, gone)[o] = IF o \in gone THEN NoEntry ELSE added[o]
  BY DEF Without
<1>8. /\ added[op] = value
      /\ \A o \in Ops \ {op} : added[o] = entries[o]
  OBVIOUS
<1> HIDE DEF added
<1> DEFINE kept == Stored(entries, order, op, value, pinned)
<1>9. kept.entry = Without(added, gone) /\ kept.older = OrderWithout(moved, gone)
  BY <1>4
<1> HIDE DEF kept
<1>10. Keeps(entries, kept, op, value, pinned)
  BY <1>3, <1>5, <1>6, <1>7, <1>8, <1>9 DEF Keeps
<1> QED BY <1>10 DEF kept

-----------------------------------------------------------------------------
(* What a load and a publication do to the journal and the cache *)

LEMMA RecoveredType ==
  ASSUME Memory, NEW op \in Durable, journal[op] # NoJournal
  PROVE  /\ Recovered(op) \in Record
         /\ op \in active => Recovered(op) = journal[op]
         /\ Recovered(op).receipt.request = journal[op].receipt.request
         /\ Recovered(op).receipt.options = journal[op].receipt.options
         /\ Recovered(op).receipt \in Receipt
<1>1. journal[op] \in Record
  BY DEF Memory, MemoryTypeOK
<1>2. journal[op].receipt \in Receipt
  BY <1>1 DEF Record
<1>3. Interrupted(journal[op]) \in Record
      /\ Interrupted(journal[op]).receipt = [journal[op].receipt EXCEPT !.status = "interrupted"]
  BY <1>1, InterruptedType
<1>4. Recovered(op) \in Record
  BY <1>1, <1>3 DEF Recovered
<1>5. Recovered(op).receipt \in Receipt
  BY <1>4 DEF Record
<1>6. /\ [journal[op].receipt EXCEPT !.status = "interrupted"].request = journal[op].receipt.request
      /\ [journal[op].receipt EXCEPT !.status = "interrupted"].options = journal[op].receipt.options
  BY <1>2 DEF Receipt
<1>7. op \in active => Recovered(op) = journal[op]
  BY DEF Recovered, Orphaned
<1>8. Recovered(op) \in {Interrupted(journal[op]), journal[op]}
  BY DEF Recovered
<1> QED BY <1>3, <1>4, <1>5, <1>6, <1>7, <1>8

LEMMA LoadFacts ==
  ASSUME Memory, NEW op \in Durable, Load(op)
  PROVE  /\ journal' \in [Durable -> Record \cup {NoJournal}]
         /\ entry' \in [Ops -> Cacheable]
         /\ older' \subseteq Ops \X Ops
         /\ journal'[op] = Recovered(op)
         /\ \A d \in Durable \ {op} : journal'[d] = journal[d]
         /\ \A o \in Ops \ {op} : entry'[o] \in {entry[o], NoEntry}
         /\ entry'[op] \in {journal'[op], NoEntry}
         /\ \A o \in active : entry'[o] = entry[o]
<1>1. op \in Ops /\ journal[op] # NoJournal
  BY DEF Load, Ops
<1>2. Recovered(op) \in Record
  BY <1>1, RecoveredType
<1>3. entry \in [Ops -> Cacheable] /\ older \in SUBSET (Ops \X Ops) /\ Recovered(op) \in Cacheable
  BY <1>2 DEF Memory, MemoryTypeOK, Cacheable
<1> DEFINE kept == Stored(entry, older, op, Recovered(op), active)
<1>4. Keeps(entry, kept, op, Recovered(op), active)
  BY <1>1, <1>3, StoredFacts
<1>5. /\ entry' = kept.entry /\ older' = kept.older
      /\ journal' = [journal EXCEPT ![op] = Recovered(op)]
  BY DEF Load
<1> HIDE DEF kept
<1>6. journal \in [Durable -> Record \cup {NoJournal}]
  BY DEF Memory, MemoryTypeOK
<1>7. op \in active => Recovered(op) = entry[op]
  <2> SUFFICES ASSUME op \in active PROVE Recovered(op) = entry[op]
    OBVIOUS
  <2>1. entry[op] # NoEntry
    BY DEF Memory, ActiveIsCached, Entries, Cached
  <2>2. entry[op] = journal[op]
    BY <2>1 DEF Memory, CacheAgreesWithJournal
  <2> QED BY <1>1, <2>2, RecoveredType
<1>8. active \subseteq Ops
  BY DEF Memory, MemoryTypeOK
<1> QED BY <1>1, <1>2, <1>4, <1>5, <1>6, <1>7, <1>8 DEF Keeps

LEMMA EventsOfType ==
  ASSUME Memory, NEW op \in Durable \cup Volatile
  PROVE  EventsOf(op) \in Seq(Event)
<1>1. op \in Ops /\ op \notin Core
  BY OperationsAssumption DEF Ops
<1>2. entry[op] \in Record \cup {NoEntry}
  BY <1>1 DEF Memory, MemoryTypeOK, SnapshotsAreCore, Cacheable
<1>3. CASE entry[op] = NoEntry
  BY <1>3 DEF EventsOf
<1>4. CASE entry[op] # NoEntry
  BY <1>2, <1>4 DEF EventsOf, Record
<1> QED BY <1>3, <1>4

LEMMA PublishFacts ==
  ASSUME Memory, NEW op \in Durable \cup Volatile, NEW receipt \in Receipt,
         NEW pinned, Publish(op, receipt, pinned)
  PROVE  \E record \in Record :
           /\ record.receipt = receipt
           /\ journal' \in [Durable -> Record \cup {NoJournal}]
           /\ entry' \in [Ops -> Cacheable]
           /\ older' \subseteq Ops \X Ops
           /\ op \in Durable => journal'[op] = record
           /\ \A d \in Durable \ {op} : journal'[d] = journal[d]
           /\ \A o \in Ops \ {op} : entry'[o] \in {entry[o], NoEntry}
           /\ entry'[op] \in {record, NoEntry}
           /\ \A o \in (Ops \ {op}) \cap pinned : entry'[o] = entry[o]
           /\ op \in pinned => entry'[op] = record
<1> DEFINE record == [receipt |-> receipt, events |-> NextEvents(EventsOf(op), receipt)]
           kept == Stored(entry, older, op, record, pinned)
<1>1. op \in Ops
  BY DEF Ops
<1>2. record \in Record
  BY EventsOfType, RecordType
<1>3. entry \in [Ops -> Cacheable] /\ older \in SUBSET (Ops \X Ops) /\ record \in Cacheable
  BY <1>2 DEF Memory, MemoryTypeOK, Cacheable
<1>4. record.receipt = receipt
  OBVIOUS
<1>5. /\ entry' = kept.entry /\ older' = kept.older
      /\ journal' = IF op \in Durable THEN [journal EXCEPT ![op] = record] ELSE journal
  BY DEF Publish
<1> HIDE DEF record
<1>6. Keeps(entry, kept, op, record, pinned)
  BY <1>1, <1>3, StoredFacts
<1> HIDE DEF kept
<1>7. journal \in [Durable -> Record \cup {NoJournal}]
  BY DEF Memory, MemoryTypeOK
<1>8. /\ journal' \in [Durable -> Record \cup {NoJournal}]
      /\ op \in Durable => journal'[op] = record
      /\ \A d \in Durable \ {op} : journal'[d] = journal[d]
  BY <1>2, <1>5, <1>7
<1> QED BY <1>2, <1>4, <1>5, <1>6, <1>8 DEF Keeps

-----------------------------------------------------------------------------
(* Each kind of step preserves Memory *)

\* The identity of a running call is claimed and its record is cached.
LEMMA BusyFacts ==
  ASSUME Memory, NEW c \in Calls, call[c].pc # "idle"
  PROVE  /\ call[c].op \in active
         /\ call[c].op \in Durable \cup Volatile
         /\ entry[call[c].op] \in Record
         /\ call[c].op \in Durable => entry[call[c].op] = journal[call[c].op]
<1>1. call[c].op \in active /\ call[c].op \in Durable \cup Volatile
  BY DEF Memory, ClaimsMatchCalls, Busy, CallsNameOperations
<1>2. entry[call[c].op] # NoEntry /\ entry[call[c].op] # Snapshot
  BY <1>1 DEF Memory, ActiveIsCached, Entries, Cached
<1>3. entry[call[c].op] \in Record
  BY <1>1, <1>2 DEF Memory, MemoryTypeOK, Cacheable, Ops
<1> QED BY <1>1, <1>2, <1>3 DEF Memory, CacheAgreesWithJournal

LEMMA MemoryUnchanged ==
  ASSUME Memory, UNCHANGED <<journal, entry, older, active, call>>
  PROVE  Memory'
BY DEF Memory, MemoryTypeOK, CallsNameOperations, SnapshotsAreCore, ClaimsMatchCalls, Busy,
       ActiveIsCached, Entries, Cached, CacheAgreesWithJournal, WorkerOwnsReceipt

\* A load leaves the claims and the claimed entries alone.
LEMMA LoadPreserves ==
  ASSUME Memory, NEW op \in Durable, Load(op), UNCHANGED <<active, call>>
  PROVE  Memory'
<1>1. /\ journal' \in [Durable -> Record \cup {NoJournal}]
      /\ entry' \in [Ops -> Cacheable]
      /\ older' \subseteq Ops \X Ops
      /\ journal'[op] = Recovered(op)
      /\ \A d \in Durable \ {op} : journal'[d] = journal[d]
      /\ \A o \in Ops \ {op} : entry'[o] \in {entry[o], NoEntry}
      /\ entry'[op] \in {journal'[op], NoEntry}
      /\ \A o \in active : entry'[o] = entry[o]
  BY LoadFacts
<1>2. Recovered(op) \in Record
  BY RecoveredType DEF Load
<1>3. MemoryTypeOK'
  BY <1>1 DEF Memory, MemoryTypeOK
<1>4. CallsNameOperations'
  BY DEF Memory, CallsNameOperations
<1>5. SnapshotsAreCore'
  BY <1>1, <1>2, NothingAssumption DEF Memory, SnapshotsAreCore
<1>6. ClaimsMatchCalls'
  BY DEF Memory, ClaimsMatchCalls, Busy
<1>7. ActiveIsCached'
  BY <1>1 DEF Memory, ActiveIsCached, Entries, Cached
<1>8. CacheAgreesWithJournal'
  BY <1>1 DEF Memory, CacheAgreesWithJournal, Ops
<1>9. WorkerOwnsReceipt'
  <2> SUFFICES ASSUME NEW c \in Calls
               PROVE  /\ call[c].pc \in {"starting", "queued"} => entry'[call[c].op].receipt.status = "pending"
                      /\ call[c].pc \in {"working", "returned", "failing"} => entry'[call[c].op].receipt.status = "running"
    BY DEF WorkerOwnsReceipt
  <2>1. call[c].pc # "idle" => entry'[call[c].op] = entry[call[c].op]
    BY <1>1, BusyFacts
  <2> QED BY <2>1 DEF Memory, WorkerOwnsReceipt
<1> QED BY <1>3, <1>4, <1>5, <1>6, <1>7, <1>8, <1>9 DEF Memory

\* An idle call claims an identity nobody works on, with a pending record.
LEMMA ClaimPreserves ==
  ASSUME Memory, NEW c \in Calls, call[c].pc = "idle",
         NEW op \in Durable \cup Volatile, op \notin active,
         NEW record \in Record, record.receipt.status = "pending",
         journal' \in [Durable -> Record \cup {NoJournal}],
         entry' \in [Ops -> Cacheable],
         older' \subseteq Ops \X Ops,
         op \in Durable => journal'[op] = record,
         \A d \in Durable \ {op} : journal'[d] = journal[d],
         \A o \in Ops \ {op} : entry'[o] \in {entry[o], NoEntry},
         entry'[op] = record,
         \A o \in active : entry'[o] = entry[o],
         active' = active \cup {op},
         call' = [call EXCEPT ![c] = [pc |-> "starting", op |-> op, retryable |-> FALSE]]
  PROVE  Memory'
<1>1. op \in Ops /\ record # Snapshot /\ record # NoEntry
  BY NothingAssumption DEF Ops
<1>2. call \in [Calls -> [pc : CallStates, op : Ops \cup {NoOp}, retryable : BOOLEAN]]
  BY DEF Memory, MemoryTypeOK
<1>3. /\ call'[c] = [pc |-> "starting", op |-> op, retryable |-> FALSE]
      /\ \A d \in Calls \ {c} : call'[d] = call[d]
      /\ call' \in [Calls -> [pc : CallStates, op : Ops \cup {NoOp}, retryable : BOOLEAN]]
  BY <1>1, <1>2 DEF CallStates
<1>4. MemoryTypeOK'
  BY <1>1, <1>3 DEF Memory, MemoryTypeOK
<1>5. CallsNameOperations'
  BY <1>3 DEF Memory, CallsNameOperations
<1>6. SnapshotsAreCore'
  BY <1>1, NothingAssumption DEF Memory, SnapshotsAreCore
<1>7. ClaimsMatchCalls'
  <2>1. Busy' = Busy \cup {c} /\ c \notin Busy
    BY <1>3 DEF Busy
  <2>2. \A d \in Busy : call'[d].op = call[d].op /\ call[d].op \in active
    BY <1>3, <2>1 DEF Memory, ClaimsMatchCalls, Busy
  <2>3. call'[c].op = op
    BY <1>3
  <2>4. active' = {call'[d].op : d \in Busy'}
    BY <2>1, <2>2, <2>3 DEF Memory, ClaimsMatchCalls
  <2>5. \A d, e \in Busy' : call'[d].op = call'[e].op => d = e
    BY <2>1, <2>2, <2>3 DEF Memory, ClaimsMatchCalls
  <2> QED BY <2>4, <2>5 DEF ClaimsMatchCalls
<1>8. ActiveIsCached'
  BY <1>1 DEF Memory, ActiveIsCached, Entries, Cached
<1>9. CacheAgreesWithJournal'
  BY DEF Memory, CacheAgreesWithJournal, Ops
<1>10. WorkerOwnsReceipt'
  <2> SUFFICES ASSUME NEW d \in Calls
               PROVE  /\ call'[d].pc \in {"starting", "queued"} => entry'[call'[d].op].receipt.status = "pending"
                      /\ call'[d].pc \in {"working", "returned", "failing"} => entry'[call'[d].op].receipt.status = "running"
    BY DEF WorkerOwnsReceipt
  <2>1. CASE d = c
    BY <1>3, <2>1
  <2>2. CASE d # c
    <3>1. call'[d] = call[d]
      BY <1>3, <2>2
    <3>2. call[d].pc # "idle" => entry'[call[d].op] = entry[call[d].op]
      BY BusyFacts
    <3> QED BY <3>1, <3>2 DEF Memory, WorkerOwnsReceipt
  <2> QED BY <2>1, <2>2
<1> QED BY <1>4, <1>5, <1>6, <1>7, <1>8, <1>9, <1>10 DEF Memory

\* A running call takes a step that publishes nothing.
LEMMA MovePreserves ==
  ASSUME Memory, NEW c \in Calls, call[c].pc # "idle",
         NEW new \in [pc : CallStates, op : Ops \cup {NoOp}, retryable : BOOLEAN],
         call' = [call EXCEPT ![c] = new], new.op = call[c].op, new.pc # "idle",
         new.pc \in {"starting", "queued"} => call[c].pc \in {"starting", "queued"},
         new.pc \in {"working", "returned", "failing"} => call[c].pc \in {"working", "returned", "failing"},
         UNCHANGED <<journal, entry, older, active>>
  PROVE  Memory'
<1>1. call \in [Calls -> [pc : CallStates, op : Ops \cup {NoOp}, retryable : BOOLEAN]]
  BY DEF Memory, MemoryTypeOK
<1>2. /\ call'[c] = new
      /\ \A d \in Calls \ {c} : call'[d] = call[d]
      /\ call' \in [Calls -> [pc : CallStates, op : Ops \cup {NoOp}, retryable : BOOLEAN]]
  BY <1>1
<1>3. /\ \A d \in Calls : call'[d].op = call[d].op
      /\ \A d \in Calls : call'[d].pc = "idle" <=> call[d].pc = "idle"
      /\ \A d \in Calls : call'[d].pc \in {"starting", "queued"} => call[d].pc \in {"starting", "queued"}
      /\ \A d \in Calls : call'[d].pc \in {"working", "returned", "failing"} => call[d].pc \in {"working", "returned", "failing"}
  BY <1>2
<1>4. Busy' = Busy
  BY <1>3 DEF Busy
<1>5. Busy \subseteq Calls
  BY DEF Busy
<1>6. MemoryTypeOK'
  BY <1>2 DEF Memory, MemoryTypeOK
<1>7. CallsNameOperations'
  BY <1>3 DEF Memory, CallsNameOperations
<1>8. ClaimsMatchCalls'
  BY <1>3, <1>4, <1>5 DEF Memory, ClaimsMatchCalls
<1>9. WorkerOwnsReceipt'
  BY <1>3 DEF Memory, WorkerOwnsReceipt
<1>10. SnapshotsAreCore' /\ ActiveIsCached' /\ CacheAgreesWithJournal'
  BY DEF Memory, SnapshotsAreCore, ActiveIsCached, Entries, Cached, CacheAgreesWithJournal
<1> QED BY <1>6, <1>7, <1>8, <1>9, <1>10 DEF Memory

\* A running call publishes the receipt of its identity, which stays claimed.
LEMMA PublishPreserves ==
  ASSUME Memory, NEW c \in Calls, call[c].pc # "idle",
         NEW new \in [pc : CallStates, op : Ops \cup {NoOp}, retryable : BOOLEAN],
         call' = [call EXCEPT ![c] = new], new.op = call[c].op, new.pc # "idle",
         NEW receipt \in Receipt, Publish(call[c].op, receipt, active),
         new.pc \in {"starting", "queued"} => receipt.status = "pending",
         new.pc \in {"working", "returned", "failing"} => receipt.status = "running",
         UNCHANGED active
  PROVE  Memory'
<1> DEFINE op == call[c].op
<1>1. /\ op \in active
      /\ op \in Durable \cup Volatile
      /\ op \in Ops
  BY BusyFacts DEF Ops
<1> HIDE DEF op
<1>2. PICK record \in Record :
           /\ record.receipt = receipt
           /\ journal' \in [Durable -> Record \cup {NoJournal}]
           /\ entry' \in [Ops -> Cacheable]
           /\ older' \subseteq Ops \X Ops
           /\ op \in Durable => journal'[op] = record
           /\ \A d \in Durable \ {op} : journal'[d] = journal[d]
           /\ \A o \in Ops \ {op} : entry'[o] \in {entry[o], NoEntry}
           /\ entry'[op] \in {record, NoEntry}
           /\ \A o \in (Ops \ {op}) \cap active : entry'[o] = entry[o]
           /\ op \in active => entry'[op] = record
  <2>1. Publish(op, receipt, active)
    BY DEF op
  <2> QED BY <1>1, <2>1, PublishFacts
<1>3. call \in [Calls -> [pc : CallStates, op : Ops \cup {NoOp}, retryable : BOOLEAN]] /\ active \subseteq Ops
  BY DEF Memory, MemoryTypeOK
<1>4. /\ call'[c] = new
      /\ \A d \in Calls \ {c} : call'[d] = call[d]
      /\ call' \in [Calls -> [pc : CallStates, op : Ops \cup {NoOp}, retryable : BOOLEAN]]
  BY <1>3
<1>5. /\ \A d \in Calls : call'[d].op = call[d].op
      /\ \A d \in Calls : call'[d].pc = "idle" <=> call[d].pc = "idle"
  BY <1>4
<1>6. Busy' = Busy /\ Busy \subseteq Calls
  BY <1>5 DEF Busy
<1>7. MemoryTypeOK'
  BY <1>2, <1>4 DEF Memory, MemoryTypeOK
<1>8. CallsNameOperations'
  BY <1>5 DEF Memory, CallsNameOperations
<1>9. SnapshotsAreCore'
  BY <1>2, NothingAssumption DEF Memory, SnapshotsAreCore
<1>10. ClaimsMatchCalls'
  BY <1>5, <1>6 DEF Memory, ClaimsMatchCalls
<1>11. ActiveIsCached'
  BY <1>1, <1>2, NothingAssumption DEF Memory, ActiveIsCached, Entries, Cached
<1>12. CacheAgreesWithJournal'
  BY <1>2 DEF Memory, CacheAgreesWithJournal, Ops
<1>13. WorkerOwnsReceipt'
  <2> SUFFICES ASSUME NEW d \in Calls
               PROVE  /\ call'[d].pc \in {"starting", "queued"} => entry'[call'[d].op].receipt.status = "pending"
                      /\ call'[d].pc \in {"working", "returned", "failing"} => entry'[call'[d].op].receipt.status = "running"
    BY DEF WorkerOwnsReceipt
  <2>1. CASE d = c
    BY <1>1, <1>2, <1>4, <2>1 DEF op
  <2>2. CASE d # c
    <3>1. call'[d] = call[d]
      BY <1>4, <2>2
    <3>2. call[d].pc # "idle" => call[d].op \in active /\ call[d].op # op
      BY <2>2, BusyFacts DEF op, Memory, ClaimsMatchCalls, Busy
    <3>3. call[d].pc # "idle" => entry'[call[d].op] = entry[call[d].op]
      BY <1>2, <1>3, <3>2
    <3> QED BY <3>1, <3>3 DEF Memory, WorkerOwnsReceipt
  <2> QED BY <2>1, <2>2
<1> QED BY <1>7, <1>8, <1>9, <1>10, <1>11, <1>12, <1>13 DEF Memory

\* A running call ends: its identity is unpinned and idle entries may go.
LEMMA ReleasePreserves ==
  ASSUME Memory, NEW c \in Calls, call[c].pc # "idle",
         call' = [call EXCEPT ![c] = Idle],
         active' = active \ {call[c].op},
         UNCHANGED journal,
         entry' \in [Ops -> Cacheable],
         older' \subseteq Ops \X Ops,
         \A o \in Ops : entry'[o] \in {entry[o], NoEntry},
         \A o \in active' : entry'[o] = entry[o]
  PROVE  Memory'
<1>1. call \in [Calls -> [pc : CallStates, op : Ops \cup {NoOp}, retryable : BOOLEAN]] /\ active \subseteq Ops
  BY DEF Memory, MemoryTypeOK
<1>2. /\ call'[c] = Idle /\ call'[c].pc = "idle"
      /\ \A d \in Calls \ {c} : call'[d] = call[d]
      /\ call' \in [Calls -> [pc : CallStates, op : Ops \cup {NoOp}, retryable : BOOLEAN]]
  BY <1>1 DEF Idle, CallStates
<1>3. /\ Busy' = Busy \ {c} /\ Busy \subseteq Calls /\ c \in Busy
      /\ \A d \in Busy' : call'[d] = call[d]
  BY <1>2 DEF Busy
<1>4. \A d \in Busy' : call[d].op \in active' /\ call[d].op \in active
  BY <1>3 DEF Memory, ClaimsMatchCalls
<1>5. MemoryTypeOK'
  BY <1>1, <1>2 DEF Memory, MemoryTypeOK
<1>6. CallsNameOperations'
  BY <1>2 DEF Memory, CallsNameOperations
<1>7. SnapshotsAreCore'
  BY NothingAssumption DEF Memory, SnapshotsAreCore
<1>8. ClaimsMatchCalls'
  <2>1. active' = {call'[d].op : d \in Busy'}
    BY <1>3, <1>4 DEF Memory, ClaimsMatchCalls
  <2>2. \A d, e \in Busy' : call'[d].op = call'[e].op => d = e
    BY <1>3 DEF Memory, ClaimsMatchCalls
  <2> QED BY <2>1, <2>2 DEF ClaimsMatchCalls
<1>9. ActiveIsCached'
  BY <1>1 DEF Memory, ActiveIsCached, Entries, Cached
<1>10. CacheAgreesWithJournal'
  BY DEF Memory, CacheAgreesWithJournal, Ops
<1>11. WorkerOwnsReceipt'
  <2> SUFFICES ASSUME NEW d \in Calls
               PROVE  /\ call'[d].pc \in {"starting", "queued"} => entry'[call'[d].op].receipt.status = "pending"
                      /\ call'[d].pc \in {"working", "returned", "failing"} => entry'[call'[d].op].receipt.status = "running"
    BY DEF WorkerOwnsReceipt
  <2>1. CASE d = c
    BY <1>2, <2>1
  <2>2. CASE d # c
    <3>1. call'[d] = call[d]
      BY <1>2, <2>2
    <3>2. call[d].pc # "idle" => d \in Busy'
      BY <1>3, <2>2 DEF Busy
    <3>3. call[d].pc # "idle" => entry'[call[d].op] = entry[call[d].op]
      BY <1>4, <3>2
    <3> QED BY <3>1, <3>3 DEF Memory, WorkerOwnsReceipt
  <2> QED BY <2>1, <2>2
<1> QED BY <1>5, <1>6, <1>7, <1>8, <1>9, <1>10, <1>11 DEF Memory

\* An identity nobody works on gets a cached value the journal does not hold.
LEMMA CachePreserves ==
  ASSUME Memory, NEW op \in Volatile \cup Core, op \notin active,
         NEW value \in Cacheable, value = Snapshot => op \in Core,
         entry' = Stored(entry, older, op, value, active).entry,
         older' = Stored(entry, older, op, value, active).older,
         UNCHANGED <<journal, active, call>>
  PROVE  Memory'
<1>1. op \in Ops /\ op \notin Durable
  BY OperationsAssumption DEF Ops
<1>2. entry \in [Ops -> Cacheable] /\ older \in SUBSET (Ops \X Ops) /\ active \subseteq Ops
  BY DEF Memory, MemoryTypeOK
<1> DEFINE kept == Stored(entry, older, op, value, active)
<1>3. Keeps(entry, kept, op, value, active)
  BY <1>1, <1>2, StoredFacts
<1>4. entry' = kept.entry /\ older' = kept.older
  OBVIOUS
<1> HIDE DEF kept
<1>5. /\ entry' \in [Ops -> Cacheable]
      /\ older' \subseteq Ops \X Ops
      /\ \A o \in Ops \ {op} : entry'[o] \in {entry[o], NoEntry}
      /\ entry'[op] \in {value, NoEntry}
      /\ \A o \in active : entry'[o] = entry[o]
  BY <1>2, <1>3, <1>4 DEF Keeps
<1>6. MemoryTypeOK'
  BY <1>5 DEF Memory, MemoryTypeOK
<1>7. CallsNameOperations' /\ ClaimsMatchCalls'
  BY DEF Memory, CallsNameOperations, ClaimsMatchCalls, Busy
<1>8. SnapshotsAreCore'
  BY <1>5, NothingAssumption DEF Memory, SnapshotsAreCore
<1>9. ActiveIsCached'
  BY <1>5 DEF Memory, ActiveIsCached, Entries, Cached
<1>10. CacheAgreesWithJournal'
  BY <1>1, <1>5 DEF Memory, CacheAgreesWithJournal, Ops
<1>11. WorkerOwnsReceipt'
  <2> SUFFICES ASSUME NEW d \in Calls
               PROVE  /\ call[d].pc \in {"starting", "queued"} => entry'[call[d].op].receipt.status = "pending"
                      /\ call[d].pc \in {"working", "returned", "failing"} => entry'[call[d].op].receipt.status = "running"
    BY DEF WorkerOwnsReceipt
  <2>1. call[d].pc # "idle" => entry'[call[d].op] = entry[call[d].op]
    BY <1>5, BusyFacts
  <2> QED BY <2>1 DEF Memory, WorkerOwnsReceipt
<1> QED BY <1>6, <1>7, <1>8, <1>9, <1>10, <1>11 DEF Memory

-----------------------------------------------------------------------------
(* Every action preserves Memory *)

LEMMA NewReceiptType ==
  ASSUME NEW request \in Requests \cup {NoRequest}, NEW options \in Options \cup {NoOptions}
  PROVE  NewReceipt(request, options) \in Receipt /\ NewReceipt(request, options).status = "pending"
BY DEF NewReceipt, Receipt, Statuses

LEMMA StatusType ==
  ASSUME NEW receipt \in Receipt, NEW status \in Statuses
  PROVE  /\ [receipt EXCEPT !.status = status] \in Receipt
         /\ [receipt EXCEPT !.status = status].status = status
         /\ [receipt EXCEPT !.status = status].request = receipt.request
         /\ [receipt EXCEPT !.status = status].options = receipt.options
         /\ [receipt EXCEPT !.status = status].percent = receipt.percent
BY DEF Receipt

LEMMA PercentType ==
  ASSUME NEW receipt \in Receipt, NEW percent \in 0..100
  PROVE  /\ [receipt EXCEPT !.percent = percent] \in Receipt
         /\ [receipt EXCEPT !.percent = percent].status = receipt.status
         /\ [receipt EXCEPT !.percent = percent].request = receipt.request
         /\ [receipt EXCEPT !.percent = percent].options = receipt.options
BY DEF Receipt

LEMMA CompletedReceiptType ==
  ASSUME NEW receipt \in Receipt
  PROVE  [receipt EXCEPT !.status = "completed", !.percent = 100] \in Receipt
<1> DEFINE done == [receipt EXCEPT !.status = "completed"]
<1>1. done \in Receipt
  BY StatusType DEF Statuses
<1> HIDE DEF done
<1>2. [done EXCEPT !.percent = 100] \in Receipt
  <2>1. 100 \in 0..100
    OBVIOUS
  <2> QED BY <1>1, <2>1, PercentType, Zenon
<1> QED BY <1>2, Zenon DEF done

\* An identity with no receipt or nothing cached is not being worked on.
LEMMA UncachedIsIdle ==
  ASSUME Memory, NEW op \in Durable \cup Volatile,
         entry[op] = NoEntry \/ (op \in Durable /\ journal[op] = NoJournal)
  PROVE  op \notin active
<1>1. op \in Ops /\ op \notin Core
  BY OperationsAssumption DEF Ops
<1>2. entry[op] # NoEntry => entry[op] \in Record
  BY <1>1 DEF Memory, MemoryTypeOK, SnapshotsAreCore, Cacheable
<1>3. op \in Durable /\ journal[op] = NoJournal => entry[op] = NoEntry
  BY <1>2, NothingAssumption DEF Memory, CacheAgreesWithJournal
<1> QED BY <1>3 DEF Memory, ActiveIsCached, Entries, Cached

LEMMA AcceptDurablePreserves ==
  ASSUME Memory, NEW c \in Calls, NEW op \in Durable, NEW request \in Requests, NEW options \in Options,
         AcceptDurable(c, op, request, options)
  PROVE  Memory'
<1>1. /\ call[c].pc = "idle"
      /\ active' = active \cup {op}
      /\ call' = [call EXCEPT ![c] = [pc |-> "starting", op |-> op, retryable |-> FALSE]]
      /\ op \in Ops /\ active \subseteq Ops
  BY DEF AcceptDurable, Ops, Memory, MemoryTypeOK
<1>2. CASE journal[op] = NoJournal
  <2>1. Publish(op, NewReceipt(request, options), active \cup {op})
    BY <1>2 DEF AcceptDurable
  <2>2. NewReceipt(request, options) \in Receipt /\ NewReceipt(request, options).status = "pending"
    BY NewReceiptType
  <2>3. op \notin active
    BY <1>2, UncachedIsIdle
  <2> DEFINE receipt == NewReceipt(request, options)
             pinned == active \cup {op}
  <2>4. receipt \in Receipt /\ receipt.status = "pending" /\ Publish(op, receipt, pinned) /\ active \subseteq pinned /\ op \in pinned
    BY <2>1, <2>2
  <2> HIDE DEF receipt, pinned
  <2>5. PICK record \in Record :
           /\ record.receipt = receipt
           /\ journal' \in [Durable -> Record \cup {NoJournal}]
           /\ entry' \in [Ops -> Cacheable]
           /\ older' \subseteq Ops \X Ops
           /\ op \in Durable => journal'[op] = record
           /\ \A d \in Durable \ {op} : journal'[d] = journal[d]
           /\ \A o \in Ops \ {op} : entry'[o] \in {entry[o], NoEntry}
           /\ entry'[op] \in {record, NoEntry}
           /\ \A o \in (Ops \ {op}) \cap pinned : entry'[o] = entry[o]
           /\ op \in pinned => entry'[op] = record
    BY <2>4, PublishFacts
  <2>6. record.receipt.status = "pending" /\ entry'[op] = record /\ \A o \in active : entry'[o] = entry[o]
    BY <1>1, <2>3, <2>4, <2>5
  <2> QED BY <1>1, <2>3, <2>5, <2>6, ClaimPreserves
<1>3. CASE journal[op] # NoJournal
  <2> DEFINE found == Recovered(op)
             loaded == Stored(entry, older, op, found, active)
             receipt == NewReceipt(request, found.receipt.options)
             record == [receipt |-> receipt, events |-> NextEvents(found.events, receipt)]
             kept == Stored(loaded.entry, loaded.older, op, record, active \cup {op})
  <2>1. /\ ~Answered(op, found.receipt)
        /\ journal' = [journal EXCEPT ![op] = record]
        /\ entry' = kept.entry
        /\ older' = kept.older
    BY <1>3 DEF AcceptDurable
  <2>2. op \notin active
    BY <2>1 DEF Answered
  <2>3. found \in Record
    BY <1>3, RecoveredType
  <2>4. found.receipt.options \in Options \cup {NoOptions} /\ found.events \in Seq(Event)
    BY <2>3 DEF Record, Receipt
  <2>5. record \in Record /\ record.receipt.status = "pending"
    <3>1. receipt \in Receipt /\ receipt.status = "pending"
      BY <2>4, NewReceiptType
    <3> QED BY <2>4, <3>1, RecordType
  <2>6. Keeps(entry, loaded, op, found, active)
    <3>1. entry \in [Ops -> Cacheable] /\ older \in SUBSET (Ops \X Ops) /\ found \in Cacheable
      BY <2>3 DEF Memory, MemoryTypeOK, Cacheable
    <3> QED BY <1>1, <3>1, StoredFacts
  <2> HIDE DEF found, loaded, record
  <2>7. Keeps(loaded.entry, kept, op, record, active \cup {op})
    <3>1. loaded.entry \in [Ops -> Cacheable] /\ loaded.older \in SUBSET (Ops \X Ops) /\ record \in Cacheable
      BY <2>5, <2>6 DEF Keeps, Cacheable
    <3> QED BY <1>1, <3>1, StoredFacts
  <2> HIDE DEF kept
  <2>8. journal \in [Durable -> Record \cup {NoJournal}]
    BY DEF Memory, MemoryTypeOK
  <2>9. /\ journal' \in [Durable -> Record \cup {NoJournal}]
        /\ journal'[op] = record
        /\ \A d \in Durable \ {op} : journal'[d] = journal[d]
    BY <2>1, <2>5, <2>8
  <2>10. /\ entry' \in [Ops -> Cacheable]
         /\ older' \subseteq Ops \X Ops
         /\ \A o \in Ops \ {op} : entry'[o] \in {entry[o], NoEntry}
         /\ entry'[op] = record
         /\ \A o \in active : entry'[o] = entry[o]
    BY <1>1, <2>1, <2>2, <2>6, <2>7 DEF Keeps
  <2> QED BY <1>1, <2>2, <2>5, <2>9, <2>10, ClaimPreserves
<1> QED BY <1>2, <1>3

LEMMA AcceptVolatilePreserves ==
  ASSUME Memory, NEW c \in Calls, NEW op \in Volatile, AcceptVolatile(c, op)
  PROVE  Memory'
<1>1. /\ call[c].pc = "idle"
      /\ active' = active \cup {op}
      /\ call' = [call EXCEPT ![c] = [pc |-> "starting", op |-> op, retryable |-> FALSE]]
      /\ op \in Ops /\ active \subseteq Ops
      /\ op \notin active
  BY UncachedIsIdle DEF AcceptVolatile, Fresh, Ops, Memory, MemoryTypeOK
<1> DEFINE receipt == NewReceipt(NoRequest, NoOptions)
           pinned == active \cup {op}
<1>2. receipt \in Receipt /\ receipt.status = "pending" /\ Publish(op, receipt, pinned) /\ active \subseteq pinned /\ op \in pinned
  BY NewReceiptType DEF AcceptVolatile
<1> HIDE DEF receipt, pinned
<1>3. PICK record \in Record :
         /\ record.receipt = receipt
         /\ journal' \in [Durable -> Record \cup {NoJournal}]
         /\ entry' \in [Ops -> Cacheable]
         /\ older' \subseteq Ops \X Ops
         /\ op \in Durable => journal'[op] = record
         /\ \A d \in Durable \ {op} : journal'[d] = journal[d]
         /\ \A o \in Ops \ {op} : entry'[o] \in {entry[o], NoEntry}
         /\ entry'[op] \in {record, NoEntry}
         /\ \A o \in (Ops \ {op}) \cap pinned : entry'[o] = entry[o]
         /\ op \in pinned => entry'[op] = record
  BY <1>2, PublishFacts
<1>4. record.receipt.status = "pending" /\ entry'[op] = record /\ \A o \in active : entry'[o] = entry[o]
  BY <1>1, <1>2, <1>3
<1> QED BY <1>1, <1>3, <1>4, ClaimPreserves

LEMMA CompleteLocalPreserves ==
  ASSUME Memory, NEW op \in Volatile, CompleteLocal(op)
  PROVE  Memory'
<1> DEFINE receipt == [NewReceipt(NoRequest, NoOptions) EXCEPT !.status = "completed", !.percent = 100]
           record == [receipt |-> receipt, events |-> NextEvents(EventsOf(op), receipt)]
<1>1. op \notin active /\ op \notin Durable
  BY UncachedIsIdle, OperationsAssumption DEF CompleteLocal, Fresh
<1>2. receipt \in Receipt
  BY NewReceiptType, CompletedReceiptType
<1>3. record \in Record
  BY <1>2, EventsOfType, RecordType
<1>4. /\ UNCHANGED <<journal, active, call>>
      /\ entry' = Stored(entry, older, op, record, active).entry
      /\ older' = Stored(entry, older, op, record, active).older
  BY <1>1 DEF CompleteLocal, Publish
<1> HIDE DEF record
<1>5. record \in Cacheable /\ record # Snapshot
  BY <1>3, NothingAssumption DEF Cacheable
<1> QED BY <1>1, <1>4, <1>5, CachePreserves

LEMMA RegisterCorePreserves ==
  ASSUME Memory, NEW op \in Core, RegisterCore(op)
  PROVE  Memory'
<1>1. op \notin active
  BY OperationsAssumption DEF Memory, ClaimsMatchCalls, CallsNameOperations, Busy
<1>2. Snapshot \in Cacheable
  BY DEF Cacheable
<1>3. /\ UNCHANGED <<journal, active, call>>
      /\ entry' = Stored(entry, older, op, Snapshot, active).entry
      /\ older' = Stored(entry, older, op, Snapshot, active).older
  BY DEF RegisterCore
<1> QED BY <1>1, <1>2, <1>3, CachePreserves

LEMMA UpdatedType ==
  ASSUME NEW receipt \in Receipt, NEW status \in Statuses, NEW percent \in 0..100, NEW retryable \in BOOLEAN
  PROVE  LET updated == Updated(receipt, status, percent, retryable)
         IN  /\ updated \in Receipt
             /\ updated.status = status
             /\ updated.request = receipt.request
             /\ updated.options = receipt.options
<1> DEFINE a == [receipt EXCEPT !.status = status]
           b == [a EXCEPT !.percent = Greater(receipt.percent, percent)]
           d == [b EXCEPT !.retryable = retryable]
<1>1. receipt.percent \in 0..100
  BY DEF Receipt
<1>2. Greater(receipt.percent, percent) \in 0..100
  BY <1>1 DEF Greater
<1>3. /\ a \in Receipt /\ a.status = status /\ a.percent = receipt.percent
      /\ a.request = receipt.request /\ a.options = receipt.options
  BY StatusType, Zenon
<1>4. Updated(receipt, status, percent, retryable) = d
  BY <1>3, Zenon DEF Updated
<1> HIDE DEF a
<1>5. /\ b \in Receipt /\ b.status = status
      /\ b.request = receipt.request /\ b.options = receipt.options
  BY <1>2, <1>3, PercentType, Zenon
<1> HIDE DEF b
<1>6. /\ d \in Receipt /\ d.status = status
      /\ d.request = receipt.request /\ d.options = receipt.options
  BY <1>5 DEF Receipt
<1> HIDE DEF d
<1> QED BY <1>4, <1>6

LEMMA UpdateFacts ==
  ASSUME Memory, NEW c \in Calls, call[c].pc # "idle",
         NEW status \in Statuses, NEW percent \in 0..100, NEW retryable \in BOOLEAN,
         Update(c, status, percent, retryable)
  PROVE  /\ \E receipt \in Receipt :
               /\ Publish(call[c].op, receipt, active)
               /\ receipt.status = status
               /\ receipt.request = entry[call[c].op].receipt.request
               /\ receipt.options = entry[call[c].op].receipt.options
         /\ UNCHANGED active
<1> DEFINE old == entry[call[c].op].receipt
           receipt == Updated(old, status, percent, retryable)
<1>1. old \in Receipt
  BY BusyFacts DEF Record
<1>2. Publish(call[c].op, receipt, active) /\ UNCHANGED active
  BY DEF Update
<1>3. /\ receipt \in Receipt
      /\ receipt.status = status
      /\ receipt.request = old.request
      /\ receipt.options = old.options
  BY <1>1, UpdatedType, ZenonT(60)
<1> HIDE DEF receipt
<1> QED BY <1>2, <1>3

\* A call that keeps its identity through a step.
LEMMA MovedCall ==
  ASSUME Memory, NEW c \in Calls, NEW from, NEW to \in CallStates, Moved(c, from, to)
  PROVE  LET new == [call[c] EXCEPT !.pc = to]
         IN  /\ call[c].pc = from
             /\ call' = [call EXCEPT ![c] = new]
             /\ new \in [pc : CallStates, op : Ops \cup {NoOp}, retryable : BOOLEAN]
             /\ new.op = call[c].op
             /\ new.pc = to
<1> DEFINE T == [pc : CallStates, op : Ops \cup {NoOp}, retryable : BOOLEAN]
<1>1. call \in [Calls -> T]
  BY DEF Memory, MemoryTypeOK
<1>2. call[c] \in T
  BY <1>1
<1>3. /\ [call[c] EXCEPT !.pc = to] \in T
      /\ [call[c] EXCEPT !.pc = to].op = call[c].op
      /\ [call[c] EXCEPT !.pc = to].pc = to
  BY <1>2
<1>4. call[c].pc = from /\ call' = [call EXCEPT ![c].pc = to]
  BY DEF Moved
<1> QED BY <1>3, <1>4, Zenon

\* Steps of a worker that publish nothing.
LEMMA QuietWorkerPreserves ==
  ASSUME Memory, NEW c \in Calls,
         \/ StartThread(c) \/ BeginFails(c) \/ WorkReturns(c) \/ OutcomeLost(c)
         \/ ReportFails(c) \/ \E retryable \in BOOLEAN : WorkRaises(c, retryable)
  PROVE  Memory'
<1> DEFINE T == [pc : CallStates, op : Ops \cup {NoOp}, retryable : BOOLEAN]
<1>0. call \in [Calls -> T] /\ call[c] \in T
  BY DEF Memory, MemoryTypeOK
<1>1. CASE StartThread(c)
  <2>1. Moved(c, "starting", "queued") /\ UNCHANGED <<journal, entry, older, active>> /\ "queued" \in CallStates
    BY <1>1 DEF StartThread, CallStates
  <2> DEFINE new == [call[c] EXCEPT !.pc = "queued"]
  <2>2. call[c].pc = "starting" /\ call' = [call EXCEPT ![c] = new] /\ new \in T /\ new.op = call[c].op /\ new.pc = "queued"
    BY <2>1, MovedCall
  <2> HIDE DEF new
  <2> QED BY <2>1, <2>2, MovePreserves
<1>2. CASE BeginFails(c)
  <2>1. Moved(c, "queued", "cleanup") /\ UNCHANGED <<journal, entry, older, active>> /\ "cleanup" \in CallStates
    BY <1>2 DEF BeginFails, CallStates
  <2> DEFINE new == [call[c] EXCEPT !.pc = "cleanup"]
  <2>2. call[c].pc = "queued" /\ call' = [call EXCEPT ![c] = new] /\ new \in T /\ new.op = call[c].op /\ new.pc = "cleanup"
    BY <2>1, MovedCall
  <2> HIDE DEF new
  <2> QED BY <2>1, <2>2, MovePreserves
<1>3. CASE WorkReturns(c)
  <2>1. Moved(c, "working", "returned") /\ UNCHANGED <<journal, entry, older, active>> /\ "returned" \in CallStates
    BY <1>3 DEF WorkReturns, CallStates
  <2> DEFINE new == [call[c] EXCEPT !.pc = "returned"]
  <2>2. call[c].pc = "working" /\ call' = [call EXCEPT ![c] = new] /\ new \in T /\ new.op = call[c].op /\ new.pc = "returned"
    BY <2>1, MovedCall
  <2> HIDE DEF new
  <2> QED BY <2>1, <2>2, MovePreserves
<1>4. CASE OutcomeLost(c)
  <2>1. /\ call[c].pc \in {"returned", "failing"}
        /\ UNCHANGED <<journal, entry, older, active>> /\ "cleanup" \in CallStates
        /\ Moved(c, call[c].pc, "cleanup")
    BY <1>4 DEF OutcomeLost, CallStates, Moved
  <2> DEFINE new == [call[c] EXCEPT !.pc = "cleanup"]
  <2>2. call' = [call EXCEPT ![c] = new] /\ new \in T /\ new.op = call[c].op /\ new.pc = "cleanup"
    BY <2>1, MovedCall
  <2> HIDE DEF new
  <2> QED BY <2>1, <2>2, MovePreserves
<1>5. ASSUME NEW retryable \in BOOLEAN,
             \/ ReportFails(c) /\ retryable = TRUE
             \/ WorkRaises(c, retryable)
      PROVE  Memory'
  <2> DEFINE new == [call[c] EXCEPT !.pc = "failing", !.retryable = retryable]
  <2>1. /\ call[c].pc = "working"
        /\ UNCHANGED <<journal, entry, older, active>>
        /\ call' = [call EXCEPT ![c] = new]
    <3>1. CASE ReportFails(c) /\ retryable = TRUE
      BY <3>1, Zenon DEF ReportFails
    <3>2. CASE WorkRaises(c, retryable)
      BY <3>2, Zenon DEF WorkRaises
    <3> QED BY <1>5, <3>1, <3>2
  <2>2. new \in T /\ new.op = call[c].op /\ new.pc = "failing"
    <3> DEFINE a == [call[c] EXCEPT !.pc = "failing"]
    <3>1. a \in T /\ a.op = call[c].op /\ a.pc = "failing"
      BY <1>0 DEF CallStates
    <3> HIDE DEF a
    <3>2. [a EXCEPT !.retryable = retryable] \in T /\ [a EXCEPT !.retryable = retryable].op = call[c].op
            /\ [a EXCEPT !.retryable = retryable].pc = "failing"
      BY <3>1
    <3>3. new = [a EXCEPT !.retryable = retryable]
      BY Zenon DEF a
    <3> QED BY <3>2, <3>3, Zenon
  <2> HIDE DEF new
  <2> QED BY <2>1, <2>2, MovePreserves
<1> QED BY <1>1, <1>2, <1>3, <1>4, <1>5

\* Steps of a worker that publish.
LEMMA PublishingWorkerPreserves ==
  ASSUME Memory, NEW c \in Calls,
         \/ Begin(c) \/ PublishCompleted(c) \/ PublishFailed(c)
         \/ \E percent \in Reports : Report(c, percent)
  PROVE  Memory'
<1> DEFINE T == [pc : CallStates, op : Ops \cup {NoOp}, retryable : BOOLEAN]
<1>0. call \in [Calls -> T] /\ call[c] \in T /\ call[c].retryable \in BOOLEAN
  BY DEF Memory, MemoryTypeOK
<1>5. 0 \in 0..100 /\ 1 \in 0..100 /\ 100 \in 0..100
  OBVIOUS
<1>1. CASE Begin(c)
  <2>1. Moved(c, "queued", "working") /\ Update(c, "running", 1, FALSE) /\ "working" \in CallStates /\ "running" \in Statuses
    BY <1>1 DEF Begin, CallStates, Statuses
  <2> DEFINE new == [call[c] EXCEPT !.pc = "working"]
  <2>2. call[c].pc = "queued" /\ call' = [call EXCEPT ![c] = new] /\ new \in T /\ new.op = call[c].op /\ new.pc = "working"
    BY <2>1, MovedCall
  <2> HIDE DEF new
  <2>3. PICK receipt \in Receipt : Publish(call[c].op, receipt, active) /\ receipt.status = "running" /\ UNCHANGED active
    BY <1>5, <2>1, <2>2, UpdateFacts, ZenonT(60)
  <2> QED BY <2>2, <2>3, PublishPreserves
<1>2. CASE PublishCompleted(c)
  <2>1. Moved(c, "returned", "cleanup") /\ Update(c, "completed", 100, FALSE) /\ "cleanup" \in CallStates /\ "completed" \in Statuses
    BY <1>2 DEF PublishCompleted, CallStates, Statuses
  <2> DEFINE new == [call[c] EXCEPT !.pc = "cleanup"]
  <2>2. call[c].pc = "returned" /\ call' = [call EXCEPT ![c] = new] /\ new \in T /\ new.op = call[c].op /\ new.pc = "cleanup"
    BY <2>1, MovedCall
  <2> HIDE DEF new
  <2>3. PICK receipt \in Receipt : Publish(call[c].op, receipt, active) /\ receipt.status = "completed" /\ UNCHANGED active
    BY <1>5, <2>1, <2>2, UpdateFacts, ZenonT(60)
  <2> QED BY <2>2, <2>3, PublishPreserves
<1>3. CASE PublishFailed(c)
  <2>1. Moved(c, "failing", "cleanup") /\ Update(c, "failed", 0, call[c].retryable) /\ "cleanup" \in CallStates /\ "failed" \in Statuses
    BY <1>3 DEF PublishFailed, CallStates, Statuses
  <2> DEFINE new == [call[c] EXCEPT !.pc = "cleanup"]
  <2>2. call[c].pc = "failing" /\ call' = [call EXCEPT ![c] = new] /\ new \in T /\ new.op = call[c].op /\ new.pc = "cleanup"
    BY <2>1, MovedCall
  <2> HIDE DEF new
  <2> DEFINE retryable == call[c].retryable
  <2>3. retryable \in BOOLEAN /\ Update(c, "failed", 0, retryable) /\ "failed" \in Statuses /\ call[c].pc # "idle"
    BY <1>0, <2>1, <2>2
  <2> HIDE DEF retryable
  <2>4. PICK receipt \in Receipt : Publish(call[c].op, receipt, active) /\ receipt.status = "failed" /\ UNCHANGED active
    BY <1>5, <2>3, UpdateFacts, ZenonT(60)
  <2> QED BY <2>2, <2>4, PublishPreserves
<1>4. ASSUME NEW percent \in Reports, Report(c, percent) PROVE Memory'
  <2>1. call[c].pc = "working" /\ Update(c, "running", percent, FALSE) /\ UNCHANGED call /\ "running" \in Statuses /\ percent \in 0..100
    BY <1>4, OperationsAssumption DEF Report, Statuses
  <2>2. call' = [call EXCEPT ![c] = call[c]]
    BY <1>0, <2>1
  <2>3. PICK receipt \in Receipt : Publish(call[c].op, receipt, active) /\ receipt.status = "running" /\ UNCHANGED active
    BY <2>1, UpdateFacts
  <2> QED BY <1>0, <2>1, <2>2, <2>3, PublishPreserves
<1> QED BY <1>1, <1>2, <1>3, <1>4

\* Steps that end a call.
LEMMA EndPreserves ==
  ASSUME Memory, NEW c \in Calls, StartFails(c) \/ Cleanup(c)
  PROVE  Memory'
<1>1. entry \in [Ops -> Cacheable] /\ older \subseteq Ops \X Ops /\ active \subseteq Ops /\ NoEntry \in Cacheable
  BY DEF Memory, MemoryTypeOK, Cacheable
<1>2. CASE StartFails(c)
  BY <1>1, <1>2, ReleasePreserves DEF StartFails
<1>3. CASE Cleanup(c)
  <2> DEFINE pinned == active \ {call[c].op}
             gone == Victims(entry, older, pinned)
  <2>1. gone \subseteq Ops /\ gone \cap pinned = {}
    BY VictimsAreIdle
  <2>2. /\ call[c].pc # "idle" /\ call' = [call EXCEPT ![c] = Idle] /\ UNCHANGED journal
        /\ active' = pinned
        /\ entry' = Without(entry, gone)
        /\ older' = OrderWithout(older, gone)
    BY <1>3 DEF Cleanup
  <2> HIDE DEF gone
  <2>3. /\ entry' \in [Ops -> Cacheable]
        /\ \A o \in Ops : entry'[o] = IF o \in gone THEN NoEntry ELSE entry[o]
    BY <1>1, <2>2 DEF Without
  <2>4. older' \subseteq Ops \X Ops
    BY <1>1, <2>2 DEF OrderWithout
  <2>5. \A o \in active' : entry'[o] = entry[o]
    BY <1>1, <2>1, <2>2, <2>3
  <2> QED BY <2>2, <2>3, <2>4, <2>5, ReleasePreserves
<1> QED BY <1>2, <1>3

LEMMA RestartPreserves ==
  ASSUME Memory, Restart
  PROVE  Memory'
<1>1. /\ journal' = journal
      /\ entry' = [op \in Ops |-> NoEntry]
      /\ older' = {}
      /\ active' = {}
      /\ call' = [c \in Calls |-> Idle]
      /\ NoEntry \in Cacheable
  BY DEF Restart, Cacheable
<1>2. \A c \in Calls : call'[c].pc = "idle"
  BY <1>1 DEF Idle
<1>3. MemoryTypeOK'
  BY <1>1 DEF Memory, MemoryTypeOK, Idle, CallStates
<1>4. CallsNameOperations' /\ WorkerOwnsReceipt'
  BY <1>2 DEF CallsNameOperations, WorkerOwnsReceipt
<1>5. Busy' = {}
  BY <1>2 DEF Busy
<1>6. ClaimsMatchCalls'
  BY <1>1, <1>5 DEF ClaimsMatchCalls
<1>7. SnapshotsAreCore' /\ ActiveIsCached' /\ CacheAgreesWithJournal'
  BY <1>1, NothingAssumption DEF SnapshotsAreCore, ActiveIsCached, CacheAgreesWithJournal, Ops
<1> QED BY <1>3, <1>4, <1>6, <1>7 DEF Memory

-----------------------------------------------------------------------------
(* Every action preserves Clients *)

Client == [pc : {"closed", "reading", "sending", "ended"}, op : Ops \cup {NoOp},
           last : Event \cup {NoEvent}, batch : SUBSET Event, terminal : BOOLEAN]

\* One client moves to another well-formed state.
LEMMA ClientMoves ==
  ASSUME Clients, NEW s \in Streams, NEW new \in Client,
         stream' = [stream EXCEPT ![s] = new],
         new.pc \in {"reading", "sending"} => new.op \in Durable \cup Volatile,
         UNCHANGED committed
  PROVE  Clients'
<1>1. stream \in [Streams -> Client]
  BY DEF Clients, ClientTypeOK, Client
<1>2. /\ stream' \in [Streams -> Client]
      /\ stream'[s] = new
      /\ \A t \in Streams \ {s} : stream'[t] = stream[t]
  BY <1>1
<1>3. ClientTypeOK'
  BY <1>2 DEF Clients, ClientTypeOK, Client
<1>4. StreamsNameOperations'
  BY <1>2 DEF Clients, StreamsNameOperations
<1> QED BY <1>3, <1>4 DEF Clients

LEMMA ClosedType ==
  ASSUME NEW op \in Ops \cup {NoOp}, NEW last \in Event \cup {NoEvent}
  PROVE  /\ Closed(op, last) \in Client /\ Closed(op, last).pc = "closed"
         /\ [Closed(op, last) EXCEPT !.pc = "reading"] \in Client
         /\ [Closed(op, last) EXCEPT !.pc = "reading"].op = op
BY DEF Closed, Client

LEMMA StreamType ==
  ASSUME Clients, NEW s \in Streams
  PROVE  /\ stream[s].pc \in {"closed", "reading", "sending", "ended"}
         /\ stream[s].op \in Ops \cup {NoOp}
         /\ stream[s].last \in Event \cup {NoEvent}
         /\ stream[s].batch \subseteq Event
         /\ stream[s].terminal \in BOOLEAN
BY DEF Clients, ClientTypeOK

LEMMA ConnectPreservesClients ==
  ASSUME Clients, NEW s \in Streams, NEW op \in Durable \cup Volatile, Connect(s, op)
  PROVE  Clients'
<1> DEFINE new == [Closed(op, stream[s].last) EXCEPT !.pc = "reading"]
<1>1. new \in Client /\ new.op = op
  BY StreamType, ClosedType DEF Ops
<1>2. stream' = [stream EXCEPT ![s] = new] /\ UNCHANGED committed
  BY DEF Connect
<1> HIDE DEF new
<1> QED BY <1>1, <1>2, ClientMoves

LEMMA ReadPreservesClients ==
  ASSUME Memory, Clients, NEW s \in Streams, Read(s)
  PROVE  Clients'
<1> DEFINE op == stream[s].op
           batch == Unseen(Found(op).events, stream[s].last)
           over == Terminal(op, Found(op))
           new == [pc |-> IF batch = {} THEN "ended" ELSE "sending",
                   op |-> op, last |-> stream[s].last, batch |-> batch, terminal |-> over]
<1>1. op \in Durable \cup Volatile /\ op \in Ops
  BY DEF Read, Clients, StreamsNameOperations, Ops
<1>2. Found(op) \in Record
  <2>1. CASE op \in Durable
    <3>1. journal[op] # NoJournal
      BY <2>1 DEF Read, Load
    <3> QED BY <2>1, <3>1, RecoveredType DEF Found
  <2>2. CASE op \in Volatile
    <3>1. entry[op] # NoEntry /\ op \notin Durable /\ op \notin Core
      BY <2>2, OperationsAssumption DEF Read
    <3>2. entry[op] \in Record
      BY <1>1, <3>1 DEF Memory, MemoryTypeOK, SnapshotsAreCore, Cacheable
    <3> QED BY <3>1, <3>2 DEF Found
  <2> QED BY <1>1, <2>1, <2>2
<1>3. batch \subseteq Event
  <2>1. Found(op).events \in Seq(Event)
    BY <1>2 DEF Record
  <2>2. \A j \in DOMAIN Found(op).events : Found(op).events[j] \in Event
    BY <2>1
  <2> QED BY <2>2 DEF Unseen
<1>4. over \in BOOLEAN
  BY DEF Terminal
<1>5. stream' = [stream EXCEPT ![s] = new] /\ UNCHANGED committed
  BY DEF Read
<1> HIDE DEF batch, over
<1>6. new \in Client /\ new.op = op
  BY <1>1, <1>3, <1>4, StreamType DEF Client
<1> HIDE DEF new
<1> QED BY <1>1, <1>5, <1>6, ClientMoves

LEMMA SendPreservesClients ==
  ASSUME Clients, NEW s \in Streams, Send(s)
  PROVE  Clients'
<1>1. PICK event \in stream[s].batch :
        /\ stream[s].pc = "sending"
        /\ UNCHANGED committed
        /\ stream' = [stream EXCEPT ![s] =
             [pc |-> IF stream[s].batch \ {event} # {} THEN "sending"
                     ELSE IF stream[s].terminal THEN "ended" ELSE "reading",
              op |-> stream[s].op, last |-> event, batch |-> stream[s].batch \ {event},
              terminal |-> stream[s].terminal]]
  BY DEF Send
<1> DEFINE new == [pc |-> IF stream[s].batch \ {event} # {} THEN "sending"
                          ELSE IF stream[s].terminal THEN "ended" ELSE "reading",
                   op |-> stream[s].op, last |-> event, batch |-> stream[s].batch \ {event},
                   terminal |-> stream[s].terminal]
<1>2. new \in Client /\ new.op = stream[s].op
  BY StreamType DEF Client
<1>3. stream[s].op \in Durable \cup Volatile
  BY <1>1 DEF Clients, StreamsNameOperations
<1>4. stream' = [stream EXCEPT ![s] = new] /\ UNCHANGED committed
  BY <1>1
<1> HIDE DEF new
<1> QED BY <1>2, <1>3, <1>4, ClientMoves

LEMMA LeavePreservesClients ==
  ASSUME Clients, NEW s \in Streams, Vanished(s) \/ ReadFails(s) \/ Disconnect(s)
  PROVE  Clients'
<1> DEFINE new == Closed(stream[s].op, stream[s].last)
<1>1. new \in Client /\ new.pc = "closed"
  BY StreamType, ClosedType, ZenonT(60)
<1>2. stream' = [stream EXCEPT ![s] = new] /\ UNCHANGED committed
  BY DEF Vanished, ReadFails, Disconnect
<1> HIDE DEF new
<1> QED BY <1>1, <1>2, ClientMoves

LEMMA RestartPreservesClients ==
  ASSUME Clients, Restart
  PROVE  Clients'
<1>1. stream' = [s \in Streams |-> IF stream[s].pc = "ended" THEN stream[s]
                                  ELSE Closed(stream[s].op, stream[s].last)]
      /\ UNCHANGED committed
  BY DEF Restart
<1>2. \A s \in Streams : stream'[s] \in Client /\ stream'[s].pc \notin {"reading", "sending"}
  <2> SUFFICES ASSUME NEW s \in Streams
               PROVE  stream'[s] \in Client /\ stream'[s].pc \notin {"reading", "sending"}
    OBVIOUS
  <2>1. stream[s] \in Client
    BY DEF Clients, ClientTypeOK, Client
  <2>2. Closed(stream[s].op, stream[s].last) \in Client /\ Closed(stream[s].op, stream[s].last).pc = "closed"
    BY StreamType, ClosedType, ZenonT(60)
  <2>3. stream'[s] = IF stream[s].pc = "ended" THEN stream[s] ELSE Closed(stream[s].op, stream[s].last)
    BY <1>1
  <2> QED BY <2>1, <2>2, <2>3
<1>3. ClientTypeOK'
  BY <1>1, <1>2 DEF Clients, ClientTypeOK, Client
<1>4. StreamsNameOperations'
  BY <1>2 DEF StreamsNameOperations
<1> QED BY <1>3, <1>4 DEF Clients

LEMMA CommitPreservesClients ==
  ASSUME Clients, NEW op \in Ops, committed' = committed \cup {op}, UNCHANGED stream
  PROVE  Clients'
BY DEF Clients, ClientTypeOK, StreamsNameOperations

LEMMA OthersPreserveClients ==
  ASSUME Clients, UNCHANGED <<committed, stream>>
  PROVE  Clients'
BY DEF Clients, ClientTypeOK, StreamsNameOperations

-----------------------------------------------------------------------------
(* The inductive invariant and what follows from it *)

LEMMA InitInductive == Init => Inductive
<1> SUFFICES ASSUME Init PROVE Inductive
  OBVIOUS
<1> USE DEF Init
<1>1. MemoryTypeOK
  BY DEF MemoryTypeOK, Cacheable, Idle, CallStates
<1>2. \A c \in Calls : call[c].pc = "idle"
  BY DEF Idle
<1>3. CallsNameOperations /\ WorkerOwnsReceipt
  BY <1>2 DEF CallsNameOperations, WorkerOwnsReceipt
<1>4. Busy = {}
  BY <1>2 DEF Busy
<1>5. ClaimsMatchCalls /\ ActiveIsCached
  BY <1>4 DEF ClaimsMatchCalls, ActiveIsCached
<1>6. SnapshotsAreCore /\ CacheAgreesWithJournal
  BY NothingAssumption DEF SnapshotsAreCore, CacheAgreesWithJournal, Ops
<1>7. \A s \in Streams : stream[s] \in Client /\ stream[s].pc = "closed"
  BY ClosedType
<1>8. ClientTypeOK
  BY <1>7 DEF ClientTypeOK, Client
<1>9. StreamsNameOperations
  BY <1>7 DEF StreamsNameOperations
<1> QED BY <1>1, <1>3, <1>5, <1>6, <1>8, <1>9 DEF Inductive, Memory, Clients

LEMMA NextInductive == Inductive /\ [Next]_vars => Inductive'
<1> SUFFICES ASSUME Inductive, [Next]_vars PROVE Inductive'
  OBVIOUS
<1>0. Memory /\ Clients
  BY DEF Inductive
<1>1. ASSUME NEW op \in Durable, Look(op) PROVE Inductive'
  BY <1>0, <1>1, LoadPreserves, OthersPreserveClients DEF Look, Inductive
<1>2. ASSUME NEW c \in Calls, Submit(c) PROVE Inductive'
  <2>1. ASSUME NEW op \in Durable, NEW request \in Requests, NEW options \in Options,
               AcceptDurable(c, op, request, options)
        PROVE  Inductive'
    <3>1. UNCHANGED <<committed, stream>>
      BY <2>1 DEF AcceptDurable
    <3> QED BY <1>0, <2>1, <3>1, AcceptDurablePreserves, OthersPreserveClients DEF Inductive
  <2>2. ASSUME NEW op \in Volatile, AcceptVolatile(c, op) PROVE Inductive'
    <3>1. UNCHANGED <<committed, stream>>
      BY <2>2 DEF AcceptVolatile
    <3> QED BY <1>0, <2>2, <3>1, AcceptVolatilePreserves, OthersPreserveClients DEF Inductive
  <2> QED BY <1>2, <2>1, <2>2 DEF Submit
<1>3. ASSUME NEW c \in Calls, Worker(c) \/ Progress(c) PROVE Inductive'
  <2>1. CASE WorkReturns(c)
    <3>1. call[c].op \in Ops
      BY <1>0, <2>1, BusyFacts DEF WorkReturns, Moved, Ops
    <3>2. committed' = committed \cup {call[c].op} /\ UNCHANGED stream
      BY <2>1 DEF WorkReturns
    <3>3. Memory'
      BY <1>0, <2>1, QuietWorkerPreserves
    <3> QED BY <1>0, <3>1, <3>2, <3>3, CommitPreservesClients DEF Inductive
  <2>2. CASE \/ StartThread(c) \/ BeginFails(c) \/ OutcomeLost(c)
             \/ ReportFails(c) \/ \E retryable \in BOOLEAN : WorkRaises(c, retryable)
    <3>1. UNCHANGED <<committed, stream>>
      BY <2>2 DEF StartThread, BeginFails, OutcomeLost, ReportFails, WorkRaises
    <3>2. Memory'
      BY <1>0, <2>2, QuietWorkerPreserves
    <3> QED BY <1>0, <3>1, <3>2, OthersPreserveClients DEF Inductive
  <2>3. CASE \/ Begin(c) \/ PublishCompleted(c) \/ PublishFailed(c)
             \/ \E percent \in Reports : Report(c, percent)
    <3>1. UNCHANGED <<committed, stream>>
      BY <2>3 DEF Begin, PublishCompleted, PublishFailed, Report, Update
    <3>2. Memory'
      BY <1>0, <2>3, PublishingWorkerPreserves
    <3> QED BY <1>0, <3>1, <3>2, OthersPreserveClients DEF Inductive
  <2>4. CASE StartFails(c) \/ Cleanup(c)
    <3>1. UNCHANGED <<committed, stream>>
      BY <2>4 DEF StartFails, Cleanup
    <3>2. Memory'
      BY <1>0, <2>4, EndPreserves
    <3> QED BY <1>0, <3>1, <3>2, OthersPreserveClients DEF Inductive
  <2> QED BY <1>3, <2>1, <2>2, <2>3, <2>4 DEF Worker, Progress
<1>4. ASSUME NEW op \in Volatile, CompleteLocal(op) PROVE Inductive'
  <2>1. op \in Ops /\ committed' = committed \cup {op} /\ UNCHANGED stream
    BY <1>4 DEF CompleteLocal, Ops
  <2> QED BY <1>0, <1>4, <2>1, CompleteLocalPreserves, CommitPreservesClients DEF Inductive
<1>5. ASSUME NEW op \in Core, RegisterCore(op) PROVE Inductive'
  <2>1. UNCHANGED <<committed, stream>>
    BY <1>5 DEF RegisterCore
  <2> QED BY <1>0, <1>5, <2>1, RegisterCorePreserves, OthersPreserveClients DEF Inductive
<1>6. ASSUME NEW s \in Streams, NEW op \in Durable \cup Volatile, Connect(s, op) PROVE Inductive'
  <2>1. UNCHANGED <<active, call>>
    BY <1>6 DEF Connect
  <2>2. CASE op \in Durable
    BY <1>0, <1>6, <2>1, <2>2, LoadPreserves, ConnectPreservesClients DEF Connect, Inductive
  <2>3. CASE op \notin Durable
    <3>1. Memory'
      BY <1>0, <1>6, <2>1, <2>3, MemoryUnchanged DEF Connect
    <3> QED BY <1>0, <1>6, <3>1, ConnectPreservesClients DEF Inductive
  <2> QED BY <2>2, <2>3
<1>7. ASSUME NEW s \in Streams, Read(s) PROVE Inductive'
  <2>1. UNCHANGED <<active, call>>
    BY <1>7 DEF Read
  <2>2. CASE stream[s].op \in Durable
    BY <1>0, <1>7, <2>1, <2>2, LoadPreserves, ReadPreservesClients DEF Read, Inductive
  <2>3. CASE stream[s].op \notin Durable
    <3>1. Memory'
      BY <1>0, <1>7, <2>1, <2>3, MemoryUnchanged DEF Read
    <3> QED BY <1>0, <1>7, <3>1, ReadPreservesClients DEF Inductive
  <2> QED BY <2>2, <2>3
<1>8. ASSUME NEW s \in Streams, Send(s) \/ Vanished(s) \/ ReadFails(s) \/ Disconnect(s) PROVE Inductive'
  <2>1. UNCHANGED <<journal, entry, older, active, call>>
    BY <1>8 DEF Send, Vanished, ReadFails, Disconnect
  <2>2. Clients'
    BY <1>0, <1>8, SendPreservesClients, LeavePreservesClients
  <2> QED BY <1>0, <2>1, <2>2, MemoryUnchanged DEF Inductive
<1>9. CASE Restart
  BY <1>0, <1>9, RestartPreserves, RestartPreservesClients DEF Inductive
<1>10. CASE UNCHANGED vars
  BY <1>0, <1>10, MemoryUnchanged, OthersPreserveClients DEF vars, Inductive
<1> QED BY <1>1, <1>2, <1>3, <1>4, <1>5, <1>6, <1>7, <1>8, <1>9, <1>10 DEF Next, Streaming

LEMMA InductiveInvariant == Spec => []Inductive
BY InitInductive, NextInductive, PTL DEF Spec

\* The state keeps the shape the code gives it.
THEOREM TypeCorrect == Spec => []TypeOK
<1>1. Inductive => TypeOK
  BY DEF Inductive, Memory, MemoryTypeOK, Clients, ClientTypeOK, TypeOK, Cacheable
<1> QED BY <1>1, InductiveInvariant, PTL

\* However submissions, thread starts, lost publications and restarts
\* interleave, the active identities are those of the running calls, one call each.
THEOREM ClaimsAreExclusive == Spec => []ClaimsMatchCalls
<1>1. Inductive => ClaimsMatchCalls
  BY DEF Inductive, Memory
<1> QED BY <1>1, InductiveInvariant, PTL

\* The bounded cache never evicts the operation of a worker.
THEOREM ActiveSurvivesEviction == Spec => []ActiveIsCached
<1>1. Inductive => ActiveIsCached
  BY DEF Inductive, Memory
<1> QED BY <1>1, InductiveInvariant, PTL

\* What the cache answers for a durable operation is what the journal holds.
THEOREM CacheIsDurable == Spec => []CacheAgreesWithJournal
<1>1. Inductive => CacheAgreesWithJournal
  BY DEF Inductive, Memory
<1> QED BY <1>1, InductiveInvariant, PTL

\* A worker's receipt keeps the status the worker last published.
THEOREM WorkerKeepsReceipt == Spec => []WorkerOwnsReceipt
<1>1. Inductive => WorkerOwnsReceipt
  BY DEF Inductive, Memory
<1> QED BY <1>1, InductiveInvariant, PTL

-----------------------------------------------------------------------------
(* What a step may do to a durable receipt *)

\* A claim nobody holds is accepted again, with its request and options.
Reaccepts(op) ==
  LET found == Recovered(op).receipt
  IN  /\ ~Answered(op, found)
      /\ journal'[op].receipt = NewReceipt(found.request, found.options)

\* The worker of a live receipt publishes.
Republishes(op) ==
  /\ Live(journal[op])
  /\ journal'[op].receipt.request = journal[op].receipt.request
  /\ journal'[op].receipt.options = journal[op].receipt.options

ReceiptStep(op) ==
  /\ journal'[op] # NoJournal
  /\ \/ journal'[op] = journal[op]
     \/ journal'[op] = Recovered(op)
     \/ Reaccepts(op)
     \/ Republishes(op)

LEMMA AcceptReceipt ==
  ASSUME Memory, NEW c \in Calls, NEW op \in Durable, NEW request \in Requests, NEW options \in Options,
         AcceptDurable(c, op, request, options), journal[op] # NoJournal
  PROVE  journal'[op] # NoJournal /\ Reaccepts(op)
<1> DEFINE found == Recovered(op)
           receipt == NewReceipt(request, found.receipt.options)
           record == [receipt |-> receipt, events |-> NextEvents(found.events, receipt)]
<1>1. /\ found.receipt.request = request
      /\ ~Answered(op, found.receipt)
      /\ journal' = [journal EXCEPT ![op] = record]
  BY DEF AcceptDurable
<1>2. found \in Record
  BY RecoveredType
<1>3. found.receipt.options \in Options \cup {NoOptions} /\ found.events \in Seq(Event)
  BY <1>2 DEF Record, Receipt
<1>4. record \in Record
  <2>1. receipt \in Receipt
    BY <1>3, NewReceiptType
  <2> QED BY <1>3, <2>1, RecordType
<1>5. record.receipt = NewReceipt(found.receipt.request, found.receipt.options)
  BY <1>1
<1> HIDE DEF record
<1>6. journal'[op] = record
  BY <1>1 DEF Memory, MemoryTypeOK
<1> QED BY <1>1, <1>4, <1>5, <1>6, NothingAssumption DEF Reaccepts

LEMMA WorkerReceipt ==
  ASSUME Memory, NEW c \in Calls, NEW op \in Durable, journal[op] # NoJournal,
         \/ Begin(c) \/ PublishCompleted(c) \/ PublishFailed(c)
         \/ \E percent \in Reports : Report(c, percent)
  PROVE  ReceiptStep(op)
<1> DEFINE own == call[c].op
<1>1. call[c].pc \in {"queued", "working", "returned", "failing"}
  BY DEF Begin, PublishCompleted, PublishFailed, Report, Moved
<1>2. /\ own \in active /\ own \in Durable \cup Volatile
      /\ entry[own] \in Record
      /\ own \in Durable => entry[own] = journal[own]
      /\ entry[own].receipt.status \in {"pending", "running"}
  BY <1>1, BusyFacts DEF Memory, WorkerOwnsReceipt
<1>3. 0 \in 0..100 /\ 1 \in 0..100 /\ 100 \in 0..100
  OBVIOUS
<1>4. PICK status \in Statuses, percent \in 0..100, retryable \in BOOLEAN : Update(c, status, percent, retryable)
  <2>1. "running" \in Statuses /\ "completed" \in Statuses /\ "failed" \in Statuses
    BY DEF Statuses
  <2>2. CASE Begin(c)
    BY <1>3, <2>1, <2>2 DEF Begin
  <2>3. CASE PublishCompleted(c)
    BY <1>3, <2>1, <2>3 DEF PublishCompleted
  <2>4. CASE PublishFailed(c)
    <3>1. call[c].retryable \in BOOLEAN
      BY DEF Memory, MemoryTypeOK
    <3> DEFINE lasting == call[c].retryable
    <3>2. lasting \in BOOLEAN /\ Update(c, "failed", 0, lasting)
      BY <2>4, <3>1 DEF PublishFailed
    <3> HIDE DEF lasting
    <3> QED BY <1>3, <2>1, <3>2
  <2>5. ASSUME NEW percent \in Reports, Report(c, percent)
        PROVE  \E status \in Statuses, p \in 0..100, retryable \in BOOLEAN : Update(c, status, p, retryable)
    <3>1. percent \in 0..100 /\ Update(c, "running", percent, FALSE)
      BY <2>5, OperationsAssumption DEF Report
    <3> QED BY <2>1, <3>1
  <2> QED BY <2>2, <2>3, <2>4, <2>5
<1>5. PICK receipt \in Receipt :
        /\ Publish(own, receipt, active)
        /\ receipt.request = entry[own].receipt.request
        /\ receipt.options = entry[own].receipt.options
  <2>1. call[c].pc # "idle"
    BY <1>1
  <2> QED BY <1>4, <2>1, UpdateFacts, ZenonT(60)
<1> HIDE DEF own
<1>6. PICK record \in Record :
         /\ record.receipt = receipt
         /\ own \in Durable => journal'[own] = record
         /\ \A d \in Durable \ {own} : journal'[d] = journal[d]
  BY <1>2, <1>5, PublishFacts
<1>7. CASE own = op
  BY <1>2, <1>5, <1>6, <1>7, NothingAssumption DEF ReceiptStep, Republishes, Live, LiveStatuses
<1>8. CASE own # op
  BY <1>6, <1>8 DEF ReceiptStep
<1> QED BY <1>7, <1>8

LEMMA ReceiptSteps ==
  ASSUME Inductive, [Next]_vars, NEW op \in Durable, journal[op] # NoJournal
  PROVE  ReceiptStep(op)
<1>0. Memory
  BY DEF Inductive
<1>1. ASSUME NEW d \in Durable, Load(d) PROVE ReceiptStep(op)
  <2>1. journal'[d] = Recovered(d) /\ \A o \in Durable \ {d} : journal'[o] = journal[o]
    BY <1>0, <1>1, LoadFacts
  <2>2. Recovered(op) \in Record
    BY <1>0, RecoveredType
  <2> QED BY <2>1, <2>2, NothingAssumption DEF ReceiptStep
<1>2. ASSUME journal' = journal PROVE ReceiptStep(op)
  BY <1>2 DEF ReceiptStep
<1>3. ASSUME NEW c \in Calls, Submit(c) PROVE ReceiptStep(op)
  <2>1. ASSUME NEW d \in Durable, NEW request \in Requests, NEW options \in Options,
               AcceptDurable(c, d, request, options)
        PROVE  ReceiptStep(op)
    <3>1. CASE d = op
      BY <1>0, <2>1, <3>1, AcceptReceipt DEF ReceiptStep
    <3>2. CASE d # op
      <4>1. journal'[op] = journal[op]
        BY <1>0, <2>1, <3>2 DEF AcceptDurable, Publish, Memory, MemoryTypeOK
      <4> QED BY <4>1 DEF ReceiptStep
    <3> QED BY <3>1, <3>2
  <2>2. ASSUME NEW d \in Volatile, AcceptVolatile(c, d) PROVE ReceiptStep(op)
    <3>1. d \notin Durable
      BY OperationsAssumption
    <3> QED BY <1>2, <2>2, <3>1 DEF AcceptVolatile, Publish
  <2> QED BY <1>3, <2>1, <2>2 DEF Submit
<1>4. ASSUME NEW c \in Calls, Worker(c) \/ Progress(c) PROVE ReceiptStep(op)
  <2>1. CASE \/ Begin(c) \/ PublishCompleted(c) \/ PublishFailed(c)
             \/ \E percent \in Reports : Report(c, percent)
    BY <1>0, <2>1, WorkerReceipt
  <2>2. CASE \/ StartThread(c) \/ StartFails(c) \/ BeginFails(c) \/ WorkReturns(c) \/ OutcomeLost(c)
             \/ Cleanup(c) \/ ReportFails(c) \/ \E retryable \in BOOLEAN : WorkRaises(c, retryable)
    BY <1>2, <2>2 DEF StartThread, StartFails, BeginFails, WorkReturns, OutcomeLost, Cleanup, ReportFails, WorkRaises
  <2> QED BY <1>4, <2>1, <2>2 DEF Worker, Progress
<1>5. ASSUME NEW d \in Volatile, CompleteLocal(d) PROVE ReceiptStep(op)
  <2>1. d \notin Durable
    BY OperationsAssumption
  <2> QED BY <1>2, <1>5, <2>1 DEF CompleteLocal, Publish
<1>6. ASSUME NEW d \in Core, RegisterCore(d) PROVE ReceiptStep(op)
  BY <1>2, <1>6 DEF RegisterCore
<1>7. ASSUME NEW s \in Streams, NEW d \in Durable \cup Volatile, Connect(s, d) PROVE ReceiptStep(op)
  BY <1>1, <1>2, <1>7 DEF Connect
<1>8. ASSUME NEW s \in Streams, Read(s) PROVE ReceiptStep(op)
  BY <1>1, <1>2, <1>8 DEF Read
<1>9. ASSUME NEW s \in Streams, Send(s) \/ Vanished(s) \/ ReadFails(s) \/ Disconnect(s) PROVE ReceiptStep(op)
  BY <1>2, <1>9 DEF Send, Vanished, ReadFails, Disconnect
<1>10. CASE Restart \/ UNCHANGED vars
  BY <1>2, <1>10 DEF Restart, vars
<1>11. ASSUME NEW d \in Durable, Look(d) PROVE ReceiptStep(op)
  BY <1>1, <1>11 DEF Look
<1> QED BY <1>3, <1>4, <1>5, <1>6, <1>7, <1>8, <1>9, <1>10, <1>11 DEF Next, Streaming

\* No retry, late publication, recovery or restart changes a completed receipt.
THEOREM CompletedStaysFinal == Spec => CompletedIsFinal
<1>1. ASSUME Inductive, [Next]_vars, NEW op \in Durable,
             journal[op] # NoJournal, journal[op].receipt.status = "completed"
      PROVE  journal'[op] = journal[op]
  <2>1. ReceiptStep(op)
    BY <1>1, ReceiptSteps
  <2>2. ~Live(journal[op]) /\ Recovered(op) = journal[op]
    BY <1>1 DEF Live, LiveStatuses, Recovered, Orphaned
  <2>3. Answered(op, Recovered(op).receipt)
    BY <1>1, <2>2 DEF Answered
  <2> QED BY <2>1, <2>2, <2>3 DEF ReceiptStep, Reaccepts, Republishes
<1>2. Inductive /\ [Next]_vars =>
        [\A op \in Durable :
           journal[op] # NoJournal /\ journal[op].receipt.status = "completed" => journal'[op] = journal[op]]_vars
  BY <1>1
<1> QED BY <1>2, InductiveInvariant, PTL DEF Spec, CompletedIsFinal

\* Every attempt runs with the request and the options that were accepted first.
THEOREM ClaimStaysPinned == Spec => ClaimIsPinned
<1>1. ASSUME Inductive, [Next]_vars, NEW op \in Durable, journal[op] # NoJournal
      PROVE  /\ journal'[op] # NoJournal
             /\ journal'[op].receipt.request = journal[op].receipt.request
             /\ journal'[op].receipt.options = journal[op].receipt.options
  <2>1. ReceiptStep(op) /\ Memory
    BY <1>1, ReceiptSteps DEF Inductive
  <2>2. /\ Recovered(op).receipt.request = journal[op].receipt.request
        /\ Recovered(op).receipt.options = journal[op].receipt.options
    BY <1>1, <2>1, RecoveredType
  <2>3. Reaccepts(op) => /\ journal'[op].receipt.request = Recovered(op).receipt.request
                         /\ journal'[op].receipt.options = Recovered(op).receipt.options
    BY DEF Reaccepts, NewReceipt
  <2> QED BY <2>1, <2>2, <2>3 DEF ReceiptStep, Republishes
<1>2. Inductive /\ [Next]_vars =>
        [\A op \in Durable : journal[op] # NoJournal =>
           /\ journal'[op] # NoJournal
           /\ journal'[op].receipt.request = journal[op].receipt.request
           /\ journal'[op].receipt.options = journal[op].receipt.options]_vars
  BY <1>1
<1> QED BY <1>2, InductiveInvariant, PTL DEF Spec, ClaimIsPinned


-----------------------------------------------------------------------------
(* What a receipt's events say: the shape every record of the journal has, *)
(* and how a later record of an operation extends an earlier one           *)

Contiguous(events) ==
  \A i \in DOMAIN events : events[i].sequence + (Len(events) - i) = LastSequence(events)

Shaped(record) ==
  /\ record.events # <<>>
  /\ Contiguous(record.events)
  /\ record.events[Len(record.events)].status = record.receipt.status

\* The record a receipt is published with, after the events kept so far.
Told(events, receipt) == [receipt |-> receipt, events |-> NextEvents(events, receipt)]

\* A later record shows no other event under a sequence the earlier one covers.
Extended(old, new) ==
  /\ LastSequence(old.events) <= LastSequence(new.events)
  /\ \A i \in DOMAIN new.events :
       new.events[i].sequence <= LastSequence(old.events) =>
         \E j \in DOMAIN old.events : old.events[j] = new.events[i]

\* What publishing a receipt after these events leaves.
Follows(next, events, receipt) ==
  /\ next \in Seq(Event)
  /\ next # <<>>
  /\ next[Len(next)].sequence = LastSequence(events) + 1
  /\ next[Len(next)].status = receipt.status
  /\ \A i \in DOMAIN next : i # Len(next) => \E j \in DOMAIN events : next[i] = events[j]
  /\ LastSequence(next) = LastSequence(events) + 1
  /\ Contiguous(next)

LEMMA NextEventsFacts ==
  ASSUME NEW events \in Seq(Event), NEW receipt \in Receipt, Contiguous(events),
         NEW next, next = NextEvents(events, receipt)
  PROVE  Follows(next, events, receipt)
<1> DEFINE kept == IF Len(events) < Window THEN events ELSE Tail(events)
           new == [sequence |-> LastSequence(events) + 1, status |-> receipt.status, percent |-> receipt.percent]
<1>1. LastSequence(events) \in Nat /\ next \in Seq(Event)
  BY LastSequenceType, NextEventsType
<1>2. new \in Event
  BY <1>1 DEF Event, Receipt
<1>3. next = Append(kept, new)
  BY DEF NextEvents
<1>4. /\ kept \in Seq(Event)
      /\ \A i \in DOMAIN kept : \E j \in DOMAIN events : kept[i] = events[j] /\ Len(events) - j = Len(kept) - i
  <2>1. CASE Len(events) < Window
    BY <2>1
  <2>2. CASE ~(Len(events) < Window)
    <3>1. events # <<>> /\ Len(events) \in Nat \ {0}
      BY <2>2, OperationsAssumption
    <3>2. kept = Tail(events) /\ kept \in Seq(Event) /\ Len(kept) = Len(events) - 1
      BY <2>2, <3>1
    <3>3. \A i \in DOMAIN kept : i + 1 \in DOMAIN events /\ kept[i] = events[i + 1]
      BY <3>1, <3>2
    <3>4. \A i \in DOMAIN kept : Len(events) - (i + 1) = Len(kept) - i
      BY <3>1, <3>2
    <3> QED BY <3>2, <3>3, <3>4
  <2> QED BY <2>1, <2>2
<1> HIDE DEF kept, new
<1>5. /\ Len(next) = Len(kept) + 1 /\ Len(kept) \in Nat
      /\ DOMAIN next = 1..Len(next) /\ DOMAIN kept = 1..Len(kept)
      /\ next[Len(next)] = new
      /\ \A i \in DOMAIN next : i # Len(next) => i \in DOMAIN kept /\ next[i] = kept[i]
  BY <1>2, <1>3, <1>4
<1>6. next # <<>>
  BY <1>5
<1>7. LastSequence(next) = LastSequence(events) + 1
  BY <1>5, <1>6 DEF LastSequence, new
<1>8. \A i \in DOMAIN next : i # Len(next) => \E j \in DOMAIN events : next[i] = events[j]
  BY <1>4, <1>5
<1>9. Contiguous(next)
  <2> SUFFICES ASSUME NEW i \in DOMAIN next
               PROVE  next[i].sequence + (Len(next) - i) = LastSequence(next)
    BY DEF Contiguous
  <2>1. CASE i = Len(next)
    <3>1. next[i].sequence = LastSequence(next) /\ LastSequence(next) \in Nat
      BY <1>1, <1>6, <1>7, <2>1 DEF LastSequence
    <3>2. Len(next) - i = 0
      BY <1>5, <2>1
    <3> QED BY <3>1, <3>2
  <2>2. CASE i # Len(next)
    <3>1. PICK j \in DOMAIN events : next[i] = events[j] /\ Len(events) - j = Len(kept) - i
      BY <1>4, <1>5, <2>2
    <3>2. next[i].sequence + (Len(kept) - i) = LastSequence(events)
      BY <3>1 DEF Contiguous
    <3>3. next[i].sequence \in Nat
      <4>1. next[i] \in Event
        BY <1>1
      <4> QED BY <4>1 DEF Event
    <3>4. i \in Nat /\ Len(next) = Len(kept) + 1 /\ Len(kept) \in Nat
      BY <1>5
    <3>5. next[i].sequence + (Len(next) - i) = LastSequence(events) + 1
      BY <1>1, <3>2, <3>3, <3>4
    <3> QED BY <1>7, <3>5
  <2> QED BY <2>1, <2>2
<1>10. new.sequence = LastSequence(events) + 1 /\ new.status = receipt.status
  BY DEF new
<1> QED BY <1>1, <1>5, <1>6, <1>7, <1>8, <1>9, <1>10 DEF Follows

LEMMA EmptyIsContiguous == Contiguous(<<>>)
BY DEF Contiguous

LEMMA ToldFacts ==
  ASSUME NEW events \in Seq(Event), NEW receipt \in Receipt, Contiguous(events)
  PROVE  Told(events, receipt) \in Record /\ Shaped(Told(events, receipt))
<1>1. Told(events, receipt) \in Record
  BY RecordType DEF Told
<1> DEFINE next == NextEvents(events, receipt)
<1>2. next = NextEvents(events, receipt)
  OBVIOUS
<1> HIDE DEF next
<1>3. Follows(next, events, receipt)
  BY <1>2, NextEventsFacts
<1> QED BY <1>1, <1>2, <1>3 DEF Told, Shaped, Follows

LEMMA ToldExtends ==
  ASSUME NEW old \in Record, Shaped(old), NEW receipt \in Receipt
  PROVE  Extended(old, Told(old.events, receipt))
<1> DEFINE events == old.events
           next == NextEvents(events, receipt)
<1>1. events \in Seq(Event) /\ Contiguous(events)
  BY DEF Record, Shaped
<1>2. Told(events, receipt).events = next
  BY DEF Told
<1>3. next = NextEvents(events, receipt)
  OBVIOUS
<1> HIDE DEF events, next
<1>4. /\ next \in Seq(Event) /\ next # <<>>
      /\ next[Len(next)].sequence = LastSequence(events) + 1
      /\ \A i \in DOMAIN next : i # Len(next) => \E j \in DOMAIN events : next[i] = events[j]
      /\ LastSequence(next) = LastSequence(events) + 1
  <2>1. Follows(next, events, receipt)
    BY <1>1, <1>3, NextEventsFacts
  <2> QED BY <2>1 DEF Follows
<1>5. LastSequence(events) \in Nat
  BY <1>1, LastSequenceType
<1>6. \A i \in DOMAIN next : next[i].sequence <= LastSequence(events) => i # Len(next)
  BY <1>4, <1>5
<1>7. LastSequence(events) <= LastSequence(next)
  BY <1>4, <1>5
<1> QED BY <1>2, <1>4, <1>6, <1>7 DEF Extended, events

LEMMA ExtendedReflexive ==
  ASSUME NEW record \in Record PROVE Extended(record, record)
<1>1. LastSequence(record.events) \in Nat
  BY LastSequenceType DEF Record
<1> QED BY <1>1 DEF Extended

LEMMA ExtendedTransitive ==
  ASSUME NEW a \in Record, NEW b \in Record, NEW c \in Record, Extended(a, b), Extended(b, c)
  PROVE  Extended(a, c)
<1>1. /\ LastSequence(a.events) \in Nat /\ LastSequence(b.events) \in Nat /\ LastSequence(c.events) \in Nat
  BY LastSequenceType DEF Record
<1>2. LastSequence(a.events) <= LastSequence(c.events)
  BY <1>1 DEF Extended
<1>3. ASSUME NEW i \in DOMAIN c.events, c.events[i].sequence <= LastSequence(a.events)
      PROVE  \E j \in DOMAIN a.events : a.events[j] = c.events[i]
  <2>1. c.events[i].sequence \in Nat
    <3>1. c.events \in Seq(Event)
      BY DEF Record
    <3>2. c.events[i] \in Event
      BY <3>1
    <3> QED BY <3>2 DEF Event
  <2>2. c.events[i].sequence <= LastSequence(b.events)
    BY <1>1, <1>3, <2>1 DEF Extended
  <2>3. PICK j \in DOMAIN b.events : b.events[j] = c.events[i]
    BY <2>2 DEF Extended
  <2> QED BY <1>3, <2>3 DEF Extended
<1> QED BY <1>2, <1>3 DEF Extended

-----------------------------------------------------------------------------
(* What each action writes, exactly *)

LEMMA PublishWrites ==
  ASSUME Memory, NEW op \in Durable \cup Volatile, NEW receipt \in Receipt,
         NEW pinned, Publish(op, receipt, pinned),
         NEW record, record = Told(EventsOf(op), receipt)
  PROVE  /\ op \in Durable => journal' = [journal EXCEPT ![op] = record]
         /\ op \notin Durable => journal' = journal
         /\ \A o \in Ops \ {op} : entry'[o] \in {entry[o], NoEntry}
         /\ entry'[op] \in {record, NoEntry}
<1> DEFINE kept == Stored(entry, older, op, record, pinned)
<1>1. record = [receipt |-> receipt, events |-> NextEvents(EventsOf(op), receipt)]
  BY DEF Told
<1>2. op \in Ops /\ record \in Record
  BY <1>1, EventsOfType, RecordType DEF Ops
<1>3. entry \in [Ops -> Cacheable] /\ older \in SUBSET (Ops \X Ops) /\ record \in Cacheable
  BY <1>2 DEF Memory, MemoryTypeOK, Cacheable
<1>4. /\ entry' = kept.entry
      /\ journal' = IF op \in Durable THEN [journal EXCEPT ![op] = record] ELSE journal
  BY <1>1 DEF Publish
<1>5. Keeps(entry, kept, op, record, pinned)
  BY <1>2, <1>3, StoredFacts
<1> HIDE DEF kept
<1> QED BY <1>4, <1>5 DEF Keeps

LEMMA FirstAcceptWrites ==
  ASSUME Memory, NEW c \in Calls, NEW op \in Durable, NEW request \in Requests, NEW options \in Options,
         AcceptDurable(c, op, request, options), journal[op] = NoJournal
  PROVE  /\ NewReceipt(request, options) \in Receipt
         /\ journal' = [journal EXCEPT ![op] = Told(<<>>, NewReceipt(request, options))]
<1> DEFINE receipt == NewReceipt(request, options)
           pinned == active \cup {op}
<1>1. receipt \in Receipt /\ Publish(op, receipt, pinned)
  BY NewReceiptType DEF AcceptDurable
<1>2. entry[op] = NoEntry
  <2>1. op \in Ops /\ op \notin Core
    BY OperationsAssumption DEF Ops
  <2>2. entry[op] # NoEntry => entry[op] \in Record
    BY <2>1 DEF Memory, MemoryTypeOK, SnapshotsAreCore, Cacheable
  <2> QED BY <2>2, NothingAssumption DEF Memory, CacheAgreesWithJournal
<1>3. EventsOf(op) = <<>>
  BY <1>2 DEF EventsOf
<1> HIDE DEF receipt, pinned
<1>4. journal' = [journal EXCEPT ![op] = Told(EventsOf(op), receipt)]
  BY <1>1, PublishWrites
<1> QED BY <1>1, <1>3, <1>4 DEF receipt

LEMMA NextAcceptWrites ==
  ASSUME Memory, NEW c \in Calls, NEW op \in Durable, NEW request \in Requests, NEW options \in Options,
         AcceptDurable(c, op, request, options), journal[op] # NoJournal,
         NEW receipt, receipt = NewReceipt(request, Recovered(op).receipt.options)
  PROVE  /\ receipt \in Receipt
         /\ Recovered(op).receipt.request = request
         /\ ~Answered(op, Recovered(op).receipt)
         /\ journal' = [journal EXCEPT ![op] = Told(Recovered(op).events, receipt)]
<1>1. Recovered(op).receipt.options \in Options \cup {NoOptions}
  BY RecoveredType DEF Receipt
<1>2. receipt \in Receipt
  BY <1>1, NewReceiptType
<1> QED BY <1>2 DEF AcceptDurable, Told

\* What a worker may publish, by where it stands.
Outcome(c, status, percent, retryable) ==
  \/ call[c].pc = "queued" /\ status = "running" /\ percent = 1 /\ retryable = FALSE
  \/ call[c].pc = "working" /\ status = "running" /\ retryable = FALSE
  \/ call[c].pc = "returned" /\ status = "completed" /\ percent = 100 /\ retryable = FALSE
  \/ call[c].pc = "failing" /\ status = "failed" /\ percent = 0

Publishing(c) ==
  \/ Begin(c) \/ PublishCompleted(c) \/ PublishFailed(c)
  \/ \E percent \in Reports : Report(c, percent)

LEMMA PublishingUpdates ==
  ASSUME Memory, NEW c \in Calls, Publishing(c)
  PROVE  \E status \in Statuses, percent \in 0..100, retryable \in BOOLEAN :
           Outcome(c, status, percent, retryable) /\ Update(c, status, percent, retryable)
<1>1. 0 \in 0..100 /\ 1 \in 0..100 /\ 100 \in 0..100
  OBVIOUS
<1>2. "running" \in Statuses /\ "completed" \in Statuses /\ "failed" \in Statuses
  BY DEF Statuses
<1>3. CASE Begin(c)
  <2>1. Outcome(c, "running", 1, FALSE) /\ Update(c, "running", 1, FALSE)
    BY <1>3 DEF Begin, Moved, Outcome
  <2> QED BY <1>1, <1>2, <2>1
<1>4. CASE PublishCompleted(c)
  <2>1. Outcome(c, "completed", 100, FALSE) /\ Update(c, "completed", 100, FALSE)
    BY <1>4 DEF PublishCompleted, Moved, Outcome
  <2> QED BY <1>1, <1>2, <2>1
<1>5. CASE PublishFailed(c)
  <2> DEFINE lasting == call[c].retryable
  <2>1. lasting \in BOOLEAN
    BY DEF Memory, MemoryTypeOK
  <2>2. Outcome(c, "failed", 0, lasting) /\ Update(c, "failed", 0, lasting)
    BY <1>5 DEF PublishFailed, Moved, Outcome
  <2> HIDE DEF lasting
  <2> QED BY <1>1, <1>2, <2>1, <2>2
<1>6. ASSUME NEW percent \in Reports, Report(c, percent)
      PROVE  \E status \in Statuses, p \in 0..100, retryable \in BOOLEAN :
               Outcome(c, status, p, retryable) /\ Update(c, status, p, retryable)
  <2>1. percent \in 0..100
    BY OperationsAssumption
  <2>2. Outcome(c, "running", percent, FALSE) /\ Update(c, "running", percent, FALSE)
    BY <1>6 DEF Report, Outcome
  <2> QED BY <1>2, <2>1, <2>2
<1> QED BY <1>3, <1>4, <1>5, <1>6 DEF Publishing

\* What an update by call c of its identity own writes.
UpdateWritten(c, own, receipt) ==
  /\ own \in Durable \cup Volatile
  /\ own \in active
  /\ entry[own] \in Record
  /\ receipt \in Receipt
  /\ entry[own].receipt.status = (IF call[c].pc = "queued" THEN "pending" ELSE "running")
  /\ own \in Durable => /\ entry[own] = journal[own]
                        /\ journal' = [journal EXCEPT ![own] = Told(journal[own].events, receipt)]
  /\ own \notin Durable => journal' = journal
  /\ \A o \in Ops \ {own} : entry'[o] \in {entry[o], NoEntry}
  /\ entry'[own] \in {Told(entry[own].events, receipt), NoEntry}
  /\ UNCHANGED <<active, committed, stream>>

LEMMA UpdateWrites ==
  ASSUME Memory, NEW c \in Calls,
         NEW status \in Statuses, NEW percent \in 0..100, NEW retryable \in BOOLEAN,
         Outcome(c, status, percent, retryable), Update(c, status, percent, retryable),
         NEW own, own = call[c].op,
         NEW receipt, receipt = Updated(entry[own].receipt, status, percent, retryable)
  PROVE  UpdateWritten(c, own, receipt)
<1>1. call[c].pc \in {"queued", "working", "returned", "failing"}
  BY DEF Outcome
<1>2. /\ own \in Durable \cup Volatile
      /\ own \in active
      /\ entry[own] \in Record
      /\ own \in Durable => entry[own] = journal[own]
  BY <1>1, BusyFacts
<1>3. entry[own].receipt.status = (IF call[c].pc = "queued" THEN "pending" ELSE "running")
  BY <1>1 DEF Memory, WorkerOwnsReceipt
<1>4. receipt \in Receipt
  <2> DEFINE old == entry[own].receipt
  <2>1. old \in Receipt
    BY <1>2 DEF Record
  <2> HIDE DEF old
  <2>2. Updated(old, status, percent, retryable) \in Receipt
    BY <2>1, UpdatedType, ZenonT(60)
  <2> QED BY <2>2 DEF old
<1>5. Publish(own, receipt, active) /\ UNCHANGED <<active, committed, stream>>
  BY DEF Update
<1>6. EventsOf(own) = entry[own].events
  BY <1>2, NothingAssumption DEF EventsOf
<1>7. /\ own \in Durable => journal' = [journal EXCEPT ![own] = Told(EventsOf(own), receipt)]
      /\ own \notin Durable => journal' = journal
      /\ \A o \in Ops \ {own} : entry'[o] \in {entry[o], NoEntry}
      /\ entry'[own] \in {Told(EventsOf(own), receipt), NoEntry}
  BY <1>2, <1>4, <1>5, PublishWrites
<1> QED BY <1>2, <1>3, <1>4, <1>5, <1>6, <1>7 DEF UpdateWritten

LEMMA UpdatedFields ==
  ASSUME NEW receipt \in Receipt, NEW status, NEW percent, NEW retryable
  PROVE  Updated(receipt, status, percent, retryable)
           = [status |-> status, request |-> receipt.request, options |-> receipt.options,
              percent |-> Greater(receipt.percent, percent), retryable |-> retryable]
<1> DEFINE a == [receipt EXCEPT !.status = status]
           b == [a EXCEPT !.percent = Greater(receipt.percent, percent)]
           c == [b EXCEPT !.retryable = retryable]
<1>1. receipt = [status |-> receipt.status, request |-> receipt.request, options |-> receipt.options,
                 percent |-> receipt.percent, retryable |-> receipt.retryable]
  BY DEF Receipt
<1>2. a = [status |-> status, request |-> receipt.request, options |-> receipt.options,
           percent |-> receipt.percent, retryable |-> receipt.retryable]
  BY <1>1
<1>3. Updated(receipt, status, percent, retryable) = c
  BY <1>2, Zenon DEF Updated
<1> HIDE DEF a, b, c
<1>4. b = [status |-> status, request |-> receipt.request, options |-> receipt.options,
           percent |-> Greater(receipt.percent, percent), retryable |-> receipt.retryable]
  BY <1>2 DEF b
<1> QED BY <1>3, <1>4 DEF c

\* The events a publication continues.
Base(op) == IF journal[op] = NoJournal THEN <<>> ELSE Recovered(op).events

\* The journal of one operation is kept, recovered or published anew, and a
\* completion is published for work that has returned.
JournalStep(op) ==
  \/ journal'[op] = journal[op]
  \/ journal[op] # NoJournal /\ journal'[op] = Recovered(op)
  \/ \E receipt \in Receipt :
       /\ journal'[op] = Told(Base(op), receipt)
       /\ receipt.status \in LiveStatuses => ~receipt.retryable
       /\ receipt.status = "completed" => \E c \in Calls : call[c].pc = "returned" /\ call[c].op = op

LEMMA NewReceiptFields ==
  ASSUME NEW request, NEW options
  PROVE  NewReceipt(request, options).status = "pending" /\ NewReceipt(request, options).retryable = FALSE
BY DEF NewReceipt

LEMMA AcceptJournalStep ==
  ASSUME Memory, NEW c \in Calls, NEW d \in Durable, NEW request \in Requests, NEW options \in Options,
         AcceptDurable(c, d, request, options), NEW op \in Durable
  PROVE  JournalStep(op)
<1>1. journal \in [Durable -> Record \cup {NoJournal}]
  BY DEF Memory, MemoryTypeOK
<1>2. CASE journal[d] = NoJournal
  <2>1. /\ NewReceipt(request, options) \in Receipt
        /\ journal' = [journal EXCEPT ![d] = Told(<<>>, NewReceipt(request, options))]
    BY <1>2, FirstAcceptWrites
  <2> QED BY <1>1, <1>2, <2>1, NewReceiptFields DEF JournalStep, Base
<1>3. CASE journal[d] # NoJournal
  <2> DEFINE receipt == NewReceipt(request, Recovered(d).receipt.options)
  <2>1. receipt = NewReceipt(request, Recovered(d).receipt.options) /\ receipt.status = "pending" /\ receipt.retryable = FALSE
    BY NewReceiptFields
  <2> HIDE DEF receipt
  <2>2. receipt \in Receipt /\ journal' = [journal EXCEPT ![d] = Told(Recovered(d).events, receipt)]
    BY <1>3, <2>1, NextAcceptWrites
  <2> QED BY <1>1, <1>3, <2>1, <2>2 DEF JournalStep, Base
<1> QED BY <1>2, <1>3

LEMMA PublishingJournalStep ==
  ASSUME Memory, NEW c \in Calls, Publishing(c), NEW op \in Durable
  PROVE  JournalStep(op)
<1>1. PICK status \in Statuses, percent \in 0..100, retryable \in BOOLEAN :
        Outcome(c, status, percent, retryable) /\ Update(c, status, percent, retryable)
  BY PublishingUpdates
<1>2. PICK own, receipt : own = call[c].op /\ receipt = Updated(entry[own].receipt, status, percent, retryable)
  OBVIOUS
<1>3. /\ own \in Durable \cup Volatile
      /\ own \in active
      /\ entry[own] \in Record
      /\ receipt \in Receipt
      /\ own \in Durable => /\ entry[own] = journal[own]
                            /\ journal' = [journal EXCEPT ![own] = Told(journal[own].events, receipt)]
      /\ own \notin Durable => journal' = journal
  <2>1. UpdateWritten(c, own, receipt)
    BY <1>1, <1>2, UpdateWrites
  <2> QED BY <2>1 DEF UpdateWritten
<1>4. journal \in [Durable -> Record \cup {NoJournal}]
  BY DEF Memory, MemoryTypeOK
<1>5. CASE own # op
  BY <1>3, <1>4, <1>5 DEF JournalStep
<1>6. CASE own = op
  <2>1. journal[op] \in Record /\ journal'[op] = Told(journal[op].events, receipt)
    BY <1>3, <1>4, <1>6
  <2>2. Base(op) = journal[op].events
    BY <1>3, <1>6, <2>1, NothingAssumption DEF Base, Recovered, Orphaned
  <2>3. receipt.status = status /\ receipt.retryable = retryable
    <3> DEFINE old == entry[own].receipt
    <3>1. old \in Receipt
      BY <1>3 DEF Record
    <3>2. receipt = Updated(old, status, percent, retryable)
      BY <1>2
    <3> HIDE DEF old
    <3> QED BY <3>1, <3>2, UpdatedFields
  <2>4. /\ status \in LiveStatuses => retryable = FALSE
        /\ status = "completed" => call[c].pc = "returned"
    BY <1>1 DEF Outcome, LiveStatuses
  <2> QED BY <1>2, <1>3, <1>6, <2>1, <2>2, <2>3, <2>4 DEF JournalStep
<1> QED BY <1>5, <1>6

LEMMA JournalSteps ==
  ASSUME Inductive, [Next]_vars, NEW op \in Durable
  PROVE  JournalStep(op)
<1>0. Memory /\ journal \in [Durable -> Record \cup {NoJournal}]
  BY DEF Inductive, Memory, MemoryTypeOK
<1>1. ASSUME NEW d \in Durable, Load(d) PROVE JournalStep(op)
  BY <1>0, <1>1 DEF JournalStep, Load
<1>2. ASSUME journal' = journal PROVE JournalStep(op)
  BY <1>2 DEF JournalStep
<1>3. ASSUME NEW c \in Calls, Submit(c) PROVE JournalStep(op)
  <2>1. ASSUME NEW d \in Volatile, AcceptVolatile(c, d) PROVE JournalStep(op)
    <3>1. d \notin Durable
      BY OperationsAssumption
    <3> QED BY <1>2, <2>1, <3>1 DEF AcceptVolatile, Publish
  <2> QED BY <1>0, <1>3, <2>1, AcceptJournalStep DEF Submit
<1>4. ASSUME NEW c \in Calls, Worker(c) \/ Progress(c) PROVE JournalStep(op)
  <2>1. CASE Publishing(c)
    BY <1>0, <2>1, PublishingJournalStep
  <2>2. CASE \/ StartThread(c) \/ StartFails(c) \/ BeginFails(c) \/ WorkReturns(c) \/ OutcomeLost(c)
             \/ Cleanup(c) \/ ReportFails(c) \/ \E retryable \in BOOLEAN : WorkRaises(c, retryable)
    BY <1>2, <2>2 DEF StartThread, StartFails, BeginFails, WorkReturns, OutcomeLost, Cleanup, ReportFails, WorkRaises
  <2> QED BY <1>4, <2>1, <2>2 DEF Worker, Progress, Publishing
<1>5. ASSUME NEW d \in Volatile, CompleteLocal(d) PROVE JournalStep(op)
  <2>1. d \notin Durable
    BY OperationsAssumption
  <2> QED BY <1>2, <1>5, <2>1 DEF CompleteLocal, Publish
<1>6. ASSUME NEW d \in Core, RegisterCore(d) PROVE JournalStep(op)
  BY <1>2, <1>6 DEF RegisterCore
<1>7. ASSUME NEW s \in Streams, NEW d \in Durable \cup Volatile, Connect(s, d) PROVE JournalStep(op)
  BY <1>1, <1>2, <1>7 DEF Connect
<1>8. ASSUME NEW s \in Streams, Read(s) PROVE JournalStep(op)
  BY <1>1, <1>2, <1>8 DEF Read
<1>9. ASSUME NEW s \in Streams, Send(s) \/ Vanished(s) \/ ReadFails(s) \/ Disconnect(s) PROVE JournalStep(op)
  BY <1>2, <1>9 DEF Send, Vanished, ReadFails, Disconnect
<1>10. CASE Restart \/ UNCHANGED vars
  BY <1>2, <1>10 DEF Restart, vars
<1>11. ASSUME NEW d \in Durable, Look(d) PROVE JournalStep(op)
  BY <1>1, <1>11 DEF Look
<1> QED BY <1>3, <1>4, <1>5, <1>6, <1>7, <1>8, <1>9, <1>10, <1>11 DEF Next, Streaming

-----------------------------------------------------------------------------
(* The journal's records: shape, extension, and no retryable live receipt  *)

JournalShaped == \A op \in Durable : journal[op] # NoJournal => Shaped(journal[op])

LiveIsNotRetryable == \A op \in Durable : Live(journal[op]) => ~journal[op].receipt.retryable

Journals == Inductive /\ JournalShaped /\ LiveIsNotRetryable

LEMMA RecoveredFacts ==
  ASSUME Journals, NEW op \in Durable, journal[op] # NoJournal
  PROVE  /\ Recovered(op) \in Record
         /\ Shaped(Recovered(op))
         /\ Extended(journal[op], Recovered(op))
         /\ Live(Recovered(op)) => Recovered(op) = journal[op]
<1>1. Memory /\ journal[op] \in Record /\ Shaped(journal[op])
  BY DEF Journals, Inductive, Memory, MemoryTypeOK, JournalShaped
<1>2. CASE ~Orphaned(op)
  BY <1>1, <1>2, ExtendedReflexive DEF Recovered
<1>3. CASE Orphaned(op)
  <2> DEFINE receipt == [journal[op].receipt EXCEPT !.status = "interrupted"]
  <2>1. journal[op].receipt \in Receipt /\ journal[op].events \in Seq(Event) /\ Contiguous(journal[op].events)
    BY <1>1 DEF Record, Shaped
  <2>2. receipt \in Receipt /\ receipt.status = "interrupted"
    BY <2>1 DEF Receipt, Statuses
  <2>3. Recovered(op) = Told(journal[op].events, receipt)
    BY <1>3 DEF Recovered, Interrupted, Told
  <2> HIDE DEF receipt
  <2>4. Shaped(Recovered(op)) /\ Recovered(op) \in Record
    BY <2>1, <2>2, <2>3, ToldFacts
  <2>5. Extended(journal[op], Recovered(op))
    BY <1>1, <2>2, <2>3, ToldExtends
  <2>6. Recovered(op).receipt = receipt
    BY <2>3 DEF Told
  <2> QED BY <2>2, <2>4, <2>5, <2>6 DEF Live, LiveStatuses
<1> QED BY <1>2, <1>3

\* What one step does to the record of one operation.
LEMMA RecordSteps ==
  ASSUME Journals, [Next]_vars, NEW op \in Durable
  PROVE  /\ journal'[op] # NoJournal => journal'[op] \in Record /\ Shaped(journal'[op])
         /\ journal[op] # NoJournal => journal'[op] # NoJournal /\ Extended(journal[op], journal'[op])
         /\ Live(journal'[op]) => ~journal'[op].receipt.retryable
<1>1. JournalStep(op)
  BY JournalSteps DEF Journals
<1>2. journal[op] # NoJournal => journal[op] \in Record /\ Shaped(journal[op])
  BY DEF Journals, Inductive, Memory, MemoryTypeOK, JournalShaped
<1>3. Live(journal[op]) => ~journal[op].receipt.retryable
  BY DEF Journals, LiveIsNotRetryable
<1>4. CASE journal'[op] = journal[op]
  BY <1>2, <1>3, <1>4, ExtendedReflexive DEF Live
<1>5. CASE journal[op] # NoJournal /\ journal'[op] = Recovered(op)
  <2>1. /\ Recovered(op) \in Record /\ Shaped(Recovered(op))
        /\ Extended(journal[op], Recovered(op))
        /\ Live(Recovered(op)) => Recovered(op) = journal[op]
    BY <1>5, RecoveredFacts
  <2> QED BY <1>3, <1>5, <2>1, NothingAssumption
<1>6. ASSUME NEW receipt \in Receipt, journal'[op] = Told(Base(op), receipt),
             receipt.status \in LiveStatuses => ~receipt.retryable
      PROVE  /\ journal'[op] \in Record /\ Shaped(journal'[op])
             /\ journal[op] # NoJournal => Extended(journal[op], journal'[op])
             /\ Live(journal'[op]) => ~journal'[op].receipt.retryable
  <2>1. journal'[op].receipt = receipt
    BY <1>6 DEF Told
  <2>2. Live(journal'[op]) => ~journal'[op].receipt.retryable
    BY <1>6, <2>1 DEF Live
  <2>3. CASE journal[op] = NoJournal
    <3>1. Base(op) = <<>> /\ <<>> \in Seq(Event)
      BY <2>3 DEF Base
    <3> QED BY <1>6, <2>2, <2>3, <3>1, ToldFacts, EmptyIsContiguous
  <2>4. CASE journal[op] # NoJournal
    <3>1. Base(op) = Recovered(op).events
      BY <2>4 DEF Base
    <3>2. /\ Recovered(op) \in Record /\ Shaped(Recovered(op))
          /\ Extended(journal[op], Recovered(op))
      BY <2>4, RecoveredFacts
    <3>3. Recovered(op).events \in Seq(Event) /\ Contiguous(Recovered(op).events)
      BY <3>2 DEF Record, Shaped
    <3>4. journal'[op] \in Record /\ Shaped(journal'[op])
      BY <1>6, <3>1, <3>3, ToldFacts
    <3>5. Extended(Recovered(op), journal'[op])
      BY <1>6, <3>1, <3>2, ToldExtends
    <3> QED BY <1>2, <2>2, <2>4, <3>2, <3>4, <3>5, ExtendedTransitive
  <2> QED BY <2>3, <2>4
<1> QED BY <1>1, <1>4, <1>5, <1>6, NothingAssumption DEF JournalStep

LEMMA JournalsInvariant == Spec => []Journals
<1>1. Init => Journals
  BY InitInductive DEF Init, Journals, JournalShaped, LiveIsNotRetryable, Live
<1>2. Journals /\ [Next]_vars => Journals'
  <2> SUFFICES ASSUME Journals, [Next]_vars PROVE Journals'
    OBVIOUS
  <2>1. Inductive'
    BY NextInductive DEF Journals
  <2>2. JournalShaped' /\ LiveIsNotRetryable'
    BY RecordSteps DEF JournalShaped, LiveIsNotRetryable
  <2> QED BY <2>1, <2>2 DEF Journals
<1> QED BY <1>1, <1>2, PTL DEF Spec

-----------------------------------------------------------------------------
(* LocalOperations implements OperationReceipt: each write of the journal  *)
(* is one step of the promise, and everything else a stutter or a release  *)

\* The state of the promise.
Answers == [op \in Durable |-> IF journal[op] = NoJournal THEN NoJournal ELSE journal[op].receipt]
Claims == active \cap Durable

LEMMA AnswersOf ==
  ASSUME Memory, NEW op \in Durable
  PROVE  /\ journal[op] = NoJournal => Answers[op] = NoJournal
         /\ journal[op] # NoJournal => /\ Answers[op] = journal[op].receipt
                                       /\ Answers[op] \in Receipt
                                       /\ Answers[op] # NoJournal
<1>1. journal[op] # NoJournal => journal[op].receipt \in Receipt
  BY DEF Memory, MemoryTypeOK, Record
<1> QED BY <1>1, NothingAssumption DEF Answers

LEMMA WriteAnswers ==
  ASSUME Memory, NEW op \in Durable, NEW record \in Record, journal' = [journal EXCEPT ![op] = record]
  PROVE  Answers' = [Answers EXCEPT ![op] = record.receipt]
<1>1. journal \in [Durable -> Record \cup {NoJournal}]
  BY DEF Memory, MemoryTypeOK
<1>2. \A d \in Durable : journal'[d] = IF d = op THEN record ELSE journal[d]
  BY <1>1
<1>3. record # NoJournal
  BY NothingAssumption
<1>4. \A d \in Durable : Answers'[d] = IF d = op THEN record.receipt ELSE Answers[d]
  BY <1>2, <1>3 DEF Answers
<1>5. Answers' = [d \in Durable |-> Answers'[d]] /\ Answers = [d \in Durable |-> Answers[d]]
  BY DEF Answers
<1> QED BY <1>4, <1>5

LEMMA Stutters ==
  ASSUME journal' = journal, Claims' = Claims
  PROVE  UNCHANGED Promise!vars
BY DEF Promise!vars, Claims

LEMMA Releases ==
  ASSUME journal' = journal, NEW ended, active' = active \ ended
  PROVE  Promise!Next
<1> DEFINE released == ended \cap (active \cap Durable)
<1>1. released \in SUBSET (active \cap Durable)
  OBVIOUS
<1>2. Promise!Release(released)
  BY DEF Promise!Release
<1> QED BY <1>1, <1>2 DEF Promise!Next

LEMMA FieldsOfReceipt ==
  ASSUME NEW receipt \in Receipt
  PROVE  receipt = [status |-> receipt.status, request |-> receipt.request, options |-> receipt.options,
                    percent |-> receipt.percent, retryable |-> receipt.retryable]
BY DEF Receipt

\* A receipt with some of its fields replaced.
LEMMA StatusReplaced ==
  ASSUME NEW receipt \in Receipt, NEW status
  PROVE  [receipt EXCEPT !.status = status]
           = [status |-> status, request |-> receipt.request, options |-> receipt.options,
              percent |-> receipt.percent, retryable |-> receipt.retryable]
BY FieldsOfReceipt

LEMMA ProgressReplaced ==
  ASSUME NEW receipt \in Receipt, NEW status, NEW percent
  PROVE  [receipt EXCEPT !.status = status, !.percent = percent]
           = [status |-> status, request |-> receipt.request, options |-> receipt.options,
              percent |-> percent, retryable |-> receipt.retryable]
<1> DEFINE a == [receipt EXCEPT !.status = status]
           b == [a EXCEPT !.percent = percent]
<1>1. [receipt EXCEPT !.status = status, !.percent = percent] = b
  BY Zenon
<1>2. a = [status |-> status, request |-> receipt.request, options |-> receipt.options,
           percent |-> receipt.percent, retryable |-> receipt.retryable]
  BY StatusReplaced
<1> HIDE DEF a
<1>3. b = [status |-> status, request |-> receipt.request, options |-> receipt.options,
           percent |-> percent, retryable |-> receipt.retryable]
  BY <1>2
<1> QED BY <1>1, <1>3, Zenon

LEMMA FailureReplaced ==
  ASSUME NEW receipt \in Receipt, NEW status, NEW retryable
  PROVE  [receipt EXCEPT !.status = status, !.retryable = retryable]
           = [status |-> status, request |-> receipt.request, options |-> receipt.options,
              percent |-> receipt.percent, retryable |-> retryable]
<1> DEFINE a == [receipt EXCEPT !.status = status]
           b == [a EXCEPT !.retryable = retryable]
<1>1. [receipt EXCEPT !.status = status, !.retryable = retryable] = b
  BY Zenon
<1>2. a = [status |-> status, request |-> receipt.request, options |-> receipt.options,
           percent |-> receipt.percent, retryable |-> receipt.retryable]
  BY StatusReplaced
<1> HIDE DEF a
<1>3. b = [status |-> status, request |-> receipt.request, options |-> receipt.options,
           percent |-> receipt.percent, retryable |-> retryable]
  BY <1>2
<1> QED BY <1>1, <1>3, Zenon

LEMMA AttemptReplaced ==
  ASSUME NEW receipt \in Receipt, NEW status, NEW percent, NEW retryable
  PROVE  [receipt EXCEPT !.status = status, !.percent = percent, !.retryable = retryable]
           = [status |-> status, request |-> receipt.request, options |-> receipt.options,
              percent |-> percent, retryable |-> retryable]
<1> DEFINE a == [receipt EXCEPT !.status = status, !.percent = percent]
           b == [a EXCEPT !.retryable = retryable]
<1>1. [receipt EXCEPT !.status = status, !.percent = percent, !.retryable = retryable] = b
  BY Zenon
<1>2. a = [status |-> status, request |-> receipt.request, options |-> receipt.options,
           percent |-> percent, retryable |-> receipt.retryable]
  BY ProgressReplaced, Zenon
<1> HIDE DEF a
<1>3. b = [status |-> status, request |-> receipt.request, options |-> receipt.options,
           percent |-> percent, retryable |-> retryable]
  BY <1>2
<1> QED BY <1>1, <1>3, Zenon

LEMMA LoadInterrupts ==
  ASSUME Memory, NEW op \in Durable, Load(op), UNCHANGED active
  PROVE  Promise!Next \/ UNCHANGED Promise!vars
<1>1. journal[op] # NoJournal /\ journal' = [journal EXCEPT ![op] = Recovered(op)]
  BY DEF Load
<1>2. Recovered(op) \in Record
  BY <1>1, RecoveredType
<1>3. CASE ~Orphaned(op)
  <2>1. journal' = journal
    BY <1>1, <1>3 DEF Recovered, Memory, MemoryTypeOK
  <2> QED BY <2>1, Stutters DEF Claims
<1>4. CASE Orphaned(op)
  <2>1. Recovered(op).receipt = [Answers[op] EXCEPT !.status = "interrupted"]
    BY <1>1, <1>4, AnswersOf DEF Recovered, Interrupted
  <2>2. Answers' = [Answers EXCEPT ![op] = [Answers[op] EXCEPT !.status = "interrupted"]]
    BY <1>1, <1>2, <2>1, WriteAnswers
  <2>3. Answers[op] # NoJournal /\ Answers[op].status \in LiveStatuses /\ op \notin Claims /\ Claims' = Claims
    BY <1>1, <1>4, AnswersOf DEF Orphaned, Live, Claims
  <2>4. Promise!Interrupt(op)
    BY <2>2, <2>3 DEF Promise!Interrupt, Answers, Claims, LiveStatuses, Promise!LiveStatuses
  <2> QED BY <2>4 DEF Promise!Next
<1> QED BY <1>3, <1>4

LEMMA AcceptAccepts ==
  ASSUME Memory, NEW c \in Calls, NEW op \in Durable, NEW request \in Requests, NEW options \in Options,
         AcceptDurable(c, op, request, options)
  PROVE  Promise!Accept(op, request, options)
<1>1. active' = active \cup {op} /\ Claims' = Claims \cup {op}
  BY DEF AcceptDurable, Claims
<1>2. CASE journal[op] = NoJournal
  <2>1. /\ NewReceipt(request, options) \in Receipt
        /\ journal' = [journal EXCEPT ![op] = Told(<<>>, NewReceipt(request, options))]
    BY <1>2, FirstAcceptWrites
  <2>2. Told(<<>>, NewReceipt(request, options)) \in Record
    <3>1. <<>> \in Seq(Event)
      OBVIOUS
    <3> QED BY <2>1, <3>1, ToldFacts, EmptyIsContiguous
  <2>3. Answers' = [Answers EXCEPT ![op] = NewReceipt(request, options)]
    BY <2>1, <2>2, WriteAnswers DEF Told
  <2>4. Answers[op] = NoJournal /\ op \notin Claims
    BY <1>2, AnswersOf, UncachedIsIdle DEF Claims
  <2> QED BY <1>1, <2>3, <2>4 DEF Promise!Accept, Answers, Claims, NewReceipt
<1>3. CASE journal[op] # NoJournal
  <2> DEFINE found == Recovered(op).receipt
             receipt == NewReceipt(request, found.options)
  <2>1. receipt = NewReceipt(request, Recovered(op).receipt.options)
    OBVIOUS
  <2> HIDE DEF receipt
  <2>2. /\ receipt \in Receipt
        /\ found.request = request
        /\ ~Answered(op, found)
        /\ journal' = [journal EXCEPT ![op] = Told(Recovered(op).events, receipt)]
    BY <1>3, <2>1, NextAcceptWrites
  <2>3. /\ Recovered(op) \in Record
        /\ found.request = journal[op].receipt.request
        /\ found.options = journal[op].receipt.options
    BY <1>3, RecoveredType
  <2>4. Told(Recovered(op).events, receipt) \in Record
    <3>1. Recovered(op).events \in Seq(Event)
      BY <2>3 DEF Record
    <3> QED BY <2>2, <3>1, RecordType DEF Told
  <2>5. Answers' = [Answers EXCEPT ![op] = receipt]
    BY <2>2, <2>4, WriteAnswers DEF Told
  <2>6. Answers[op] = journal[op].receipt /\ Answers[op] \in Receipt /\ Answers[op] # NoJournal
    BY <1>3, AnswersOf
  <2>7. receipt = [status |-> "pending", request |-> Answers[op].request, options |-> Answers[op].options,
                   percent |-> 0, retryable |-> FALSE]
    BY <2>1, <2>2, <2>3, <2>6 DEF NewReceipt
  <2>8. receipt = [Answers[op] EXCEPT !.status = "pending", !.percent = 0, !.retryable = FALSE]
    <3> DEFINE old == Answers[op]
    <3>1. old \in Receipt
      BY <2>6
    <3>2. receipt = [status |-> "pending", request |-> old.request, options |-> old.options,
                     percent |-> 0, retryable |-> FALSE]
      BY <2>7
    <3> HIDE DEF old, receipt
    <3>3. [old EXCEPT !.status = "pending", !.percent = 0, !.retryable = FALSE]
            = [status |-> "pending", request |-> old.request, options |-> old.options,
               percent |-> 0, retryable |-> FALSE]
      BY <3>1, AttemptReplaced, Zenon
    <3>4. receipt = [old EXCEPT !.status = "pending", !.percent = 0, !.retryable = FALSE]
      BY <3>2, <3>3, Zenon
    <3> QED BY <3>4, Zenon DEF old
  <2>9. op \notin Claims
    BY <2>2 DEF Answered, Claims
  <2>10. ~Promise!Settled(op)
    <3>1. CASE Live(journal[op])
      BY <2>6, <3>1 DEF Live, LiveStatuses, Promise!Settled, Answers
    <3>2. CASE ~Live(journal[op])
      <4>1. found = Answers[op]
        BY <2>6, <3>2 DEF Recovered, Orphaned
      <4> QED BY <2>2, <4>1 DEF Answered, Promise!Settled, Answers
    <3> QED BY <3>1, <3>2
  <2>11. Answers[op].request = request
    BY <2>2, <2>3, <2>6
  <2>12. Answers' = [Answers EXCEPT ![op] =
                       [Answers[op] EXCEPT !.status = "pending", !.percent = 0, !.retryable = FALSE]]
    BY <2>5, <2>8, Zenon
  <2> QED BY <1>1, <2>6, <2>9, <2>10, <2>11, <2>12, Zenon DEF Promise!Accept, Answers, Claims
<1> QED BY <1>2, <1>3

LEMMA GreaterFacts ==
  ASSUME NEW a \in 0..100, NEW b \in 0..100
  PROVE  /\ Greater(a, b) \in 0..100
         /\ Greater(a, b) >= a
         /\ b = 100 => Greater(a, b) = 100
         /\ b = 0 => Greater(a, b) = a
BY DEF Greater

LEMMA PublishingAdvances ==
  ASSUME Journals, NEW c \in Calls, Publishing(c)
  PROVE  Promise!Next \/ UNCHANGED Promise!vars
<1>0. Memory
  BY DEF Journals, Inductive
<1>1. PICK status \in Statuses, percent \in 0..100, retryable \in BOOLEAN :
        Outcome(c, status, percent, retryable) /\ Update(c, status, percent, retryable)
  BY <1>0, PublishingUpdates
<1>2. PICK own, receipt : own = call[c].op /\ receipt = Updated(entry[own].receipt, status, percent, retryable)
  OBVIOUS
<1> DEFINE old == Answers[own]
<1>3. /\ own \in Durable \cup Volatile
      /\ own \in active
      /\ entry[own] \in Record
      /\ receipt \in Receipt
      /\ entry[own].receipt.status = (IF call[c].pc = "queued" THEN "pending" ELSE "running")
      /\ own \in Durable => /\ entry[own] = journal[own]
                            /\ journal' = [journal EXCEPT ![own] = Told(journal[own].events, receipt)]
      /\ own \notin Durable => journal' = journal
      /\ UNCHANGED active
  <2>1. UpdateWritten(c, own, receipt)
    BY <1>0, <1>1, <1>2, UpdateWrites
  <2> QED BY <2>1 DEF UpdateWritten
<1>4. Claims' = Claims
  BY <1>3 DEF Claims
<1>5. CASE own \notin Durable
  BY <1>3, <1>4, <1>5, Stutters
<1>6. CASE own \in Durable
  <2>1. journal[own] \in Record /\ journal[own] # NoJournal /\ journal[own].events \in Seq(Event)
    BY <1>3, <1>6, NothingAssumption DEF Record
  <2>2. old = journal[own].receipt /\ old \in Receipt /\ old # NoJournal
    BY <1>0, <1>6, <2>1, AnswersOf
  <2>3. old.status = (IF call[c].pc = "queued" THEN "pending" ELSE "running") /\ old.status \in LiveStatuses
    BY <1>3, <1>6, <2>2 DEF LiveStatuses
  <2>4. old.retryable = FALSE
    <3>1. Live(journal[own])
      BY <2>1, <2>2, <2>3 DEF Live
    <3>2. ~old.retryable
      BY <1>6, <2>2, <3>1 DEF Journals, LiveIsNotRetryable
    <3>3. old.retryable \in BOOLEAN
      BY <2>2 DEF Receipt
    <3> QED BY <3>2, <3>3
  <2>5. old.percent \in 0..100
    BY <2>2 DEF Receipt
  <2>6. Answers' = [Answers EXCEPT ![own] = receipt]
    <3>1. Told(journal[own].events, receipt) \in Record
      BY <1>3, <2>1, RecordType DEF Told
    <3>2. Told(journal[own].events, receipt).receipt = receipt
      BY DEF Told
    <3> QED BY <1>0, <1>3, <1>6, <3>1, <3>2, WriteAnswers
  <2>7. receipt = [status |-> status, request |-> old.request, options |-> old.options,
                   percent |-> Greater(old.percent, percent), retryable |-> retryable]
    BY <1>2, <1>3, <1>6, <2>2, UpdatedFields
  <2>8. own \in Claims
    BY <1>3, <1>6 DEF Claims
  <2> HIDE DEF old
  <2>9. PICK reached \in 0..100 :
          /\ reached = Greater(old.percent, percent)
          /\ reached >= old.percent
          /\ percent = 100 => reached = 100
          /\ percent = 0 => reached = old.percent
    <3>1. PICK before \in 0..100 : before = old.percent
      BY <2>5
    <3>2. /\ Greater(before, percent) \in 0..100
          /\ Greater(before, percent) >= before
          /\ percent = 100 => Greater(before, percent) = 100
          /\ percent = 0 => Greater(before, percent) = before
      BY GreaterFacts
    <3> QED BY <3>1, <3>2
  <2>10. CASE status = "running" /\ retryable = FALSE
    <3>1. receipt = [old EXCEPT !.status = "running", !.percent = reached]
      <4>1. [old EXCEPT !.status = "running", !.percent = reached]
              = [status |-> "running", request |-> old.request, options |-> old.options,
                 percent |-> reached, retryable |-> old.retryable]
        BY <2>2, ProgressReplaced, Zenon
      <4> QED BY <2>4, <2>7, <2>9, <2>10, <4>1, Zenon
    <3>2. Promise!Advance(own, reached)
      BY <1>4, <2>2, <2>3, <2>6, <2>8, <2>9, <3>1
         DEF Promise!Advance, Answers, Claims, old, LiveStatuses, Promise!LiveStatuses
    <3> QED BY <1>6, <2>9, <3>2 DEF Promise!Next
  <2>11. CASE call[c].pc = "returned" /\ status = "completed" /\ percent = 100 /\ retryable = FALSE
    <3>1. receipt = [old EXCEPT !.status = "completed", !.percent = 100]
      <4>1. [old EXCEPT !.status = "completed", !.percent = 100]
              = [status |-> "completed", request |-> old.request, options |-> old.options,
                 percent |-> 100, retryable |-> old.retryable]
        BY <2>2, ProgressReplaced, Zenon
      <4> QED BY <2>4, <2>7, <2>9, <2>11, <4>1, Zenon
    <3>2. old.status = "running"
      BY <2>3, <2>11
    <3>3. Promise!Complete(own)
      BY <1>4, <2>2, <2>6, <2>8, <3>1, <3>2 DEF Promise!Complete, Answers, Claims, old
    <3> QED BY <1>6, <3>3 DEF Promise!Next
  <2>12. CASE call[c].pc = "failing" /\ status = "failed" /\ percent = 0
    <3>1. receipt = [old EXCEPT !.status = "failed", !.retryable = retryable]
      <4>1. [old EXCEPT !.status = "failed", !.retryable = retryable]
              = [status |-> "failed", request |-> old.request, options |-> old.options,
                 percent |-> old.percent, retryable |-> retryable]
        BY <2>2, FailureReplaced, Zenon
      <4> QED BY <2>7, <2>9, <2>12, <4>1, Zenon
    <3>2. old.status = "running"
      BY <2>3, <2>12
    <3>3. Promise!Fail(own, retryable)
      BY <1>4, <2>2, <2>6, <2>8, <3>1, <3>2 DEF Promise!Fail, Answers, Claims, old
    <3> QED BY <1>6, <3>3 DEF Promise!Next
  <2> QED BY <1>1, <2>10, <2>11, <2>12 DEF Outcome
<1> QED BY <1>3, <1>5, <1>6

LEMMA StepsKeepThePromise ==
  ASSUME Journals, [Next]_vars
  PROVE  Promise!Next \/ UNCHANGED Promise!vars
<1> DEFINE Kept == Promise!Next \/ UNCHANGED Promise!vars
<1>0. Memory
  BY DEF Journals, Inductive
<1>1. ASSUME journal' = journal, active' = active PROVE Kept
  BY <1>1, Stutters DEF Claims
<1>2. ASSUME NEW d \in Durable, Load(d), active' = active PROVE Kept
  BY <1>0, <1>2, LoadInterrupts
<1>3. ASSUME NEW op \in Ops, op \notin Durable, journal' = journal, active' = active \cup {op} PROVE Kept
  BY <1>3, Stutters DEF Claims
<1>4. ASSUME NEW c \in Calls, Submit(c) PROVE Kept
  <2>1. ASSUME NEW d \in Durable, NEW request \in Requests, NEW options \in Options,
               AcceptDurable(c, d, request, options)
        PROVE  Kept
    <3>1. Promise!Accept(d, request, options)
      BY <1>0, <2>1, AcceptAccepts
    <3> QED BY <3>1 DEF Promise!Next
  <2>2. ASSUME NEW d \in Volatile, AcceptVolatile(c, d) PROVE Kept
    <3>1. d \notin Durable /\ d \in Ops
      BY OperationsAssumption DEF Ops
    <3> QED BY <1>3, <2>2, <3>1 DEF AcceptVolatile, Publish
  <2> QED BY <1>4, <2>1, <2>2 DEF Submit
<1>5. ASSUME NEW c \in Calls, Worker(c) \/ Progress(c) PROVE Kept
  <2>1. CASE Publishing(c)
    BY <2>1, PublishingAdvances
  <2>2. CASE StartFails(c) \/ Cleanup(c)
    <3>1. journal' = journal /\ active' = active \ {call[c].op}
      BY <2>2 DEF StartFails, Cleanup
    <3> QED BY <3>1, Releases
  <2>3. CASE \/ StartThread(c) \/ BeginFails(c) \/ WorkReturns(c) \/ OutcomeLost(c)
             \/ ReportFails(c) \/ \E retryable \in BOOLEAN : WorkRaises(c, retryable)
    BY <1>1, <2>3 DEF StartThread, BeginFails, WorkReturns, OutcomeLost, ReportFails, WorkRaises
  <2> QED BY <1>5, <2>1, <2>2, <2>3 DEF Worker, Progress, Publishing
<1>6. ASSUME NEW d \in Volatile, CompleteLocal(d) PROVE Kept
  <2>1. d \notin Durable
    BY OperationsAssumption
  <2> QED BY <1>1, <1>6, <2>1 DEF CompleteLocal, Publish
<1>7. ASSUME NEW d \in Core, RegisterCore(d) PROVE Kept
  BY <1>1, <1>7 DEF RegisterCore
<1>8. ASSUME NEW s \in Streams, NEW d \in Durable \cup Volatile, Connect(s, d) PROVE Kept
  BY <1>1, <1>2, <1>8 DEF Connect
<1>9. ASSUME NEW s \in Streams, Read(s) PROVE Kept
  BY <1>1, <1>2, <1>9 DEF Read
<1>10. ASSUME NEW s \in Streams, Send(s) \/ Vanished(s) \/ ReadFails(s) \/ Disconnect(s) PROVE Kept
  BY <1>1, <1>10 DEF Send, Vanished, ReadFails, Disconnect
<1>11. CASE Restart
  <2>1. journal' = journal /\ active' = active \ active
    BY <1>11 DEF Restart
  <2> QED BY <2>1, Releases
<1>12. CASE UNCHANGED vars
  BY <1>1, <1>12 DEF vars
<1>13. ASSUME NEW d \in Durable, Look(d) PROVE Kept
  BY <1>2, <1>13 DEF Look
<1> QED BY <1>4, <1>5, <1>6, <1>7, <1>8, <1>9, <1>10, <1>11, <1>12, <1>13 DEF Next, Streaming

\* The journal, the cache, the worker threads and the restarts together keep
\* what OperationReceipt promises a client of a durable operation.
THEOREM KeepsThePromise == Spec => PromiseSpec
<1>1. Init => Promise!Init
  BY DEF Init, Promise!Init
<1>2. Journals /\ [Next]_vars => [Promise!Next]_(Promise!vars)
  BY StepsKeepThePromise
<1> QED BY <1>1, <1>2, JournalsInvariant, PTL DEF Spec, PromiseSpec, Promise!Spec

-----------------------------------------------------------------------------
(* What streams have delivered: every event sent or about to be sent is    *)
(* one the journal still shows under its sequence                          *)

Held(op, event) ==
  /\ journal[op] # NoJournal
  /\ event.sequence <= LastSequence(journal[op].events)
  /\ \A i \in DOMAIN journal[op].events :
       journal[op].events[i].sequence = event.sequence => journal[op].events[i] = event

\* The newest of these events tells how an attempt ended.
NewestTells(batch) ==
  \A e \in batch : (\A f \in batch : f.sequence <= e.sequence) => e.status \in TerminalStatuses

ReceivedIsHeld(s) ==
  /\ \A e \in stream[s].batch : Held(stream[s].op, e)
  /\ stream[s].last # NoEvent => Held(stream[s].op, stream[s].last)

OutcomeFollows(s) ==
  /\ stream[s].pc = "sending" => stream[s].batch # {} /\ (stream[s].terminal => NewestTells(stream[s].batch))
  /\ stream[s].pc = "ended" => stream[s].last # NoEvent /\ stream[s].last.status \in TerminalStatuses

Delivery(s) ==
  /\ stream[s].op = NoOp => stream[s].last = NoEvent
  /\ stream[s].op \in Durable => ReceivedIsHeld(s) /\ OutcomeFollows(s)

Deliveries == Journals /\ \A s \in Streams : Delivery(s)

LEMMA ShapedEvents ==
  ASSUME NEW record \in Record, Shaped(record), NEW j \in DOMAIN record.events
  PROVE  /\ record.events[j] \in Event
         /\ record.events[j].sequence \in Nat
         /\ LastSequence(record.events) \in Nat
         /\ record.events[j].sequence <= LastSequence(record.events)
         /\ \A i \in DOMAIN record.events :
              record.events[i].sequence = record.events[j].sequence => record.events[i] = record.events[j]
<1> DEFINE events == record.events
<1>1. events \in Seq(Event) /\ Contiguous(events) /\ j \in DOMAIN events
  BY DEF Record, Shaped
<1> HIDE DEF events
<1>2. \A i \in DOMAIN events : events[i] \in Event
  BY <1>1
<1>3. \A i \in DOMAIN events : events[i].sequence \in Nat
  BY <1>2 DEF Event
<1>4. \A i \in DOMAIN events : events[i].sequence + (Len(events) - i) = LastSequence(events)
  BY <1>1 DEF Contiguous
<1>5. LastSequence(events) \in Nat
  BY <1>1, LastSequenceType
<1>6. Len(events) \in Nat /\ DOMAIN events = 1..Len(events)
  BY <1>1
<1>7. events[j].sequence <= LastSequence(events)
  BY <1>1, <1>3, <1>4, <1>5, <1>6
<1>8. \A i \in DOMAIN events : events[i].sequence = events[j].sequence => i = j
  BY <1>1, <1>3, <1>4, <1>5, <1>6
<1> QED BY <1>1, <1>2, <1>3, <1>5, <1>7, <1>8 DEF events

LEMMA NewestEvent ==
  ASSUME NEW record \in Record, Shaped(record)
  PROVE  /\ Len(record.events) \in DOMAIN record.events
         /\ record.events[Len(record.events)].sequence = LastSequence(record.events)
         /\ record.events[Len(record.events)].status = record.receipt.status
<1>1. record.events \in Seq(Event) /\ record.events # <<>>
  BY DEF Record, Shaped
<1>2. Len(record.events) \in DOMAIN record.events
  BY <1>1
<1> QED BY <1>1, <1>2 DEF Shaped, LastSequence

LEMMA HeldPersists ==
  ASSUME Journals, [Next]_vars, NEW op \in Durable, NEW event \in Event, Held(op, event)
  PROVE  Held(op, event)'
<1>1. journal[op] \in Record /\ journal[op] # NoJournal
  BY DEF Journals, Inductive, Memory, MemoryTypeOK, Held
<1>2. journal'[op] # NoJournal /\ journal'[op] \in Record /\ Extended(journal[op], journal'[op])
  BY <1>1, RecordSteps
<1> DEFINE old == journal[op].events
           new == journal'[op].events
<1>3. LastSequence(old) \in Nat /\ LastSequence(new) \in Nat /\ event.sequence \in Nat
  BY <1>1, <1>2, LastSequenceType DEF Record, Event
<1>4. /\ LastSequence(old) <= LastSequence(new)
      /\ \A i \in DOMAIN new : new[i].sequence <= LastSequence(old) => \E j \in DOMAIN old : old[j] = new[i]
  BY <1>2 DEF Extended
<1>5. /\ event.sequence <= LastSequence(old)
      /\ \A i \in DOMAIN old : old[i].sequence = event.sequence => old[i] = event
  BY DEF Held
<1> HIDE DEF old, new
<1>6. event.sequence <= LastSequence(new)
  BY <1>3, <1>4, <1>5
<1>7. \A i \in DOMAIN new : new[i].sequence = event.sequence => new[i] = event
  BY <1>3, <1>4, <1>5
<1> QED BY <1>2, <1>6, <1>7 DEF Held, new

\* How one stream moves.
StreamStep(s) ==
  \/ stream'[s] = stream[s]
  \/ stream'[s] = Closed(stream[s].op, stream[s].last)
  \/ \E op \in Durable \cup Volatile : Connect(s, op)
  \/ Read(s)
  \/ Send(s)

LEMMA StreamSteps ==
  ASSUME Inductive, [Next]_vars, NEW s \in Streams
  PROVE  StreamStep(s)
<1>0. stream \in [Streams -> Client]
  BY DEF Inductive, Clients, ClientTypeOK, Client
<1>1. ASSUME UNCHANGED stream PROVE StreamStep(s)
  BY <1>1 DEF StreamStep
<1>2. ASSUME NEW t \in Streams, Vanished(t) \/ ReadFails(t) \/ Disconnect(t) PROVE StreamStep(s)
  BY <1>0, <1>2, ZenonT(60) DEF Vanished, ReadFails, Disconnect, StreamStep
<1>3. ASSUME NEW t \in Streams, t # s,
             Send(t) \/ Read(t) \/ \E op \in Durable \cup Volatile : Connect(t, op)
      PROVE  stream'[s] = stream[s]
  BY <1>0, <1>3 DEF Send, Read, Connect
<1>4. ASSUME NEW t \in Streams, Send(t) \/ Read(t) \/ \E op \in Durable \cup Volatile : Connect(t, op)
      PROVE  StreamStep(s)
  BY <1>3, <1>4 DEF StreamStep
<1>5. CASE Restart
  BY <1>5 DEF Restart, StreamStep
<1>6. CASE UNCHANGED vars
  BY <1>1, <1>6 DEF vars
<1>7. ASSUME NEW op \in Ops, Look(op) \/ CompleteLocal(op) \/ RegisterCore(op) PROVE StreamStep(s)
  BY <1>1, <1>7 DEF Look, CompleteLocal, RegisterCore
<1>8. ASSUME NEW c \in Calls, Submit(c) PROVE StreamStep(s)
  BY <1>1, <1>8 DEF Submit, AcceptDurable, AcceptVolatile
<1>9. ASSUME NEW c \in Calls, Worker(c) \/ Progress(c) PROVE StreamStep(s)
  <2>1. CASE Publishing(c)
    BY <1>1, <2>1 DEF Publishing, Begin, PublishCompleted, PublishFailed, Report, Update
  <2>2. CASE \/ StartThread(c) \/ StartFails(c) \/ BeginFails(c) \/ WorkReturns(c) \/ OutcomeLost(c)
             \/ Cleanup(c) \/ ReportFails(c) \/ \E retryable \in BOOLEAN : WorkRaises(c, retryable)
    BY <1>1, <2>2 DEF StartThread, StartFails, BeginFails, WorkReturns, OutcomeLost, Cleanup, ReportFails, WorkRaises
  <2> QED BY <1>9, <2>1, <2>2 DEF Worker, Progress, Publishing
<1> QED BY <1>2, <1>4, <1>5, <1>6, <1>7, <1>8, <1>9 DEF Next, Streaming, Ops

\* What a read finds of a durable operation, and how it leaves the stream.
LEMMA ReadFinds ==
  ASSUME Deliveries, [Next]_vars, NEW s \in Streams, Read(s), stream[s].op \in Durable
  PROVE  Delivery(s)'
<1>1. PICK op \in Durable : op = stream[s].op
  OBVIOUS
<1>2. PICK last \in Event \cup {NoEvent} : last = stream[s].last
  BY StreamType DEF Deliveries, Journals, Inductive
<1>3. journal[op] # NoJournal
  BY <1>1 DEF Read, Load
<1>4. PICK record \in Record : record = Recovered(op) /\ Shaped(record)
  BY <1>3, RecoveredFacts DEF Deliveries
<1>5. journal'[op] = record
  BY <1>1, <1>4 DEF Read, Load, Deliveries, Journals, Inductive, Memory, MemoryTypeOK
<1> DEFINE batch == Unseen(record.events, last)
           over == Terminal(op, record)
<1>6. /\ stream'[s].pc = (IF batch = {} THEN "ended" ELSE "sending")
      /\ stream'[s].op = op /\ stream'[s].last = last
      /\ stream'[s].batch = batch /\ stream'[s].terminal = over
      /\ batch # {} \/ over
  <2>1. stream \in [Streams -> Client]
    BY DEF Deliveries, Journals, Inductive, Clients, ClientTypeOK, Client
  <2>2. Found(op) = record
    BY <1>4 DEF Found
  <2> QED BY <1>1, <1>2, <2>1, <2>2 DEF Read
<1>7. batch = {record.events[i] : i \in {j \in DOMAIN record.events : last = NoEvent \/ record.events[j].sequence > last.sequence}}
  BY DEF Unseen
<1>8. over => record.receipt.status \in TerminalStatuses
  BY DEF Terminal
<1> HIDE DEF batch, over
<1>9. \A e \in batch : Held(op, e)'
  <2> SUFFICES ASSUME NEW e \in batch PROVE Held(op, e)'
    OBVIOUS
  <2>1. PICK j \in DOMAIN record.events : e = record.events[j]
    BY <1>7
  <2>2. /\ e.sequence <= LastSequence(record.events)
        /\ \A i \in DOMAIN record.events : record.events[i].sequence = e.sequence => record.events[i] = e
    BY <1>4, <2>1, ShapedEvents
  <2>3. record # NoJournal
    BY NothingAssumption
  <2> QED BY <1>5, <2>2, <2>3 DEF Held
<1>10. last # NoEvent => Held(op, last)'
  <2>1. last # NoEvent => Held(op, last)
    BY <1>1, <1>2 DEF Deliveries, Delivery, ReceivedIsHeld
  <2>2. last # NoEvent => last \in Event
    OBVIOUS
  <2> QED BY <2>1, <2>2, HeldPersists DEF Deliveries
<1> DEFINE newest == record.events[Len(record.events)]
<1>11. /\ Len(record.events) \in DOMAIN record.events
       /\ newest.sequence = LastSequence(record.events)
       /\ newest.status = record.receipt.status
       /\ newest.sequence \in Nat
  BY <1>4, NewestEvent, ShapedEvents
<1>12. over /\ batch # {} => NewestTells(batch)
  <2> SUFFICES ASSUME over, NEW e \in batch, \A f \in batch : f.sequence <= e.sequence
               PROVE  e.status \in TerminalStatuses
    BY DEF NewestTells
  <2>1. PICK j \in DOMAIN record.events : e = record.events[j] /\ (last = NoEvent \/ e.sequence > last.sequence)
    BY <1>7
  <2>2. e.sequence \in Nat /\ e.sequence <= newest.sequence
    BY <1>4, <1>11, <2>1, ShapedEvents
  <2>3. last # NoEvent => last.sequence \in Nat
    BY DEF Event
  <2>4. last = NoEvent \/ newest.sequence > last.sequence
    BY <1>11, <2>1, <2>2, <2>3
  <2>5. newest \in batch
    BY <1>7, <1>11, <2>4
  <2>6. newest.sequence = e.sequence
    BY <1>11, <2>2, <2>5
  <2>7. newest = e
    BY <1>4, <1>11, <2>1, <2>6, ShapedEvents
  <2> QED BY <1>8, <1>11, <2>7
<1>13. batch = {} => last # NoEvent /\ last.status \in TerminalStatuses
  <2> SUFFICES ASSUME batch = {} PROVE last # NoEvent /\ last.status \in TerminalStatuses
    OBVIOUS
  <2>1. last # NoEvent /\ ~(newest.sequence > last.sequence)
    BY <1>7, <1>11
  <2>2. last.sequence \in Nat /\ last.sequence <= LastSequence(record.events)
           /\ \A i \in DOMAIN record.events : record.events[i].sequence = last.sequence => record.events[i] = last
    BY <1>5, <1>10, <2>1 DEF Held, Event
  <2>3. newest.sequence = last.sequence
    BY <1>11, <2>1, <2>2
  <2>4. newest = last
    BY <1>11, <2>2, <2>3
  <2> QED BY <1>6, <1>8, <1>11, <2>1, <2>4
<1>14. NoOp # op
  BY <1>1, OperationsAssumption DEF Ops
<1>15. ReceivedIsHeld(s)'
  BY <1>6, <1>9, <1>10 DEF ReceivedIsHeld, Held
<1>16. OutcomeFollows(s)'
  BY <1>6, <1>12, <1>13 DEF OutcomeFollows
<1> QED BY <1>6, <1>14, <1>15, <1>16 DEF Delivery

LEMMA SendDelivers ==
  ASSUME Deliveries, [Next]_vars, NEW s \in Streams, Send(s), stream[s].op \in Durable
  PROVE  Delivery(s)'
<1>0. stream \in [Streams -> Client] /\ Clients
  BY DEF Deliveries, Journals, Inductive, Clients, ClientTypeOK, Client
<1>1. PICK op \in Durable : op = stream[s].op
  OBVIOUS
<1>2. PICK event \in stream[s].batch :
        /\ stream[s].pc = "sending"
        /\ \A later \in stream[s].batch \ {event} : event.sequence <= later.sequence
        /\ stream' = [stream EXCEPT ![s] =
             [pc |-> IF stream[s].batch \ {event} # {} THEN "sending"
                     ELSE IF stream[s].terminal THEN "ended" ELSE "reading",
              op |-> stream[s].op, last |-> event, batch |-> stream[s].batch \ {event},
              terminal |-> stream[s].terminal]]
  BY DEF Send
<1>3. PICK rest : rest = stream[s].batch \ {event}
  OBVIOUS
<1>4. /\ stream'[s].pc = (IF rest # {} THEN "sending" ELSE IF stream[s].terminal THEN "ended" ELSE "reading")
      /\ stream'[s].op = op /\ stream'[s].last = event
      /\ stream'[s].batch = rest /\ stream'[s].terminal = stream[s].terminal
  BY <1>0, <1>1, <1>2, <1>3
<1>5. stream[s].batch \subseteq Event /\ event \in Event /\ \A e \in stream[s].batch : e.sequence \in Nat
  BY <1>0, StreamType DEF Event
<1>6. ReceivedIsHeld(s) /\ OutcomeFollows(s)
  BY <1>1 DEF Deliveries, Delivery
<1>7. \A e \in rest \cup {event} : Held(op, e)'
  <2> SUFFICES ASSUME NEW e \in rest \cup {event} PROVE Held(op, e)'
    OBVIOUS
  <2>1. e \in Event /\ Held(op, e)
    BY <1>1, <1>3, <1>5, <1>6 DEF ReceivedIsHeld
  <2> QED BY <2>1, HeldPersists DEF Deliveries
<1>8. stream[s].terminal => NewestTells(stream[s].batch)
  BY <1>2, <1>6 DEF OutcomeFollows
<1>9. stream[s].terminal => NewestTells(rest)
  <2> SUFFICES ASSUME stream[s].terminal, NEW e \in rest, \A f \in rest : f.sequence <= e.sequence
               PROVE  e.status \in TerminalStatuses
    BY DEF NewestTells
  <2>1. \A f \in stream[s].batch : f.sequence <= e.sequence
    BY <1>2, <1>3
  <2> QED BY <1>3, <1>8, <2>1 DEF NewestTells
<1>10. stream[s].terminal /\ rest = {} => event.status \in TerminalStatuses
  <2> SUFFICES ASSUME stream[s].terminal, rest = {} PROVE event.status \in TerminalStatuses
    OBVIOUS
  <2>1. \A f \in stream[s].batch : f = event
    BY <1>3
  <2>2. \A f \in stream[s].batch : f.sequence <= event.sequence
    BY <1>5, <2>1
  <2> QED BY <1>8, <2>2 DEF NewestTells
<1>11. event # NoEvent
  BY <1>5, NothingAssumption
<1>12. ReceivedIsHeld(s)'
  BY <1>4, <1>7 DEF ReceivedIsHeld, Held
<1>13. OutcomeFollows(s)'
  BY <1>4, <1>9, <1>10, <1>11 DEF OutcomeFollows
<1>14. NoOp # op
  BY <1>1, OperationsAssumption DEF Ops
<1> QED BY <1>4, <1>12, <1>13, <1>14 DEF Delivery

\* A stream that keeps its operation and its last event, and sends nothing.
LEMMA QuietDelivers ==
  ASSUME Deliveries, [Next]_vars, NEW s \in Streams, NEW op, NEW last,
         op = stream'[s].op, last = stream'[s].last,
         stream'[s].pc \in {"closed", "reading"}, stream'[s].batch = {},
         last = stream[s].last, op = stream[s].op \/ (last = NoEvent /\ op # NoOp)
  PROVE  Delivery(s)'
<1>1. last # NoEvent => last \in Event
  BY StreamType DEF Deliveries, Journals, Inductive
<1>2. op \in Durable /\ last # NoEvent => Held(op, last)'
  <2>1. op \in Durable /\ last # NoEvent => Held(op, last)
    BY DEF Deliveries, Delivery, ReceivedIsHeld
  <2> QED BY <1>1, <2>1, HeldPersists DEF Deliveries
<1>3. op = NoOp => last = NoEvent
  BY DEF Deliveries, Delivery
<1>4. op \in Durable => ReceivedIsHeld(s)' /\ OutcomeFollows(s)'
  BY <1>2 DEF ReceivedIsHeld, OutcomeFollows, Held
<1> QED BY <1>3, <1>4 DEF Delivery

LEMMA DeliverySteps ==
  ASSUME Deliveries, [Next]_vars, NEW s \in Streams
  PROVE  Delivery(s)'
<1>0. stream \in [Streams -> Client] /\ Clients /\ stream[s] \in Client
  BY DEF Deliveries, Journals, Inductive, Clients, ClientTypeOK, Client
<1>1. StreamStep(s)
  BY StreamSteps DEF Deliveries, Journals
<1>2. CASE stream'[s] = stream[s]
  <2>1. PICK op, last, batch : op = stream[s].op /\ last = stream[s].last /\ batch = stream[s].batch
    OBVIOUS
  <2>2. /\ op \in Durable => \A e \in batch : Held(op, e)'
        /\ op \in Durable /\ last # NoEvent => Held(op, last)'
    <3>1. batch \subseteq Event /\ (last # NoEvent => last \in Event)
      BY <1>0, <2>1, StreamType
    <3>2. op \in Durable => (\A e \in batch : Held(op, e)) /\ (last # NoEvent => Held(op, last))
      BY <2>1 DEF Deliveries, Delivery, ReceivedIsHeld
    <3> QED BY <3>1, <3>2, HeldPersists DEF Deliveries
  <2>3. op \in Durable => ReceivedIsHeld(s)'
    BY <1>2, <2>1, <2>2 DEF ReceivedIsHeld, Held
  <2>4. op \in Durable => OutcomeFollows(s)'
    BY <1>2, <2>1 DEF Deliveries, Delivery, OutcomeFollows
  <2> QED BY <1>2, <2>1, <2>3, <2>4 DEF Deliveries, Delivery
<1>3. CASE stream'[s] = Closed(stream[s].op, stream[s].last)
  <2>1. /\ stream'[s].op = stream[s].op /\ stream'[s].last = stream[s].last
        /\ stream'[s].pc = "closed" /\ stream'[s].batch = {}
    BY <1>3 DEF Closed
  <2>2. PICK op, last : op = stream[s].op /\ last = stream[s].last
    OBVIOUS
  <2> QED BY <2>1, <2>2, QuietDelivers
<1>4. ASSUME NEW op \in Durable \cup Volatile, Connect(s, op) PROVE Delivery(s)'
  <2>1. PICK last : last = stream[s].last
    OBVIOUS
  <2>2. /\ stream'[s].op = op /\ stream'[s].last = last
        /\ stream'[s].pc = "reading" /\ stream'[s].batch = {}
    BY <1>0, <1>4, <2>1 DEF Connect, Closed
  <2>3. op # NoOp
    BY OperationsAssumption DEF Ops
  <2>4. op = stream[s].op \/ last = NoEvent
    BY <1>4, <2>1 DEF Connect, Deliveries, Delivery
  <2> QED BY <2>1, <2>2, <2>3, <2>4, QuietDelivers
<1>5. ASSUME Read(s) \/ Send(s), stream[s].op \notin Durable PROVE Delivery(s)'
  <2>1. stream[s].op \in Volatile
    BY <1>0, <1>5 DEF Read, Send, Clients, StreamsNameOperations
  <2>2. stream'[s].op = stream[s].op
    BY <1>0, <1>5 DEF Read, Send
  <2>3. stream[s].op # NoOp
    BY <2>1, OperationsAssumption DEF Ops
  <2> QED BY <1>5, <2>2, <2>3 DEF Delivery
<1> QED BY <1>1, <1>2, <1>3, <1>4, <1>5, ReadFinds, SendDelivers DEF StreamStep

LEMMA DeliveriesInvariant == Spec => []Deliveries
<1>1. Init => \A s \in Streams : Delivery(s)
  BY DEF Init, Delivery, ReceivedIsHeld, OutcomeFollows, Closed
<1>2. Journals /\ [Next]_vars /\ Journals' /\ (\A s \in Streams : Delivery(s)) => (\A s \in Streams : Delivery(s))'
  BY DeliverySteps DEF Deliveries
<1> DEFINE Delivered == \A s \in Streams : Delivery(s)
<1>3. Init => Delivered
  BY <1>1
<1>4. Journals /\ Journals' /\ Delivered /\ [Next]_vars => Delivered'
  BY <1>2
<1>5. Deliveries <=> Journals /\ Delivered
  BY DEF Deliveries
<1> HIDE DEF Delivered
<1> QED BY <1>3, <1>4, <1>5, JournalsInvariant, PTL DEF Spec

\* Resuming a stream of a durable operation with Last-Event-ID neither repeats nor
\* hides a different event, whatever was written, recovered or restarted since.
THEOREM DeliveredStaysDurable == Spec => []DeliveredIsDurable
<1>1. Deliveries => DeliveredIsDurable
  BY DEF Deliveries, Delivery, ReceivedIsHeld, Held, DeliveredIsDurable
<1> QED BY <1>1, DeliveriesInvariant, PTL

\* A stream of a durable operation never ends by itself before its client knows the outcome.
THEOREM EndedStreamTells == Spec => []EndedStreamToldOutcome
<1>1. Deliveries => EndedStreamToldOutcome
  BY DEF Deliveries, Delivery, OutcomeFollows, EndedStreamToldOutcome
<1> QED BY <1>1, DeliveriesInvariant, PTL

-----------------------------------------------------------------------------
(* What a client is told of completed work *)

\* Nothing this record says is completed before the work of its operation returned.
Done(op, record) ==
  /\ record.receipt.status = "completed" => op \in committed
  /\ \A i \in DOMAIN record.events : record.events[i].status = "completed" => op \in committed

RecordsAreDone ==
  /\ \A op \in Durable : journal[op] # NoJournal => Done(op, journal[op])
  /\ \A op \in Volatile : entry[op] # NoEntry => Done(op, entry[op])
  /\ \A op \in Core : entry[op] \in {NoEntry, Snapshot}

ReturnedIsDone == \A c \in Calls : call[c].pc = "returned" => call[c].op \in committed

StreamIsDone(s) ==
  /\ \A e \in stream[s].batch : e.status = "completed" => stream[s].op \in committed
  /\ stream[s].last # NoEvent /\ stream[s].last.status = "completed" => stream[s].op \in committed

Truthful == RecordsAreDone /\ ReturnedIsDone /\ \A s \in Streams : StreamIsDone(s)

LEMMA NextEventsMembers ==
  ASSUME NEW events \in Seq(Event), NEW receipt \in Receipt,
         NEW next, next = NextEvents(events, receipt), NEW i \in DOMAIN next
  PROVE  next[i].status = receipt.status \/ \E j \in DOMAIN events : next[i] = events[j]
<1> DEFINE kept == IF Len(events) < Window THEN events ELSE Tail(events)
           new == [sequence |-> LastSequence(events) + 1, status |-> receipt.status, percent |-> receipt.percent]
<1>1. new \in Event
  <2>1. LastSequence(events) + 1 \in Nat \ {0}
    BY LastSequenceType
  <2> QED BY <2>1 DEF Event, Receipt
<1>2. next = Append(kept, new)
  BY DEF NextEvents
<1>3. kept \in Seq(Event) /\ \A k \in DOMAIN kept : \E j \in DOMAIN events : kept[k] = events[j]
  <2>1. CASE Len(events) < Window
    BY <2>1
  <2>2. CASE ~(Len(events) < Window)
    <3>1. events # <<>>
      BY <2>2, OperationsAssumption
    <3>2. kept = Tail(events) /\ kept \in Seq(Event)
      BY <2>2, <3>1
    <3>3. \A k \in DOMAIN kept : k + 1 \in DOMAIN events /\ kept[k] = events[k + 1]
      BY <3>1, <3>2
    <3> QED BY <3>2, <3>3
  <2> QED BY <2>1, <2>2
<1>4. new.status = receipt.status
  OBVIOUS
<1> HIDE DEF kept, new
<1>5. \A k \in DOMAIN next : next[k] = new \/ (k \in DOMAIN kept /\ next[k] = kept[k])
  BY <1>1, <1>2, <1>3
<1> QED BY <1>3, <1>4, <1>5

\* Publishing after these events says nothing new but the published status.
LEMMA ToldIsDone ==
  ASSUME NEW events \in Seq(Event), NEW receipt \in Receipt, NEW op,
         \A j \in DOMAIN events : events[j].status = "completed" => op \in committed',
         receipt.status = "completed" => op \in committed'
  PROVE  Done(op, Told(events, receipt))'
<1> DEFINE next == NextEvents(events, receipt)
<1>1. Told(events, receipt).receipt = receipt /\ Told(events, receipt).events = next
  BY DEF Told
<1>2. next = NextEvents(events, receipt)
  OBVIOUS
<1> HIDE DEF next
<1>3. \A i \in DOMAIN next : next[i].status = receipt.status \/ \E j \in DOMAIN events : next[i] = events[j]
  BY <1>2, NextEventsMembers
<1> QED BY <1>1, <1>3 DEF Done

LEMMA CommittedGrows ==
  ASSUME [Next]_vars PROVE committed \subseteq committed'
<1>1. ASSUME NEW c \in Calls, Submit(c) \/ Worker(c) \/ Progress(c) PROVE committed \subseteq committed'
  BY <1>1 DEF Submit, Worker, Progress, AcceptDurable, AcceptVolatile, StartThread, StartFails, Begin, BeginFails,
     WorkReturns, WorkRaises, PublishCompleted, PublishFailed, OutcomeLost, Cleanup, ReportFails, Report, Update
<1>2. ASSUME NEW s \in Streams, Streaming(s) \/ ReadFails(s) \/ Disconnect(s) \/ \E op \in Durable \cup Volatile : Connect(s, op)
      PROVE  committed \subseteq committed'
  BY <1>2 DEF Streaming, Read, Vanished, Send, ReadFails, Disconnect, Connect
<1>3. CASE Restart \/ UNCHANGED vars
  BY <1>3 DEF Restart, vars
<1>4. ASSUME NEW op, Look(op) \/ CompleteLocal(op) \/ RegisterCore(op) PROVE committed \subseteq committed'
  BY <1>4 DEF Look, CompleteLocal, RegisterCore
<1> QED BY <1>1, <1>2, <1>3, <1>4 DEF Next

\* What a step does to the cached record of an operation the journal does not hold.
EntryStep(op) ==
  \/ entry'[op] \in {entry[op], NoEntry}
  \/ op \in Core /\ entry'[op] = Snapshot
  \/ /\ op \in Volatile
     /\ \E receipt \in Receipt :
          /\ entry'[op] = Told(EventsOf(op), receipt)
          /\ receipt.status = "completed" =>
               op \in committed' \/ \E c \in Calls : call[c].pc = "returned" /\ call[c].op = op

LEMMA CompletedLocalReceipt ==
  [NewReceipt(NoRequest, NoOptions) EXCEPT !.status = "completed", !.percent = 100] \in Receipt
BY NewReceiptType, CompletedReceiptType

LEMMA PublishingEntryStep ==
  ASSUME Memory, NEW c \in Calls, Publishing(c), NEW op \in Volatile \cup Core
  PROVE  EntryStep(op)
<1>1. PICK status \in Statuses, percent \in 0..100, retryable \in BOOLEAN :
        Outcome(c, status, percent, retryable) /\ Update(c, status, percent, retryable)
  BY PublishingUpdates
<1>2. PICK own, receipt : own = call[c].op /\ receipt = Updated(entry[own].receipt, status, percent, retryable)
  OBVIOUS
<1>3. /\ own \in Durable \cup Volatile
      /\ entry[own] \in Record
      /\ receipt \in Receipt
      /\ \A o \in Ops \ {own} : entry'[o] \in {entry[o], NoEntry}
      /\ entry'[own] \in {Told(entry[own].events, receipt), NoEntry}
  <2>1. UpdateWritten(c, own, receipt)
    BY <1>1, <1>2, UpdateWrites
  <2> QED BY <2>1 DEF UpdateWritten
<1>4. op \in Ops /\ op \notin Durable
  BY OperationsAssumption DEF Ops
<1>5. CASE own # op
  BY <1>3, <1>4, <1>5 DEF EntryStep
<1>6. CASE own = op
  <2>1. EventsOf(op) = entry[op].events
    BY <1>3, <1>6, NothingAssumption DEF EventsOf
  <2>2. receipt.status = status
    <3> DEFINE old == entry[own].receipt
    <3>1. old \in Receipt /\ receipt = Updated(old, status, percent, retryable)
      BY <1>2, <1>3 DEF Record
    <3> HIDE DEF old
    <3> QED BY <3>1, UpdatedFields
  <2>3. status = "completed" => call[c].pc = "returned"
    BY <1>1 DEF Outcome
  <2> QED BY <1>2, <1>3, <1>4, <1>6, <2>1, <2>2, <2>3 DEF EntryStep
<1> QED BY <1>5, <1>6

LEMMA AcceptEntryStep ==
  ASSUME Memory, NEW c \in Calls, NEW d \in Durable, NEW request \in Requests, NEW options \in Options,
         AcceptDurable(c, d, request, options), NEW op \in Volatile \cup Core
  PROVE  EntryStep(op)
<1>1. op \in Ops /\ op # d /\ d \in Ops
  BY OperationsAssumption DEF Ops
<1>2. CASE journal[d] = NoJournal
  <2> DEFINE receipt == NewReceipt(request, options)
             pinned == active \cup {d}
             record == Told(EventsOf(d), receipt)
  <2>1. receipt \in Receipt /\ Publish(d, receipt, pinned)
    BY <1>2, NewReceiptType DEF AcceptDurable
  <2>2. record = Told(EventsOf(d), receipt)
    OBVIOUS
  <2> HIDE DEF receipt, pinned, record
  <2>3. \A o \in Ops \ {d} : entry'[o] \in {entry[o], NoEntry}
    BY <2>1, <2>2, PublishWrites
  <2> QED BY <1>1, <2>3 DEF EntryStep
<1>3. CASE journal[d] # NoJournal
  <2> DEFINE found == Recovered(d)
             loaded == Stored(entry, older, d, found, active)
             receipt == NewReceipt(request, found.receipt.options)
             record == [receipt |-> receipt, events |-> NextEvents(found.events, receipt)]
             kept == Stored(loaded.entry, loaded.older, d, record, active \cup {d})
  <2>1. entry' = kept.entry
    BY <1>3 DEF AcceptDurable
  <2>2. found \in Record
    BY <1>3, RecoveredType
  <2>3. found.receipt.options \in Options \cup {NoOptions} /\ found.events \in Seq(Event)
    BY <2>2 DEF Record, Receipt
  <2>4. record \in Record
    <3>1. receipt \in Receipt
      BY <2>3, NewReceiptType
    <3> QED BY <2>3, <3>1, RecordType
  <2>5. Keeps(entry, loaded, d, found, active)
    <3>1. entry \in [Ops -> Cacheable] /\ older \in SUBSET (Ops \X Ops) /\ found \in Cacheable
      BY <2>2 DEF Memory, MemoryTypeOK, Cacheable
    <3> QED BY <1>1, <3>1, StoredFacts
  <2> HIDE DEF found, loaded, record
  <2>6. Keeps(loaded.entry, kept, d, record, active \cup {d})
    <3>1. loaded.entry \in [Ops -> Cacheable] /\ loaded.older \in SUBSET (Ops \X Ops) /\ record \in Cacheable
      BY <2>4, <2>5 DEF Keeps, Cacheable
    <3> QED BY <1>1, <3>1, StoredFacts
  <2> HIDE DEF kept
  <2>7. entry'[op] \in {entry[op], NoEntry}
    BY <1>1, <2>1, <2>5, <2>6 DEF Keeps
  <2> QED BY <2>7 DEF EntryStep
<1> QED BY <1>2, <1>3

LEMMA LocalEntryStep ==
  ASSUME Memory, NEW d \in Volatile, NEW receipt \in Receipt, NEW pinned, Publish(d, receipt, pinned),
         receipt.status = "completed" => d \in committed',
         NEW op \in Volatile \cup Core
  PROVE  EntryStep(op)
<1> DEFINE record == Told(EventsOf(d), receipt)
<1>1. record = Told(EventsOf(d), receipt)
  OBVIOUS
<1> HIDE DEF record
<1>2. op \in Ops /\ op \notin Durable
  BY OperationsAssumption DEF Ops
<1>3. /\ \A o \in Ops \ {d} : entry'[o] \in {entry[o], NoEntry}
      /\ entry'[d] \in {record, NoEntry}
  BY <1>1, PublishWrites
<1> QED BY <1>1, <1>2, <1>3 DEF EntryStep

LEMMA EntrySteps ==
  ASSUME Inductive, [Next]_vars, NEW op \in Volatile \cup Core
  PROVE  EntryStep(op)
<1>0. Memory /\ op \in Ops /\ op \notin Durable
  BY OperationsAssumption DEF Inductive, Ops
<1>1. ASSUME NEW d \in Durable, Load(d) PROVE EntryStep(op)
  <2>1. \A o \in Ops \ {d} : entry'[o] \in {entry[o], NoEntry}
    BY <1>0, <1>1, LoadFacts
  <2> QED BY <1>0, <2>1 DEF EntryStep
<1>2. ASSUME entry' = entry PROVE EntryStep(op)
  BY <1>2 DEF EntryStep
<1>3. ASSUME NEW c \in Calls, Submit(c) PROVE EntryStep(op)
  <2>1. ASSUME NEW d \in Volatile, AcceptVolatile(c, d) PROVE EntryStep(op)
    <3> DEFINE receipt == NewReceipt(NoRequest, NoOptions)
               pinned == active \cup {d}
    <3>1. receipt \in Receipt /\ receipt.status = "pending" /\ Publish(d, receipt, pinned)
      BY <2>1, NewReceiptType DEF AcceptVolatile
    <3> HIDE DEF receipt, pinned
    <3> QED BY <1>0, <3>1, LocalEntryStep
  <2> QED BY <1>0, <1>3, <2>1, AcceptEntryStep DEF Submit
<1>4. ASSUME NEW c \in Calls, Worker(c) \/ Progress(c) PROVE EntryStep(op)
  <2>1. CASE Publishing(c)
    BY <1>0, <2>1, PublishingEntryStep
  <2>2. CASE \/ StartThread(c) \/ StartFails(c) \/ BeginFails(c) \/ WorkReturns(c) \/ OutcomeLost(c)
             \/ ReportFails(c) \/ \E retryable \in BOOLEAN : WorkRaises(c, retryable)
    BY <1>2, <2>2 DEF StartThread, StartFails, BeginFails, WorkReturns, OutcomeLost, ReportFails, WorkRaises
  <2>3. CASE Cleanup(c)
    BY <1>0, <2>3 DEF Cleanup, Without, EntryStep
  <2> QED BY <1>4, <2>1, <2>2, <2>3 DEF Worker, Progress, Publishing
<1>5. ASSUME NEW d \in Volatile, CompleteLocal(d) PROVE EntryStep(op)
  <2> DEFINE receipt == [NewReceipt(NoRequest, NoOptions) EXCEPT !.status = "completed", !.percent = 100]
  <2>1. receipt \in Receipt /\ Publish(d, receipt, active) /\ d \in committed'
    BY <1>5, CompletedLocalReceipt DEF CompleteLocal
  <2> HIDE DEF receipt
  <2>2. PICK pinned : pinned = active
    OBVIOUS
  <2> QED BY <1>0, <2>1, <2>2, LocalEntryStep
<1>6. ASSUME NEW d \in Core, RegisterCore(d) PROVE EntryStep(op)
  <2> DEFINE kept == Stored(entry, older, d, Snapshot, active)
  <2>1. entry' = kept.entry
    BY <1>6 DEF RegisterCore
  <2>2. Keeps(entry, kept, d, Snapshot, active)
    <3>1. entry \in [Ops -> Cacheable] /\ older \in SUBSET (Ops \X Ops) /\ Snapshot \in Cacheable /\ d \in Ops
      BY <1>0 DEF Memory, MemoryTypeOK, Cacheable, Ops
    <3> QED BY <3>1, StoredFacts
  <2> HIDE DEF kept
  <2> QED BY <1>0, <2>1, <2>2 DEF Keeps, EntryStep
<1>7. ASSUME NEW s \in Streams, NEW d \in Durable \cup Volatile, Connect(s, d) PROVE EntryStep(op)
  BY <1>1, <1>2, <1>7 DEF Connect
<1>8. ASSUME NEW s \in Streams, Read(s) PROVE EntryStep(op)
  BY <1>1, <1>2, <1>8 DEF Read
<1>9. ASSUME NEW s \in Streams, Send(s) \/ Vanished(s) \/ ReadFails(s) \/ Disconnect(s) PROVE EntryStep(op)
  BY <1>2, <1>9 DEF Send, Vanished, ReadFails, Disconnect
<1>10. CASE Restart
  BY <1>0, <1>10 DEF Restart, EntryStep
<1>11. CASE UNCHANGED vars
  BY <1>2, <1>11 DEF vars
<1>12. ASSUME NEW d \in Durable, Look(d) PROVE EntryStep(op)
  BY <1>1, <1>12 DEF Look
<1> QED BY <1>3, <1>4, <1>5, <1>6, <1>7, <1>8, <1>9, <1>10, <1>11, <1>12 DEF Next, Streaming

LEMMA JournalStaysDone ==
  ASSUME Journals, Truthful, [Next]_vars, NEW op \in Durable, journal'[op] # NoJournal
  PROVE  \A record : record = journal'[op] => Done(op, record)'
<1>1. JournalStep(op) /\ committed \subseteq committed'
  BY JournalSteps, CommittedGrows DEF Journals
<1>2. journal[op] # NoJournal => journal[op] \in Record /\ Done(op, journal[op])
  BY DEF Journals, Inductive, Memory, MemoryTypeOK, Truthful, RecordsAreDone
<1>3. PICK old : old = journal[op]
  OBVIOUS
<1>4. old # NoJournal =>
        /\ old.receipt \in Receipt /\ old.events \in Seq(Event)
        /\ old.receipt.status = "completed" => op \in committed'
        /\ \A j \in DOMAIN old.events : old.events[j].status = "completed" => op \in committed'
  BY <1>1, <1>2, <1>3 DEF Done, Record
<1>5. old # NoJournal => Done(op, old)'
  BY <1>4 DEF Done
<1>6. PICK found : found = Recovered(op)
  OBVIOUS
<1>7. old # NoJournal =>
        /\ found.events \in Seq(Event)
        /\ Done(op, found)'
  <2> SUFFICES ASSUME old # NoJournal PROVE found.events \in Seq(Event) /\ Done(op, found)'
    OBVIOUS
  <2>1. CASE ~Orphaned(op)
    BY <1>3, <1>4, <1>5, <1>6, <2>1 DEF Recovered
  <2>2. CASE Orphaned(op)
    <3>1. PICK receipt : receipt = [old.receipt EXCEPT !.status = "interrupted"]
      OBVIOUS
    <3>2. receipt \in Receipt /\ receipt.status = "interrupted"
      BY <1>4, <3>1 DEF Receipt, Statuses
    <3>3. found = Told(old.events, receipt)
      BY <1>3, <1>6, <2>2, <3>1 DEF Recovered, Interrupted, Told
    <3>4. Done(op, Told(old.events, receipt))'
      BY <1>4, <3>2, ToldIsDone
    <3>5. found.events \in Seq(Event)
      BY <1>4, <3>2, <3>3, NextEventsType DEF Told
    <3> QED BY <3>3, <3>4, <3>5
  <2> QED BY <2>1, <2>2
<1>8. CASE journal'[op] = journal[op]
  BY <1>3, <1>5, <1>8
<1>9. CASE journal[op] # NoJournal /\ journal'[op] = Recovered(op)
  BY <1>3, <1>6, <1>7, <1>9
<1>10. ASSUME NEW receipt \in Receipt, journal'[op] = Told(Base(op), receipt),
              receipt.status = "completed" => \E c \in Calls : call[c].pc = "returned" /\ call[c].op = op
       PROVE  \A record : record = journal'[op] => Done(op, record)'
  <2>1. receipt.status = "completed" => op \in committed'
    BY <1>1, <1>10 DEF Truthful, ReturnedIsDone
  <2>2. PICK base : base = Base(op)
    OBVIOUS
  <2>3. base \in Seq(Event) /\ \A j \in DOMAIN base : base[j].status = "completed" => op \in committed'
    <3>1. CASE old = NoJournal
      BY <1>3, <2>2, <3>1 DEF Base
    <3>2. CASE old # NoJournal
      BY <1>3, <1>6, <1>7, <2>2, <3>2 DEF Base, Done
    <3> QED BY <3>1, <3>2
  <2>4. Done(op, Told(base, receipt))'
    BY <2>1, <2>3, ToldIsDone
  <2> QED BY <1>10, <2>2, <2>4
<1> QED BY <1>1, <1>8, <1>9, <1>10 DEF JournalStep

LEMMA EntryStaysDone ==
  ASSUME Journals, Truthful, [Next]_vars, NEW op \in Volatile, entry'[op] # NoEntry
  PROVE  \A record : record = entry'[op] => Done(op, record)'
<1>1. EntryStep(op) /\ committed \subseteq committed'
  BY EntrySteps, CommittedGrows DEF Journals
<1>2. PICK old : old = entry[op]
  OBVIOUS
<1>3. old # NoEntry =>
        /\ old.events \in Seq(Event)
        /\ old.receipt.status = "completed" => op \in committed'
        /\ \A j \in DOMAIN old.events : old.events[j].status = "completed" => op \in committed'
  <2>1. op \in Ops /\ op \notin Core
    BY OperationsAssumption DEF Ops
  <2>2. old # NoEntry => old \in Record
    BY <1>2, <2>1 DEF Journals, Inductive, Memory, MemoryTypeOK, SnapshotsAreCore, Cacheable
  <2>3. old # NoEntry => Done(op, old)
    BY <1>2 DEF Truthful, RecordsAreDone
  <2> QED BY <1>1, <2>2, <2>3 DEF Done, Record
<1>4. CASE entry'[op] \in {entry[op], NoEntry}
  BY <1>2, <1>3, <1>4 DEF Done
<1>5. ASSUME NEW receipt \in Receipt, entry'[op] = Told(EventsOf(op), receipt),
             receipt.status = "completed" =>
               op \in committed' \/ \E c \in Calls : call[c].pc = "returned" /\ call[c].op = op
      PROVE  \A record : record = entry'[op] => Done(op, record)'
  <2>1. receipt.status = "completed" => op \in committed'
    BY <1>1, <1>5 DEF Truthful, ReturnedIsDone
  <2>2. PICK base : base = EventsOf(op)
    OBVIOUS
  <2>3. base \in Seq(Event) /\ \A j \in DOMAIN base : base[j].status = "completed" => op \in committed'
    BY <1>2, <1>3, <2>2 DEF EventsOf
  <2>4. Done(op, Told(base, receipt))'
    BY <2>1, <2>3, ToldIsDone
  <2> QED BY <1>5, <2>2, <2>4
<1>6. op \notin Core
  BY OperationsAssumption
<1> QED BY <1>1, <1>4, <1>5, <1>6 DEF EntryStep

LEMMA ReturnedStaysDone ==
  ASSUME Journals, Truthful, [Next]_vars, NEW c \in Calls, call'[c].pc = "returned"
  PROVE  call'[c].op \in committed'
<1>1. committed \subseteq committed'
  BY CommittedGrows
<1>2. call \in [Calls -> [pc : CallStates, op : Ops \cup {NoOp}, retryable : BOOLEAN]]
  BY DEF Journals, Inductive, Memory, MemoryTypeOK
<1>3. ASSUME call'[c] = call[c] PROVE call'[c].op \in committed'
  BY <1>1, <1>3 DEF Truthful, ReturnedIsDone
<1>4. ASSUME NEW d \in Calls, Submit(d) PROVE call'[c].op \in committed'
  <2>1. PICK op : call' = [call EXCEPT ![d] = [pc |-> "starting", op |-> op, retryable |-> FALSE]]
    BY <1>4 DEF Submit, AcceptDurable, AcceptVolatile
  <2>2. c = d => call'[c].pc = "starting"
    BY <1>2, <2>1
  <2>3. c # d => call'[c] = call[c]
    BY <1>2, <2>1
  <2> QED BY <1>3, <2>2, <2>3
<1>5. ASSUME NEW d \in Calls, WorkReturns(d) PROVE call'[c].op \in committed'
  <2>1. CASE c = d
    BY <1>2, <1>5, <2>1 DEF WorkReturns, Moved
  <2>2. CASE c # d
    BY <1>2, <1>3, <1>5, <2>2 DEF WorkReturns, Moved
  <2> QED BY <2>1, <2>2
<1>6. ASSUME NEW d \in Calls, StartThread(d) \/ Begin(d) \/ BeginFails(d) \/ PublishCompleted(d) \/ PublishFailed(d) \/ OutcomeLost(d)
      PROVE  call'[c].op \in committed'
  <2>1. c = d => call'[c].pc \in {"queued", "working", "cleanup"}
    BY <1>2, <1>6 DEF StartThread, Begin, BeginFails, PublishCompleted, PublishFailed, OutcomeLost, Moved
  <2>2. c # d => call'[c] = call[c]
    BY <1>2, <1>6 DEF StartThread, Begin, BeginFails, PublishCompleted, PublishFailed, OutcomeLost, Moved
  <2> QED BY <1>3, <2>1, <2>2
<1>7. ASSUME NEW d \in Calls, ReportFails(d) \/ \E retryable \in BOOLEAN : WorkRaises(d, retryable)
      PROVE  call'[c].op \in committed'
  <2>1. c = d => call'[c].pc = "failing"
    BY <1>2, <1>7 DEF ReportFails, WorkRaises
  <2>2. c # d => call'[c] = call[c]
    BY <1>2, <1>7 DEF ReportFails, WorkRaises
  <2> QED BY <1>3, <2>1, <2>2
<1>8. ASSUME NEW d \in Calls, StartFails(d) \/ Cleanup(d) PROVE call'[c].op \in committed'
  <2>1. c = d => call'[c].pc = "idle"
    BY <1>2, <1>8 DEF StartFails, Cleanup, Idle
  <2>2. c # d => call'[c] = call[c]
    BY <1>2, <1>8 DEF StartFails, Cleanup
  <2> QED BY <1>3, <2>1, <2>2
<1>9. ASSUME NEW d \in Calls, \E percent \in Reports : Report(d, percent) PROVE call'[c].op \in committed'
  BY <1>3, <1>9 DEF Report
<1>10. ASSUME NEW s \in Streams, Streaming(s) \/ ReadFails(s) \/ Disconnect(s) \/ \E op \in Durable \cup Volatile : Connect(s, op)
       PROVE  call'[c].op \in committed'
  BY <1>3, <1>10 DEF Streaming, Read, Vanished, Send, ReadFails, Disconnect, Connect
<1>11. CASE Restart
  BY <1>11 DEF Restart, Idle
<1>12. ASSUME NEW op, Look(op) \/ CompleteLocal(op) \/ RegisterCore(op) PROVE call'[c].op \in committed'
  BY <1>3, <1>12 DEF Look, CompleteLocal, RegisterCore
<1>13. CASE UNCHANGED vars
  BY <1>3, <1>13 DEF vars
<1> QED BY <1>4, <1>5, <1>6, <1>7, <1>8, <1>9, <1>10, <1>11, <1>12, <1>13 DEF Next, Worker, Progress

LEMMA StreamStaysDone ==
  ASSUME Deliveries, Truthful, [Next]_vars, NEW s \in Streams
  PROVE  StreamIsDone(s)'
<1>0. stream \in [Streams -> Client] /\ Clients /\ stream[s] \in Client
  BY DEF Deliveries, Journals, Inductive, Clients, ClientTypeOK, Client
<1>1. StreamStep(s) /\ committed \subseteq committed' /\ StreamIsDone(s)
  BY StreamSteps, CommittedGrows DEF Deliveries, Journals, Truthful
<1>2. CASE stream'[s] = stream[s]
  BY <1>1, <1>2 DEF StreamIsDone
<1>3. CASE stream'[s] = Closed(stream[s].op, stream[s].last)
  <2>1. stream'[s].op = stream[s].op /\ stream'[s].last = stream[s].last /\ stream'[s].batch = {}
    BY <1>3 DEF Closed
  <2> QED BY <1>1, <2>1 DEF StreamIsDone
<1>4. ASSUME NEW op \in Durable \cup Volatile, Connect(s, op) PROVE StreamIsDone(s)'
  <2>1. stream'[s].op = op /\ stream'[s].last = stream[s].last /\ stream'[s].batch = {}
    BY <1>0, <1>4 DEF Connect, Closed
  <2>2. op = stream[s].op \/ stream[s].last = NoEvent
    BY <1>4 DEF Connect, Deliveries, Delivery
  <2> QED BY <1>1, <2>1, <2>2 DEF StreamIsDone
<1>5. CASE Read(s)
  <2>1. PICK op \in Durable \cup Volatile : op = stream[s].op
    BY <1>0, <1>5 DEF Read, Clients, StreamsNameOperations
  <2>2. PICK record : record = Found(op)
    OBVIOUS
  <2>3. \A i \in DOMAIN record.events : record.events[i].status = "completed" => op \in committed'
    <3>1. CASE op \in Durable
      <4>1. journal[op] # NoJournal /\ journal'[op] = record
        BY <1>5, <2>1, <2>2, <3>1 DEF Read, Load, Found, Deliveries, Journals, Inductive, Memory, MemoryTypeOK
      <4>2. journal'[op] # NoJournal
        BY <3>1, <4>1, RecordSteps DEF Deliveries
      <4>3. Done(op, record)'
        BY <3>1, <4>1, <4>2, JournalStaysDone DEF Deliveries
      <4> QED BY <4>3 DEF Done
    <3>2. CASE op \notin Durable
      <4>1. record = entry[op] /\ entry[op] # NoEntry
        BY <1>5, <2>1, <2>2, <3>2 DEF Read, Found
      <4>2. Done(op, record)
        BY <2>1, <3>2, <4>1 DEF Truthful, RecordsAreDone
      <4> QED BY <1>1, <4>2 DEF Done
    <3> QED BY <3>1, <3>2
  <2>4. /\ stream'[s].op = op /\ stream'[s].last = stream[s].last
        /\ stream'[s].batch = Unseen(record.events, stream[s].last)
    BY <1>0, <1>5, <2>1, <2>2 DEF Read
  <2>5. \A e \in stream'[s].batch : \E i \in DOMAIN record.events : e = record.events[i]
    BY <2>4 DEF Unseen
  <2> QED BY <1>1, <2>1, <2>3, <2>4, <2>5 DEF StreamIsDone
<1>6. CASE Send(s)
  <2>1. PICK event \in stream[s].batch :
          /\ stream'[s].op = stream[s].op /\ stream'[s].last = event
          /\ stream'[s].batch = stream[s].batch \ {event}
    BY <1>0, <1>6 DEF Send
  <2> QED BY <1>1, <2>1 DEF StreamIsDone
<1> QED BY <1>1, <1>2, <1>3, <1>4, <1>5, <1>6 DEF StreamStep

LEMMA TruthfulSteps ==
  ASSUME Deliveries, Truthful, [Next]_vars
  PROVE  Truthful'
<1>1. \A op \in Durable : journal'[op] # NoJournal => Done(op, journal[op])'
  <2> SUFFICES ASSUME NEW op \in Durable, journal'[op] # NoJournal PROVE Done(op, journal[op])'
    OBVIOUS
  <2>1. PICK record : record = journal'[op]
    OBVIOUS
  <2>2. Done(op, record)'
    BY <2>1, JournalStaysDone DEF Deliveries
  <2> QED BY <2>1, <2>2 DEF Done
<1>2. \A op \in Volatile : entry'[op] # NoEntry => Done(op, entry[op])'
  <2> SUFFICES ASSUME NEW op \in Volatile, entry'[op] # NoEntry PROVE Done(op, entry[op])'
    OBVIOUS
  <2>1. PICK record : record = entry'[op]
    OBVIOUS
  <2>2. Done(op, record)'
    BY <2>1, EntryStaysDone DEF Deliveries
  <2> QED BY <2>1, <2>2 DEF Done
<1>3. \A op \in Core : entry'[op] \in {NoEntry, Snapshot}
  <2> SUFFICES ASSUME NEW op \in Core PROVE entry'[op] \in {NoEntry, Snapshot}
    OBVIOUS
  <2>1. EntryStep(op)
    BY EntrySteps DEF Deliveries, Journals
  <2>2. op \notin Volatile
    BY OperationsAssumption
  <2> QED BY <2>1, <2>2 DEF EntryStep, Truthful, RecordsAreDone
<1>4. RecordsAreDone'
  BY <1>1, <1>2, <1>3 DEF RecordsAreDone
<1>5. ReturnedIsDone'
  BY ReturnedStaysDone DEF ReturnedIsDone, Deliveries
<1>6. \A s \in Streams : StreamIsDone(s)'
  BY StreamStaysDone
<1> QED BY <1>4, <1>5, <1>6 DEF Truthful

LEMMA TruthfulInvariant == Spec => []Truthful
<1>1. Init => Truthful
  <2> SUFFICES ASSUME Init PROVE Truthful
    OBVIOUS
  <2>1. RecordsAreDone
    BY DEF Init, RecordsAreDone, Ops
  <2>2. ReturnedIsDone
    BY DEF Init, ReturnedIsDone, Idle
  <2>3. \A s \in Streams : StreamIsDone(s)
    BY DEF Init, StreamIsDone, Closed
  <2> QED BY <2>1, <2>2, <2>3 DEF Truthful
<1>2. Deliveries /\ Truthful /\ [Next]_vars => Truthful'
  BY TruthfulSteps
<1> QED BY <1>1, <1>2, DeliveriesInvariant, PTL DEF Spec

\* Whoever is told "completed", by polling or by a stream, can rely on the work
\* having returned its result, in this process or an earlier one.
THEOREM CompletedMeansDone == Spec => []CompletedWasDone
<1>1. Inductive /\ Truthful => CompletedWasDone
  <2> SUFFICES ASSUME Inductive, Truthful PROVE CompletedWasDone
    OBVIOUS
  <2>1. ASSUME NEW op \in Entries, entry[op].receipt.status = "completed" PROVE op \in committed
    <3>1. op \in Ops /\ entry[op] # NoEntry /\ entry[op] # Snapshot
      BY DEF Entries, Cached
    <3>2. CASE op \in Durable
      <4>1. entry[op] = journal[op]
        BY <3>1, <3>2 DEF Inductive, Memory, CacheAgreesWithJournal
      <4>2. journal[op] # NoJournal
        <5>1. entry[op] \in Record
          BY <3>1 DEF Inductive, Memory, MemoryTypeOK, Cacheable
        <5> QED BY <4>1, <5>1, NothingAssumption
      <4> QED BY <2>1, <3>2, <4>1, <4>2 DEF Truthful, RecordsAreDone, Done
    <3>3. CASE op \in Volatile
      BY <2>1, <3>1, <3>3 DEF Truthful, RecordsAreDone, Done
    <3> QED BY <3>1, <3>2, <3>3 DEF Ops, Truthful, RecordsAreDone
  <2>2. ASSUME NEW s \in Streams, stream[s].last # NoEvent, stream[s].last.status = "completed"
        PROVE  stream[s].op \in committed
    BY <2>2 DEF Truthful, StreamIsDone
  <2> QED BY <2>1, <2>2 DEF CompletedWasDone
<1> QED BY <1>1, InductiveInvariant, TruthfulInvariant, PTL
=============================================================================
