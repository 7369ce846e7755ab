------------------------- MODULE McpConnections_proofs -------------------------
(***************************************************************************)
(* Theorems about McpConnections for any Jobs, handlers and bounds.  A     *)
(* handler that has passed its checks is trusted with a row it has to find *)
(* again; the argument is what the row still being there says about the    *)
(* policy, and what a row that is gone says about the grants that came     *)
(* from it.                                                                *)
(***************************************************************************)
EXTENDS McpConnections, TLAPS

\* Where a handler works on a ticket, on an exchange, and after the row is gone.
Tickets == {"ticket found", "ticket valid", "accepted", "ticket consumed", "issuing code"}
Exchanges == {"exchange found", "exchanging", "exchange consumed", "issuing access", "issuing refresh"}
Spent == {"ticket consumed", "issuing code", "exchange consumed", "issuing access", "issuing refresh"}

\* The handler carries what the row of its key says.
Carries(r, kinds) ==
  /\ r.key \in Keys
  /\ grant[r.key].job = r.job /\ grant[r.key].generation = r.generation
  /\ grant[r.key].kind \in kinds

\* A valid ticket that is still there belongs to the policy in force, so the
\* code its user presented was that policy's.
TicketHolds(r) ==
  /\ r.pc \in {"ticket valid", "accepted"} /\ grant[r.key].live => r.generation = policy[r.job].generation
  /\ r.pc = "accepted" /\ grant[r.key].live => <<r.job, r.generation>> \in approved
  /\ r.pc \in {"ticket consumed", "issuing code"} => <<r.job, r.generation>> \in approved

\* Nothing was issued yet from a row the handler consumed, but its access token.
IsSpending(r) ==
  r.pc \in Spent =>
    /\ ~grant[r.key].live
    /\ \A k \in Keys : grant[k].origin = r.key => r.pc = "issuing refresh" /\ grant[k].kind = "access"

HandlerOK(r) ==
  /\ r.pc = "ticketing" => r.job \in Jobs
  /\ r.pc \in Tickets => Carries(r, {"consent"})
  /\ r.pc \in Exchanges => Carries(r, {"code", "refresh"})
  /\ r.pc = "request found" => Carries(r, {"access", "internal"}) /\ r.since <= policy[r.job].generation
  /\ r.pc = "authorized" =>
       \/ r.generation >= r.since
       \/ r.key \in Keys /\ grant[r.key].kind = "internal"
  /\ TicketHolds(r)
  /\ IsSpending(r)

HandlersOK == \A h \in Handlers : HandlerOK(handler[h])

\* Two handlers never consumed the same row.
SpentByOne ==
  \A g, h \in Handlers :
    handler[g].pc \in Spent /\ handler[h].pc \in Spent /\ handler[g].key = handler[h].key => g = h

\* The row a grant came from is gone.
OriginsAreSpent ==
  \A k \in Keys : grant[k].origin # NoKey => grant[k].origin \in Keys /\ ~grant[grant[k].origin].live

\* Everything issued after a consent was approved.
GrantsAreApproved ==
  \A k \in Keys : grant[k].kind \in {"code", "access", "refresh"} => <<grant[k].job, grant[k].generation>> \in approved

Inductive ==
  TypeOK /\ HandlersOK /\ SpentByOne /\ OriginsAreSpent /\ GrantsAreApproved /\ GrantsAreUsedOnce

Row == [kind : Kinds, job : Jobs, generation : Nat, live : BOOLEAN, origin : Nat]
HandlerRecord == [pc : States, key : Nat, job : Jobs \cup {NoKey}, generation : Nat, since : Nat]

-----------------------------------------------------------------------------
(* What the two writes of the store keep *)

LEMMA KeysAreNumbers ==
  ASSUME TypeOK
  PROVE  /\ Len(grant) \in Nat /\ Keys = 1..Len(grant) /\ NoKey \notin Keys
         /\ \A k \in Keys : grant[k] \in Row /\ k \in Nat
<1>1. grant \in Seq(Row)
  BY DEF TypeOK, Row
<1>2. Len(grant) \in Nat /\ Keys = 1..Len(grant)
  BY <1>1 DEF Keys
<1>3. \A k \in 1..Len(grant) : grant[k] \in Row
  BY <1>1
<1> QED BY <1>2, <1>3 DEF NoKey

\* The rows keep what they say; `keys` stop being live.
Kept(keys) ==
  /\ Keys' = Keys
  /\ \A k \in Keys :
       /\ grant'[k].kind = grant[k].kind /\ grant'[k].job = grant[k].job
       /\ grant'[k].generation = grant[k].generation /\ grant'[k].origin = grant[k].origin
       /\ grant'[k].live <=> (grant[k].live /\ k \notin keys)
  /\ grant' \in Seq(Row)

LEMMA DeleteKeeps ==
  ASSUME TypeOK, NEW keys, Delete(keys) PROVE Kept(keys)
<1> DEFINE row(k) == [grant[k] EXCEPT !.live = @ /\ k \notin keys]
<1>1. Len(grant) \in Nat /\ Keys = 1..Len(grant) /\ \A k \in Keys : grant[k] \in Row
  BY KeysAreNumbers
<1>2. grant' = [k \in Keys |-> row(k)]
  BY DEF Delete
<1>3. ASSUME NEW k \in Keys
      PROVE  /\ row(k) \in Row /\ row(k).kind = grant[k].kind /\ row(k).job = grant[k].job
             /\ row(k).generation = grant[k].generation /\ row(k).origin = grant[k].origin
             /\ row(k).live <=> (grant[k].live /\ k \notin keys)
  <2>1. (grant[k].live /\ k \notin keys) \in BOOLEAN
    OBVIOUS
  <2>2. grant[k] \in Row
    BY <1>1
  <2> QED BY <2>1, <2>2, Zenon DEF Row
<1> HIDE DEF row
<1>4. grant' \in Seq(Row)
  BY <1>1, <1>2, <1>3
<1>5. Keys' = Keys
  BY <1>2 DEF Keys
<1> QED BY <1>2, <1>3, <1>4, <1>5 DEF Kept

\* A new row, under a key that nobody has.
Added(kind, job, generation, origin) ==
  LET new == Len(grant) + 1
  IN  /\ new \notin Keys /\ Keys' = Keys \cup {new} /\ new # NoKey /\ new \in 1..MaxGrants
      /\ \A k \in Keys : grant'[k] = grant[k]
      /\ grant'[new].kind = kind /\ grant'[new].job = job /\ grant'[new].generation = generation
      /\ grant'[new].origin = origin
      /\ grant'[new].live
      /\ grant' \in Seq(Row)

LEMMA IssueAdds ==
  ASSUME TypeOK, NEW kind \in Kinds, NEW job \in Jobs, NEW generation \in Nat, NEW origin \in Nat,
         Issue(kind, job, generation, origin)
  PROVE  Added(kind, job, generation, origin)
<1> DEFINE made == [kind |-> kind, job |-> job, generation |-> generation, live |-> TRUE, origin |-> origin]
           new == Len(grant) + 1
<1>1. Len(grant) \in Nat /\ Keys = 1..Len(grant) /\ grant \in Seq(Row)
  BY KeysAreNumbers DEF TypeOK, Row
<1>2. made \in Row
  BY DEF Row
<1>3. grant' = Append(grant, made) /\ Len(grant) < MaxGrants
  BY DEF Issue
<1>4. /\ made.kind = kind /\ made.job = job /\ made.generation = generation
      /\ made.origin = origin /\ made.live = TRUE
  OBVIOUS
<1> HIDE DEF made
<1>5. grant' \in Seq(Row) /\ Keys' = 1..new /\ grant'[new] = made /\ \A k \in Keys : grant'[k] = grant[k]
  BY <1>1, <1>2, <1>3 DEF Keys
<1>6. new \notin Keys /\ Keys' = Keys \cup {new} /\ new # NoKey /\ new \in 1..MaxGrants
  BY <1>1, <1>3, <1>5, ConnectionsAssumption DEF NoKey
<1> QED BY <1>4, <1>5, <1>6 DEF Added

-----------------------------------------------------------------------------
(* What a handler knows survives the steps of the others *)

LEMMA SpentCarry ==
  ASSUME NEW r, HandlerOK(r), r.pc \in Tickets \cup Exchanges
  PROVE  Carries(r, {"consent", "code", "refresh"}) /\ r.key \in Keys
BY DEF HandlerOK, Carries, Tickets, Exchanges

LEMMA HandlerSurvivesApproval ==
  ASSUME NEW r, HandlerOK(r), UNCHANGED <<policy, grant>>, approved \subseteq approved'
  PROVE  HandlerOK(r)'
BY DEF HandlerOK, Carries, TicketHolds, IsSpending, Keys

LEMMA HandlerSurvivesDelete ==
  ASSUME NEW r, HandlerOK(r), NEW keys, Kept(keys), UNCHANGED <<policy, approved>>
  PROVE  HandlerOK(r)'
<1>1. r.pc \in Tickets => Carries(r, {"consent"})'
  BY DEF HandlerOK, Carries, Kept
<1>2. r.pc \in Exchanges => Carries(r, {"code", "refresh"})'
  BY DEF HandlerOK, Carries, Kept
<1>3. r.pc = "request found" => Carries(r, {"access", "internal"})' /\ r.since <= policy'[r.job].generation
  BY DEF HandlerOK, Carries, Kept
<1>4. r.pc = "authorized" => r.generation >= r.since \/ (r.key \in Keys' /\ grant'[r.key].kind = "internal")
  BY DEF HandlerOK, Kept
<1>5. TicketHolds(r)'
  <2>1. r.pc \in {"ticket valid", "accepted"} => r.key \in Keys
    BY SpentCarry DEF Tickets
  <2> QED BY <2>1 DEF HandlerOK, TicketHolds, Kept
<1>6. IsSpending(r)'
  <2>1. r.pc \in Spent => r.key \in Keys
    BY SpentCarry DEF Spent, Tickets, Exchanges
  <2> QED BY <2>1 DEF HandlerOK, IsSpending, Kept
<1> QED BY <1>1, <1>2, <1>3, <1>4, <1>5, <1>6 DEF HandlerOK

LEMMA HandlerSurvivesIssue ==
  ASSUME TypeOK, NEW r, HandlerOK(r), NEW kind, NEW job, NEW generation, NEW origin,
         Added(kind, job, generation, origin), UNCHANGED <<policy, approved>>,
         r.pc \in Spent => r.key # origin
  PROVE  HandlerOK(r)'
<1>1. Keys \subseteq Keys' /\ \A k \in Keys : grant'[k] = grant[k]
  BY DEF Added
<1>2. r.pc \in Tickets \cup Exchanges => r.key \in Keys
  BY SpentCarry
<1>3. TicketHolds(r)'
  BY <1>1, <1>2 DEF HandlerOK, TicketHolds, Tickets
<1>4. IsSpending(r)'
  <2> SUFFICES ASSUME r.pc \in Spent
               PROVE  ~grant'[r.key].live /\ \A k \in Keys' : grant'[k].origin = r.key =>
                        r.pc = "issuing refresh" /\ grant'[k].kind = "access"
    BY DEF IsSpending
  <2>1. r.key \in Keys
    BY <1>2 DEF Spent, Tickets, Exchanges
  <2>2. grant'[Len(grant) + 1].origin # r.key /\ Keys' = Keys \cup {Len(grant) + 1}
    BY DEF Added
  <2> QED BY <2>1, <2>2, <1>1 DEF HandlerOK, IsSpending
<1> QED BY <1>1, <1>2, <1>3, <1>4 DEF HandlerOK, Carries

LEMMA AtMostTransitive ==
  ASSUME NEW a \in Nat, NEW b \in Nat, NEW c \in Nat, a <= b, b <= c PROVE a <= c
OBVIOUS

LEMMA AtMostItself ==
  ASSUME NEW a \in Nat, NEW b, b = a PROVE a <= b
OBVIOUS

LEMMA ConfigureRaises ==
  ASSUME TypeOK, NEW job \in Jobs, NEW enabled \in BOOLEAN, Configure(job, enabled)
  PROVE  /\ policy' \in [Jobs -> [enabled : BOOLEAN, generation : Nat]]
         /\ policy'[job] = [enabled |-> enabled, generation |-> policy[job].generation + 1]
         /\ \A j \in Jobs : /\ policy[j].generation \in Nat /\ policy'[j].generation \in Nat
                            /\ policy[j].generation <= policy'[j].generation
                            /\ j # job => policy'[j] = policy[j]
<1> DEFINE next == [enabled |-> enabled, generation |-> policy[job].generation + 1]
<1>1. policy \in [Jobs -> [enabled : BOOLEAN, generation : Nat]]
  BY DEF TypeOK
<1>2. policy[job].generation \in Nat
  BY <1>1
<1>3. /\ next \in [enabled : BOOLEAN, generation : Nat]
      /\ next.generation \in Nat /\ policy[job].generation <= next.generation
  BY <1>2
<1>4. policy' = [policy EXCEPT ![job] = next]
  BY DEF Configure
<1>5. policy'[job] = next /\ \A j \in Jobs : j # job => policy'[j] = policy[j]
  BY <1>1, <1>4
<1> HIDE DEF next
<1>6. policy' \in [Jobs -> [enabled : BOOLEAN, generation : Nat]]
  BY <1>1, <1>3, <1>4
<1>7. \A j \in Jobs : policy[j].generation \in Nat /\ policy'[j].generation \in Nat
  BY <1>1, <1>6
<1>8. \A j \in Jobs : policy[j].generation <= policy'[j].generation
  BY <1>3, <1>5, <1>7
<1> QED BY <1>5, <1>6, <1>7, <1>8 DEF next

\* The owner's change of a Job: its external rows go, its generation rises.
LEMMA HandlerSurvivesConfigure ==
  ASSUME TypeOK, NEW r, HandlerOK(r), NEW job \in Jobs, NEW enabled \in BOOLEAN, Configure(job, enabled),
         r.pc = "request found" => r.since \in Nat
  PROVE  HandlerOK(r)'
<1> DEFINE keys == {k \in Keys : grant[k].job = job /\ grant[k].kind # "internal"}
<1>1. Kept(keys) /\ approved' = approved
  BY DeleteKeeps DEF Configure
<1>2. \A j \in Jobs : /\ policy[j].generation \in Nat /\ policy'[j].generation \in Nat
                      /\ policy[j].generation <= policy'[j].generation
                      /\ j # job => policy'[j] = policy[j]
  BY ConfigureRaises
<1>3. r.pc \in Tickets => Carries(r, {"consent"})'
  BY <1>1 DEF HandlerOK, Carries, Kept
<1>4. r.pc \in Exchanges => Carries(r, {"code", "refresh"})'
  BY <1>1 DEF HandlerOK, Carries, Kept
<1>5. r.pc = "request found" => Carries(r, {"access", "internal"})' /\ r.since <= policy'[r.job].generation
  <2> SUFFICES ASSUME r.pc = "request found"
               PROVE  Carries(r, {"access", "internal"})' /\ r.since <= policy'[r.job].generation
    OBVIOUS
  <2>1. Carries(r, {"access", "internal"}) /\ r.since <= policy[r.job].generation /\ r.since \in Nat
    BY DEF HandlerOK
  <2>2. r.job \in Jobs
    BY <2>1, KeysAreNumbers DEF Carries, Row
  <2>3. /\ policy[r.job].generation \in Nat /\ policy'[r.job].generation \in Nat
        /\ policy[r.job].generation <= policy'[r.job].generation
    BY <2>2, <1>2
  <2>4. r.since <= policy'[r.job].generation
    BY <2>1, <2>3, AtMostTransitive
  <2> QED BY <2>1, <2>4, <1>1 DEF Carries, Kept
<1>6. r.pc = "authorized" => r.generation >= r.since \/ (r.key \in Keys' /\ grant'[r.key].kind = "internal")
  BY <1>1 DEF HandlerOK, Kept
<1>7. TicketHolds(r)'
  <2>1. ASSUME r.pc \in {"ticket valid", "accepted"}, grant'[r.key].live
        PROVE  grant[r.key].live /\ policy'[r.job] = policy[r.job]
    <3>1. Carries(r, {"consent"}) /\ r.key \in Keys
      BY <2>1 DEF HandlerOK, Tickets, Carries
    <3>2. r.key \notin keys /\ grant[r.key].live
      BY <3>1, <2>1, <1>1 DEF Kept
    <3>3. r.job \in Jobs /\ r.job # job
      BY <3>1, <3>2, KeysAreNumbers DEF Carries, Row
    <3> QED BY <3>2, <3>3, <1>2
  <2> QED BY <2>1, <1>1 DEF HandlerOK, TicketHolds
<1>8. IsSpending(r)'
  <2>1. r.pc \in Spent => r.key \in Keys
    BY SpentCarry DEF Spent, Tickets, Exchanges
  <2> QED BY <2>1, <1>1 DEF HandlerOK, IsSpending, Kept
<1>9. r.pc = "ticketing" => r.job \in Jobs
  BY DEF HandlerOK
<1> QED BY <1>3, <1>4, <1>5, <1>6, <1>7, <1>8, <1>9 DEF HandlerOK

-----------------------------------------------------------------------------
(* Steps that read: only the handler, and perhaps an approval, changes *)

LEMMA HandlerStepKeepsInductive ==
  ASSUME Inductive, NEW h \in Handlers, NEW r \in HandlerRecord,
         handler' = [handler EXCEPT ![h] = r], UNCHANGED <<policy, grant>>,
         approved \subseteq approved', approved' \subseteq Jobs \X Nat,
         HandlerOK(r)', r.pc \in Spent => handler[h].pc \in Spent /\ r.key = handler[h].key
  PROVE  Inductive'
<1> USE DEF Inductive
<1>1. handler \in [Handlers -> HandlerRecord]
  BY DEF TypeOK, HandlerRecord
<1>2. handler'[h] = r /\ \A g \in Handlers : g # h => handler'[g] = handler[g]
  BY <1>1
<1>3. Keys' = Keys
  BY DEF Keys
<1>4. TypeOK'
  BY <1>1, <1>3 DEF TypeOK, HandlerRecord
<1>5. HandlersOK'
  <2> SUFFICES ASSUME NEW g \in Handlers PROVE HandlerOK(handler[g])'
    BY DEF HandlersOK
  <2>1. CASE g = h
    BY <2>1, <1>2, ZenonT(60) DEF HandlerOK, Carries, TicketHolds, IsSpending
  <2>2. CASE g # h
    <3>1. PICK q : q = handler'[g]
      OBVIOUS
    <3>2. handler[g] = q
      BY <2>2, <3>1, <1>2
    <3>3. HandlerOK(q)
      BY <3>2 DEF HandlersOK
    <3>4. HandlerOK(q)'
      BY <3>3, HandlerSurvivesApproval
    <3> QED BY <3>1, <3>4 DEF HandlerOK, Carries, TicketHolds, IsSpending
  <2> QED BY <2>1, <2>2
<1>6. SpentByOne'
  BY <1>2 DEF SpentByOne
<1>7. OriginsAreSpent' /\ GrantsAreApproved' /\ GrantsAreUsedOnce'
  BY <1>3 DEF OriginsAreSpent, GrantsAreApproved, GrantsAreUsedOnce
<1> QED BY <1>4, <1>5, <1>6, <1>7

\* A handler that answers keeps nothing.
LEMMA EndsKeepsInductive ==
  ASSUME Inductive, NEW h \in Handlers, Ends(h), UNCHANGED <<policy, grant, approved>> PROVE Inductive'
<1>1. Idle \in HandlerRecord /\ Idle.pc = "idle"
  BY DEF Idle, HandlerRecord, States, NoKey
<1>2. HandlerOK(Idle)'
  BY <1>1 DEF HandlerOK, TicketHolds, IsSpending, Tickets, Exchanges, Spent
<1>3. Idle.pc \notin Spent
  BY <1>1 DEF Spent
<1>4. approved' = approved /\ approved' \subseteq Jobs \X Nat
  BY DEF Inductive, TypeOK
<1> QED BY <1>1, <1>2, <1>3, <1>4, HandlerStepKeepsInductive DEF Ends

\* The record of a handler that goes on.
LEMMA BecomesRecord ==
  ASSUME TypeOK, NEW h \in Handlers, NEW pc \in States, Becomes(h, pc)
  PROVE  \E r \in HandlerRecord :
           /\ handler' = [handler EXCEPT ![h] = r]
           /\ r.pc = pc /\ r.key = handler[h].key /\ r.job = handler[h].job
           /\ r.generation = handler[h].generation /\ r.since = handler[h].since
<1> DEFINE r == [handler[h] EXCEPT !.pc = pc]
<1>1. handler[h] \in HandlerRecord
  BY DEF TypeOK, HandlerRecord
<1>2. /\ r \in HandlerRecord /\ r.pc = pc /\ r.key = handler[h].key /\ r.job = handler[h].job
      /\ r.generation = handler[h].generation /\ r.since = handler[h].since
  BY <1>1 DEF HandlerRecord
<1>3. handler' = [handler EXCEPT ![h] = r]
  BY DEF Becomes
<1> QED BY <1>2, <1>3

LEMMA AuthorizeKeepsInductive ==
  ASSUME Inductive, NEW h \in Handlers, NEW job \in Jobs, Authorize(h, job) PROVE Inductive'
<1>1. PICK r : r = [Idle EXCEPT !.pc = "ticketing", !.job = job, !.generation = policy[job].generation]
  OBVIOUS
<1>2. r \in HandlerRecord /\ r.pc = "ticketing" /\ r.job = job
  <2>1. policy[job].generation \in Nat
    BY DEF Inductive, TypeOK
  <2> QED BY <1>1, <2>1 DEF Idle, HandlerRecord, States, NoKey
<1>3. handler' = [handler EXCEPT ![h] = r] /\ UNCHANGED <<policy, grant, approved>>
  BY <1>1 DEF Authorize
<1>4. HandlerOK(r)' /\ r.pc \notin Spent
  BY <1>2 DEF HandlerOK, TicketHolds, IsSpending, Tickets, Exchanges, Spent
<1>5. approved \subseteq approved' /\ approved' \subseteq Jobs \X Nat
  BY <1>3 DEF Inductive, TypeOK
<1> QED BY <1>2, <1>3, <1>4, <1>5, HandlerStepKeepsInductive

LEMMA FindKeepsInductive ==
  ASSUME Inductive, NEW h \in Handlers, NEW key \in Keys, NEW kinds, NEW pc \in States, Find(h, key, kinds, pc),
         \/ pc = "ticket found" /\ kinds = {"consent"}
         \/ pc = "exchange found" /\ kinds = {"code", "refresh"}
         \/ pc = "request found" /\ kinds = {"access", "internal"}
  PROVE  Inductive'
<1>0. PICK r : r = [pc |-> pc, key |-> key, job |-> grant[key].job, generation |-> grant[key].generation,
                    since |-> policy[grant[key].job].generation]
  OBVIOUS
<1>1. grant[key] \in Row /\ key \in Nat /\ grant[key].kind \in kinds
  <2>1. TypeOK /\ grant[key].kind \in kinds
    BY DEF Inductive, Find
  <2>2. grant[key] \in Row /\ key \in Nat
    BY <2>1, KeysAreNumbers
  <2> QED BY <2>1, <2>2
<1>2. policy[grant[key].job].generation \in Nat
  BY <1>1 DEF Inductive, TypeOK, Row
<1>3. r \in HandlerRecord
  BY <1>0, <1>1, <1>2 DEF HandlerRecord, Row
<1>4. handler' = [handler EXCEPT ![h] = r] /\ UNCHANGED <<policy, grant, approved>>
  BY <1>0 DEF Find
<1>5. /\ r.pc = pc /\ r.key = key /\ r.job = grant[key].job /\ r.generation = grant[key].generation
      /\ r.since = policy[r.job].generation
  BY <1>0
<1>6. Carries(r, kinds)' /\ r.since <= policy'[r.job].generation
  <2>1. Keys' = Keys
    BY <1>4 DEF Keys
  <2>2. Carries(r, kinds)'
    BY <1>1, <1>4, <1>5, <2>1 DEF Carries
  <2>3. r.since \in Nat /\ policy'[r.job].generation = r.since
    BY <1>3, <1>4, <1>5 DEF HandlerRecord
  <2>4. r.since <= policy'[r.job].generation
    BY <2>3, AtMostItself
  <2> QED BY <2>2, <2>4
<1>7. HandlerOK(r)' /\ r.pc \notin Spent
  BY <1>5, <1>6 DEF HandlerOK, TicketHolds, IsSpending, Tickets, Exchanges, Spent
<1>8. approved \subseteq approved' /\ approved' \subseteq Jobs \X Nat
  BY <1>4 DEF Inductive, TypeOK
<1> QED BY <1>3, <1>4, <1>7, <1>8, HandlerStepKeepsInductive

LEMMA CheckKeepsInductive ==
  ASSUME Inductive, NEW h \in Handlers, NEW from, NEW to \in States, Check(h, from, to),
         <<from, to>> \in {<<"ticket found", "ticket valid">>, <<"ticket consumed", "issuing code">>,
                           <<"exchange found", "exchanging">>, <<"exchange consumed", "issuing access">>,
                           <<"request found", "authorized">>}
  PROVE  Inductive'
<1>1. CASE ~Current(handler[h].key)
  BY <1>1, EndsKeepsInductive DEF Check
<1>2. CASE Current(handler[h].key)
  <2>1. handler[h].pc = from /\ Becomes(h, to) /\ UNCHANGED <<policy, grant, approved>>
    BY <1>2 DEF Check
  <2>2. PICK r \in HandlerRecord :
          /\ handler' = [handler EXCEPT ![h] = r]
          /\ r.pc = to /\ r.key = handler[h].key /\ r.job = handler[h].job
          /\ r.generation = handler[h].generation /\ r.since = handler[h].since
    BY <2>1, BecomesRecord DEF Inductive
  <2>3. HandlerOK(handler[h])
    BY DEF Inductive, HandlersOK
  <2>4. r.pc \in Spent => handler[h].pc \in Spent /\ r.key = handler[h].key
    BY <2>1, <2>2 DEF Spent
  <2>5. approved \subseteq approved' /\ approved' \subseteq Jobs \X Nat
    BY <2>1 DEF Inductive, TypeOK
  <2>6. HandlerOK(r)
    <3>1. CASE from = "ticket found"
      <4>1. to = "ticket valid" /\ Carries(r, {"consent"})
        BY <3>1, <2>1, <2>2, <2>3 DEF HandlerOK, Tickets, Carries
      <4>2. r.generation = policy[r.job].generation
        BY <4>1, <1>2, <2>2 DEF Current, Carries
      <4> QED BY <4>1, <4>2, <2>2 DEF HandlerOK, TicketHolds, IsSpending, Tickets, Exchanges, Spent
    <3>2. CASE from = "ticket consumed"
      BY <3>2, <2>1, <2>2, <2>3 DEF HandlerOK, TicketHolds, IsSpending, Tickets, Exchanges, Spent, Carries
    <3>3. CASE from = "exchange found"
      BY <3>3, <2>1, <2>2, <2>3 DEF HandlerOK, TicketHolds, IsSpending, Tickets, Exchanges, Spent, Carries
    <3>4. CASE from = "exchange consumed"
      BY <3>4, <2>1, <2>2, <2>3 DEF HandlerOK, TicketHolds, IsSpending, Tickets, Exchanges, Spent, Carries
    <3>5. CASE from = "request found"
      <4>1. to = "authorized" /\ Carries(r, {"access", "internal"}) /\ r.since <= policy[r.job].generation
        BY <3>5, <2>1, <2>2, <2>3 DEF HandlerOK, Carries
      <4>2. \/ r.generation = policy[r.job].generation
            \/ r.key \in Keys /\ grant[r.key].kind = "internal"
        BY <4>1, <1>2, <2>2 DEF Current, Carries
      <4>3. r.generation >= r.since \/ (r.key \in Keys /\ grant[r.key].kind = "internal")
        BY <4>1, <4>2
      <4> QED BY <4>1, <4>3, <2>2 DEF HandlerOK, TicketHolds, IsSpending, Tickets, Exchanges, Spent
    <3> QED BY <3>1, <3>2, <3>3, <3>4, <3>5
  <2>7. HandlerOK(r)'
    BY <2>1, <2>5, <2>6, HandlerSurvivesApproval
  <2> QED BY <2>1, <2>2, <2>4, <2>5, <2>7, HandlerStepKeepsInductive
<1> QED BY <1>1, <1>2

\* The code that is presented while the ticket is there is the ticket's own.
LEMMA PresentCodeKeepsInductive ==
  ASSUME Inductive, NEW h \in Handlers, NEW generation \in 1..MaxGeneration, PresentCode(h, generation)
  PROVE  Inductive'
<1> DEFINE job == handler[h].job
           accepted == policy[job].enabled /\ policy[job].generation = generation
<1>1. handler[h].pc = "ticket valid" /\ UNCHANGED <<policy, grant>>
  BY DEF PresentCode
<1>2. HandlerOK(handler[h]) /\ TypeOK
  BY DEF Inductive, HandlersOK
<1>3. Carries(handler[h], {"consent"}) /\ job \in Jobs
  <2>1. Carries(handler[h], {"consent"}) /\ handler[h].key \in Keys
    BY <1>1, <1>2 DEF HandlerOK, Tickets, Carries
  <2> QED BY <2>1, <1>2, KeysAreNumbers DEF Carries, Row
<1>4. CASE ~accepted
  <2>1. Ends(h) /\ UNCHANGED <<policy, grant, approved>>
    BY <1>4 DEF PresentCode
  <2> QED BY <2>1, EndsKeepsInductive
<1>5. CASE accepted
  <2>1. Becomes(h, "accepted") /\ approved' = approved \cup {<<job, generation>>}
    BY <1>5 DEF PresentCode
  <2>2. PICK r \in HandlerRecord :
          /\ handler' = [handler EXCEPT ![h] = r]
          /\ r.pc = "accepted" /\ r.key = handler[h].key /\ r.job = handler[h].job
          /\ r.generation = handler[h].generation /\ r.since = handler[h].since
    BY <1>2, <2>1, BecomesRecord DEF States
  <2>3. generation \in Nat
    BY ConnectionsAssumption
  <2>4. approved \subseteq approved' /\ approved' \subseteq Jobs \X Nat
    BY <1>2, <1>3, <2>1, <2>3 DEF TypeOK
  <2>5. Carries(r, {"consent"})'
    BY <1>1, <1>3, <2>2 DEF Carries, Keys
  <2>6. grant[r.key].live => r.generation = policy[r.job].generation /\ <<r.job, r.generation>> \in approved'
    BY <1>1, <1>2, <1>5, <2>1, <2>2 DEF HandlerOK, TicketHolds
  <2>7. HandlerOK(r)' /\ r.pc \notin Spent
    BY <1>1, <2>2, <2>5, <2>6 DEF HandlerOK, TicketHolds, IsSpending, Tickets, Exchanges, Spent
  <2> QED BY <1>1, <2>2, <2>4, <2>7, HandlerStepKeepsInductive
<1> QED BY <1>4, <1>5

LEMMA RequestWithCodeKeepsInductive ==
  ASSUME Inductive, NEW h \in Handlers, NEW job \in Jobs, NEW generation \in 1..MaxGeneration,
         RequestWithCode(h, job, generation)
  PROVE  Inductive'
<1> DEFINE r == [pc |-> "authorized", key |-> NoKey, job |-> job, generation |-> generation, since |-> generation]
<1>1. generation \in Nat /\ generation >= generation
  BY ConnectionsAssumption
<1>2. r \in HandlerRecord /\ r.pc = "authorized" /\ r.generation >= r.since
  BY <1>1 DEF HandlerRecord, States, NoKey
<1>3. handler' = [handler EXCEPT ![h] = r] /\ UNCHANGED <<policy, grant, approved>>
  BY DEF RequestWithCode
<1> HIDE DEF r
<1>4. HandlerOK(r)' /\ r.pc \notin Spent
  BY <1>2 DEF HandlerOK, TicketHolds, IsSpending, Tickets, Exchanges, Spent
<1>5. approved \subseteq approved' /\ approved' \subseteq Jobs \X Nat
  BY <1>3 DEF Inductive, TypeOK
<1> QED BY <1>2, <1>3, <1>4, <1>5, HandlerStepKeepsInductive

\* After a crash no handler knows anything.
LEMMA CrashKeepsInductive ==
  ASSUME Inductive, Crash PROVE Inductive'
<1> USE DEF Inductive
<1>1. UNCHANGED <<policy, grant, approved>> /\ handler' = [h \in Handlers |-> Idle] /\ Keys' = Keys
  BY DEF Crash, Keys
<1>2. Idle \in HandlerRecord /\ Idle.pc = "idle"
  BY DEF Idle, HandlerRecord, States, NoKey
<1>3. TypeOK'
  BY <1>1, <1>2 DEF TypeOK, HandlerRecord
<1>4. HandlersOK' /\ SpentByOne'
  BY <1>1, <1>2 DEF HandlersOK, SpentByOne, HandlerOK, TicketHolds, IsSpending, Tickets, Exchanges, Spent
<1>5. OriginsAreSpent' /\ GrantsAreApproved' /\ GrantsAreUsedOnce'
  BY <1>1 DEF OriginsAreSpent, GrantsAreApproved, GrantsAreUsedOnce
<1> QED BY <1>3, <1>4, <1>5

-----------------------------------------------------------------------------
(* Steps that delete rows *)

\* What is said of the grants survives the loss of some.
LEMMA GrantsSurviveDelete ==
  ASSUME Inductive, NEW keys, Kept(keys), approved' = approved
  PROVE  OriginsAreSpent' /\ GrantsAreApproved' /\ GrantsAreUsedOnce'
<1>1. OriginsAreSpent'
  BY DEF Inductive, OriginsAreSpent, Kept
<1>2. GrantsAreApproved'
  BY DEF Inductive, GrantsAreApproved, Kept
<1>3. GrantsAreUsedOnce'
  BY DEF Inductive, GrantsAreUsedOnce, Kept
<1> QED BY <1>1, <1>2, <1>3

\* revoke_token and expiry.
LEMMA DropKeepsInductive ==
  ASSUME Inductive, NEW key \in Keys, Delete({key}), UNCHANGED <<policy, handler, approved>>
  PROVE  Inductive'
<1>1. Kept({key})
  BY DeleteKeeps DEF Inductive
<1>2. TypeOK'
  BY <1>1 DEF Inductive, TypeOK, Kept, Row
<1>3. HandlersOK'
  <2> SUFFICES ASSUME NEW g \in Handlers PROVE HandlerOK(handler[g])'
    BY DEF HandlersOK
  <2>1. PICK q : q = handler[g]
    OBVIOUS
  <2>2. HandlerOK(q)
    BY <2>1 DEF Inductive, HandlersOK
  <2>3. HandlerOK(q)'
    BY <2>2, <1>1, HandlerSurvivesDelete
  <2> QED BY <2>1, <2>3 DEF HandlerOK, Carries, TicketHolds, IsSpending
<1>4. SpentByOne'
  BY DEF Inductive, SpentByOne
<1> QED BY <1>1, <1>2, <1>3, <1>4, GrantsSurviveDelete DEF Inductive

LEMMA ConfigureKeepsInductive ==
  ASSUME Inductive, NEW job \in Jobs, NEW enabled \in BOOLEAN, Configure(job, enabled) PROVE Inductive'
<1> DEFINE keys == {k \in Keys : grant[k].job = job /\ grant[k].kind # "internal"}
<1>1. Kept(keys) /\ UNCHANGED <<handler, approved>>
  BY DeleteKeeps DEF Configure, Inductive
<1> HIDE DEF keys
<1>2. TypeOK'
  BY <1>1, ConfigureRaises DEF Inductive, TypeOK, Kept, Row
<1>3. HandlersOK'
  <2> SUFFICES ASSUME NEW g \in Handlers PROVE HandlerOK(handler[g])'
    BY DEF HandlersOK
  <2>1. PICK q \in HandlerRecord : q = handler[g]
    BY DEF Inductive, TypeOK, HandlerRecord
  <2>2. HandlerOK(q) /\ q.since \in Nat
    BY <2>1 DEF Inductive, HandlersOK, HandlerRecord
  <2>3. HandlerOK(q)'
    BY <2>2, HandlerSurvivesConfigure DEF Inductive
  <2> QED BY <2>1, <2>3, <1>1 DEF HandlerOK, Carries, TicketHolds, IsSpending
<1>4. SpentByOne'
  BY <1>1 DEF Inductive, SpentByOne
<1> QED BY <1>1, <1>2, <1>3, <1>4, GrantsSurviveDelete DEF Inductive

\* A row is consumed by the one handler that found it.
LEMMA ConsumeKeepsInductive ==
  ASSUME Inductive, NEW h \in Handlers, NEW from, NEW to \in States, Consume(h, from, to),
         <<from, to>> \in {<<"accepted", "ticket consumed">>, <<"exchanging", "exchange consumed">>}
  PROVE  Inductive'
<1>1. CASE ~grant[handler[h].key].live
  <2>1. Ends(h) /\ UNCHANGED <<policy, grant, approved>>
    BY <1>1 DEF Consume
  <2> QED BY <2>1, EndsKeepsInductive
<1>2. CASE grant[handler[h].key].live
  <2>1. handler[h].pc = from /\ Delete({handler[h].key}) /\ Becomes(h, to) /\ UNCHANGED <<policy, approved>>
    BY <1>2 DEF Consume
  <2>2. PICK r \in HandlerRecord :
          /\ handler' = [handler EXCEPT ![h] = r]
          /\ r.pc = to /\ r.key = handler[h].key /\ r.job = handler[h].job
          /\ r.generation = handler[h].generation /\ r.since = handler[h].since
    BY <2>1, BecomesRecord DEF Inductive
  <2>3. Kept({r.key})
    BY <2>1, <2>2, DeleteKeeps DEF Inductive
  <2>4. handler \in [Handlers -> HandlerRecord]
    BY DEF Inductive, TypeOK, HandlerRecord
  <2>5. handler'[h] = r /\ \A g \in Handlers : g # h => handler'[g] = handler[g]
    BY <2>2, <2>4
  <2>6. HandlerOK(handler[h])
    BY DEF Inductive, HandlersOK
  <2>7. r.key \in Keys /\ grant[r.key].live
    BY <1>2, <2>1, <2>2, <2>6 DEF HandlerOK, Tickets, Exchanges, Carries
  <2>8. \A k \in Keys : grant[k].origin # r.key
    <3>1. NoKey \notin Keys
      BY KeysAreNumbers DEF Inductive
    <3> QED BY <2>7, <3>1 DEF Inductive, OriginsAreSpent
  <2>9. HandlerOK(r)'
    <3>1. CASE from = "accepted"
      <4>1. to = "ticket consumed" /\ Carries(r, {"consent"}) /\ <<r.job, r.generation>> \in approved
        BY <3>1, <1>2, <2>1, <2>2, <2>6 DEF HandlerOK, TicketHolds, Tickets, Carries
      <4>2. Carries(r, {"consent"})'
        BY <4>1, <2>3 DEF Carries, Kept
      <4>3. IsSpending(r)'
        BY <2>3, <2>7, <2>8, ZenonT(60) DEF IsSpending, Kept
      <4> QED BY <4>1, <4>2, <4>3, <2>1, <2>2 DEF HandlerOK, TicketHolds, Exchanges
    <3>2. CASE from = "exchanging"
      <4>1. to = "exchange consumed" /\ Carries(r, {"code", "refresh"})
        BY <3>2, <2>1, <2>2, <2>6 DEF HandlerOK, Exchanges, Carries
      <4>2. Carries(r, {"code", "refresh"})'
        BY <4>1, <2>3 DEF Carries, Kept
      <4>3. IsSpending(r)'
        BY <2>3, <2>7, <2>8 DEF IsSpending, Kept
      <4> QED BY <4>1, <4>2, <4>3, <2>2 DEF HandlerOK, TicketHolds, Tickets
    <3> QED BY <3>1, <3>2
  <2>10. \A g \in Handlers : g # h /\ handler[g].pc \in Spent => handler[g].key # r.key
    BY <2>7 DEF Inductive, HandlersOK, HandlerOK, IsSpending
  <2>11. TypeOK'
    BY <2>1, <2>2, <2>3, <2>4 DEF Inductive, TypeOK, Kept, Row, HandlerRecord
  <2>12. HandlersOK'
    <3> SUFFICES ASSUME NEW g \in Handlers PROVE HandlerOK(handler[g])'
      BY DEF HandlersOK
    <3>1. CASE g = h
      BY <3>1, <2>5, <2>9 DEF HandlerOK, Carries, TicketHolds, IsSpending
    <3>2. CASE g # h
      <4>1. PICK q : q = handler'[g]
        OBVIOUS
      <4>2. HandlerOK(q)
        BY <3>2, <4>1, <2>5 DEF Inductive, HandlersOK
      <4>3. HandlerOK(q)'
        BY <4>2, <2>1, <2>3, HandlerSurvivesDelete
      <4> QED BY <4>1, <4>3 DEF HandlerOK, Carries, TicketHolds, IsSpending
    <3> QED BY <3>1, <3>2
  <2>13. SpentByOne'
    BY <2>5, <2>10 DEF Inductive, SpentByOne
  <2> QED BY <2>1, <2>3, <2>11, <2>12, <2>13, GrantsSurviveDelete DEF Inductive
<1> QED BY <1>1, <1>2

-----------------------------------------------------------------------------
(* Steps that issue a grant *)

\* What is said of the grants survives a new one, whose origin is no row or a
\* row that is gone and from which nothing of its kind came before.
LEMMA GrantsSurviveIssue ==
  ASSUME Inductive, NEW kind \in Kinds, NEW job \in Jobs, NEW generation \in Nat, NEW origin \in Nat,
         Added(kind, job, generation, origin), approved' = approved,
         origin # NoKey => /\ origin \in Keys /\ ~grant[origin].live
                           /\ \A k \in Keys : grant[k].origin = origin => grant[k].kind # kind,
         kind \in {"code", "access", "refresh"} => <<job, generation>> \in approved
  PROVE  OriginsAreSpent' /\ GrantsAreApproved' /\ GrantsAreUsedOnce'
<1> DEFINE new == Len(grant) + 1
<1>1. /\ new \notin Keys /\ Keys' = Keys \cup {new} /\ \A k \in Keys : grant'[k] = grant[k]
      /\ grant'[new].kind = kind /\ grant'[new].job = job /\ grant'[new].generation = generation
      /\ grant'[new].origin = origin
  BY DEF Added
<1> HIDE DEF new
<1>2. OriginsAreSpent'
  BY <1>1 DEF Inductive, OriginsAreSpent
<1>3. GrantsAreApproved'
  BY <1>1 DEF Inductive, GrantsAreApproved
<1>4. GrantsAreUsedOnce'
  BY <1>1 DEF Inductive, GrantsAreUsedOnce
<1> QED BY <1>2, <1>3, <1>4

LEMMA IssueKeepsInductive ==
  ASSUME Inductive, NEW h \in Handlers, NEW r \in HandlerRecord, handler' = [handler EXCEPT ![h] = r],
         UNCHANGED <<policy, approved>>,
         NEW kind \in Kinds, NEW job \in Jobs, NEW generation \in Nat, NEW origin \in Nat,
         Added(kind, job, generation, origin),
         origin # NoKey => /\ origin = handler[h].key /\ handler[h].pc \in Spent
                           /\ \A k \in Keys : grant[k].origin = origin => grant[k].kind # kind,
         kind \in {"code", "access", "refresh"} => <<job, generation>> \in approved,
         HandlerOK(r)', r.pc \in Spent => handler[h].pc \in Spent /\ r.key = handler[h].key
  PROVE  Inductive'
<1>1. handler \in [Handlers -> HandlerRecord]
  BY DEF Inductive, TypeOK, HandlerRecord
<1>2. handler'[h] = r /\ \A g \in Handlers : g # h => handler'[g] = handler[g]
  BY <1>1
<1>3. \A g \in Handlers : handler[g].pc \in Spent => handler[g].key \in Keys /\ ~grant[handler[g].key].live
  <2> SUFFICES ASSUME NEW g \in Handlers, handler[g].pc \in Spent
               PROVE  handler[g].key \in Keys /\ ~grant[handler[g].key].live
    OBVIOUS
  <2>1. PICK q : q = handler[g]
    OBVIOUS
  <2>2. HandlerOK(q) /\ q.pc \in Tickets \cup Exchanges
    BY <2>1 DEF Inductive, HandlersOK, Spent, Tickets, Exchanges
  <2>3. q.key \in Keys
    BY <2>2, SpentCarry
  <2> QED BY <2>1, <2>2, <2>3 DEF HandlerOK, IsSpending
<1>4. TypeOK'
  BY <1>1 DEF Inductive, TypeOK, Added, Row, HandlerRecord
<1>5. HandlersOK'
  <2> SUFFICES ASSUME NEW g \in Handlers PROVE HandlerOK(handler[g])'
    BY DEF HandlersOK
  <2>1. CASE g = h
    BY <2>1, <1>2 DEF HandlerOK, Carries, TicketHolds, IsSpending
  <2>2. CASE g # h
    <3>1. PICK q : q = handler'[g]
      OBVIOUS
    <3>2. HandlerOK(q) /\ handler[g] = q
      BY <2>2, <3>1, <1>2 DEF Inductive, HandlersOK
    <3>3. q.pc \in Spent => q.key # origin
      <4>1. NoKey \notin Keys
        BY KeysAreNumbers DEF Inductive
      <4> QED BY <2>2, <3>2, <4>1, <1>3 DEF Inductive, SpentByOne
    <3>4. HandlerOK(q)'
      BY <3>2, <3>3, HandlerSurvivesIssue DEF Inductive
    <3> QED BY <3>1, <3>4 DEF HandlerOK, Carries, TicketHolds, IsSpending
  <2> QED BY <2>1, <2>2
<1>6. SpentByOne'
  BY <1>2 DEF Inductive, SpentByOne
<1>7. OriginsAreSpent' /\ GrantsAreApproved' /\ GrantsAreUsedOnce'
  BY <1>3, GrantsSurviveIssue
<1> QED BY <1>4, <1>5, <1>6, <1>7 DEF Inductive

LEMMA OpenSessionKeepsInductive ==
  ASSUME Inductive, NEW job \in Jobs, OpenSession(job) PROVE Inductive'
<1>1. Added("internal", job, 0, NoKey) /\ UNCHANGED <<policy, handler, approved>>
  BY IssueAdds DEF OpenSession, Inductive, Kinds, NoKey
<1>2. TypeOK'
  BY <1>1 DEF Inductive, TypeOK, Added, Row
<1>3. NoKey \in Nat /\ NoKey \notin Keys /\ "internal" \in Kinds
  BY KeysAreNumbers DEF Inductive, NoKey, Kinds
<1>4. HandlersOK'
  <2> SUFFICES ASSUME NEW g \in Handlers PROVE HandlerOK(handler[g])'
    BY DEF HandlersOK
  <2>1. PICK q : q = handler[g]
    OBVIOUS
  <2>2. HandlerOK(q)
    BY <2>1 DEF Inductive, HandlersOK
  <2>3. q.pc \in Spent => q.key # NoKey
    BY <2>2, <1>3, SpentCarry DEF Spent, Tickets, Exchanges
  <2>4. HandlerOK(q)'
    BY <1>1, <2>2, <2>3, HandlerSurvivesIssue DEF Inductive
  <2> QED BY <1>1, <2>1, <2>4 DEF HandlerOK, Carries, TicketHolds, IsSpending
<1>5. SpentByOne'
  BY <1>1 DEF Inductive, SpentByOne
<1>6. OriginsAreSpent' /\ GrantsAreApproved' /\ GrantsAreUsedOnce'
  BY <1>1, <1>3, GrantsSurviveIssue
<1> QED BY <1>2, <1>4, <1>5, <1>6 DEF Inductive

\* What a handler that is about to issue carries.
LEMMA IssuerFacts ==
  ASSUME Inductive, NEW h \in Handlers,
         handler[h].pc \in {"ticketing", "issuing code", "issuing access", "issuing refresh"}
  PROVE  /\ handler[h].job \in Jobs /\ handler[h].generation \in Nat /\ handler[h].key \in Nat
         /\ handler[h].pc # "ticketing" =>
              handler[h].key \in Keys /\ <<handler[h].job, handler[h].generation>> \in approved
<1>1. PICK q \in HandlerRecord : q = handler[h]
  BY DEF Inductive, TypeOK, HandlerRecord
<1>2. HandlerOK(q) /\ TypeOK
  BY <1>1 DEF Inductive, HandlersOK
<1>3. CASE q.pc = "ticketing"
  BY <1>1, <1>2, <1>3 DEF HandlerOK, HandlerRecord
<1>4. CASE q.pc # "ticketing"
  <2>1. q.pc \in Tickets \cup Exchanges
    BY <1>1, <1>4 DEF Tickets, Exchanges
  <2>2. Carries(q, {"consent", "code", "refresh"}) /\ q.key \in Keys
    BY <1>2, <2>1, SpentCarry
  <2>3. q.job \in Jobs
    BY <1>2, <2>2, KeysAreNumbers DEF Carries, Row
  <2>4. q.pc = "issuing code" => <<q.job, q.generation>> \in approved
    BY <1>2 DEF HandlerOK, TicketHolds
  <2>5. q.pc \in Exchanges => <<q.job, q.generation>> \in approved
    BY <1>2 DEF HandlerOK, Carries, Inductive, GrantsAreApproved
  <2>6. <<q.job, q.generation>> \in approved
    BY <1>1, <1>4, <2>4, <2>5 DEF Exchanges
  <2> QED BY <1>1, <2>2, <2>3, <2>6 DEF HandlerRecord
<1> QED BY <1>1, <1>3, <1>4

LEMMA IdleIsOK == Idle \in HandlerRecord /\ HandlerOK(Idle)' /\ Idle.pc \notin Spent
<1>1. Idle \in HandlerRecord /\ Idle.pc = "idle"
  BY DEF Idle, HandlerRecord, States, NoKey
<1> QED BY <1>1 DEF HandlerOK, TicketHolds, IsSpending, Tickets, Exchanges, Spent

LEMMA IssueTicketKeepsInductive ==
  ASSUME Inductive, NEW h \in Handlers, IssueTicket(h) PROVE Inductive'
<1>1. PICK job, generation : job = handler[h].job /\ generation = handler[h].generation
  OBVIOUS
<1>2. job \in Jobs /\ generation \in Nat /\ NoKey \in Nat /\ "consent" \in Kinds
  BY <1>1, IssuerFacts DEF IssueTicket, NoKey, Kinds
<1>3. Added("consent", job, generation, NoKey)
  BY <1>1, <1>2, IssueAdds DEF IssueTicket, Inductive
<1>4. handler' = [handler EXCEPT ![h] = Idle] /\ UNCHANGED <<policy, approved>>
  BY DEF IssueTicket, Ends
<1> QED BY <1>2, <1>3, <1>4, IdleIsOK, IssueKeepsInductive

LEMMA IssueCodeKeepsInductive ==
  ASSUME Inductive, NEW h \in Handlers, IssueCode(h) PROVE Inductive'
<1>1. PICK q : q = handler[h]
  OBVIOUS
<1>2. q.pc = "issuing code" /\ HandlerOK(q)
  BY <1>1 DEF IssueCode, Inductive, HandlersOK
<1>3. q.job \in Jobs /\ q.generation \in Nat /\ q.key \in Nat /\ "code" \in Kinds /\ <<q.job, q.generation>> \in approved
  BY <1>1, <1>2, IssuerFacts DEF Kinds
<1>4. Added("code", q.job, q.generation, q.key)
  BY <1>1, <1>3, IssueAdds DEF IssueCode, Inductive
<1>5. handler' = [handler EXCEPT ![h] = Idle] /\ UNCHANGED <<policy, approved>>
  BY DEF IssueCode, Ends
<1>6. q.pc \in Spent /\ \A k \in Keys : grant[k].origin = q.key => grant[k].kind # "code"
  BY <1>2 DEF HandlerOK, IsSpending, Spent
<1> QED BY <1>1, <1>3, <1>4, <1>5, <1>6, IdleIsOK, IssueKeepsInductive

LEMMA IssueRefreshKeepsInductive ==
  ASSUME Inductive, NEW h \in Handlers, IssueRefresh(h) PROVE Inductive'
<1>1. PICK q : q = handler[h]
  OBVIOUS
<1>2. q.pc = "issuing refresh" /\ HandlerOK(q)
  BY <1>1 DEF IssueRefresh, Inductive, HandlersOK
<1>3. q.job \in Jobs /\ q.generation \in Nat /\ q.key \in Nat /\ "refresh" \in Kinds /\ <<q.job, q.generation>> \in approved
  BY <1>1, <1>2, IssuerFacts DEF Kinds
<1>4. Added("refresh", q.job, q.generation, q.key)
  BY <1>1, <1>3, IssueAdds DEF IssueRefresh, Inductive
<1>5. handler' = [handler EXCEPT ![h] = Idle] /\ UNCHANGED <<policy, approved>>
  BY DEF IssueRefresh, Ends
<1>6. q.pc \in Spent /\ \A k \in Keys : grant[k].origin = q.key => grant[k].kind # "refresh"
  BY <1>2 DEF HandlerOK, IsSpending, Spent
<1> QED BY <1>1, <1>3, <1>4, <1>5, <1>6, IdleIsOK, IssueKeepsInductive

LEMMA IssueAccessKeepsInductive ==
  ASSUME Inductive, NEW h \in Handlers, IssueAccess(h) PROVE Inductive'
<1>1. PICK q : q = handler[h]
  OBVIOUS
<1>2. q.pc = "issuing access" /\ HandlerOK(q)
  BY <1>1 DEF IssueAccess, Inductive, HandlersOK
<1>3. q.job \in Jobs /\ q.generation \in Nat /\ q.key \in Nat /\ "access" \in Kinds /\ <<q.job, q.generation>> \in approved
  BY <1>1, <1>2, IssuerFacts DEF Kinds
<1>4. Added("access", q.job, q.generation, q.key) /\ UNCHANGED <<policy, approved>>
  BY <1>1, <1>3, IssueAdds DEF IssueAccess, Inductive
<1>5. PICK r \in HandlerRecord :
        /\ handler' = [handler EXCEPT ![h] = r]
        /\ r.pc = "issuing refresh" /\ r.key = q.key /\ r.job = q.job
        /\ r.generation = q.generation /\ r.since = q.since
  <2>1. TypeOK /\ Becomes(h, "issuing refresh") /\ "issuing refresh" \in States
    BY DEF IssueAccess, Inductive, States
  <2>2. PICK r \in HandlerRecord :
          /\ handler' = [handler EXCEPT ![h] = r]
          /\ r.pc = "issuing refresh" /\ r.key = handler[h].key /\ r.job = handler[h].job
          /\ r.generation = handler[h].generation /\ r.since = handler[h].since
    BY <2>1, BecomesRecord
  <2> QED BY <1>1, <2>2
<1>6. q.pc \in Spent /\ \A k \in Keys : grant[k].origin # q.key
  BY <1>2 DEF HandlerOK, IsSpending, Spent
<1>7. HandlerOK(r)'
  <2>1. Carries(q, {"code", "refresh"}) /\ q.key \in Keys /\ ~grant[q.key].live
    BY <1>2 DEF HandlerOK, Exchanges, Carries, IsSpending, Spent
  <2>2. Carries(r, {"code", "refresh"})'
    BY <2>1, <1>4, <1>5 DEF Carries, Added
  <2>3. IsSpending(r)'
    BY <2>1, <1>4, <1>5, <1>6 DEF IsSpending, Added
  <2> QED BY <2>2, <2>3, <1>5 DEF HandlerOK, TicketHolds, Tickets, Exchanges
<1> QED BY <1>1, <1>3, <1>4, <1>5, <1>6, <1>7, IssueKeepsInductive

-----------------------------------------------------------------------------
(* The invariant *)

LEMMA InitEstablishesInductive == Init => Inductive
<1> SUFFICES ASSUME Init PROVE Inductive
  OBVIOUS
<1>1. grant = <<>> /\ Keys = {}
  BY DEF Init, Keys
<1>2. Idle \in HandlerRecord /\ Idle.pc = "idle"
  BY DEF Idle, HandlerRecord, States, NoKey
<1>3. TypeOK
  <2>1. grant \in Seq(Row)
    BY <1>1
  <2>2. policy \in [Jobs -> [enabled : BOOLEAN, generation : Nat]]
    BY DEF Init
  <2> QED BY <1>2, <2>1, <2>2 DEF Init, TypeOK, Row, HandlerRecord
<1>4. HandlersOK /\ SpentByOne
  BY <1>2 DEF Init, HandlersOK, SpentByOne, HandlerOK, TicketHolds, IsSpending, Tickets, Exchanges, Spent
<1>5. OriginsAreSpent /\ GrantsAreApproved /\ GrantsAreUsedOnce
  BY <1>1 DEF OriginsAreSpent, GrantsAreApproved, GrantsAreUsedOnce
<1> QED BY <1>3, <1>4, <1>5 DEF Inductive

LEMMA StutterKeepsInductive == Inductive /\ UNCHANGED vars => Inductive'
<1> SUFFICES ASSUME Inductive, UNCHANGED vars PROVE Inductive'
  OBVIOUS
<1>1. TypeOK'
  BY DEF Inductive, TypeOK, vars
<1>2. HandlersOK' /\ SpentByOne'
  BY ZenonT(60) DEF Inductive, vars, HandlersOK, SpentByOne, HandlerOK, TicketHolds, IsSpending, Carries, Keys
<1>3. OriginsAreSpent' /\ GrantsAreApproved' /\ GrantsAreUsedOnce'
  BY DEF Inductive, vars, OriginsAreSpent, GrantsAreApproved, GrantsAreUsedOnce, Keys
<1> QED BY <1>1, <1>2, <1>3 DEF Inductive

\* The three kinds of reads, and the two places where a row is consumed.
LEMMA ReadsKeepInductive ==
  ASSUME Inductive, NEW h \in Handlers,
         \/ \E key \in Keys : OpenTicket(h, key) \/ LoadExchange(h, key) \/ Request(h, key)
         \/ TicketChecked(h) \/ ConsumedChecked(h) \/ ExchangeChecked(h) \/ ExchangedChecked(h) \/ RequestChecked(h)
         \/ ConsumeTicket(h) \/ ConsumeExchange(h)
  PROVE  Inductive'
<1> USE DEF States
<1>1. ASSUME NEW key \in Keys, OpenTicket(h, key) PROVE Inductive'
  BY <1>1, FindKeepsInductive DEF OpenTicket
<1>2. ASSUME NEW key \in Keys, LoadExchange(h, key) PROVE Inductive'
  BY <1>2, FindKeepsInductive DEF LoadExchange
<1>3. ASSUME NEW key \in Keys, Request(h, key) PROVE Inductive'
  BY <1>3, FindKeepsInductive DEF Request
<1>4. CASE TicketChecked(h)
  BY <1>4, CheckKeepsInductive DEF TicketChecked
<1>5. CASE ConsumedChecked(h)
  BY <1>5, CheckKeepsInductive DEF ConsumedChecked
<1>6. CASE ExchangeChecked(h)
  BY <1>6, CheckKeepsInductive DEF ExchangeChecked
<1>7. CASE ExchangedChecked(h)
  BY <1>7, CheckKeepsInductive DEF ExchangedChecked
<1>8. CASE RequestChecked(h)
  BY <1>8, CheckKeepsInductive DEF RequestChecked
<1>9. CASE ConsumeTicket(h)
  BY <1>9, ConsumeKeepsInductive DEF ConsumeTicket
<1>10. CASE ConsumeExchange(h)
  BY <1>10, ConsumeKeepsInductive DEF ConsumeExchange
<1> QED BY <1>1, <1>2, <1>3, <1>4, <1>5, <1>6, <1>7, <1>8, <1>9, <1>10

LEMMA HandleKeepsInductive ==
  ASSUME Inductive, NEW h \in Handlers, Handle(h) PROVE Inductive'
<1>1. ASSUME NEW job \in Jobs, Authorize(h, job) PROVE Inductive'
  BY <1>1, AuthorizeKeepsInductive
<1>2. ASSUME NEW generation \in 1..MaxGeneration, PresentCode(h, generation) PROVE Inductive'
  BY <1>2, PresentCodeKeepsInductive
<1>3. ASSUME NEW generation \in 1..MaxGeneration, NEW job \in Jobs, RequestWithCode(h, job, generation)
      PROVE  Inductive'
  BY <1>3, RequestWithCodeKeepsInductive
<1>4. CASE IssueTicket(h) \/ IssueCode(h) \/ IssueAccess(h) \/ IssueRefresh(h)
  BY <1>4, IssueTicketKeepsInductive, IssueCodeKeepsInductive, IssueAccessKeepsInductive, IssueRefreshKeepsInductive
<1>5. CASE Served(h)
  BY <1>5, EndsKeepsInductive DEF Served
<1>6. CASE \/ \E key \in Keys : OpenTicket(h, key) \/ LoadExchange(h, key) \/ Request(h, key)
           \/ TicketChecked(h) \/ ConsumedChecked(h) \/ ExchangeChecked(h) \/ ExchangedChecked(h) \/ RequestChecked(h)
           \/ ConsumeTicket(h) \/ ConsumeExchange(h)
  BY <1>6, ReadsKeepInductive
<1> QED BY <1>1, <1>2, <1>3, <1>4, <1>5, <1>6 DEF Handle

LEMMA NextKeepsInductive == Inductive /\ [Next]_vars => Inductive'
<1> SUFFICES ASSUME Inductive, [Next]_vars PROVE Inductive'
  OBVIOUS
<1>1. ASSUME NEW job \in Jobs, NEW enabled \in BOOLEAN, Configure(job, enabled) PROVE Inductive'
  BY <1>1, ConfigureKeepsInductive
<1>2. ASSUME NEW job \in Jobs, OpenSession(job) PROVE Inductive'
  BY <1>2, OpenSessionKeepsInductive
<1>3. ASSUME NEW h \in Handlers, Handle(h) PROVE Inductive'
  BY <1>3, HandleKeepsInductive
<1>4. ASSUME NEW key \in Keys, Revoke(key) \/ Expire(key) PROVE Inductive'
  BY <1>4, DropKeepsInductive DEF Revoke, Expire
<1>5. CASE Crash
  BY <1>5, CrashKeepsInductive
<1> QED BY <1>1, <1>2, <1>3, <1>4, <1>5, StutterKeepsInductive DEF Next

LEMMA AlwaysInductive == Spec => []Inductive
BY InitEstablishesInductive, NextKeepsInductive, PTL DEF Spec

-----------------------------------------------------------------------------
(* What a step does to the policies and the grants *)

\* It reads, approves the window in force, drops a grant, issues one, or is the
\* owner's change.
Reading == UNCHANGED <<policy, grant, approved>>
Approving ==
  /\ UNCHANGED <<policy, grant>>
  /\ \E job \in Jobs : policy[job].enabled /\ approved' = approved \cup {<<job, policy[job].generation>>}
Dropping == UNCHANGED <<policy, approved>> /\ \E key \in Keys : Kept({key})
Issuing ==
  /\ UNCHANGED <<policy, approved>>
  /\ \E kind \in Kinds, job \in Jobs, generation \in Nat, origin \in Nat :
       /\ Added(kind, job, generation, origin)
       /\ kind = "access" => <<job, generation>> \in approved
Configuring == \E job \in Jobs, enabled \in BOOLEAN : Configure(job, enabled)

LEMMA ConsumeDrops ==
  ASSUME Inductive, NEW h \in Handlers, ConsumeTicket(h) \/ ConsumeExchange(h) PROVE Reading \/ Dropping
<1>1. PICK q : q = handler[h]
  OBVIOUS
<1>2. HandlerOK(q) /\ q.pc \in {"accepted", "exchanging"}
  BY <1>1 DEF Inductive, HandlersOK, ConsumeTicket, ConsumeExchange, Consume
<1>3. q.key \in Keys
  BY <1>2, SpentCarry DEF Tickets, Exchanges
<1>4. CASE ~grant[q.key].live
  BY <1>1, <1>4 DEF ConsumeTicket, ConsumeExchange, Consume, Reading
<1>5. CASE grant[q.key].live
  <2>1. Delete({q.key}) /\ UNCHANGED <<policy, approved>>
    BY <1>1, <1>5 DEF ConsumeTicket, ConsumeExchange, Consume
  <2> QED BY <2>1, <1>3, DeleteKeeps DEF Dropping, Inductive
<1> QED BY <1>4, <1>5

LEMMA PresentCodeApproves ==
  ASSUME Inductive, NEW h \in Handlers, NEW generation \in 1..MaxGeneration, PresentCode(h, generation)
  PROVE  Reading \/ Approving
<1>1. PICK q : q = handler[h]
  OBVIOUS
<1>2. HandlerOK(q) /\ q.pc = "ticket valid" /\ TypeOK
  BY <1>1 DEF Inductive, HandlersOK, PresentCode
<1>3. Carries(q, {"consent"}) /\ q.key \in Keys
  BY <1>2 DEF HandlerOK, Tickets, Carries
<1>4. q.job \in Jobs
  BY <1>2, <1>3, KeysAreNumbers DEF Carries, Row
<1> QED BY <1>1, <1>4 DEF PresentCode, Reading, Approving

LEMMA IssuerIssues ==
  ASSUME Inductive, NEW h \in Handlers, IssueTicket(h) \/ IssueCode(h) \/ IssueAccess(h) \/ IssueRefresh(h)
  PROVE  Issuing
<1>1. PICK q : q = handler[h]
  OBVIOUS
<1>2. PICK kind \in Kinds, origin \in Nat :
        /\ Issue(kind, q.job, q.generation, origin)
        /\ UNCHANGED <<policy, approved>>
        /\ kind = "access" => q.pc # "ticketing"
        /\ q.pc \in {"ticketing", "issuing code", "issuing access", "issuing refresh"}
  <2>1. CASE IssueTicket(h)
    BY <1>1, <2>1 DEF IssueTicket, Kinds, NoKey
  <2>2. CASE IssueCode(h)
    BY <1>1, <2>2, IssuerFacts DEF IssueCode, Kinds
  <2>3. CASE IssueAccess(h)
    BY <1>1, <2>3, IssuerFacts DEF IssueAccess, Kinds
  <2>4. CASE IssueRefresh(h)
    BY <1>1, <2>4, IssuerFacts DEF IssueRefresh, Kinds
  <2> QED BY <2>1, <2>2, <2>3, <2>4
<1>3. /\ q.job \in Jobs /\ q.generation \in Nat
      /\ q.pc # "ticketing" => <<q.job, q.generation>> \in approved
  BY <1>1, <1>2, IssuerFacts
<1>4. Added(kind, q.job, q.generation, origin)
  BY <1>2, <1>3, IssueAdds DEF Inductive
<1> QED BY <1>2, <1>3, <1>4 DEF Issuing

LEMMA StepsHaveShapes ==
  ASSUME Inductive, [Next]_vars PROVE Reading \/ Approving \/ Dropping \/ Issuing \/ Configuring
<1>1. ASSUME NEW job \in Jobs, OpenSession(job) PROVE Issuing
  <2>1. Added("internal", job, 0, NoKey) /\ UNCHANGED <<policy, approved>>
    BY <1>1, IssueAdds DEF OpenSession, Inductive, Kinds, NoKey
  <2> QED BY <2>1 DEF Issuing, Kinds, NoKey
<1>2. ASSUME NEW h \in Handlers, Handle(h) PROVE Reading \/ Approving \/ Dropping \/ Issuing
  <2>1. ASSUME NEW generation \in 1..MaxGeneration, PresentCode(h, generation) PROVE Reading \/ Approving
    BY <2>1, PresentCodeApproves
  <2>2. CASE IssueTicket(h) \/ IssueCode(h) \/ IssueAccess(h) \/ IssueRefresh(h)
    BY <2>2, IssuerIssues
  <2>3. CASE ConsumeTicket(h) \/ ConsumeExchange(h)
    BY <2>3, ConsumeDrops
  <2>4. CASE TicketChecked(h) \/ ConsumedChecked(h) \/ ExchangeChecked(h) \/ ExchangedChecked(h)
              \/ RequestChecked(h) \/ Served(h)
    BY <2>4 DEF TicketChecked, ConsumedChecked, ExchangeChecked, ExchangedChecked, RequestChecked, Check,
                Served, Reading
  <2>5. CASE \/ \E job \in Jobs : Authorize(h, job)
             \/ \E key \in Keys : OpenTicket(h, key) \/ LoadExchange(h, key) \/ Request(h, key)
             \/ \E generation \in 1..MaxGeneration, job \in Jobs : RequestWithCode(h, job, generation)
    BY <2>5 DEF Authorize, OpenTicket, LoadExchange, Request, Find, RequestWithCode, Reading
  <2> QED BY <1>2, <2>1, <2>2, <2>3, <2>4, <2>5 DEF Handle
<1>3. ASSUME NEW key \in Keys, Revoke(key) \/ Expire(key) PROVE Dropping
  BY <1>3, DeleteKeeps DEF Revoke, Expire, Dropping, Inductive
<1>4. Crash \/ UNCHANGED vars => Reading
  BY DEF Crash, vars, Reading
<1> QED BY <1>1, <1>2, <1>3, <1>4 DEF Next, Configuring

\* The external authority after each kind of step.
LEMMA ExternalAfterStep ==
  ASSUME Inductive, [Next]_vars, NEW key \in Keys, External(key)' PROVE External(key)
<1>1. CASE Reading \/ Approving
  BY <1>1 DEF Reading, Approving, External, Current
<1>2. CASE Dropping
  BY <1>2 DEF Dropping, Kept, External, Current
<1>3. CASE Issuing
  BY <1>3 DEF Issuing, Added, External, Current
<1>4. CASE Configuring
  <2>1. PICK job \in Jobs, enabled \in BOOLEAN : Configure(job, enabled)
    BY <1>4 DEF Configuring
  <2>2. PICK keys : keys = {k \in Keys : grant[k].job = job /\ grant[k].kind # "internal"}
    OBVIOUS
  <2>3. Kept(keys) /\ \A j \in Jobs : j # job => policy'[j] = policy[j]
    BY <2>1, <2>2, DeleteKeeps, ConfigureRaises DEF Configure, Inductive
  <2>4. grant[key].job \in Jobs
    BY KeysAreNumbers DEF Inductive, Row
  <2>5. grant[key].kind = "access" /\ grant[key].live /\ grant[key].job # job
    BY <2>2, <2>3 DEF Kept, External
  <2> QED BY <2>3, <2>4, <2>5 DEF Kept, External, Current
<1> QED BY <1>1, <1>2, <1>3, <1>4, StepsHaveShapes

-----------------------------------------------------------------------------
(* Theorems *)

\* The tables of ConnectionStore and the handlers are well typed.
THEOREM TypeCorrect == Spec => []TypeOK
<1>1. Inductive => TypeOK
  BY DEF Inductive
<1> QED BY <1>1, AlwaysInductive, PTL

\* ConnectionStore.authority admits a token only under a policy whose
\* connection code its user has presented.
THEOREM TokensAreApproved == Spec => []AuthorityIsApproved
<1>1. Inductive => AuthorityIsApproved
  BY DEF Inductive, GrantsAreApproved, AuthorityIsApproved, External
<1> QED BY <1>1, AlwaysInductive, PTL

\* No ticket, code or refresh token gives two grants of one kind.
THEOREM GrantsAreSpentOnce == Spec => []GrantsAreUsedOnce
<1>1. Inductive => GrantsAreUsedOnce
  BY DEF Inductive
<1> QED BY <1>1, AlwaysInductive, PTL

\* A request is never served under a policy older than the one in force when it
\* arrived.
THEOREM RequestsAreCurrent == Spec => []ServedUnderCurrentPolicy
<1>1. Inductive => ServedUnderCurrentPolicy
  <2> SUFFICES ASSUME Inductive, NEW h \in Handlers, handler[h].pc = "authorized"
               PROVE  \/ handler[h].generation >= handler[h].since
                      \/ handler[h].key # NoKey /\ grant[handler[h].key].kind = "internal"
    BY DEF ServedUnderCurrentPolicy
  <2>1. HandlerOK(handler[h]) /\ NoKey \notin Keys
    BY KeysAreNumbers DEF Inductive, HandlersOK
  <2> QED BY <2>1 DEF HandlerOK
<1> QED BY <1>1, AlwaysInductive, PTL

\* A token that lost its authority never has it again, whatever handlers had
\* already checked.
THEOREM RevokedStaysRevoked == Spec => AuthorityNeverReturns
<1>1. Inductive /\ [Next]_vars => [\A key \in Keys : ~External(key) => ~External(key)']_vars
  BY ExternalAfterStep
<1> QED BY <1>1, AlwaysInductive, PTL DEF Spec, AuthorityNeverReturns

\* configure leaves the internal sessions of the desktop alone.
THEOREM SessionsStay == Spec => SessionsSurvivePolicy
<1>1. Inductive /\ [Next]_vars => [policy' # policy => \A key \in Keys : Internal(key) => Internal(key)']_vars
  <2> SUFFICES ASSUME Inductive, Next, policy' # policy, NEW key \in Keys, Internal(key) PROVE Internal(key)'
    OBVIOUS
  <2>1. PICK job \in Jobs, enabled \in BOOLEAN : Configure(job, enabled)
    BY StepsHaveShapes DEF Reading, Approving, Dropping, Issuing, Configuring
  <2>2. Kept({k \in Keys : grant[k].job = job /\ grant[k].kind # "internal"})
    BY <2>1, DeleteKeeps DEF Configure, Inductive
  <2> QED BY <2>2 DEF Kept, Internal
<1> QED BY <1>1, AlwaysInductive, PTL DEF Spec, SessionsSurvivePolicy

-----------------------------------------------------------------------------
(* The promise to the owner *)

\* What McpAuthority calls admitted.
Admitted == {<<key, grant[key].job>> : key \in {k \in Keys : External(k)}}

\* One lemma for each shape of step and the promised step it is.
LEMMA ReadingStutters ==
  ASSUME Reading PROVE UNCHANGED Promise!vars
BY DEF Reading, Promise!vars, Keys, External, Current

LEMMA ApprovingApproves ==
  ASSUME Approving PROVE \E job \in Jobs : Promise!Approve(job)
<1>1. Admitted' = Admitted /\ Keys' = Keys
  BY DEF Approving, Admitted, Keys, External, Current
<1> QED BY <1>1 DEF Approving, Promise!Approve, Admitted

LEMMA DroppingDrops ==
  ASSUME Dropping PROVE \E key \in Keys : Promise!Drop(key)
<1>1. PICK key \in Keys : Kept({key})
  BY DEF Dropping
<1>2. /\ Keys' = Keys
      /\ \A k \in Keys : grant'[k].job = grant[k].job /\ (External(k)' <=> External(k) /\ k # key)
  BY <1>1 DEF Dropping, Kept, External, Current
<1>3. Admitted' = {pair \in Admitted : pair[1] # key}
  <2>1. ASSUME NEW pair \in Admitted' PROVE pair \in Admitted /\ pair[1] # key
    <3>1. PICK k \in Keys' : External(k)' /\ pair = <<k, grant'[k].job>>
      BY <2>1 DEF Admitted
    <3>2. k \in Keys /\ External(k) /\ pair = <<k, grant[k].job>> /\ k # key
      BY <3>1, <1>2
    <3> QED BY <3>2 DEF Admitted
  <2>2. ASSUME NEW pair \in Admitted, pair[1] # key PROVE pair \in Admitted'
    <3>1. PICK k \in Keys : External(k) /\ pair = <<k, grant[k].job>>
      BY <2>2 DEF Admitted
    <3>2. k \in Keys' /\ External(k)' /\ pair = <<k, grant'[k].job>>
      BY <3>1, <2>2, <1>2
    <3> QED BY <3>2 DEF Admitted
  <2> QED BY <2>1, <2>2
<1> QED BY <1>2, <1>3 DEF Dropping, Promise!Drop, Admitted

LEMMA ConfiguringReopens ==
  ASSUME Inductive, Configuring PROVE \E job \in Jobs, enabled \in BOOLEAN : Promise!Reopen(job, enabled)
<1>1. PICK job \in Jobs, enabled \in BOOLEAN : Configure(job, enabled)
  BY DEF Configuring
<1>2. PICK keys : keys = {k \in Keys : grant[k].job = job /\ grant[k].kind # "internal"}
  OBVIOUS
<1>3. Kept(keys) /\ \A j \in Jobs : j # job => policy'[j] = policy[j]
  BY <1>1, <1>2, DeleteKeeps, ConfigureRaises DEF Configure, Inductive
<1>4. \A k \in Keys : grant[k].job \in Jobs
  BY KeysAreNumbers DEF Inductive, Row
<1>5. /\ Keys' = Keys
      /\ \A k \in Keys : grant'[k].job = grant[k].job /\ (External(k)' <=> External(k) /\ grant[k].job # job)
  BY <1>2, <1>3, <1>4 DEF Kept, External, Current
<1>6. Admitted' = {pair \in Admitted : pair[2] # job}
  <2>1. ASSUME NEW pair \in Admitted' PROVE pair \in Admitted /\ pair[2] # job
    <3>1. PICK k \in Keys' : External(k)' /\ pair = <<k, grant'[k].job>>
      BY <2>1 DEF Admitted
    <3>2. k \in Keys /\ External(k) /\ pair = <<k, grant[k].job>> /\ grant[k].job # job
      BY <3>1, <1>5
    <3> QED BY <3>2 DEF Admitted
  <2>2. ASSUME NEW pair \in Admitted, pair[2] # job PROVE pair \in Admitted'
    <3>1. PICK k \in Keys : External(k) /\ pair = <<k, grant[k].job>>
      BY <2>2 DEF Admitted
    <3>2. k \in Keys' /\ External(k)' /\ pair = <<k, grant'[k].job>>
      BY <3>1, <2>2, <1>5
    <3> QED BY <3>2 DEF Admitted
  <2> QED BY <2>1, <2>2
<1> QED BY <1>1, <1>5, <1>6 DEF Configure, Promise!Reopen, Admitted

LEMMA IssuingSees ==
  ASSUME Inductive, Issuing PROVE \E key \in 1..MaxGrants : Promise!See(key)
<1>1. PICK kind \in Kinds, job \in Jobs, generation \in Nat, origin \in Nat :
        Added(kind, job, generation, origin) /\ (kind = "access" => <<job, generation>> \in approved)
  BY DEF Issuing
<1>2. PICK new \in 1..MaxGrants :
        /\ new \notin Keys /\ Keys' = Keys \cup {new}
        /\ \A k \in Keys : grant'[k] = grant[k]
        /\ grant'[new].kind = kind /\ grant'[new].job = job /\ grant'[new].generation = generation
  BY <1>1 DEF Added
<1>3. \A k \in Keys : External(k)' <=> External(k)
  BY <1>2 DEF Issuing, External, Current
<1>4. CASE External(new)'
  <2>1. Admitted' = Admitted \cup {<<new, job>>}
    BY <1>2, <1>3, <1>4 DEF Admitted
  <2>2. policy[job].enabled /\ <<job, policy[job].generation>> \in approved
    BY <1>1, <1>2, <1>4 DEF Issuing, External, Current
  <2> QED BY <1>2, <2>1, <2>2 DEF Issuing, Promise!See, Admitted
<1>5. CASE ~External(new)'
  <2>1. Admitted' = Admitted
    BY <1>2, <1>3, <1>5 DEF Admitted
  <2> QED BY <1>2, <2>1 DEF Issuing, Promise!See, Admitted
<1> QED BY <1>4, <1>5

\* ConnectionStore and its handlers keep the promise of McpAuthority: every
\* step opens or closes a window, approves the open one, shows one new key,
\* drops one, or changes nothing the owner can see.
THEOREM KeepsThePromise == Spec => PromiseSpec
<1>1. Init => Promise!Init
  BY DEF Init, Promise!Init, Keys, External
<1>2. Inductive /\ [Next]_vars => [Promise!Next]_(Promise!vars)
  <2> SUFFICES ASSUME Inductive, [Next]_vars PROVE Promise!Next \/ UNCHANGED Promise!vars
    OBVIOUS
  <2>1. CASE Reading
    BY <2>1, ReadingStutters
  <2>2. CASE Approving
    BY <2>2, ApprovingApproves DEF Promise!Next
  <2>3. CASE Dropping
    BY <2>3, DroppingDrops DEF Promise!Next
  <2>4. CASE Issuing
    BY <2>4, IssuingSees DEF Promise!Next
  <2>5. CASE Configuring
    BY <2>5, ConfiguringReopens DEF Promise!Next
  <2> QED BY <2>1, <2>2, <2>3, <2>4, <2>5, StepsHaveShapes
<1> QED BY <1>1, <1>2, AlwaysInductive, PTL DEF Spec, PromiseSpec, Promise!Spec
=============================================================================
