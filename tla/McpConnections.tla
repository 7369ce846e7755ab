------------------------------ MODULE McpConnections ------------------------------
(***************************************************************************)
(* External access to a Job's MCP endpoint: the policies and grants of     *)
(* mn_api/mcp_access.py (ConnectionStore), the OAuth handlers of           *)
(* mn_api/mcp_oauth.py and the owner's settings of                         *)
(* mn_api/routes/v1/mcp_access.py.                                         *)
(*                                                                         *)
(* One action is one database transaction of a handler: any other handler, *)
(* and the owner changing the policy, can come between two of them.  A key *)
(* is the number of the grant it opens; keys are drawn at random and never *)
(* reused.  The connection code of a policy is named by its generation.    *)
(***************************************************************************)
EXTENDS Naturals, Sequences

CONSTANTS
  Jobs,
  Handlers,       \* requests being served
  MaxGrants,      \* bound of the model: keys drawn
  MaxGeneration   \* bound of the model: times the owner configures a Job

ASSUME ConnectionsAssumption == MaxGrants \in Nat /\ MaxGeneration \in Nat

VARIABLES
  policy,      \* policies: enabled and generation by Job (0: no row)
  grant,       \* grants ever issued; a row that is not live was deleted or has expired
  handler,     \* what each handler has read so far
  approved     \* <<job, generation>> whose connection code was presented (history)

vars == <<policy, grant, handler, approved>>

NoKey == 0
Kinds == {"consent", "code", "access", "refresh", "internal"}
Keys == DOMAIN grant

\* A handler: the key it was given, the Job and generation it carries on, and
\* the generation in force when it started (history).
Idle == [pc |-> "idle", key |-> NoKey, job |-> NoKey, generation |-> 0, since |-> 0]

Init ==
  /\ policy = [j \in Jobs |-> [enabled |-> FALSE, generation |-> 0]]
  /\ grant = <<>>
  /\ handler = [h \in Handlers |-> Idle]
  /\ approved = {}

\* Mutant of Current: any enabled policy will do.
CurrentIfEnabled(key) == grant[key].kind = "internal" \/ policy[grant[key].job].enabled

\* The second half of ConnectionStore.grant: a Job's grant counts under the
\* policy that issued it only.
Current(key) ==
  \/ grant[key].kind = "internal"
  \/ /\ policy[grant[key].job].enabled
     /\ policy[grant[key].job].generation = grant[key].generation

\* ConnectionStore.issue
Issue(kind, job, generation, origin) ==
  /\ Len(grant) < MaxGrants
  /\ grant' = Append(grant, [kind |-> kind, job |-> job, generation |-> generation,
                             live |-> TRUE, origin |-> origin])

Delete(keys) == grant' = [k \in Keys |-> [grant[k] EXCEPT !.live = @ /\ k \notin keys]]

Becomes(h, pc) == handler' = [handler EXCEPT ![h].pc = pc]
Ends(h) == handler' = [handler EXCEPT ![h] = Idle]

-----------------------------------------------------------------------------
(* The owner *)

\* configure: one transaction raises the generation, replaces the connection
\* code and deletes the external grants of the Job.
Configure(job, enabled) ==
  /\ policy[job].generation < MaxGeneration
  /\ policy' = [policy EXCEPT ![job] = [enabled |-> enabled, generation |-> @.generation + 1]]
  /\ Delete({k \in Keys : grant[k].job = job /\ grant[k].kind # "internal"})
  /\ UNCHANGED <<handler, approved>>

\* internal_session
OpenSession(job) ==
  /\ Issue("internal", job, 0, NoKey)
  /\ UNCHANGED <<policy, handler, approved>>

-----------------------------------------------------------------------------
(* OAuth *)

\* authorize reads the policy of the resource, then issues a consent ticket.
Authorize(h, job) ==
  /\ handler[h].pc = "idle"
  /\ policy[job].enabled
  /\ handler' = [handler EXCEPT ![h] =
       [Idle EXCEPT !.pc = "ticketing", !.job = job, !.generation = policy[job].generation]]
  /\ UNCHANGED <<policy, grant, approved>>

IssueTicket(h) ==
  /\ handler[h].pc = "ticketing"
  /\ Issue("consent", handler[h].job, handler[h].generation, NoKey)
  /\ Ends(h)
  /\ UNCHANGED <<policy, approved>>

\* ConnectionStore.grant reads the row; the policy is read afterwards.
Find(h, key, kinds, pc) ==
  /\ handler[h].pc = "idle"
  /\ grant[key].live /\ grant[key].kind \in kinds
  /\ handler' = [handler EXCEPT ![h] =
       [pc |-> pc, key |-> key, job |-> grant[key].job, generation |-> grant[key].generation,
        since |-> policy[grant[key].job].generation]]
  /\ UNCHANGED <<policy, grant, approved>>

Check(h, from, to) ==
  /\ handler[h].pc = from
  /\ IF Current(handler[h].key) THEN Becomes(h, to) ELSE Ends(h)
  /\ UNCHANGED <<policy, grant, approved>>

\* approve: the ticket is looked up, ...
OpenTicket(h, key) == Find(h, key, {"consent"}, "ticket found")
TicketChecked(h) == Check(h, "ticket found", "ticket valid")

\* Mutant of PresentCode: the code of an earlier policy is accepted.
PresentAnyCode(h, generation) ==
  LET job == handler[h].job
      accepted == policy[job].enabled /\ policy[job].generation >= generation
  IN  /\ handler[h].pc = "ticket valid"
      /\ IF accepted THEN Becomes(h, "accepted") ELSE Ends(h)
      /\ approved' = IF accepted THEN approved \cup {<<job, generation>>} ELSE approved
      /\ UNCHANGED <<policy, grant>>

\* ... the connection code is compared with the policy's, ...
PresentCode(h, generation) ==
  LET job == handler[h].job
      accepted == policy[job].enabled /\ policy[job].generation = generation
  IN  /\ handler[h].pc = "ticket valid"
      /\ IF accepted THEN Becomes(h, "accepted") ELSE Ends(h)
      /\ approved' = IF accepted THEN approved \cup {<<job, generation>>} ELSE approved
      /\ UNCHANGED <<policy, grant>>

\* Mutant of Consume: the row is deleted without asking whether it was there.
ConsumeUnchecked(h, from, to) ==
  /\ handler[h].pc = from
  /\ Delete({handler[h].key})
  /\ Becomes(h, to)
  /\ UNCHANGED <<policy, approved>>

\* ... and the ticket is consumed for an authorization code.
Consume(h, from, to) ==
  /\ handler[h].pc = from
  /\ IF grant[handler[h].key].live
       THEN Delete({handler[h].key}) /\ Becomes(h, to)
       ELSE Ends(h) /\ UNCHANGED grant
  /\ UNCHANGED <<policy, approved>>

ConsumeTicket(h) == Consume(h, "accepted", "ticket consumed")
ConsumedChecked(h) == Check(h, "ticket consumed", "issuing code")

\* Mutant of IssueCode: the code counts under the policy it is issued under.
IssueCodeAnew(h) ==
  /\ handler[h].pc = "issuing code"
  /\ Issue("code", handler[h].job, policy[handler[h].job].generation, handler[h].key)
  /\ Ends(h)
  /\ UNCHANGED <<policy, approved>>

IssueCode(h) ==
  /\ handler[h].pc = "issuing code"
  /\ Issue("code", handler[h].job, handler[h].generation, handler[h].key)
  /\ Ends(h)
  /\ UNCHANGED <<policy, approved>>

\* exchange_authorization_code and exchange_refresh_token: load_* finds the
\* grant, the exchange consumes it, tokens issues two new ones.
LoadExchange(h, key) == Find(h, key, {"code", "refresh"}, "exchange found")
ExchangeChecked(h) == Check(h, "exchange found", "exchanging")
ConsumeExchange(h) == Consume(h, "exchanging", "exchange consumed")
ExchangedChecked(h) == Check(h, "exchange consumed", "issuing access")

IssueAccess(h) ==
  /\ handler[h].pc = "issuing access"
  /\ Issue("access", handler[h].job, handler[h].generation, handler[h].key)
  /\ Becomes(h, "issuing refresh")
  /\ UNCHANGED <<policy, approved>>

IssueRefresh(h) ==
  /\ handler[h].pc = "issuing refresh"
  /\ Issue("refresh", handler[h].job, handler[h].generation, handler[h].key)
  /\ Ends(h)
  /\ UNCHANGED <<policy, approved>>

\* revoke_token
Revoke(key) ==
  /\ grant[key].kind \in {"access", "refresh"}
  /\ Delete({key})
  /\ UNCHANGED <<policy, handler, approved>>

\* A grant reaches its expiry; the row is purged by a later issue.
Expire(key) ==
  /\ Delete({key})
  /\ UNCHANGED <<policy, handler, approved>>

-----------------------------------------------------------------------------
(* MCP requests: ConnectionStore.authority *)

Request(h, key) == Find(h, key, {"access", "internal"}, "request found")
RequestChecked(h) == Check(h, "request found", "authorized")

\* The bearer is a connection code: no grant has that key, the policy decides.
RequestWithCode(h, job, generation) ==
  /\ handler[h].pc = "idle"
  /\ policy[job].enabled /\ policy[job].generation = generation
  /\ handler' = [handler EXCEPT ![h] =
       [pc |-> "authorized", key |-> NoKey, job |-> job, generation |-> generation, since |-> generation]]
  /\ UNCHANGED <<policy, grant, approved>>

Served(h) ==
  /\ handler[h].pc = "authorized"
  /\ Ends(h)
  /\ UNCHANGED <<policy, grant, approved>>

\* The API process ends in the middle of a handler.
Crash ==
  /\ handler' = [h \in Handlers |-> Idle]
  /\ UNCHANGED <<policy, grant, approved>>

Handle(h) ==
  \/ \E job \in Jobs : Authorize(h, job)
  \/ \E key \in Keys : OpenTicket(h, key) \/ LoadExchange(h, key) \/ Request(h, key)
  \/ \E generation \in 1..MaxGeneration :
       PresentCode(h, generation) \/ \E job \in Jobs : RequestWithCode(h, job, generation)
  \/ IssueTicket(h) \/ TicketChecked(h) \/ ConsumeTicket(h) \/ ConsumedChecked(h) \/ IssueCode(h)
  \/ ExchangeChecked(h) \/ ConsumeExchange(h) \/ ExchangedChecked(h) \/ IssueAccess(h) \/ IssueRefresh(h)
  \/ RequestChecked(h) \/ Served(h)

Next ==
  \/ \E job \in Jobs, enabled \in BOOLEAN : Configure(job, enabled)
  \/ \E job \in Jobs : OpenSession(job)
  \/ \E h \in Handlers : Handle(h)
  \/ \E key \in Keys : Revoke(key) \/ Expire(key)
  \/ Crash

Spec == Init /\ [][Next]_vars

-----------------------------------------------------------------------------
(* Properties *)

States == {"idle", "ticketing", "ticket found", "ticket valid", "accepted", "ticket consumed", "issuing code",
           "exchange found", "exchanging", "exchange consumed", "issuing access", "issuing refresh",
           "request found", "authorized"}

TypeOK ==
  /\ policy \in [Jobs -> [enabled : BOOLEAN, generation : Nat]]
  /\ grant \in Seq([kind : Kinds, job : Jobs, generation : Nat, live : BOOLEAN, origin : Nat])
  /\ handler \in [Handlers -> [pc : States, key : Nat, job : Jobs \cup {NoKey}, generation : Nat, since : Nat]]
  /\ approved \subseteq Jobs \X Nat

\* What ConnectionStore.authority answers for a granted key.
External(key) == grant[key].kind = "access" /\ grant[key].live /\ Current(key)
Internal(key) == grant[key].kind = "internal" /\ grant[key].live

\* A token works only while the policy whose connection code its user typed
\* in is in force, wherever the owner's change fell among the approval, the
\* exchange and the refreshes it descends from.
AuthorityIsApproved ==
  \A key \in Keys : External(key) => <<grant[key].job, grant[key].generation>> \in approved

\* Authority that was revoked, by the owner, the client or expiry, never comes
\* back: not when the Job is enabled again and not through a handler that had
\* already passed its checks.
AuthorityNeverReturns ==
  [][\A key \in Keys : ~External(key) => ~External(key)']_vars

\* Tickets, authorization codes and refresh tokens are used at most once, also
\* by concurrent handlers (README: atomic one-use codes, rotating refresh tokens).
GrantsAreUsedOnce ==
  \A a, b \in Keys :
    grant[a].origin = grant[b].origin /\ grant[a].kind = grant[b].kind /\ grant[a].origin # NoKey => a = b

\* An external request that starts after the owner's change is not served
\* under an earlier policy.
ServedUnderCurrentPolicy ==
  \A h \in Handlers :
    handler[h].pc = "authorized" =>
      \/ handler[h].generation >= handler[h].since
      \/ handler[h].key # NoKey /\ grant[handler[h].key].kind = "internal"

\* Changing the external policy leaves the desktop's own sessions alone
\* (README: internal sessions continue working independently of this opt-in).
SessionsSurvivePolicy ==
  [][policy' # policy => \A key \in Keys : Internal(key) => Internal(key)']_vars

\* The abstract promise: windows opened by the owner, and keys admitted to them.
Promise == INSTANCE McpAuthority WITH
  Names <- 1..MaxGrants,
  window <- policy,
  admitted <- {<<key, grant[key].job>> : key \in {k \in Keys : External(k)}},
  seen <- Keys

PromiseSpec == Promise!Spec
=============================================================================
