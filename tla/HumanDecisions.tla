------------------------------ MODULE HumanDecisions ------------------------------
(***************************************************************************)
(* The decisions co-workers ask of people, who answer on a desktop         *)
(* (routes/v1/interactions.py) or through the Job's MCP connection         *)
(* (resolve_human_input and record_pending_human_response of job_mcp.py).  *)
(*                                                                         *)
(* Decisions are Core's interactions: it changes one when the expected     *)
(* revision is the current one, and repeats its answer to a repeated       *)
(* command.  People on several devices answer the same request, a reply    *)
(* may be lost, and a client repeats what it had no reply to.              *)
(***************************************************************************)
EXTENDS Naturals

CONSTANTS
  Asked,    \* decisions, numbered in the order they are asked
  People,   \* those who answer, each through one connection
  Choices,
  NoAnswer

VARIABLES
  interaction,  \* Core: the decisions
  person        \* what each person's client is doing

vars == <<interaction, person>>

Unasked == [state |-> "unasked", revision |-> 1, decision |-> NoAnswer, command |-> NoAnswer]

\* prompted: what was put to the person; request: what the client answers; seen: as it read it.
Absent == [pc |-> "idle", through |-> "desktop", prompted |-> 0, request |-> 0, answer |-> NoAnswer,
           seen |-> Unasked]

Init ==
  /\ interaction = [i \in Asked |-> Unasked]
  /\ person = [p \in People |-> Absent]

Pending == {i \in Asked : interaction[i].state = "pending"}
Oldest == CHOOSE i \in Pending : \A j \in Pending : i <= j

Reads(p, i) ==
  person' = [person EXCEPT ![p] = [@ EXCEPT !.pc = "read", !.request = i, !.seen = interaction[i]]]

-----------------------------------------------------------------------------
(* People and their clients *)

\* A desktop shows a pending request, with its revision.
Open(p, i, answer) ==
  /\ person[p].pc = "idle" /\ i \in Pending
  /\ person' = [person EXCEPT ![p] = [@ EXCEPT !.pc = "read", !.prompted = i, !.request = i,
                                               !.answer = answer, !.seen = interaction[i]]]
  /\ UNCHANGED interaction

\* A tool of the connection is called: the Job's oldest request is put to the caller first.
Elicit(p, answer) ==
  /\ person[p].pc = "idle" /\ Pending # {}
  /\ person' = [person EXCEPT ![p] = [@ EXCEPT !.pc = "asked", !.through = "mcp", !.prompted = Oldest,
                                               !.answer = answer]]
  /\ UNCHANGED interaction

\* Mutant: the answer goes to whatever would be put to the caller by now.
ResumeOldest(p) ==
  /\ person[p].pc = "asked" /\ Pending # {}
  /\ Reads(p, Oldest)
  /\ UNCHANGED interaction

\* The caller repeats the call with its answer, and the state it carries names the request.
Resume(p) ==
  /\ person[p].pc = "asked"
  /\ Reads(p, person[p].prompted)
  /\ UNCHANGED interaction

\* A desktop sends a key of its own, the connection one per request.
Command(p) == IF person[p].through = "mcp" THEN "mcp" ELSE p

\* The reply arrives, or it is lost and the client repeats the command or the call.
Told(p, outcome) ==
  \/ person' = [person EXCEPT ![p].pc = outcome]
  \/ person' = [person EXCEPT ![p].pc = IF person[p].through = "mcp" THEN "asked" ELSE "read"]

\* The desktop may have committed this very decision before the connection resumed.
Agrees(r) == r.seen.decision = r.answer

\* The connection reads before it responds, and takes no other decision for its own.
Settled(p) ==
  LET r == person[p] IN
  /\ r.pc = "read" /\ r.through = "mcp" /\ r.seen.state = "responded"
  /\ Told(p, IF Agrees(r) THEN "accepted" ELSE "refused")
  /\ UNCHANGED interaction

\* Core decides, repeats what the same command decided, or refuses.
Decides(i, revision) == interaction[i].state = "pending" /\ interaction[i].revision = revision
Repeats(i, command, answer) == interaction[i].command = command /\ interaction[i].decision = answer

Respond(p) ==
  LET r == person[p]
      i == r.request
  IN  /\ r.pc = "read"
      /\ r.through = "mcp" => r.seen.state # "responded"
      /\ \/ /\ Decides(i, r.seen.revision)
            /\ interaction' = [interaction EXCEPT ![i] =
                 [state |-> "responded", revision |-> @.revision + 1, decision |-> r.answer, command |-> Command(p)]]
            /\ Told(p, "accepted")
         \/ /\ ~Decides(i, r.seen.revision)
            /\ Told(p, IF Repeats(i, Command(p), r.answer) THEN "accepted" ELSE "refused")
            /\ UNCHANGED interaction

\* The client gives up, or has shown its outcome.
Leave(p) ==
  /\ person[p].pc # "idle"
  /\ person' = [person EXCEPT ![p] = Absent]
  /\ UNCHANGED interaction

-----------------------------------------------------------------------------
(* The co-worker *)

Ask(i) ==
  /\ interaction[i].state = "unasked" /\ \A j \in Asked : j < i => interaction[j].state # "unasked"
  /\ interaction' = [interaction EXCEPT ![i].state = "pending"]
  /\ UNCHANGED person

\* The request is worded anew; once is enough to be missed.
Edit(i) ==
  /\ i \in Pending /\ interaction[i].revision = 1
  /\ interaction' = [interaction EXCEPT ![i].revision = 2]
  /\ UNCHANGED person

\* It is withdrawn, or expires.
Close(i) ==
  /\ i \in Pending
  /\ interaction' = [interaction EXCEPT ![i].state = "closed"]
  /\ UNCHANGED person

Next ==
  \/ \E p \in People :
       \/ \E answer \in Choices : (\E i \in Asked : Open(p, i, answer)) \/ Elicit(p, answer)
       \/ Resume(p) \/ Settled(p) \/ Respond(p) \/ Leave(p)
  \/ \E i \in Asked : Ask(i) \/ Edit(i) \/ Close(i)

Spec == Init /\ [][Next]_vars

-----------------------------------------------------------------------------
(* Properties *)

\* Whoever is told that their answer was accepted gave the answer that stands, to the request that
\* was put to them, whoever else answers it (job_mcp.py:1052-1073 and 1406-1428,
\* interactions.py:111-123; the connection "resumes that identity even if another request becomes
\* pending", README.md).
AcceptedDecisionStands ==
  \A p \in People :
    person[p].pc = "accepted" =>
      /\ interaction[person[p].prompted].state = "responded"
      /\ interaction[person[p].prompted].decision = person[p].answer
=============================================================================
