------------------------------- MODULE JobReplies -------------------------------
(***************************************************************************)
(* MCP requests of Jobs: those of JobContext, some of which go on to ask   *)
(* the Job's owner for an answer and relay it as it is written             *)
(* (stream_job_reply of mn_api/job_reply_stream.py over                    *)
(* response_stream_command of mn_api/job_mcp.py).                          *)
(*                                                                         *)
(* Each command of a relay runs in a thread that the relay abandons when   *)
(* its caller leaves, so a command may reach the owner after the relay has *)
(* ended.  The owner, external to this repository, keeps one claim per     *)
(* request and writes its text piece by piece.                             *)
(***************************************************************************)
EXTENDS JobContext

CONSTANTS
  Streaming,  \* the requests that ask their Job's owner and have the answer relayed
  MaxText     \* bound of the model: pieces of an answer

ASSUME TextAssumption == MaxText \in Nat /\ Streaming \subseteq Requests

VARIABLES
  claim,      \* the owner: state and number of pieces of each request's answer
  command,    \* commands on their way to the owner
  relay,      \* the relay of each request
  spoiled     \* requests whose cancellation was lost or came before their start (history)

vars == <<contextVars, claim, command, relay, spoiled>>

NoRelay == [pc |-> "none", cursor |-> 0, delivered |-> <<>>, part |-> 0, done |-> FALSE]

RepliesInit ==
  /\ Init
  /\ claim = [t \in Requests |-> [state |-> "none", text |-> 0]]
  /\ command = {}
  /\ relay = [t \in Requests |-> NoRelay]
  /\ spoiled = {}

Relaying(t, pc) == relay[t].pc = pc
Sent(t, action) == [request |-> t, action |-> action]

\* A read-only response service answers from the context just read, or from none.
StartRelay(t) ==
  /\ t \in Streaming /\ actor[t].pc \in {"answered", "partial"} /\ Relaying(t, "none")
  /\ actor' = [actor EXCEPT ![t] = [Idle(Job(t)) EXCEPT !.pc = "relaying"]]
  /\ relay' = [relay EXCEPT ![t].pc = "sent"]
  /\ command' = command \cup {Sent(t, "start")}
  /\ UNCHANGED <<core, caches, lock, gone, served, asked, claim, spoiled>>

\* Mutant: an unfinished relay just ends.
AbandonSilently(t, commands) ==
  /\ relay' = [relay EXCEPT ![t] = [NoRelay EXCEPT !.pc = "ended"]]
  /\ command' = commands

\* An unfinished relay stops its answer, whatever interrupted it; the shielded cancellation may
\* arrive after the two seconds the relay waits for it.
Abandon(t, commands) ==
  /\ relay' = [relay EXCEPT ![t] = [NoRelay EXCEPT !.pc = "ended"]]
  /\ command' = commands \cup {Sent(t, "cancel")}

\* External: the owner executes a command, and its thread returns to a relay that still waits.
Execute(t, action) ==
  /\ Sent(t, action) \in command
  /\ command' = command \ {Sent(t, action)}
  /\ claim' = [claim EXCEPT ![t].state =
       CASE action = "start" /\ @ = "none" -> "writing"
         [] action = "cancel" /\ @ = "writing" -> "cancelled"
         [] OTHER -> @]
  /\ IF Relaying(t, "sent")
     THEN \E upto \in relay[t].cursor..claim[t].text :
            relay' = [relay EXCEPT ![t].pc = "received", ![t].part = upto,
                        ![t].done = claim[t].state = "done" /\ upto = claim[t].text]
     ELSE UNCHANGED relay
  /\ spoiled' = IF action = "cancel" /\ claim[t].state = "none" THEN spoiled \cup {t} ELSE spoiled
  /\ UNCHANGED contextVars

\* External: the owner writes.
Write(t) ==
  /\ claim[t].state = "writing"
  /\ claim' = [claim EXCEPT ![t] =
       IF claim[t].text < MaxText THEN [claim[t] EXCEPT !.text = claim[t].text + 1] ELSE [claim[t] EXCEPT !.state = "done"]]
  /\ UNCHANGED <<contextVars, command, relay, spoiled>>

\* A command never arrives: its own lookup of the Job's base raised, or the owner was not reached.
\* A relay that still waits for it ends.
Lose(t, action) ==
  /\ Sent(t, action) \in command
  /\ IF Relaying(t, "sent")
     THEN Abandon(t, command \ {Sent(t, action)})
     ELSE command' = command \ {Sent(t, action)} /\ UNCHANGED relay
  /\ spoiled' = IF action = "cancel" THEN spoiled \cup {t} ELSE spoiled
  /\ UNCHANGED <<contextVars, claim>>

Piece(from, to) == [i \in 1..(to - from) |-> from + i]

\* Mutant: the part is reported from its start.
ReportedFromStart(r) == [r EXCEPT !.delivered = r.delivered \o Piece(0, r.part), !.cursor = r.part]
Reported(r) == [r EXCEPT !.delivered = r.delivered \o Piece(r.cursor, r.part), !.cursor = r.part]

\* The part's new text is reported and the completed answer returned.
Finish(t) ==
  /\ Relaying(t, "received") /\ relay[t].done
  /\ relay' = [relay EXCEPT ![t] = [Reported(relay[t]) EXCEPT !.pc = "finished"]]
  /\ UNCHANGED <<contextVars, claim, command, spoiled>>

\* There is more to read; the pause before it belongs to the command's way to the owner.
ReadMore(t) ==
  /\ Relaying(t, "received") /\ ~relay[t].done
  /\ relay' = [relay EXCEPT ![t] = [Reported(relay[t]) EXCEPT !.pc = "sent"]]
  /\ command' = command \cup {Sent(t, "read")}
  /\ UNCHANGED <<contextVars, claim, spoiled>>

\* The caller leaves at any await, its command's thread abandoned; the deadline of ninety seconds
\* passes; or the owner's part is refused: failed, cancelled, another request's, a gap, too long.
Interrupt(t) ==
  /\ relay[t].pc \in {"sent", "received"}
  /\ Abandon(t, command)
  /\ UNCHANGED <<contextVars, claim, spoiled>>

RelayStep(t) == StartRelay(t) \/ Finish(t) \/ ReadMore(t) \/ Interrupt(t)

Owner(t) == \E action \in {"start", "read", "cancel"} : Execute(t, action) \/ Lose(t, action)

Kept == UNCHANGED <<claim, command, relay, spoiled>>

Next ==
  \/ \E t \in Requests :
       \/ ((\E j \in Jobs : Ask(t, j)) \/ ContextStep(t)) /\ Kept
       \/ RelayStep(t) \/ Owner(t) \/ Write(t)
  \/ \E j \in Jobs : (RefreshStep(j) \/ Age(j) \/ Change(j) \/ Delete(j)) /\ Kept

Spec == RepliesInit /\ [][Next]_vars

-----------------------------------------------------------------------------
(* Properties *)

TypeOK ==
  /\ ContextTypeOK
  /\ claim \in [Requests -> [state : {"none", "writing", "done", "cancelled"}, text : 0..MaxText]]
  /\ command \subseteq [request : Requests, action : {"start", "read", "cancel"}]
  /\ \A t \in Requests : relay[t].cursor \in 0..MaxText /\ relay[t].part \in relay[t].cursor..MaxText
  /\ spoiled \subseteq Requests

\* The caller is told every piece of the answer once and in order, and the completed answer only
\* after all of them, however the parts and the owner's writing interleave
\* (job_reply_stream.py:27-70).
ToldOnce ==
  \A t \in Requests :
    /\ relay[t].delivered = Piece(0, Len(relay[t].delivered))
    /\ Relaying(t, "finished") => claim[t].state = "done" /\ Len(relay[t].delivered) = claim[t].text

\* Once a relay has ended unfinished and its commands have left the network, the owner is not
\* still writing for nobody, unless the cancellation was lost or overtook the start it was meant
\* for (job_reply_stream.py:30, 71-74).
NobodyWritesForNobody ==
  \A t \in Requests :
    Relaying(t, "ended") /\ (\A sent \in command : sent.request # t) /\ t \notin spoiled
      => claim[t].state # "writing"
=============================================================================
