------------------------------ MODULE ApiRequests ------------------------------
(***************************************************************************)
(* The request layer of one API process: requests with an Idempotency-Key  *)
(* (IdempotencyRegistry, whose variables are this module's own), listings  *)
(* and their page tokens (RunListing), the streams of a run (RunStream),   *)
(* requests that another computer answers (OwnerRouting) and the decisions *)
(* of people (HumanDecisions).                                             *)
(*                                                                         *)
(* The five keep separate state in the code: `registry` of                 *)
(* http_semantics.py, `page_tokens` of pagination.py, the generator of one *)
(* streaming response, and nothing at all in the relays and the responses. *)
(* A step of the process is a step of one that leaves the others alone.    *)
(***************************************************************************)
EXTENDS IdempotencyRegistry

CONSTANTS
  Runs, Listers, Names, PageSize, Capacity, NoToken,   \* RunListing
  Watchers, Window, MaxEvents, MaxAttempts,            \* RunStream
  Nodes, Legacy, Clients, MaxVersion, NoNode,          \* OwnerRouting
  Asked, People, Choices, NoAnswer                     \* HumanDecisions

ASSUME RequestAssumption ==
  /\ Runs \subseteq Nat \ {0} /\ IsFiniteSet(Runs)
  /\ PageSize \in Nat \ {0} /\ Capacity \in Nat \ {0} /\ NoToken \notin Names
  /\ Window \in Nat \ {0} /\ MaxEvents \in Nat /\ MaxAttempts \in Nat \ {0}
  /\ Legacy \subseteq Nodes /\ NoNode \notin Nodes
  /\ Asked \subseteq Nat /\ NoAnswer \notin Choices

VARIABLES
  core, local, tokens, walk,
  run, replica, events, outcomes, watcher,
  current, view, disabled, routed,
  interaction, person

Listing == INSTANCE RunListing
Stream == INSTANCE RunStream
Routing == INSTANCE OwnerRouting WITH request <- routed
Decisions == INSTANCE HumanDecisions

listing == <<core, local, tokens, walk>>
stream == <<run, replica, events, outcomes, watcher>>
routing == <<current, view, disabled, routed>>
decisions == <<interaction, person>>

RequestVars == <<vars, listing, stream, routing, decisions>>

RequestInit == Init /\ Listing!Init /\ Stream!Init /\ Routing!Init /\ Decisions!Init

RequestNext ==
  \/ Next /\ UNCHANGED <<listing, stream, routing, decisions>>
  \/ Listing!Next /\ UNCHANGED <<vars, stream, routing, decisions>>
  \/ Stream!Next /\ UNCHANGED <<vars, listing, routing, decisions>>
  \/ Routing!Next /\ UNCHANGED <<vars, listing, stream, decisions>>
  \/ Decisions!Next /\ UNCHANGED <<vars, listing, stream, routing>>

\* The threads that execute keyed requests run on, and so do the streams.
RequestSpec ==
  /\ RequestInit /\ [][RequestNext]_RequestVars
  /\ \A t \in Threads : WF_vars(Serve(t))
  /\ Stream!Fairness

-----------------------------------------------------------------------------
(* Properties of the other four, by the names their modules give them *)

\* No run appears twice in one walk through a listing, unless one that was missing
\* from a page came back (RunListing).
NoRunTwice == Listing!NoRunTwice

\* A finished walk has shown every run that all its pages could show (RunListing).
KeptRunsAreListed == Listing!KeptRunsAreListed

\* A run is shown as going on only by Core; outcomes shown were real (RunStream).
StatusIsTruthful == Stream!StatusIsTruthful

\* A stream sends no event twice, oldest first, and skips some only for a window of newer
\* ones (RunStream).
EventsToldInOrder == Stream!EventsToldInOrder

\* A stream of a run that is over or lost ends (RunStream).
RunStreamsEnd == Stream!RunStreamsEnd

\* Files and MCP answers are served under the placement they were located by, with
\* the authority of their client (OwnerRouting).
ServedUnderOneBinding == Routing!ServedUnderOneBinding

\* Whoever is told that their answer was accepted gave the one that stands, to the
\* request that was put to them (HumanDecisions).
AcceptedDecisionStands == Decisions!AcceptedDecisionStands
=============================================================================
