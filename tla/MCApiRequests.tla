----------------------------- MODULE MCApiRequests -----------------------------
(***************************************************************************)
(* Instances of ApiRequests for TLC.                                       *)
(***************************************************************************)
EXTENDS ApiRequests, TLC

\* The five parts share no state, so a behaviour in which one of them moves shows
\* all that part can do.
Moved(part) ==
  CASE part = "keys" -> call # <<>> \/ \E t \in Threads : request[t] # NoRequest
    [] part = "listing" -> ~Listing!Init
    [] part = "stream" -> ~Stream!Init
    [] part = "routing" -> ~Routing!Init \/ current.owner # NoNode
    [] part = "decisions" -> ~Decisions!Init

\* Bound of the listings, the routing and the decisions: one run that is not the newest ends or is
\* deleted, and the same has its record here; one computer disables its API; one decision is edited
\* or withdrawn, and one of the people always answers the same.
Edited(i) == interaction[i].state = "pending" /\ interaction[i].revision = 2
Changed(r) == core[r] \in {"ended", "deleted"} \/ local[r] # "none"
FewChanges ==
  /\ Cardinality({r \in Runs : Changed(r)}) <= 1
  /\ \A r \in Runs : Changed(r) => \E q \in Runs : q > r
  /\ \A l \in Listers, r \in Runs : walk[l].query = "job" => local[r] = "none"
  /\ Cardinality(disabled) <= 1
  /\ Cardinality({i \in Asked : interaction[i].state = "closed" \/ Edited(i)}) <= 1
  /\ LET p == CHOOSE p \in People : TRUE
     IN  person[p].answer \in {NoAnswer, CHOOSE answer \in Choices : TRUE}

Parts == {"keys", "listing", "stream", "routing", "decisions"}
Alone(part) == \A other \in Parts \ {part} : ~Moved(other)

KeysMove == Alone("keys") /\ Next /\ UNCHANGED <<listing, stream, routing, decisions>>
ListingMoves == Alone("listing") /\ Listing!Next /\ UNCHANGED <<vars, stream, routing, decisions>>
StreamMoves == Alone("stream") /\ Stream!Next /\ UNCHANGED <<vars, listing, routing, decisions>>
RoutingMoves == Alone("routing") /\ Routing!Next /\ UNCHANGED <<vars, listing, stream, decisions>>
DecisionsMove == Alone("decisions") /\ Decisions!Next /\ UNCHANGED <<vars, listing, stream, routing>>

NextInParts == KeysMove \/ ListingMoves \/ StreamMoves \/ RoutingMoves \/ DecisionsMove

SpecInParts ==
  /\ RequestInit /\ [][NextInParts]_RequestVars
  /\ \A t \in Threads : WF_vars(Serve(t))
  /\ Stream!Fairness
=============================================================================
