------------------------------ MODULE OwnerRouting ------------------------------
(***************************************************************************)
(* Requests that only the computer holding a Job or a run can answer: run  *)
(* files (mn_api/run_file_routing.py), the Job's MCP connection            *)
(* (job_mcp_routing.py and the guard of job_mcp.py) and its web UI         *)
(* (job_ui.py, job_ui_routing.py, routes/v1/job_ui_relay.py and            *)
(* web_ui_server.py).                                                      *)
(*                                                                         *)
(* Any computer takes the request.  It asks its own Core where the owner   *)
(* is, and Core's answers on two computers differ while the Job moves or   *)
(* starts another execution.  A relay names the placement it relies on     *)
(* and the owner has to find the same one.                                 *)
(***************************************************************************)
EXTENDS Naturals, FiniteSets

CONSTANTS
  Nodes,       \* computers, each with its Core, its API and its web UI proxy
  Legacy,      \* computers whose API knows nothing of the relays' headers
  Clients,     \* requests in progress
  MaxVersion,  \* bound of the model: placements of the Job
  NoNode

VARIABLES
  current,     \* where the Job is: its owner, and a version that changes with its
               \* owner, execution, data generation and revision
  view,        \* what each computer's Core answers
  disabled,    \* the computers that advertise a disabled HTTP API
  request      \* each client's request

vars == <<current, view, disabled, request>>

Versions == 1..MaxVersion
Placements == [owner : Nodes \cup {NoNode}, version : Versions]
NoPlacement == [owner |-> NoNode, version |-> 0]
Authorities == {"internal", "external"}

\* at: the computer that handles the request; binding: the placement it relies on;
\* placed: what the web UI's handle was routed by; by, as: who answered, and under which placement.
Idle == [pc |-> "idle", kind |-> "file", authority |-> "internal", at |-> NoNode,
         binding |-> NoPlacement, external |-> FALSE, confirmed |-> FALSE, native |-> FALSE,
         handle |-> 0, labelled |-> TRUE, placed |-> NoPlacement, hops |-> 0, by |-> NoNode, as |-> NoPlacement]

Init ==
  /\ \E owner \in Nodes \cup {NoNode} : current = [owner |-> owner, version |-> 1]
  /\ view = [n \in Nodes |-> current]
  /\ disabled = {}
  /\ request = [c \in Clients |-> Idle]

Ends(c) ==
  /\ request' = [request EXCEPT ![c] = Idle]
  /\ UNCHANGED <<current, view, disabled>>

\* A client sends a request to any computer; the guard of the MCP connection knows
\* whose token it carries.  Files take the API's own.
Ask(c, n, kind, authority) ==
  /\ request[c].pc = "idle"
  /\ kind = "file" => authority = "internal"
  /\ request' = [request EXCEPT ![c] = [Idle EXCEPT !.pc = "arrived", !.kind = kind,
                                                    !.authority = authority, !.at = n]]
  /\ UNCHANGED <<current, view, disabled>>

\* Core, the owner or the connection fails; the caller leaves; an answer was read.
Fails(c) == request[c].pc # "idle" /\ Ends(c)

-----------------------------------------------------------------------------
(* Run files and MCP connections *)

\* The Job or run is read once; its owner and the binding come from that read.
Locate(c) ==
  /\ request[c].pc = "arrived" /\ request[c].kind \in {"file", "mcp"}
  /\ request' = [request EXCEPT ![c] = [@ EXCEPT !.pc = "located",
                                                    !.binding = view[request[c].at]]]
  /\ UNCHANGED <<current, view, disabled>>

\* Core cannot return the run: the replicated record is history, under no binding.
ReadOffline(c) ==
  /\ request[c].pc = "arrived" /\ request[c].kind = "file"
  /\ request' = [request EXCEPT ![c] = [@ EXCEPT !.pc = "answered", !.by = request[c].at]]
  /\ UNCHANGED <<current, view, disabled>>

\* The owner deliberately advertises no HTTP API: the replica of exactly this binding.
ServesReplica(r) == r.kind = "file" /\ r.binding.owner \in disabled \ {r.at}

\* A Job without an owner has only ever been on the computer that has it.
ServesHere(r) == r.binding.owner = r.at \/ (r.kind = "mcp" /\ r.binding.owner = NoNode)

Serve(c) ==
  LET r == request[c]
  IN  /\ r.pc = "located"
      /\ ServesHere(r) \/ ServesReplica(r)
      /\ request' = [request EXCEPT ![c] =
           [@ EXCEPT !.pc = "answered", !.by = r.at, !.as = r.binding,
                     !.native = r.kind = "mcp" /\ r.authority = "internal"]]
      /\ UNCHANGED <<current, view, disabled>>

\* X-MN-MCP-External: the relay authenticates as the owner's own API, so it says
\* that its client did not.
External(r) == r.kind = "mcp" /\ r.authority # "internal"

Relays(r) == r.binding.owner \in Nodes \ ({r.at} \cup disabled)

Relay(c) ==
  LET r == request[c]
  IN  /\ r.pc = "located" /\ Relays(r)
      /\ request' = [request EXCEPT ![c] = [@ EXCEPT !.pc = "relayed", !.external = External(r), !.hops = 1]]
      /\ UNCHANGED <<current, view, disabled>>

\* The owner reads the Job or run itself: it is local, and the binding is the same.
Accepts(n, binding) == view[n].owner = n /\ view[n] = binding

\* The owner answers under its own placement and confirms the binding.  An older API
\* ignores the headers, answers and confirms nothing; it has no native launches.
OwnerAnswers(c) ==
  LET r == request[c]
      n == r.binding.owner
  IN  /\ r.pc = "relayed"
      /\ n \in Legacy \/ Accepts(n, r.binding)
      /\ request' = [request EXCEPT ![c] =
           [@ EXCEPT !.pc = "replied", !.by = n, !.as = view[n], !.confirmed = n \notin Legacy,
                     !.native = n \notin Legacy /\ r.kind = "mcp" /\ ~r.external]]
      /\ UNCHANGED <<current, view, disabled>>

\* Mutant of Confirmed: any successful reply is passed on.
ConfirmedAlways(r) == TRUE

Confirmed(r) == r.confirmed

Deliver(c) ==
  /\ request[c].pc = "replied" /\ Confirmed(request[c])
  /\ request' = [request EXCEPT ![c].pc = "answered"]
  /\ UNCHANGED <<current, view, disabled>>

-----------------------------------------------------------------------------
(* The web UI.  The proxy of a computer takes a page's requests and web sockets: it asks *)
(* its API for the Job's handle, checks the handle and forwards.  What a version stands  *)
(* for here is the execution alone.                                                       *)

AskUi(c, n) ==
  /\ request[c].pc = "idle"
  /\ request' = [request EXCEPT ![c] = [Idle EXCEPT !.pc = "arrived", !.kind = "ui", !.at = n]]
  /\ UNCHANGED <<current, view, disabled>>

\* Where the API of n finds a handle: the registry names the current execution of a placed
\* Job, the owner answers from its own registry, and a directory's copy may be of any
\* execution it heard of, and need not say of which.
FromServices(n) == IF view[n].owner = NoNode THEN {} ELSE {view[n].version}
FromOwner(n) == IF view[n].owner \in {n, NoNode} \cup disabled THEN {} ELSE FromServices(view[n].owner)
FromDirectory(n) == 1..view[n].version

\* get_job_ui, for the proxy.
FindUi(c) ==
  LET n == request[c].at
  IN  /\ request[c].pc = "arrived" /\ request[c].kind = "ui"
      /\ \E version \in FromServices(n) \cup FromOwner(n) \cup FromDirectory(n) :
           \E labelled \in {TRUE, version \notin FromDirectory(n)} :
             request' = [request EXCEPT ![c] = [@ EXCEPT !.pc = "found", !.handle = version, !.labelled = labelled]]
      /\ UNCHANGED <<current, view, disabled>>

\* The proxy forwards to a running service only, and a registration of another execution is
\* marked stopped.
Forwards(r, location) == location.owner # NoNode /\ r.labelled => r.handle = location.version

\* routed_handle reads the placement again.
RouteUi(c) ==
  LET r == request[c]
      location == view[r.at]
  IN  /\ r.pc = "found"
      /\ Forwards(r, location)
      /\ request' = [request EXCEPT ![c] = [@ EXCEPT !.pc = "routed", !.placed = location]]
      /\ UNCHANGED <<current, view, disabled>>

\* A handle without a transport: the proxy reaches the service at the handle's address.
ForwardUi(c) ==
  LET r == request[c]
  IN  /\ r.pc = "routed" /\ r.placed.owner \in {r.at, NoNode}
      /\ request' = [request EXCEPT ![c] =
           [@ EXCEPT !.pc = "answered", !.by = r.at, !.as = [r.placed EXCEPT !.version = r.handle]]]
      /\ UNCHANGED <<current, view, disabled>>

\* A handle with a transport: the proxy names its execution to the owner's API, as the first hop.
RelayUi(c) ==
  LET r == request[c]
  IN  /\ r.pc = "routed" /\ r.placed.owner \notin {r.at, NoNode} \cup disabled
      /\ request' = [request EXCEPT ![c] =
           [@ EXCEPT !.pc = "relayed-ui", !.binding = r.placed, !.placed = NoPlacement, !.handle = 0,
                     !.labelled = TRUE]]
      /\ UNCHANGED <<current, view, disabled>>

\* local_target: the execution, the owner and the registration are the relay's.
AcceptUi(c) ==
  LET r == request[c]
      n == r.binding.owner
  IN  /\ r.pc = "relayed-ui" /\ n \notin Legacy
      /\ Accepts(n, r.binding)
      /\ request' = [request EXCEPT ![c].pc = "accepted"]
      /\ UNCHANGED <<current, view, disabled>>

\* The owner's own proxy takes the request as if it came from a page, without the relay's headers.
PassOn(c) ==
  /\ request[c].pc = "accepted"
  /\ request' = [request EXCEPT ![c] =
       [@ EXCEPT !.pc = "arrived", !.at = request[c].binding.owner, !.hops = request[c].hops + 1]]
  /\ UNCHANGED <<current, view, disabled>>

-----------------------------------------------------------------------------
(* The cluster *)

\* The Job moves, starts another execution, is edited or reset.
Move(owner) ==
  /\ current.version < MaxVersion
  /\ current' = [owner |-> owner, version |-> current.version + 1]
  /\ UNCHANGED <<view, disabled, request>>

\* A computer's Core hears of it.
Hear(n) ==
  /\ view[n] # current
  /\ view' = [view EXCEPT ![n] = current]
  /\ UNCHANGED <<current, disabled, request>>

Disable(n) ==
  /\ n \notin disabled
  /\ disabled' = disabled \cup {n}
  /\ UNCHANGED <<current, view, request>>

Next ==
  \/ \E c \in Clients :
       \/ \E n \in Nodes, kind \in {"file", "mcp"}, authority \in Authorities : Ask(c, n, kind, authority)
       \/ Locate(c) \/ ReadOffline(c) \/ Serve(c) \/ Relay(c) \/ OwnerAnswers(c) \/ Deliver(c)
       \/ (\E n \in Nodes : AskUi(c, n))
       \/ FindUi(c) \/ RouteUi(c) \/ ForwardUi(c) \/ RelayUi(c) \/ AcceptUi(c) \/ PassOn(c)
       \/ Fails(c)
  \/ \E n \in Nodes : Move(n) \/ Hear(n) \/ Disable(n)

Spec == Init /\ [][Next]_vars

-----------------------------------------------------------------------------
(* Properties *)

Answered(kinds) == {c \in Clients : request[c].pc = "answered" /\ request[c].kind \in kinds}

\* Files and MCP answers come from the computer that the located placement names,
\* which acted under that very placement; another computer answers only for an
\* owner without an HTTP API, a Job without an owner, or a run that Core has lost.
\* However many computers a request passed, native launch metadata is taken only from
\* a client that was internal where it entered.
ServedUnderOneBinding ==
  \A c \in Answered({"file", "mcp"}) :
    LET r == request[c]
    IN  \/ r.binding = NoPlacement /\ r.kind = "file" /\ r.hops = 0
        \/ /\ r.as = r.binding
           /\ \/ r.by = r.binding.owner
              \/ r.binding.owner = NoNode
              \/ r.kind = "file" /\ r.binding.owner \in disabled
           /\ r.native => r.authority = "internal"

\* A relayed page request that is answered took one hop, and the answer is of the
\* execution the relay named: "Changed ownership, stale registration, inactive
\* lifecycle and extra hops fail closed" (SPEC.md, "Owner-scoped Job UI relay").
RelayedUiIsConfirmed ==
  \A c \in Answered({"ui"}) :
    request[c].hops > 0 => request[c].hops = 1 /\ request[c].as = request[c].binding
=============================================================================
