-------------------------- MODULE ApiRequests_proofs --------------------------
(***************************************************************************)
(* Theorems about the request layer for any people, clients, computers,    *)
(* runs and bounds.  The five parts share no variable: a step of the       *)
(* process is a step of one of them and stutters for the others, so each   *)
(* part has an inductive invariant of its own.                             *)
(***************************************************************************)
EXTENDS ApiRequests, FiniteSetTheorems, SequenceTheorems, WellFoundedInduction, TLAPS

-----------------------------------------------------------------------------
(* Decisions: what a client read of a decision, and what it was told of its *)
(* own answer, never changes after that.                                    *)

Interaction ==
  [state : {"unasked", "pending", "responded", "closed"}, revision : Nat,
   decision : Choices \cup {NoAnswer}, command : People \cup {"mcp", NoAnswer}]

Client ==
  [pc : {"idle", "asked", "read", "accepted", "refused"}, through : {"desktop", "mcp"},
   prompted : Asked \cup {0}, request : Asked \cup {0}, answer : Choices \cup {NoAnswer}, seen : Interaction]

\* Only a response decides.
InteractionHolds(i) == interaction[i].decision # NoAnswer => interaction[i].state = "responded"

\* A client answers the request that was put to its person, and what it read of a
\* decision still stands among those that are held.
ClientHolds(r, held) ==
  /\ r.pc # "idle" => r.prompted \in Asked /\ r.answer \in Choices
  /\ r.pc = "read" => r.request = r.prompted
  /\ r.pc = "read" /\ r.seen.state = "responded" =>
       held[r.request].state = "responded" /\ held[r.request].decision = r.seen.decision
  /\ r.pc = "accepted" => held[r.prompted].state = "responded" /\ held[r.prompted].decision = r.answer

DecisionsInductive ==
  /\ interaction \in [Asked -> Interaction]
  /\ person \in [People -> Client]
  /\ \A i \in Asked : InteractionHolds(i)
  /\ \A p \in People : ClientHolds(person[p], interaction)

\* The decisions Core has made are never changed.
DecisionsStay ==
  /\ interaction' \in [Asked -> Interaction]
  /\ \A i \in Asked : interaction[i].state = "responded" => interaction'[i] = interaction[i]

LEMMA OldestIsPending ==
  ASSUME Decisions!Pending # {}
  PROVE  Decisions!Oldest \in Decisions!Pending
<1> DEFINE P == Decisions!Pending
<1>1. P \subseteq Nat
  BY RequestAssumption DEF Decisions!Pending
<1>2. PICK x \in P : \A y \in P : <<y, x>> \notin OpToRel(<, Nat)
  BY <1>1, NatLessThanWellFounded, WFMin
<1>3. \A y \in P : x <= y
  <2> TAKE y \in P
  <2>1. x \in Nat /\ y \in Nat
    BY <1>1
  <2>2. ~(y < x)
    BY <1>2, <2>1 DEF OpToRel
  <2> QED BY <2>1, <2>2
<1> QED BY <1>3 DEF Decisions!Oldest

LEMMA DecisionsStart == Decisions!Init => DecisionsInductive
<1> SUFFICES ASSUME Decisions!Init PROVE DecisionsInductive
  OBVIOUS
<1>1. Decisions!Unasked \in Interaction
  BY DEF Decisions!Unasked, Interaction
<1>2. Decisions!Absent \in Client
  BY <1>1 DEF Decisions!Absent, Client
<1> QED BY <1>1, <1>2 DEF Decisions!Init, DecisionsInductive, InteractionHolds, ClientHolds,
                          Decisions!Unasked, Decisions!Absent

\* One client goes on, with decisions that stay.
LEMMA ClientMoves ==
  ASSUME DecisionsInductive, DecisionsStay, \A i \in Asked : InteractionHolds(i)',
         NEW p \in People, NEW r \in Client, person' = [person EXCEPT ![p] = r],
         ClientHolds(r, interaction')
  PROVE  DecisionsInductive'
<1>1. person' \in [People -> Client] /\ person'[p] = r /\ \A q \in People \ {p} : person'[q] = person[q]
  BY DEF DecisionsInductive
<1>2. ASSUME NEW q \in People \ {p}
      PROVE  ClientHolds(person'[q], interaction')
  BY <1>1 DEF DecisionsInductive, DecisionsStay, ClientHolds, Client
<1>3. \A q \in People : ClientHolds(person'[q], interaction')
  BY <1>1, <1>2
<1> QED BY <1>1, <1>3 DEF DecisionsInductive, DecisionsStay

\* A decision of Core changes, and the clients stand still.
LEMMA InteractionMoves ==
  ASSUME DecisionsInductive, DecisionsStay, \A i \in Asked : InteractionHolds(i)', UNCHANGED person
  PROVE  DecisionsInductive'
<1>1. \A q \in People : ClientHolds(person[q], interaction')
  BY DEF DecisionsInductive, DecisionsStay, ClientHolds, Client
<1> QED BY <1>1 DEF DecisionsInductive, DecisionsStay

LEMMA Unmoved ==
  ASSUME DecisionsInductive, UNCHANGED interaction
  PROVE  DecisionsStay /\ \A i \in Asked : InteractionHolds(i)'
BY DEF DecisionsInductive, DecisionsStay, InteractionHolds

LEMMA OpenKeeps ==
  ASSUME DecisionsInductive, NEW p \in People, NEW i \in Asked, NEW answer \in Choices, Decisions!Open(p, i, answer)
  PROVE  DecisionsInductive'
<1> PICK s : s = person[p]
  OBVIOUS
<1> PICK seen : seen = interaction[i]
  OBVIOUS
<1> PICK r : r = [s EXCEPT !.pc = "read", !.prompted = i, !.request = i, !.answer = answer, !.seen = seen]
  OBVIOUS
<1>1. s \in Client /\ seen \in Interaction
  BY DEF DecisionsInductive
<1>2. /\ r \in Client /\ r.pc = "read" /\ r.prompted = i /\ r.request = i /\ r.answer = answer
      /\ r.seen = seen
  BY <1>1 DEF Client
<1>3. person' = [person EXCEPT ![p] = r] /\ UNCHANGED interaction
  BY DEF Decisions!Open
<1>4. ClientHolds(r, interaction')
  BY <1>2, <1>3 DEF ClientHolds
<1> QED BY <1>2, <1>3, <1>4, Unmoved, ClientMoves

LEMMA ElicitKeeps ==
  ASSUME DecisionsInductive, NEW p \in People, NEW answer \in Choices, Decisions!Elicit(p, answer)
  PROVE  DecisionsInductive'
<1> PICK s : s = person[p]
  OBVIOUS
<1> PICK i : i = Decisions!Oldest
  OBVIOUS
<1> PICK r : r = [s EXCEPT !.pc = "asked", !.through = "mcp", !.prompted = i, !.answer = answer]
  OBVIOUS
<1>1. s \in Client /\ i \in Asked
  BY OldestIsPending DEF DecisionsInductive, Decisions!Elicit, Decisions!Pending
<1>2. r \in Client /\ r.pc = "asked" /\ r.prompted = i /\ r.answer = answer
  BY <1>1 DEF Client
<1>3. person' = [person EXCEPT ![p] = r] /\ UNCHANGED interaction
  BY DEF Decisions!Elicit
<1>4. ClientHolds(r, interaction')
  BY <1>1, <1>2 DEF ClientHolds
<1> QED BY <1>2, <1>3, <1>4, Unmoved, ClientMoves

LEMMA ResumeKeeps ==
  ASSUME DecisionsInductive, NEW p \in People, Decisions!Resume(p)
  PROVE  DecisionsInductive'
<1> PICK s : s = person[p]
  OBVIOUS
<1>1. s \in Client /\ s.prompted \in Asked /\ s.answer \in Choices
  BY DEF DecisionsInductive, ClientHolds, Decisions!Resume
<1> PICK seen : seen = interaction[s.prompted]
  OBVIOUS
<1> PICK r : r = [s EXCEPT !.pc = "read", !.request = s.prompted, !.seen = seen]
  OBVIOUS
<1>2. seen \in Interaction
  BY <1>1 DEF DecisionsInductive
<1>3. /\ r \in Client /\ r.pc = "read" /\ r.prompted = s.prompted /\ r.request = s.prompted
      /\ r.answer = s.answer /\ r.seen = seen
  BY <1>1, <1>2 DEF Client
<1>4. person' = [person EXCEPT ![p] = r] /\ UNCHANGED interaction
  BY DEF Decisions!Resume, Decisions!Reads
<1>5. ClientHolds(r, interaction')
  BY <1>1, <1>3, <1>4 DEF ClientHolds
<1> QED BY <1>3, <1>4, <1>5, Unmoved, ClientMoves

\* The reply reaches the client, or the client repeats what it had no reply to.
LEMMA ToldKeeps ==
  ASSUME DecisionsInductive, DecisionsStay, \A i \in Asked : InteractionHolds(i)',
         NEW p \in People, NEW outcome \in {"accepted", "refused"}, person[p].pc = "read",
         Decisions!Told(p, outcome),
         outcome = "accepted" =>
           /\ interaction'[person[p].prompted].state = "responded"
           /\ interaction'[person[p].prompted].decision = person[p].answer
  PROVE  DecisionsInductive'
<1> PICK s : s = person[p]
  OBVIOUS
<1>1. s \in Client /\ s.pc = "read" /\ ClientHolds(s, interaction)
  BY DEF DecisionsInductive
<1>2. ASSUME NEW pc \in {"accepted", "refused", "asked", "read"}, person' = [person EXCEPT ![p].pc = pc],
             pc = "accepted" => outcome = "accepted"
      PROVE  DecisionsInductive'
  <2> PICK r : r = [s EXCEPT !.pc = pc]
    OBVIOUS
  <2>1. /\ r \in Client /\ r.pc = pc /\ r.prompted = s.prompted /\ r.request = s.request
        /\ r.answer = s.answer /\ r.seen = s.seen
    BY <1>1 DEF Client
  <2>2. person' = [person EXCEPT ![p] = r]
    BY <1>2
  <2>3. s.prompted \in Asked /\ s.answer \in Choices /\ s.request = s.prompted
    BY <1>1 DEF ClientHolds
  <2>4. s.seen.state = "responded" =>
          interaction'[s.request].state = "responded" /\ interaction'[s.request].decision = s.seen.decision
    BY <1>1, <2>3 DEF ClientHolds, DecisionsStay
  <2>5. ClientHolds(r, interaction')
    BY <1>2, <2>1, <2>3, <2>4 DEF ClientHolds
  <2> QED BY <2>1, <2>2, <2>5, ClientMoves
<1> QED BY <1>2 DEF Decisions!Told

LEMMA SettledKeeps ==
  ASSUME DecisionsInductive, NEW p \in People, Decisions!Settled(p)
  PROVE  DecisionsInductive'
<1> PICK outcome \in {"accepted", "refused"} :
      Decisions!Told(p, outcome) /\ (outcome = "accepted" => Decisions!Agrees(person[p]))
  BY DEF Decisions!Settled
<1>1. person[p].pc = "read" /\ person[p].seen.state = "responded" /\ UNCHANGED interaction
  BY DEF Decisions!Settled
<1>2. DecisionsStay /\ \A i \in Asked : InteractionHolds(i)'
  BY <1>1, Unmoved
<1>3. outcome = "accepted" =>
        /\ interaction'[person[p].prompted].state = "responded"
        /\ interaction'[person[p].prompted].decision = person[p].answer
  BY <1>1 DEF DecisionsInductive, ClientHolds, Decisions!Agrees
<1> QED BY <1>1, <1>2, <1>3, ToldKeeps

\* A decision takes another form, which nobody was told of as decided.
LEMMA InteractionChanged ==
  ASSUME DecisionsInductive, NEW i \in Asked, interaction[i].state # "responded",
         NEW new \in Interaction, new.decision # NoAnswer => new.state = "responded",
         interaction' = [interaction EXCEPT ![i] = new]
  PROVE  DecisionsStay /\ interaction'[i] = new /\ \A j \in Asked : InteractionHolds(j)'
<1>1. /\ interaction' \in [Asked -> Interaction] /\ interaction'[i] = new
      /\ \A j \in Asked \ {i} : interaction'[j] = interaction[j]
  BY DEF DecisionsInductive
<1> QED BY <1>1 DEF DecisionsInductive, DecisionsStay, InteractionHolds

LEMMA RespondKeeps ==
  ASSUME DecisionsInductive, NEW p \in People, Decisions!Respond(p)
  PROVE  DecisionsInductive'
<1> PICK r : r = person[p]
  OBVIOUS
<1>1. r \in Client /\ r.pc = "read" /\ r.prompted \in Asked /\ r.request = r.prompted /\ r.answer \in Choices
  BY DEF DecisionsInductive, ClientHolds, Decisions!Respond
<1> PICK i : i = r.request
  OBVIOUS
<1> PICK command : command = Decisions!Command(p)
  OBVIOUS
<1>2. command \in People \cup {"mcp"}
  BY DEF Decisions!Command
<1>3. CASE /\ Decisions!Decides(i, r.seen.revision)
           /\ interaction' = [interaction EXCEPT ![i] =
                [state |-> "responded", revision |-> @.revision + 1, decision |-> r.answer, command |-> command]]
           /\ Decisions!Told(p, "accepted")
  <2> PICK revision : revision = interaction[i].revision + 1
    OBVIOUS
  <2> PICK new : new = [state |-> "responded", revision |-> revision, decision |-> r.answer, command |-> command]
    OBVIOUS
  <2>1. revision \in Nat
    BY <1>1 DEF DecisionsInductive, Interaction
  <2>2. new \in Interaction /\ new.state = "responded" /\ new.decision = r.answer
    BY <1>1, <1>2, <2>1 DEF Interaction
  <2>3. interaction' = [interaction EXCEPT ![i] = new] /\ interaction[i].state # "responded"
    BY <1>3 DEF Decisions!Decides
  <2>4. DecisionsStay /\ interaction'[i] = new /\ \A j \in Asked : InteractionHolds(j)'
    <3>1. i \in Asked /\ new \in Interaction /\ (new.decision # NoAnswer => new.state = "responded")
      BY <1>1, <2>2
    <3> QED BY <2>3, <3>1, InteractionChanged
  <2> QED BY <1>1, <1>3, <2>2, <2>4, ToldKeeps
<1>4. CASE /\ Decisions!Told(p, IF Decisions!Repeats(i, command, r.answer) THEN "accepted" ELSE "refused")
           /\ UNCHANGED interaction
  <2> PICK outcome : outcome = IF Decisions!Repeats(i, command, r.answer) THEN "accepted" ELSE "refused"
    OBVIOUS
  <2>1. outcome \in {"accepted", "refused"} /\ Decisions!Told(p, outcome)
    BY <1>4
  <2>2. DecisionsStay /\ \A j \in Asked : InteractionHolds(j)'
    BY <1>4, Unmoved
  <2>3. outcome = "accepted" => interaction[i].decision = r.answer
    BY DEF Decisions!Repeats
  <2>4. r.answer # NoAnswer
    BY <1>1, RequestAssumption
  <2>5. outcome = "accepted" => interaction[i].state = "responded"
    BY <1>1, <2>3, <2>4 DEF DecisionsInductive, InteractionHolds
  <2> QED BY <1>1, <1>4, <2>1, <2>2, <2>3, <2>5, ToldKeeps
<1> QED BY <1>3, <1>4 DEF Decisions!Respond

LEMMA WithdrawKeeps ==
  ASSUME DecisionsInductive, NEW p \in People, Decisions!Leave(p)
  PROVE  DecisionsInductive'
<1> PICK r : r = Decisions!Absent
  OBVIOUS
<1>1. r \in Client /\ r.pc = "idle"
  BY DEF Decisions!Absent, Decisions!Unasked, Client, Interaction
<1>2. ClientHolds(r, interaction')
  BY <1>1 DEF ClientHolds
<1>3. person' = [person EXCEPT ![p] = r] /\ UNCHANGED interaction
  BY DEF Decisions!Leave
<1> QED BY <1>1, <1>2, <1>3, Unmoved, ClientMoves

LEMMA CoworkerKeeps ==
  ASSUME DecisionsInductive, NEW i \in Asked, Decisions!Ask(i) \/ Decisions!Edit(i) \/ Decisions!Close(i)
  PROVE  DecisionsInductive'
<1> PICK old : old = interaction[i]
  OBVIOUS
<1>1. old \in Interaction /\ (old.decision # NoAnswer => old.state = "responded")
  BY DEF DecisionsInductive, InteractionHolds
<1>2. old.state # "responded" /\ UNCHANGED person
  BY DEF Decisions!Ask, Decisions!Edit, Decisions!Close, Decisions!Pending
<1>3. PICK new : /\ new \in {[old EXCEPT !.state = "pending"], [old EXCEPT !.revision = 2], [old EXCEPT !.state = "closed"]}
                 /\ interaction' = [interaction EXCEPT ![i] = new]
  BY DEF Decisions!Ask, Decisions!Edit, Decisions!Close
<1>4. new \in Interaction /\ new.decision = NoAnswer
  BY <1>1, <1>2, <1>3 DEF Interaction
<1>5. DecisionsStay /\ \A j \in Asked : InteractionHolds(j)'
  BY <1>2, <1>3, <1>4, InteractionChanged
<1> QED BY <1>2, <1>5, InteractionMoves

LEMMA DecisionsStep == DecisionsInductive /\ [Decisions!Next]_decisions => DecisionsInductive'
<1> SUFFICES ASSUME DecisionsInductive, [Decisions!Next]_decisions PROVE DecisionsInductive'
  OBVIOUS
<1>1. CASE UNCHANGED decisions
  <2>1. UNCHANGED <<interaction, person>>
    BY <1>1 DEF decisions
  <2> QED BY <2>1, Unmoved, InteractionMoves
<1>2. ASSUME NEW p \in People,
             \/ \E answer \in Choices : (\E i \in Asked : Decisions!Open(p, i, answer)) \/ Decisions!Elicit(p, answer)
             \/ Decisions!Resume(p) \/ Decisions!Settled(p) \/ Decisions!Respond(p) \/ Decisions!Leave(p)
      PROVE  DecisionsInductive'
  BY <1>2, OpenKeeps, ElicitKeeps, ResumeKeeps, SettledKeeps, RespondKeeps, WithdrawKeeps
<1>3. ASSUME NEW i \in Asked, Decisions!Ask(i) \/ Decisions!Edit(i) \/ Decisions!Close(i)
      PROVE  DecisionsInductive'
  BY <1>3, CoworkerKeeps
<1> QED BY <1>1, <1>2, <1>3 DEF Decisions!Next

\* Whoever is told that their answer was accepted gave the one that stands, to the
\* request that was put to them, however many people and devices answer it, edits
\* and closures race with them and replies are lost (resolve_human_input,
\* record_pending_human_response, respond_to_interaction).
THEOREM DecisionsStand == RequestSpec => []AcceptedDecisionStands
<1>1. RequestInit => DecisionsInductive
  BY DecisionsStart DEF RequestInit
<1>2. DecisionsInductive /\ [RequestNext]_RequestVars => DecisionsInductive'
  BY DecisionsStep DEF RequestNext, RequestVars
<1>3. DecisionsInductive => AcceptedDecisionStands
  BY DEF DecisionsInductive, ClientHolds, AcceptedDecisionStands, Decisions!AcceptedDecisionStands
<1> QED BY <1>1, <1>2, <1>3, PTL DEF RequestSpec

-----------------------------------------------------------------------------
(* Routing: a request is answered under the placement it was located by.    *)

Placement == [owner : Nodes \cup {NoNode}, version : Nat]

Routed ==
  [pc : {"idle", "arrived", "located", "relayed", "replied", "answered", "found", "routed", "relayed-ui", "accepted"},
   kind : {"file", "mcp", "ui"}, authority : {"internal", "external"}, at : Nodes \cup {NoNode},
   binding : Placement, external : BOOLEAN, confirmed : BOOLEAN, native : BOOLEAN, handle : Nat,
   labelled : BOOLEAN, placed : Placement, hops : Nat, by : Nodes \cup {NoNode}, as : Placement]

\* Where a request is, and which of its fields are about that.
Stands(r) ==
  /\ r.pc # "idle" => r.at \in Nodes
  /\ r.pc \in {"relayed", "relayed-ui", "accepted"} => r.binding.owner \in Nodes
  /\ r.pc \in {"found", "routed", "relayed-ui", "accepted"} => r.kind = "ui"
  /\ r.pc = "arrived" /\ r.kind # "ui" => r.binding = Routing!NoPlacement /\ r.hops = 0

\* What a relay and its confirmed reply say.
RelaysTruly(r) ==
  /\ r.pc = "relayed" /\ r.kind = "mcp" /\ ~r.external => r.authority = "internal"
  /\ r.pc = "replied" /\ r.confirmed =>
       r.as = r.binding /\ r.by = r.binding.owner /\ (r.native => r.authority = "internal")

\* The answer is the owner's, or one that another computer may give.
IsServed(r, off) ==
  \/ r.binding = Routing!NoPlacement /\ r.kind = "file" /\ r.hops = 0
  \/ /\ r.as = r.binding
     /\ \/ r.by = r.binding.owner
        \/ r.binding.owner = NoNode
        \/ r.kind = "file" /\ r.binding.owner \in off
     /\ r.native => r.authority = "internal"

RequestHolds(r, off) ==
  Stands(r) /\ RelaysTruly(r) /\ (r.pc = "answered" /\ r.kind # "ui" => IsServed(r, off))

RoutingInductive ==
  /\ current \in Placement /\ view \in [Nodes -> Placement]
  /\ routed \in [Clients -> Routed]
  /\ \A c \in Clients : RequestHolds(routed[c], disabled)

LEMMA NobodyAsks == Routing!Idle \in Routed /\ Routing!Idle.pc = "idle" /\ Routing!NoPlacement \in Placement
<1>1. Routing!NoPlacement \in Placement
  BY DEF Routing!NoPlacement, Placement
<1> QED BY <1>1 DEF Routing!Idle, Routed

LEMMA RoutingStart == Routing!Init => RoutingInductive
<1> SUFFICES ASSUME Routing!Init PROVE RoutingInductive
  OBVIOUS
<1>1. current \in Placement
  BY DEF Routing!Init, Placement
<1>2. routed \in [Clients -> Routed] /\ \A c \in Clients : routed[c] = Routing!Idle
  BY NobodyAsks DEF Routing!Init
<1>3. \A c \in Clients : RequestHolds(routed[c], disabled)
  BY <1>2, NobodyAsks DEF RequestHolds, Stands, RelaysTruly
<1> QED BY <1>1, <1>2, <1>3 DEF Routing!Init, RoutingInductive

\* One request goes on while the cluster stands still.
LEMMA RequestMoves ==
  ASSUME RoutingInductive, UNCHANGED <<current, view, disabled>>,
         NEW c \in Clients, NEW r \in Routed, routed' = [routed EXCEPT ![c] = r], RequestHolds(r, disabled)
  PROVE  RoutingInductive'
<1>1. routed' \in [Clients -> Routed] /\ routed'[c] = r /\ \A d \in Clients \ {c} : routed'[d] = routed[d]
  BY DEF RoutingInductive
<1>2. \A d \in Clients : RequestHolds(routed'[d], disabled)
  BY <1>1 DEF RoutingInductive
<1> QED BY <1>1, <1>2 DEF RoutingInductive

LEMMA AskKeeps ==
  ASSUME RoutingInductive, NEW c \in Clients, NEW n \in Nodes, NEW kind \in {"file", "mcp", "ui"},
         NEW authority \in {"internal", "external"}, UNCHANGED <<current, view, disabled>>,
         NEW r, r = [Routing!Idle EXCEPT !.pc = "arrived", !.kind = kind, !.authority = authority, !.at = n],
         routed' = [routed EXCEPT ![c] = r]
  PROVE  RoutingInductive'
<1>1. r \in Routed /\ r.pc = "arrived" /\ r.at = n /\ r.binding = Routing!NoPlacement /\ r.hops = 0
  BY NobodyAsks DEF Routed, Routing!Idle
<1>2. RequestHolds(r, disabled)
  BY <1>1 DEF RequestHolds, Stands, RelaysTruly
<1> QED BY <1>1, <1>2, RequestMoves

LEMMA EndsKeeps ==
  ASSUME RoutingInductive, NEW c \in Clients, Routing!Ends(c)
  PROVE  RoutingInductive'
<1> PICK r : r = Routing!Idle
  OBVIOUS
<1>1. r \in Routed /\ r.pc = "idle"
  BY NobodyAsks
<1>2. RequestHolds(r, disabled)
  BY <1>1 DEF RequestHolds, Stands, RelaysTruly
<1>3. routed' = [routed EXCEPT ![c] = r] /\ UNCHANGED <<current, view, disabled>>
  BY DEF Routing!Ends
<1> QED BY <1>1, <1>2, <1>3, RequestMoves

LEMMA LocateKeeps ==
  ASSUME RoutingInductive, NEW c \in Clients, Routing!Locate(c)
  PROVE  RoutingInductive'
<1> PICK s : s = routed[c]
  OBVIOUS
<1>1. s \in Routed /\ s.at \in Nodes
  BY DEF RoutingInductive, RequestHolds, Stands, Routing!Locate
<1> PICK binding : binding = view[s.at]
  OBVIOUS
<1> PICK r : r = [s EXCEPT !.pc = "located", !.binding = binding]
  OBVIOUS
<1>2. binding \in Placement
  BY <1>1 DEF RoutingInductive
<1>3. r \in Routed /\ r.pc = "located" /\ r.at = s.at
  <2>1. r \in Routed
    BY <1>1, <1>2, Zenon DEF Routed
  <2>2. r.pc = "located" /\ r.at = s.at
    BY <1>1 DEF Routed
  <2> QED BY <2>1, <2>2
<1>4. RequestHolds(r, disabled)
  BY <1>1, <1>3 DEF RequestHolds, Stands, RelaysTruly
<1>5. routed' = [routed EXCEPT ![c] = r] /\ UNCHANGED <<current, view, disabled>>
  BY DEF Routing!Locate
<1> QED BY <1>3, <1>4, <1>5, RequestMoves

LEMMA ReadOfflineKeeps ==
  ASSUME RoutingInductive, NEW c \in Clients, Routing!ReadOffline(c)
  PROVE  RoutingInductive'
<1> PICK s : s = routed[c]
  OBVIOUS
<1>1. /\ s \in Routed /\ s.at \in Nodes /\ s.kind = "file"
      /\ s.binding = Routing!NoPlacement /\ s.hops = 0
  BY DEF RoutingInductive, RequestHolds, Stands, Routing!ReadOffline
<1> PICK r : r = [s EXCEPT !.pc = "answered", !.by = s.at]
  OBVIOUS
<1>2. /\ r \in Routed /\ r.pc = "answered" /\ r.at = s.at /\ r.kind = "file" /\ r.binding = s.binding
      /\ r.hops = 0
  BY <1>1 DEF Routed
<1>3. RequestHolds(r, disabled)
  BY <1>1, <1>2 DEF RequestHolds, Stands, RelaysTruly, IsServed
<1>4. routed' = [routed EXCEPT ![c] = r] /\ UNCHANGED <<current, view, disabled>>
  BY DEF Routing!ReadOffline
<1> QED BY <1>2, <1>3, <1>4, RequestMoves

LEMMA ServeKeeps ==
  ASSUME RoutingInductive, NEW c \in Clients, Routing!Serve(c)
  PROVE  RoutingInductive'
<1>1. PICK s \in Routed : s = routed[c] /\ s.at \in Nodes
  BY DEF RoutingInductive, RequestHolds, Stands, Routing!Serve
<1>2. PICK n \in Nodes, as \in Placement : n = s.at /\ as = s.binding
  BY <1>1 DEF Routed
<1>3. PICK native \in BOOLEAN : native = (s.kind = "mcp" /\ s.authority = "internal")
  OBVIOUS
<1>4. PICK r : r = [s EXCEPT !.pc = "answered", !.by = n, !.as = as, !.native = native]
  OBVIOUS
<1>5. r \in Routed
  <2>1. s \in Routed /\ n \in Nodes /\ as \in Placement /\ native \in BOOLEAN
    BY <1>1, <1>2, <1>3
  <2> QED BY <1>4, <2>1, Zenon DEF Routed
<1>6. r.pc = "answered" /\ r.by = n /\ r.as = as /\ r.native = native
  BY <1>1, <1>4 DEF Routed
<1>7. r.at = s.at /\ r.binding = s.binding /\ r.kind = s.kind /\ r.authority = s.authority
  BY <1>1, <1>4 DEF Routed
<1>8. Routing!ServesHere(s) \/ Routing!ServesReplica(s)
  BY <1>1 DEF Routing!Serve
<1>9. IsServed(r, disabled)
  BY <1>2, <1>3, <1>6, <1>7, <1>8 DEF IsServed, Routing!ServesHere, Routing!ServesReplica
<1>10. RequestHolds(r, disabled)
  BY <1>1, <1>6, <1>7, <1>9 DEF RequestHolds, Stands, RelaysTruly
<1>11. routed' = [routed EXCEPT ![c] = r] /\ UNCHANGED <<current, view, disabled>>
  BY <1>1, <1>2, <1>3, <1>4 DEF Routing!Serve
<1> QED BY <1>5, <1>10, <1>11, RequestMoves

LEMMA RelayKeeps ==
  ASSUME RoutingInductive, NEW c \in Clients, Routing!Relay(c)
  PROVE  RoutingInductive'
<1> PICK s : s = routed[c]
  OBVIOUS
<1>1. s \in Routed /\ s.at \in Nodes /\ s.binding.owner \in Nodes
  BY DEF RoutingInductive, RequestHolds, Stands, Routing!Relay, Routing!Relays
<1> PICK external : external = Routing!External(s)
  OBVIOUS
<1> PICK r : r = [s EXCEPT !.pc = "relayed", !.external = external, !.hops = 1]
  OBVIOUS
<1>2. external = (s.kind = "mcp" /\ s.authority # "internal")
  BY DEF Routing!External
<1>3. /\ r \in Routed /\ r.pc = "relayed" /\ r.at = s.at /\ r.binding = s.binding
      /\ r.external = external /\ r.kind = s.kind /\ r.authority = s.authority
  BY <1>1, <1>2 DEF Routed
<1>4. RequestHolds(r, disabled)
  BY <1>1, <1>2, <1>3 DEF RequestHolds, Stands, RelaysTruly
<1>5. routed' = [routed EXCEPT ![c] = r] /\ UNCHANGED <<current, view, disabled>>
  BY DEF Routing!Relay
<1> QED BY <1>3, <1>4, <1>5, RequestMoves

LEMMA OwnerAnswersKeeps ==
  ASSUME RoutingInductive, NEW c \in Clients, Routing!OwnerAnswers(c)
  PROVE  RoutingInductive'
<1>1. PICK s \in Routed : s = routed[c] /\ s.pc = "relayed" /\ s.at \in Nodes /\ s.binding.owner \in Nodes /\ RelaysTruly(s)
  BY DEF RoutingInductive, RequestHolds, Stands, Routing!OwnerAnswers
<1>2. PICK n \in Nodes, as \in Placement : n = s.binding.owner /\ as = view[n]
  BY <1>1 DEF RoutingInductive
<1>3. PICK confirmed \in BOOLEAN : confirmed = (n \notin Legacy)
  OBVIOUS
<1>4. PICK native \in BOOLEAN : native = (n \notin Legacy /\ s.kind = "mcp" /\ ~s.external)
  OBVIOUS
<1>5. PICK r : r = [s EXCEPT !.pc = "replied", !.by = n, !.as = as, !.confirmed = confirmed, !.native = native]
  OBVIOUS
<1>6. r \in Routed
  <2>1. s \in Routed /\ n \in Nodes /\ as \in Placement /\ confirmed \in BOOLEAN /\ native \in BOOLEAN
    BY <1>1, <1>2, <1>3, <1>4
  <2> QED BY <1>5, <2>1, Zenon DEF Routed
<1>7. r.pc = "replied" /\ r.by = n /\ r.as = as /\ r.confirmed = confirmed /\ r.native = native
  BY <1>1, <1>5 DEF Routed
<1>8. r.at = s.at /\ r.binding = s.binding /\ r.kind = s.kind /\ r.authority = s.authority
  BY <1>1, <1>5 DEF Routed
<1>9. confirmed => as = s.binding
  BY <1>1, <1>2, <1>3 DEF Routing!OwnerAnswers, Routing!Accepts
<1>10. native => s.authority = "internal"
  BY <1>1, <1>4 DEF RelaysTruly
<1>11. RequestHolds(r, disabled)
  BY <1>1, <1>2, <1>7, <1>8, <1>9, <1>10 DEF RequestHolds, Stands, RelaysTruly
<1>12. routed' = [routed EXCEPT ![c] = r] /\ UNCHANGED <<current, view, disabled>>
  BY <1>1, <1>2, <1>3, <1>4, <1>5 DEF Routing!OwnerAnswers
<1> QED BY <1>6, <1>11, <1>12, RequestMoves

LEMMA DeliverKeeps ==
  ASSUME RoutingInductive, NEW c \in Clients, Routing!Deliver(c)
  PROVE  RoutingInductive'
<1> PICK s : s = routed[c]
  OBVIOUS
<1>1. s \in Routed /\ s.pc = "replied" /\ s.confirmed /\ s.at \in Nodes /\ RelaysTruly(s)
  BY DEF RoutingInductive, RequestHolds, Stands, Routing!Deliver, Routing!Confirmed
<1> PICK r : r = [s EXCEPT !.pc = "answered"]
  OBVIOUS
<1>2. /\ r \in Routed /\ r.pc = "answered" /\ r.at = s.at /\ r.binding = s.binding /\ r.by = s.by
      /\ r.as = s.as /\ r.native = s.native /\ r.authority = s.authority
  BY <1>1 DEF Routed
<1>3. IsServed(r, disabled)
  BY <1>1, <1>2 DEF RelaysTruly, IsServed
<1>4. RequestHolds(r, disabled)
  BY <1>1, <1>2, <1>3 DEF RequestHolds, Stands, RelaysTruly
<1>5. routed' = [routed EXCEPT ![c] = r] /\ UNCHANGED <<current, view, disabled>>
  BY DEF Routing!Deliver
<1> QED BY <1>2, <1>4, <1>5, RequestMoves

\* A page's request goes on: nothing is promised of it here but where it is.
LEMMA PageMoves ==
  ASSUME RoutingInductive, UNCHANGED <<current, view, disabled>>,
         NEW c \in Clients, NEW r \in Routed, routed' = [routed EXCEPT ![c] = r],
         r.kind = "ui", r.pc \in {"found", "routed", "answered", "relayed-ui", "accepted", "arrived"},
         r.at \in Nodes, r.pc \in {"relayed-ui", "accepted"} => r.binding.owner \in Nodes
  PROVE  RoutingInductive'
<1>1. RequestHolds(r, disabled)
  BY DEF RequestHolds, Stands, RelaysTruly
<1> QED BY <1>1, RequestMoves

LEMMA FindUiKeeps ==
  ASSUME RoutingInductive, NEW c \in Clients, Routing!FindUi(c)
  PROVE  RoutingInductive'
<1> PICK s : s = routed[c]
  OBVIOUS
<1>1. s \in Routed /\ s.at \in Nodes /\ s.kind = "ui"
  BY DEF RoutingInductive, RequestHolds, Stands, Routing!FindUi
<1> PICK version, labelled :
      /\ version \in Routing!FromServices(s.at) \cup Routing!FromOwner(s.at) \cup Routing!FromDirectory(s.at)
      /\ labelled \in {TRUE, version \notin Routing!FromDirectory(s.at)}
      /\ routed' = [routed EXCEPT ![c] = [@ EXCEPT !.pc = "found", !.handle = version, !.labelled = labelled]]
  BY DEF Routing!FindUi
<1>2. \A n \in Nodes : view[n] \in Placement /\ view[n].owner \in Nodes \cup {NoNode} /\ view[n].version \in Nat
  BY DEF RoutingInductive, Placement
<1>3. \A n \in Nodes : Routing!FromServices(n) \subseteq Nat
  BY <1>2 DEF Routing!FromServices
<1>4. Routing!FromOwner(s.at) \subseteq Nat
  BY <1>1, <1>2, <1>3 DEF Routing!FromOwner
<1>5. Routing!FromDirectory(s.at) \subseteq Nat
  BY <1>1, <1>2 DEF Routing!FromDirectory
<1>6. version \in Nat /\ labelled \in BOOLEAN
  BY <1>1, <1>3, <1>4, <1>5
<1> PICK r : r = [s EXCEPT !.pc = "found", !.handle = version, !.labelled = labelled]
  OBVIOUS
<1>7. r \in Routed /\ r.pc = "found" /\ r.kind = "ui" /\ r.at = s.at
  BY <1>1, <1>6 DEF Routed
<1>8. routed' = [routed EXCEPT ![c] = r] /\ UNCHANGED <<current, view, disabled>>
  BY DEF Routing!FindUi
<1> QED BY <1>1, <1>7, <1>8, PageMoves

LEMMA RouteUiKeeps ==
  ASSUME RoutingInductive, NEW c \in Clients, Routing!RouteUi(c)
  PROVE  RoutingInductive'
<1> PICK s : s = routed[c]
  OBVIOUS
<1>1. s \in Routed /\ s.at \in Nodes /\ s.kind = "ui"
  BY DEF RoutingInductive, RequestHolds, Stands, Routing!RouteUi
<1> PICK location : location = view[s.at]
  OBVIOUS
<1>2. location \in Placement
  BY <1>1 DEF RoutingInductive
<1> PICK r : r = [s EXCEPT !.pc = "routed", !.placed = location]
  OBVIOUS
<1>3. r \in Routed /\ r.pc = "routed" /\ r.kind = "ui" /\ r.at = s.at
  BY <1>1, <1>2 DEF Routed
<1>4. routed' = [routed EXCEPT ![c] = r] /\ UNCHANGED <<current, view, disabled>>
  BY DEF Routing!RouteUi
<1> QED BY <1>1, <1>3, <1>4, PageMoves

LEMMA ForwardUiKeeps ==
  ASSUME RoutingInductive, NEW c \in Clients, Routing!ForwardUi(c)
  PROVE  RoutingInductive'
<1> PICK s : s = routed[c]
  OBVIOUS
<1>1. s \in Routed /\ s.at \in Nodes /\ s.kind = "ui"
  BY DEF RoutingInductive, RequestHolds, Stands, Routing!ForwardUi
<1> PICK placed : placed = s.placed
  OBVIOUS
<1> PICK as : as = [placed EXCEPT !.version = s.handle]
  OBVIOUS
<1>2. as \in Placement
  BY <1>1 DEF Routed, Placement
<1> PICK r : r = [s EXCEPT !.pc = "answered", !.by = s.at, !.as = as]
  OBVIOUS
<1>3. r \in Routed /\ r.pc = "answered" /\ r.kind = "ui" /\ r.at = s.at
  BY <1>1, <1>2 DEF Routed
<1>4. routed' = [routed EXCEPT ![c] = r] /\ UNCHANGED <<current, view, disabled>>
  BY DEF Routing!ForwardUi
<1> QED BY <1>1, <1>3, <1>4, PageMoves

LEMMA RelayUiKeeps ==
  ASSUME RoutingInductive, NEW c \in Clients, Routing!RelayUi(c)
  PROVE  RoutingInductive'
<1> PICK s : s = routed[c]
  OBVIOUS
<1>1. s \in Routed /\ s.at \in Nodes /\ s.kind = "ui" /\ s.placed \in Placement
  BY DEF RoutingInductive, RequestHolds, Stands, Routing!RelayUi, Routed
<1>2. s.placed.owner \in Nodes
  BY <1>1 DEF Routing!RelayUi, Placement
<1> PICK nowhere : nowhere = Routing!NoPlacement
  OBVIOUS
<1> PICK r : r = [s EXCEPT !.pc = "relayed-ui", !.binding = s.placed, !.placed = nowhere, !.handle = 0,
                           !.labelled = TRUE]
  OBVIOUS
<1>3. nowhere \in Placement
  BY NobodyAsks
<1>4. r \in Routed /\ r.pc = "relayed-ui" /\ r.kind = "ui" /\ r.at = s.at /\ r.binding = s.placed
  BY <1>1, <1>3 DEF Routed
<1>5. routed' = [routed EXCEPT ![c] = r] /\ UNCHANGED <<current, view, disabled>>
  BY DEF Routing!RelayUi
<1> QED BY <1>1, <1>2, <1>4, <1>5, PageMoves

LEMMA AcceptUiKeeps ==
  ASSUME RoutingInductive, NEW c \in Clients, Routing!AcceptUi(c)
  PROVE  RoutingInductive'
<1> PICK s : s = routed[c]
  OBVIOUS
<1>1. s \in Routed /\ s.at \in Nodes /\ s.kind = "ui" /\ s.binding.owner \in Nodes
  BY DEF RoutingInductive, RequestHolds, Stands, Routing!AcceptUi
<1> PICK r : r = [s EXCEPT !.pc = "accepted"]
  OBVIOUS
<1>2. r \in Routed /\ r.pc = "accepted" /\ r.kind = "ui" /\ r.at = s.at /\ r.binding = s.binding
  BY <1>1 DEF Routed
<1>3. routed' = [routed EXCEPT ![c] = r] /\ UNCHANGED <<current, view, disabled>>
  BY DEF Routing!AcceptUi
<1> QED BY <1>1, <1>2, <1>3, PageMoves

LEMMA PassOnKeeps ==
  ASSUME RoutingInductive, NEW c \in Clients, Routing!PassOn(c)
  PROVE  RoutingInductive'
<1> PICK s : s = routed[c]
  OBVIOUS
<1>1. s \in Routed /\ s.at \in Nodes /\ s.kind = "ui" /\ s.binding.owner \in Nodes
  BY DEF RoutingInductive, RequestHolds, Stands, Routing!PassOn
<1> PICK n : n = s.binding.owner
  OBVIOUS
<1> PICK hops : hops = s.hops + 1
  OBVIOUS
<1> PICK r : r = [s EXCEPT !.pc = "arrived", !.at = n, !.hops = hops]
  OBVIOUS
<1>2. hops \in Nat
  BY <1>1 DEF Routed
<1>3. r \in Routed /\ r.pc = "arrived" /\ r.kind = "ui" /\ r.at = n
  BY <1>1, <1>2 DEF Routed
<1>4. routed' = [routed EXCEPT ![c] = r] /\ UNCHANGED <<current, view, disabled>>
  BY DEF Routing!PassOn
<1> QED BY <1>1, <1>3, <1>4, PageMoves

\* The Job moves, a computer hears of it or disables its API.
LEMMA ClusterKeeps ==
  ASSUME RoutingInductive, NEW n \in Nodes, Routing!Move(n) \/ Routing!Hear(n) \/ Routing!Disable(n)
  PROVE  RoutingInductive'
<1>1. UNCHANGED routed /\ disabled \subseteq disabled'
  BY DEF Routing!Move, Routing!Hear, Routing!Disable
<1>2. \A c \in Clients : RequestHolds(routed[c], disabled')
  BY <1>1 DEF RoutingInductive, RequestHolds, IsServed
<1>3. current' \in Placement
  <2> PICK version : version = current.version + 1
    OBVIOUS
  <2>1. version \in Nat
    BY DEF RoutingInductive, Placement
  <2>2. current' = [owner |-> n, version |-> version] \/ current' = current
    BY DEF Routing!Move, Routing!Hear, Routing!Disable
  <2> QED BY <2>1, <2>2 DEF RoutingInductive, Placement
<1>4. view' \in [Nodes -> Placement]
  BY DEF RoutingInductive, Routing!Move, Routing!Hear, Routing!Disable
<1> QED BY <1>1, <1>2, <1>3, <1>4 DEF RoutingInductive

LEMMA RoutingStep == RoutingInductive /\ [Routing!Next]_routing => RoutingInductive'
<1> SUFFICES ASSUME RoutingInductive, [Routing!Next]_routing PROVE RoutingInductive'
  OBVIOUS
<1>1. CASE UNCHANGED routing
  BY <1>1 DEF routing, RoutingInductive
<1>2. ASSUME NEW c \in Clients, NEW n \in Nodes, NEW kind \in {"file", "mcp"}, NEW authority \in Routing!Authorities,
             Routing!Ask(c, n, kind, authority)
      PROVE  RoutingInductive'
  <2> PICK r : r = [Routing!Idle EXCEPT !.pc = "arrived", !.kind = kind, !.authority = authority, !.at = n]
    OBVIOUS
  <2>1. kind \in {"file", "mcp", "ui"} /\ authority \in {"internal", "external"}
    BY DEF Routing!Authorities
  <2>2. routed' = [routed EXCEPT ![c] = r] /\ UNCHANGED <<current, view, disabled>>
    BY <1>2 DEF Routing!Ask
  <2> QED BY <2>1, <2>2, AskKeeps
<1>3. ASSUME NEW c \in Clients, NEW n \in Nodes, Routing!AskUi(c, n)
      PROVE  RoutingInductive'
  <2> PICK r : r = [Routing!Idle EXCEPT !.pc = "arrived", !.kind = "ui", !.at = n]
    OBVIOUS
  <2>1. r \in Routed /\ r.pc = "arrived" /\ r.kind = "ui" /\ r.at = n
    BY NobodyAsks DEF Routed, Routing!Idle
  <2>2. routed' = [routed EXCEPT ![c] = r] /\ UNCHANGED <<current, view, disabled>>
    BY <1>3 DEF Routing!AskUi
  <2> QED BY <2>1, <2>2, PageMoves
<1>4. ASSUME NEW c \in Clients,
             \/ Routing!Locate(c) \/ Routing!ReadOffline(c) \/ Routing!Serve(c) \/ Routing!Relay(c)
             \/ Routing!OwnerAnswers(c) \/ Routing!Deliver(c)
      PROVE  RoutingInductive'
  BY <1>4, LocateKeeps, ReadOfflineKeeps, ServeKeeps, RelayKeeps, OwnerAnswersKeeps, DeliverKeeps
<1>5. ASSUME NEW c \in Clients,
             \/ Routing!FindUi(c) \/ Routing!RouteUi(c) \/ Routing!ForwardUi(c) \/ Routing!RelayUi(c)
             \/ Routing!AcceptUi(c) \/ Routing!PassOn(c)
      PROVE  RoutingInductive'
  BY <1>5, FindUiKeeps, RouteUiKeeps, ForwardUiKeeps, RelayUiKeeps, AcceptUiKeeps, PassOnKeeps
<1>6. ASSUME NEW c \in Clients, Routing!Fails(c)
      PROVE  RoutingInductive'
  BY <1>6, EndsKeeps DEF Routing!Fails
<1>7. ASSUME NEW n \in Nodes, Routing!Move(n) \/ Routing!Hear(n) \/ Routing!Disable(n)
      PROVE  RoutingInductive'
  BY <1>7, ClusterKeeps
<1> QED BY <1>1, <1>2, <1>3, <1>4, <1>5, <1>6, <1>7 DEF Routing!Next

\* Files and MCP answers are given under the placement they were located by and with
\* the authority of their client, for any number of computers, however late each of
\* them hears of a move and whichever of them have an older or a disabled API
\* (run_file_routing.py, job_mcp_routing.py).
THEOREM ServedUnderTheBinding == RequestSpec => []ServedUnderOneBinding
<1>1. RequestInit => RoutingInductive
  BY RoutingStart DEF RequestInit
<1>2. RoutingInductive /\ [RequestNext]_RequestVars => RoutingInductive'
  BY RoutingStep DEF RequestNext, RequestVars
<1>3. RoutingInductive => ServedUnderOneBinding
  BY DEF RoutingInductive, RequestHolds, IsServed, ServedUnderOneBinding, Routing!ServedUnderOneBinding, Routing!Answered
<1> QED BY <1>1, <1>2, <1>3, PTL DEF RequestSpec

-----------------------------------------------------------------------------
(* Streams of a run: what a client is told of its status, and no event      *)
(* twice.                                                                   *)

Statuses == {"running", "missing"} \cup Stream!Outcomes

Watcher ==
  [pc : {"idle", "asking", "progress", "events", "status", "ended"}, seen : SUBSET Nat, told : Seq(Nat),
   shown : Statuses \cup {"unknown", "derived", "nothing"}, was : Statuses \cup {"nothing"}]

Ascending(s) == \A i, j \in DOMAIN s : i < j => s[i] < s[j]

Shown(s) == {s[i] : i \in DOMAIN s}

\* No event was passed over but for a whole window of newer ones.
Unskipped(sent) == \A e \in sent : e = 1 \/ e - 1 \in sent \/ e..(e + Window - 1) \subseteq sent

\* What a client was told holds of the n events and the outcomes there are so far.
\* The last read ended at some event, and left none of its window unseen.
WatcherHolds(r, n, ended) ==
  /\ r.shown = "running" => r.was = "running"
  /\ r.shown \in Stream!Outcomes => r.shown \in ended
  /\ Ascending(r.told) /\ Shown(r.told) = r.seen /\ Unskipped(r.seen)
  /\ \E last \in 0..n : r.seen \subseteq 1..last /\ \A e \in 1..last : e + Window > last => e \in r.seen

StreamInductive ==
  /\ run \in [status : Statuses, attempt : Nat]
  /\ replica \in Statuses \cup {"none"}
  /\ events \in Nat
  /\ run.status \in Stream!Outcomes => run.status \in outcomes
  /\ replica \in Stream!Outcomes => replica \in outcomes
  /\ watcher \in [Watchers -> Watcher]
  /\ \A w \in Watchers : WatcherHolds(watcher[w], events, outcomes)

Sorts(s, E) == s \in [1..Cardinality(E) -> E] /\ Ascending(s)

LEMMA LeastNumber ==
  ASSUME NEW E, E \subseteq Nat, E # {}
  PROVE  \E x \in E : \A y \in E : x <= y
<1>1. PICK x \in E : \A y \in E : <<y, x>> \notin OpToRel(<, Nat)
  BY NatLessThanWellFounded, WFMin
<1>2. \A y \in E : x <= y
  <2> TAKE y \in E
  <2>1. x \in Nat /\ y \in Nat
    OBVIOUS
  <2>2. ~(y < x)
    BY <1>1, <2>1 DEF OpToRel
  <2> QED BY <2>1, <2>2
<1> QED BY <1>2

\* A finite set of numbers can be put in order: the least one, and then the others.
\* Otherwise there is a smallest set that cannot.
LEMMA NumbersSort ==
  ASSUME NEW E, E \subseteq Nat, IsFiniteSet(E)
  PROVE  \E s : Sorts(s, E)
<1> SUFFICES ASSUME ~ \E s : Sorts(s, E) PROVE FALSE
  OBVIOUS
<1> DEFINE Bad == {n \in Nat : \E F : F \subseteq Nat /\ IsFiniteSet(F) /\ Cardinality(F) = n /\ ~ \E s : Sorts(s, F)}
<1>1. Cardinality(E) \in Bad
  BY FS_CardinalityType
<1> HIDE DEF Bad
<1>2. PICK n \in Bad : \A m \in Bad : n <= m
  <2>1. Bad \subseteq Nat
    BY DEF Bad
  <2> QED BY <1>1, <2>1, LeastNumber
<1>3. PICK F : F \subseteq Nat /\ IsFiniteSet(F) /\ Cardinality(F) = n /\ ~ \E s : Sorts(s, F)
  BY <1>2 DEF Bad
<1>4. n \in Nat
  BY <1>2 DEF Bad
<1>5. CASE F = {}
  <2>1. Cardinality(F) = 0
    BY <1>5, FS_EmptySet
  <2>2. Sorts([i \in 1..0 |-> 0], F)
    BY <2>1 DEF Sorts, Ascending
  <2> QED BY <1>3, <2>2
<1>6. CASE F # {}
  <2>1. PICK x \in F : \A y \in F : x <= y
    BY <1>3, <1>6, LeastNumber
  <2>2. IsFiniteSet(F \ {x}) /\ Cardinality(F \ {x}) = n - 1
    BY <1>3, FS_RemoveElement
  <2>3. n # 0
    BY <1>3, <1>6, FS_EmptySet
  <2>4. n - 1 \in Nat /\ ~(n <= n - 1)
    BY <1>4, <2>3
  <2>5. n - 1 \notin Bad
    BY <1>2, <2>4
  <2>6. PICK s : Sorts(s, F \ {x})
    BY <1>3, <2>2, <2>4, <2>5 DEF Bad
  <2>7. s \in [1..(n - 1) -> F \ {x}] /\ \A i, j \in 1..(n - 1) : i < j => s[i] < s[j]
    BY <2>2, <2>6 DEF Sorts, Ascending
  <2> PICK t : t = [i \in 1..n |-> IF i = 1 THEN x ELSE s[i - 1]]
    OBVIOUS
  <2>8. t \in [1..n -> F]
    <3> SUFFICES ASSUME NEW i \in 1..n PROVE (IF i = 1 THEN x ELSE s[i - 1]) \in F
      OBVIOUS
    <3>1. i # 1 => i - 1 \in 1..(n - 1)
      BY <1>4
    <3> QED BY <2>7, <3>1
  <2>9. \A i, j \in 1..n : i < j => t[i] < t[j]
    <3> TAKE i, j \in 1..n
    <3> HAVE i < j
    <3>1. j - 1 \in 1..(n - 1) /\ t[j] = s[j - 1] /\ t[j] \in F \ {x}
      BY <1>4, <2>7
    <3>2. CASE i = 1
      <4>1. t[i] = x /\ x <= t[j] /\ x # t[j] /\ x \in Nat /\ t[j] \in Nat
        BY <1>3, <2>1, <3>1, <3>2
      <4> QED BY <4>1
    <3>3. CASE i # 1
      <4>1. i - 1 \in 1..(n - 1) /\ t[i] = s[i - 1] /\ i - 1 < j - 1
        BY <1>4, <3>3
      <4> QED BY <2>7, <3>1, <4>1
    <3> QED BY <3>2, <3>3
  <2>10. Sorts(t, F)
    BY <1>3, <2>8, <2>9 DEF Sorts, Ascending
  <2> QED BY <1>3, <2>10
<1> QED BY <1>5, <1>6

LEMMA OldestFirstSorts ==
  ASSUME NEW E, E \subseteq Nat, IsFiniteSet(E)
  PROVE  Sorts(Stream!OldestFirst(E), E)
<1>1. PICK s : Sorts(s, E)
  BY NumbersSort
<1> QED BY <1>1 DEF Stream!OldestFirst, Sorts, Ascending, Stream!Cardinality, Cardinality

\* A sorted sequence has each of its numbers once.
Enumerates(t, E, n) ==
  /\ n \in Nat /\ t \in [1..n -> E]
  /\ \A i, j \in 1..n : i < j <=> t[i] < t[j]
  /\ \A i, j \in 1..n : t[i] = t[j] => i = j
  /\ \A e \in E : \E p \in 1..n : t[p] = e

LEMMA SortsAll ==
  ASSUME NEW E, E \subseteq Nat, IsFiniteSet(E), NEW n, n = Cardinality(E), NEW t, Sorts(t, E)
  PROVE  Enumerates(t, E, n)
<1>1. n \in Nat /\ t \in [1..n -> E] /\ \A i, j \in 1..n : i < j => t[i] < t[j]
  BY FS_CardinalityType DEF Sorts, Ascending
<1>2. \A i, j \in 1..n : t[i] \in Nat /\ t[j] \in Nat /\ (t[i] = t[j] => i = j) /\ (i < j <=> t[i] < t[j])
  <2> TAKE i, j \in 1..n
  <2>1. i \in Nat /\ j \in Nat /\ t[i] \in E /\ t[j] \in E
    BY <1>1
  <2>2. (i < j => t[i] < t[j]) /\ (j < i => t[j] < t[i])
    BY <1>1
  <2>3. t[i] \in Nat /\ t[j] \in Nat
    BY <2>1
  <2> QED BY <2>1, <2>2, <2>3
<1>3. t \in Injection(1..n, E)
  BY <1>1, <1>2 DEF Injection, IsInjective
<1>4. Cardinality(1..n) = n
  <2>1. 1 \in Int /\ n \in Int /\ n - 1 + 1 = n /\ (1 > n => n = 0)
    BY <1>1
  <2> QED BY <2>1, FS_Interval
<1>5. t \in Surjection(1..n, E)
  BY <1>3, <1>4, FS_Injection
<1> QED BY <1>1, <1>2, <1>5 DEF Surjection, Enumerates

\* What was sent, of the events up to the last one, and what it is with newer ones.
Sent(s, seen, last) == s \in Seq(Nat) /\ Ascending(s) /\ Shown(s) = seen /\ last \in Nat /\ seen \subseteq 1..last
SentWith(s, seen, E, u) == u \in Seq(Nat) /\ Ascending(u) /\ Shown(u) = seen \cup E

\* Events newer than all that were sent can follow them, oldest first.
LEMMA NewerFollow ==
  ASSUME NEW s, NEW seen, NEW last, Sent(s, seen, last),
         NEW E, E \subseteq Nat, IsFiniteSet(E), \A e \in E : last < e, NEW u, u = s \o Stream!OldestFirst(E)
  PROVE  SentWith(s, seen, E, u)
<1>s. s \in Seq(Nat) /\ Ascending(s) /\ Shown(s) = seen /\ last \in Nat /\ seen \subseteq 1..last
  BY DEF Sent
<1>0. PICK t, n : t = Stream!OldestFirst(E) /\ n = Cardinality(E) /\ Sorts(t, E)
  BY OldestFirstSorts
<1>e. Enumerates(t, E, n)
  BY <1>0, SortsAll
<1>1. t = Stream!OldestFirst(E) /\ n \in Nat /\ t \in [1..n -> E] /\ Ascending(t)
  BY <1>0, <1>e DEF Enumerates, Sorts
<1>2. t \in Seq(Nat) /\ Len(t) = n /\ DOMAIN t = 1..n
  <2>1. t \in [1..n -> Nat] /\ n \in Nat
    BY <1>1
  <2> QED BY <2>1, LenProperties, SeqDef
<1> PICK m : m = Len(s)
  OBVIOUS
<1>3. m \in Nat /\ DOMAIN s = 1..m
  BY <1>s, LenProperties
<1>4. /\ u \in Seq(Nat) /\ Len(u) = m + n
      /\ \A i \in 1..(m + n) : u[i] = IF i <= m THEN s[i] ELSE t[i - m]
  <2>1. u = s \o t
    BY <1>1
  <2> QED BY <1>s, <1>2, <2>1, ConcatProperties
<1>5. DOMAIN u = 1..(m + n)
  BY <1>4, LenProperties
<1>6. ASSUME NEW i \in DOMAIN u
      PROVE  \/ i \in 1..m /\ u[i] = s[i] /\ u[i] \in seen
             \/ i > m /\ i - m \in 1..n /\ u[i] = t[i - m] /\ u[i] \in E
  <2>1. i \in 1..m \/ (i > m /\ i - m \in 1..n)
    BY <1>1, <1>3, <1>5
  <2>2. i \in 1..m => u[i] = s[i] /\ u[i] \in seen
    BY <1>s, <1>1, <1>3, <1>4 DEF Shown
  <2>3. i > m /\ i - m \in 1..n => u[i] = t[i - m] /\ t[i - m] \in E
    BY <1>1, <1>3, <1>4, <1>5
  <2> QED BY <2>1, <2>2, <2>3
<1>7. ASSUME NEW i \in DOMAIN u, NEW j \in DOMAIN u, i < j
      PROVE  u[i] < u[j]
  <2>1. i \in Nat /\ j \in Nat /\ m \in Nat /\ n \in Nat
    BY <1>1, <1>3, <1>5
  <2>2. CASE j \in 1..m /\ u[j] = s[j]
    <3>1. i \in 1..m /\ u[i] = s[i]
      BY <1>6, <1>7, <2>1, <2>2
    <3> QED BY <1>s, <1>3, <1>7, <2>2, <3>1 DEF Ascending
  <2>3. CASE i > m /\ i - m \in 1..n /\ u[i] = t[i - m]
    <3>1. j - m \in 1..n /\ u[j] = t[j - m] /\ i - m < j - m
      BY <1>6, <1>7, <2>1, <2>3
    <3> QED BY <1>1, <1>2, <2>3, <3>1 DEF Ascending
  <2>4. CASE u[i] \in seen /\ u[j] \in E
    <3>1. u[i] \in 1..last /\ last < u[j] /\ u[j] \in Nat /\ last \in Nat
      BY <1>s, <2>4
    <3> QED BY <3>1
  <2> QED BY <1>6, <2>2, <2>3, <2>4
<1>8. Ascending(u)
  BY <1>7 DEF Ascending
<1>9. Shown(u) \subseteq seen \cup E
  BY <1>6 DEF Shown
<1>10. ASSUME NEW e \in seen PROVE e \in Shown(u)
  <2>1. PICK i \in 1..m : s[i] = e
    BY <1>s, <1>3 DEF Shown
  <2>2. i \in 1..(m + n) /\ u[i] = e
    BY <1>1, <1>3, <1>4, <2>1
  <2> QED BY <1>5, <2>2 DEF Shown
<1>11. ASSUME NEW e \in E PROVE e \in Shown(u)
  <2>1. PICK i \in 1..n : t[i] = e
    BY <1>e DEF Enumerates
  <2>2. m + i \in 1..(m + n) /\ ~(m + i <= m) /\ (m + i) - m = i
    BY <1>1, <1>3, <2>1
  <2>3. u[m + i] = e
    BY <1>4, <2>1, <2>2
  <2> QED BY <1>5, <2>2, <2>3 DEF Shown
<1> QED BY <1>4, <1>8, <1>9, <1>10, <1>11 DEF SentWith

LEMMA StreamStart == Stream!Init => StreamInductive
<1> SUFFICES ASSUME Stream!Init PROVE StreamInductive
  OBVIOUS
<1>1. \A w \in Watchers : watcher[w] = Stream!Idle
  BY DEF Stream!Init
<1>2. Stream!Idle \in Watcher
  BY DEF Stream!Idle, Watcher
<1>3. WatcherHolds(Stream!Idle, 0, {})
  BY DEF Stream!Idle, WatcherHolds, Ascending, Shown, Unskipped, Stream!Outcomes
<1> QED BY <1>1, <1>2, <1>3 DEF Stream!Init, StreamInductive, Statuses, Stream!Outcomes

\* Events are added and outcomes are kept, so what was told goes on to hold.
LEMMA WatcherKeeps ==
  ASSUME NEW r \in Watcher, NEW n \in Nat, NEW m \in Nat, n <= m, NEW ended, NEW more, ended \subseteq more,
         WatcherHolds(r, n, ended)
  PROVE  WatcherHolds(r, m, more)
<1>1. 0..n \subseteq 0..m
  OBVIOUS
<1> QED BY <1>1 DEF WatcherHolds

\* One client goes on.
LEMMA WatcherMoves ==
  ASSUME StreamInductive, UNCHANGED <<run, replica, events, outcomes>>,
         NEW w \in Watchers, NEW r \in Watcher, watcher' = [watcher EXCEPT ![w] = r],
         WatcherHolds(r, events, outcomes)
  PROVE  StreamInductive'
BY DEF StreamInductive

\* What Core or the replicated record shows is the run's own status, or unknown, or
\* an outcome that some attempt had.
LEMMA ShownIsTrue ==
  ASSUME StreamInductive, NEW status \in Stream!Shown \cup Stream!Progress
  PROVE  /\ status \in Statuses \cup {"unknown", "derived"}
         /\ status = "running" => run.status = "running"
         /\ status \in Stream!Outcomes => status \in outcomes
BY DEF StreamInductive, Statuses, Stream!Shown, Stream!Progress, Stream!History, Stream!Stored, Stream!Ended,
       Stream!Answers, Stream!Outcomes

LEMMA ShowKeeps ==
  ASSUME StreamInductive, NEW w \in Watchers,
         NEW pc \in {"idle", "events", "ended", "progress"}, NEW status \in Stream!Shown \cup Stream!Progress,
         Stream!Told(w, pc, status), UNCHANGED <<run, replica, events, outcomes>>
  PROVE  StreamInductive'
<1> PICK s : s = watcher[w]
  OBVIOUS
<1> PICK was : was = run.status
  OBVIOUS
<1> PICK r : r = [s EXCEPT !.pc = pc, !.shown = status, !.was = was]
  OBVIOUS
<1>1. s \in Watcher /\ WatcherHolds(s, events, outcomes) /\ was \in Statuses
  BY DEF StreamInductive
<1>2. /\ status \in Statuses \cup {"unknown", "derived"}
      /\ status = "running" => was = "running"
      /\ status \in Stream!Outcomes => status \in outcomes
  BY ShownIsTrue
<1>3. r \in Watcher /\ r.seen = s.seen /\ r.told = s.told /\ r.shown = status /\ r.was = was
  BY <1>1, <1>2 DEF Watcher
<1>4. WatcherHolds(r, events, outcomes)
  BY <1>1, <1>2, <1>3 DEF WatcherHolds
<1>5. watcher' = [watcher EXCEPT ![w] = r]
  BY DEF Stream!Told
<1> QED BY <1>3, <1>4, <1>5, WatcherMoves

\* A client begins, or leaves.
LEMMA BeginKeeps ==
  ASSUME StreamInductive, NEW w \in Watchers, NEW pc \in {"idle", "asking", "progress"}, NEW r,
         r = [Stream!Idle EXCEPT !.pc = pc],
         watcher' = [watcher EXCEPT ![w] = r], UNCHANGED <<run, replica, events, outcomes>>
  PROVE  StreamInductive'
<1> PICK s : s = Stream!Idle
  OBVIOUS
<1>0. s \in Watcher /\ s.seen = {} /\ s.told = <<>> /\ s.shown = "nothing"
  BY DEF Stream!Idle, Watcher
<1>1. /\ r \in Watcher /\ r.seen = {} /\ r.told = <<>> /\ r.shown = "nothing"
  BY <1>0 DEF Watcher
<1>2. events \in Nat
  BY DEF StreamInductive
<1>3. 0 \in 0..events /\ 1..0 = {}
  BY <1>2
<1>4. WatcherHolds(r, events, outcomes)
  BY <1>1, <1>3 DEF WatcherHolds, Ascending, Shown, Unskipped, Stream!Outcomes
<1> QED BY <1>1, <1>4, WatcherMoves

\* The events of the window that were not sent yet are newer than all that were.
LEMMA StreamEventsKeeps ==
  ASSUME StreamInductive, NEW w \in Watchers, Stream!StreamEvents(w)
  PROVE  StreamInductive'
<1> PICK s : s = watcher[w]
  OBVIOUS
<1> PICK n : n = events
  OBVIOUS
<1>1. s \in Watcher /\ WatcherHolds(s, n, outcomes) /\ n \in Nat /\ Window \in Nat \ {0}
  BY RequestAssumption DEF StreamInductive
<1>2. PICK last \in 0..n : s.seen \subseteq 1..last /\ \A e \in 1..last : e + Window > last => e \in s.seen
  BY <1>1 DEF WatcherHolds
<1>3. PICK recent : recent = {e \in 1..n : e + Window > n}
  OBVIOUS
<1>4. PICK E : E = recent \ s.seen /\ E \subseteq 1..n /\ E \subseteq Nat /\ IsFiniteSet(E)
  <2>1. recent \ s.seen \subseteq 1..n /\ recent \ s.seen \subseteq Nat
    BY <1>1, <1>3
  <2>2. IsFiniteSet(1..n)
    BY <1>1, FS_Interval
  <2>3. IsFiniteSet(recent \ s.seen)
    BY <2>1, <2>2, FS_Subset
  <2> QED BY <2>1, <2>3
<1>5. \A e \in E : last < e
  <2> SUFFICES ASSUME NEW e \in E, e <= last PROVE FALSE
    BY <1>1, <1>2, <1>4
  <2>1. e \in 1..last /\ e + Window > last
    BY <1>1, <1>2, <1>3, <1>4
  <2> QED BY <1>2, <1>4, <2>1
<1>6. PICK old, sent : /\ old = s.told /\ sent = s.seen /\ old \in Seq(Nat) /\ Ascending(old) /\ sent \in SUBSET Nat
                       /\ Shown(old) = sent /\ Unskipped(sent)
  BY <1>1 DEF Watcher, WatcherHolds
<1>7. PICK told : told = old \o Stream!OldestFirst(E)
  OBVIOUS
<1>8. told \in Seq(Nat) /\ Ascending(told) /\ Shown(told) = sent \cup E
  <2>1. Sent(old, sent, last)
    BY <1>1, <1>2, <1>6 DEF Sent
  <2>2. E \subseteq Nat /\ IsFiniteSet(E) /\ \A e \in E : last < e
    BY <1>4, <1>5
  <2>3. SentWith(old, sent, E, told)
    BY <1>7, <2>1, <2>2, NewerFollow
  <2> QED BY <2>3 DEF SentWith
<1> PICK seen : seen = s.seen \cup recent
  OBVIOUS
<1>12. Shown(told) = seen
  BY <1>4, <1>6, <1>8
<1>13. Unskipped(seen)
  <2> SUFFICES ASSUME NEW e \in seen PROVE e = 1 \/ e - 1 \in seen \/ e..(e + Window - 1) \subseteq seen
    BY DEF Unskipped
  <2>1. CASE e \in sent
    <3>1. e = 1 \/ e - 1 \in sent \/ e..(e + Window - 1) \subseteq sent
      BY <1>6, <2>1 DEF Unskipped
    <3> QED BY <1>6, <3>1
  <2>2. CASE e \in recent
    <3>1. e \in 1..n /\ e + Window > n
      BY <1>3, <2>2
    <3>2. CASE e = 1 \/ e - 1 \in recent
      BY <3>2
    <3>3. CASE e # 1 /\ e - 1 \notin recent
      <4>1. e - 1 \in 1..n
        BY <1>1, <3>1, <3>3
      <4>2. ~((e - 1) + Window > n)
        BY <1>3, <3>3, <4>1
      <4>3. ASSUME NEW k \in e..(e + Window - 1) PROVE k \in 1..n /\ k + Window > n
        BY <1>1, <3>1, <4>2
      <4>4. e..(e + Window - 1) \subseteq recent
        BY <1>3, <4>3
      <4> QED BY <4>4
    <3> QED BY <3>2, <3>3
  <2> QED BY <1>6, <2>1, <2>2
<1>14. seen \subseteq 1..n /\ \A e \in 1..n : e + Window > n => e \in seen
  <2>1. 1..last \subseteq 1..n
    BY <1>1, <1>2
  <2> QED BY <1>2, <1>3, <2>1
<1> PICK r : r = [s EXCEPT !.pc = "status", !.told = told, !.seen = seen]
  OBVIOUS
<1>15. seen \in SUBSET Nat /\ n \in 0..n
  BY <1>1, <1>14
<1>16. r \in Watcher /\ r.told = told /\ r.seen = seen /\ r.shown = s.shown /\ r.was = s.was
  BY <1>1, <1>8, <1>15 DEF Watcher
<1>17. WatcherHolds(r, n, outcomes)
  BY <1>1, <1>8, <1>12, <1>13, <1>14, <1>15, <1>16 DEF WatcherHolds
<1>18. watcher' = [watcher EXCEPT ![w] = r] /\ UNCHANGED <<run, replica, events, outcomes>>
  BY <1>3, <1>4, <1>6, <1>7 DEF Stream!StreamEvents, Stream!Unseen, Stream!Recent
<1> QED BY <1>16, <1>17, <1>18, WatcherMoves

\* The run goes on, ends, is retried or lost, and its record arrives here.
LEMMA RunKeeps ==
  ASSUME StreamInductive,
         \/ Stream!Write \/ Stream!Retry \/ Stream!Lose \/ Stream!Replicate
         \/ \E status \in Stream!Outcomes : Stream!End(status)
  PROVE  StreamInductive'
<1>1. UNCHANGED watcher /\ events' \in Nat /\ events <= events' /\ outcomes \subseteq outcomes'
  BY DEF StreamInductive, Stream!Write, Stream!Retry, Stream!Lose, Stream!Replicate, Stream!End
<1>2. \A w \in Watchers : WatcherHolds(watcher[w], events', outcomes')
  BY <1>1, WatcherKeeps DEF StreamInductive
<1>3. run' \in [status : Statuses, attempt : Nat]
  <2>1. run.attempt \in Nat /\ run.attempt + 1 \in Nat
    BY DEF StreamInductive
  <2>2. CASE Stream!Retry
    BY <2>1, <2>2 DEF Stream!Retry, Statuses
  <2>3. CASE Stream!Lose \/ \E status \in Stream!Outcomes : Stream!End(status)
    BY <2>3 DEF StreamInductive, Stream!Lose, Stream!End, Statuses
  <2>4. CASE Stream!Write \/ Stream!Replicate
    BY <2>4 DEF StreamInductive, Stream!Write, Stream!Replicate
  <2> QED BY <2>2, <2>3, <2>4
<1>4. replica' \in Statuses \cup {"none"}
  BY DEF StreamInductive, Stream!Write, Stream!Retry, Stream!Lose, Stream!Replicate, Stream!End
<1>5. run'.status \in Stream!Outcomes => run'.status \in outcomes'
  BY <1>1 DEF StreamInductive, Stream!Write, Stream!Retry, Stream!Lose, Stream!Replicate, Stream!End, Stream!Outcomes
<1>6. replica' \in Stream!Outcomes => replica' \in outcomes'
  BY <1>1 DEF StreamInductive, Stream!Write, Stream!Retry, Stream!Lose, Stream!Replicate, Stream!End
<1> QED BY <1>1, <1>2, <1>3, <1>4, <1>5, <1>6 DEF StreamInductive

LEMMA StreamStep == StreamInductive /\ [Stream!Next]_stream => StreamInductive'
<1> SUFFICES ASSUME StreamInductive, [Stream!Next]_stream PROVE StreamInductive'
  OBVIOUS
<1>1. CASE UNCHANGED stream
  BY <1>1 DEF stream, StreamInductive
<1>2. ASSUME NEW w \in Watchers, Stream!ReadRun(w) \/ Stream!ShowProgress(w) \/ Stream!StreamProgress(w) \/ Stream!StreamStatus(w)
      PROVE  StreamInductive'
  <2>1. \E pc \in {"idle", "events", "ended", "progress"}, status \in Stream!Shown \cup Stream!Progress :
          Stream!Told(w, pc, status)
    BY <1>2 DEF Stream!ReadRun, Stream!ShowProgress, Stream!StreamProgress, Stream!StreamStatus
  <2>2. UNCHANGED <<run, replica, events, outcomes>>
    BY <1>2 DEF Stream!ReadRun, Stream!ShowProgress, Stream!StreamProgress, Stream!StreamStatus
  <2> QED BY <2>1, <2>2, ShowKeeps
<1>3. ASSUME NEW w \in Watchers, Stream!AskProgress(w) \/ Stream!Open(w) \/ Stream!Leave(w) \/ Stream!Raises(w)
      PROVE  StreamInductive'
  <2>1. Stream!Idle = [Stream!Idle EXCEPT !.pc = "idle"]
    BY DEF Stream!Idle
  <2>2. PICK pc \in {"idle", "asking", "progress"} : watcher' = [watcher EXCEPT ![w] = [Stream!Idle EXCEPT !.pc = pc]]
    BY <1>3, <2>1 DEF Stream!AskProgress, Stream!Open, Stream!Leave, Stream!Raises
  <2>3. UNCHANGED <<run, replica, events, outcomes>>
    BY <1>3 DEF Stream!AskProgress, Stream!Open, Stream!Leave, Stream!Raises
  <2> PICK r : r = [Stream!Idle EXCEPT !.pc = pc]
    OBVIOUS
  <2> QED BY <2>2, <2>3, BeginKeeps
<1>4. ASSUME NEW w \in Watchers, Stream!StreamEvents(w)
      PROVE  StreamInductive'
  BY <1>4, StreamEventsKeeps
<1>5. CASE \/ Stream!Write \/ Stream!Retry \/ Stream!Lose \/ Stream!Replicate
           \/ \E status \in Stream!Outcomes : Stream!End(status)
  BY <1>5, RunKeeps
<1> QED BY <1>1, <1>2, <1>3, <1>4, <1>5 DEF Stream!Next, Stream!Streaming

LEMMA StreamsHold == RequestSpec => []StreamInductive
<1>1. RequestInit => StreamInductive
  BY StreamStart DEF RequestInit
<1>2. StreamInductive /\ [RequestNext]_RequestVars => StreamInductive'
  BY StreamStep DEF RequestNext, RequestVars
<1> QED BY <1>1, <1>2, PTL DEF RequestSpec

\* A run is shown as going on only by Core, which said so when it was asked, and an
\* outcome that is shown is one that some attempt had, for any number of clients and
\* however old the replicated record is (stored_run of run_recovery.py).
THEOREM StatusesAreTruthful == RequestSpec => []StatusIsTruthful
<1>1. StreamInductive => StatusIsTruthful
  BY DEF StreamInductive, WatcherHolds, StatusIsTruthful, Stream!StatusIsTruthful, Stream!Ended
<1> QED BY <1>1, StreamsHold, PTL

\* For any window, and however much is written between two reads, a stream sends no event twice
\* and none after a newer one, and passes events over only for a whole window of newer ones (the
\* generator of stream_run_events).
THEOREM EventsAreToldInOrder == RequestSpec => []EventsToldInOrder
<1>1. StreamInductive => EventsToldInOrder
  BY DEF StreamInductive, WatcherHolds, Ascending, Shown, Unskipped, EventsToldInOrder, Stream!EventsToldInOrder
<1> QED BY <1>1, StreamsHold, PTL

-----------------------------------------------------------------------------
(* Listings of runs: what a walk was told, and the tokens it goes on with. *)

LEMMA SmallestFirstSorts ==
  ASSUME NEW E, E \subseteq Nat, IsFiniteSet(E), NEW t, t = Listing!OldestFirst(E)
  PROVE  Sorts(t, E)
<1>1. PICK s : Sorts(s, E)
  BY NumbersSort
<1> QED BY <1>1 DEF Listing!OldestFirst, Sorts, Ascending, Listing!Cardinality, Cardinality

\* In a sorted sequence, the place of a number is how many there are up to it.
IsPlace(E, t, p) == Cardinality({k \in E : k <= t[p]}) = p

LEMMA PlaceIsCount ==
  ASSUME NEW E, E \subseteq Nat, IsFiniteSet(E), NEW t, Sorts(t, E), NEW p \in 1..Cardinality(E)
  PROVE  IsPlace(E, t, p)
<1> PICK n : n = Cardinality(E)
  OBVIOUS
<1>0. Enumerates(t, E, n)
  BY SortsAll
<1>1. /\ n \in Nat /\ t \in [1..n -> E]
      /\ \A i, j \in 1..n : i < j <=> t[i] < t[j]
      /\ \A i, j \in 1..n : t[i] = t[j] => i = j
      /\ \A e \in E : \E q \in 1..n : t[q] = e
  BY <1>0 DEF Enumerates
<1> PICK F : F = {k \in E : k <= t[p]}
  OBVIOUS
<1> PICK f : f = [i \in 1..p |-> t[i]]
  OBVIOUS
<1>2. p \in Nat /\ 1..p \subseteq 1..n
  BY <1>1
<1>3. \A i \in 1..n : t[i] \in E /\ t[i] \in Nat
  BY <1>1
<1>4. f \in [1..p -> F]
  <2> SUFFICES ASSUME NEW i \in 1..p PROVE t[i] \in F
    OBVIOUS
  <2>1. i \in 1..n /\ (i < p \/ i = p)
    BY <1>2
  <2>2. t[i] <= t[p] /\ t[i] \in E
    BY <1>1, <1>3, <2>1
  <2> QED BY <2>2
<1>5. IsInjective(f)
  BY <1>1, <1>2 DEF IsInjective
<1>6. \A e \in F : \E i \in 1..p : f[i] = e
  <2> TAKE e \in F
  <2>1. PICK q \in 1..n : t[q] = e
    BY <1>1
  <2>2. ~(t[p] < t[q])
    BY <1>3, <2>1
  <2>3. q \in 1..p
    BY <1>1, <1>2, <2>2
  <2> QED BY <2>1, <2>3
<1>7. f \in Bijection(1..p, F)
  BY <1>4, <1>5, <1>6 DEF Bijection, Injection, Surjection
<1>8. IsFiniteSet(1..p) /\ Cardinality(1..p) = p
  <2>1. 1 \in Int /\ p \in Int /\ p - 1 + 1 = p /\ ~(1 > p)
    BY <1>2
  <2> QED BY <2>1, FS_Interval
<1>9. ExistsBijection(1..p, F)
  BY <1>7 DEF ExistsBijection
<1> QED BY <1>8, <1>9, FS_Bijection DEF IsPlace

\* How many runs there are up to a place of a snapshot, without those that were missing.
Rank(S, gone, j) == Cardinality({k \in 1..j : S[k] \notin gone})

LEMMA RankIsNumber ==
  ASSUME NEW S, NEW gone, NEW j \in Nat
  PROVE  IsFiniteSet({k \in 1..j : S[k] \notin gone}) /\ Rank(S, gone, j) \in Nat
<1>1. IsFiniteSet(1..j)
  BY FS_Interval
<1>2. {k \in 1..j : S[k] \notin gone} \in SUBSET (1..j)
  OBVIOUS
<1>3. IsFiniteSet({k \in 1..j : S[k] \notin gone})
  BY <1>1, <1>2, FS_Subset
<1> QED BY <1>3, FS_CardinalityType DEF Rank

\* What a client was told of a snapshot is the beginning of it, up to the offset, unless a
\* run that was missing is back.
Lists(told, kept, gone, back, S, offset) ==
  /\ \A i \in DOMAIN told : told[i] \in Shown(S)
  /\ ~back => IsInjective(told)
  /\ ~back => \A j \in DOMAIN S : S[j] \in Shown(told) \ gone => Rank(S, gone, j) <= offset
  /\ gone = {} => kept \subseteq Shown(S)
  /\ gone = {} => \A j \in DOMAIN S : Rank(S, gone, j) <= offset => S[j] \in Shown(told)

\* What is left of a snapshot S is its runs at the places E, which t enumerates.
IsLeft(left, runs, S, E, t, n) ==
  /\ E \subseteq Nat /\ IsFiniteSet(E) /\ Sorts(t, E) /\ Enumerates(t, E, n)
  /\ left \in Seq(Runs) /\ Len(left) = n /\ \A p \in 1..n : left[p] = S[t[p]]

LEMMA LeftFacts ==
  ASSUME NEW S \in Seq(Runs), NEW runs, NEW E, E = {i \in DOMAIN S : S[i] \in runs},
         NEW left, left = Listing!Left(runs, S), NEW t, t = Listing!OldestFirst(E), NEW n, n = Cardinality(E)
  PROVE  IsLeft(left, runs, S, E, t, n)
<1>1. Len(S) \in Nat /\ DOMAIN S = 1..Len(S)
  BY LenProperties
<1>2. E \subseteq Nat
  BY <1>1
<1>3. IsFiniteSet(E)
  <2>1. \A e \in E : e <= Len(S)
    BY <1>1
  <2> QED BY <1>1, <1>2, <2>1, FS_BoundedSetOfNaturals
<1>4. Sorts(t, E)
  BY <1>2, <1>3, SmallestFirstSorts
<1>5. Enumerates(t, E, n)
  BY <1>2, <1>3, <1>4, SortsAll
<1>6. n \in Nat /\ t \in [1..n -> E] /\ DOMAIN t = 1..n
  BY <1>5 DEF Enumerates
<1>7. left = [k \in 1..n |-> S[t[k]]]
  <2>1. left = [k \in DOMAIN t |-> S[t[k]]]
    BY DEF Listing!Left
  <2> QED BY <1>6, <2>1
<1>8. left \in [1..n -> Runs]
  <2> SUFFICES ASSUME NEW k \in 1..n PROVE S[t[k]] \in Runs
    BY <1>7
  <2>1. t[k] \in 1..Len(S)
    BY <1>1, <1>6
  <2> QED BY <2>1, ElementOfSeq
<1>9. left \in Seq(Runs) /\ Len(left) = n
  <2>1. left \in Seq(Runs)
    BY <1>6, <1>8, SeqDef
  <2>2. DOMAIN left = 1..n /\ DOMAIN left = 1..Len(left) /\ Len(left) \in Nat
    BY <1>8, <2>1, LenProperties
  <2> QED BY <1>6, <2>1, <2>2
<1> QED BY <1>2, <1>3, <1>4, <1>5, <1>7, <1>9 DEF IsLeft

\* A page is what follows the offset, and is empty only at the end.
IsPage(items, left, o, n) ==
  /\ items \in Seq(Runs) /\ Len(items) \in Nat
  /\ \A i \in 1..Len(items) : o + i \in 1..n /\ items[i] = left[o + i]
  /\ o + Len(items) < n => Len(items) # 0

LEMMA PageFacts ==
  ASSUME NEW left \in Seq(Runs), NEW n, n = Len(left), NEW o \in Nat, NEW items, items = Listing!Page(left, o)
  PROVE  IsPage(items, left, o, n)
<1>1. n \in Nat /\ DOMAIN left = 1..n /\ PageSize \in Nat \ {0}
  BY LenProperties, RequestAssumption
<1> PICK m : m = IF o + PageSize < n THEN o + PageSize ELSE n
  OBVIOUS
<1>2. m \in Nat /\ m <= n /\ (m = n \/ m = o + PageSize)
  BY <1>1
<1>3. items = SubSeq(left, o + 1, m)
  BY DEF Listing!Page
<1>4. /\ items \in Seq(Runs) /\ Len(items) = IF o + 1 <= m THEN m - (o + 1) + 1 ELSE 0
      /\ \A i \in 1..m - (o + 1) + 1 : items[i] = left[o + 1 + i - 1]
  <2>1. o + 1 \in Int /\ m \in Int /\ \A i \in o + 1..m : i \in 1..n
    BY <1>1, <1>2
  <2>2. \A i \in o + 1..m : left[i] \in Runs
    BY <1>1, <2>1, ElementOfSeq
  <2> QED BY <1>3, <2>1, <2>2, SubSeqProperties
<1>5. Len(items) = IF o < m THEN m - o ELSE 0
  BY <1>2, <1>4
<1>6. Len(items) \in Nat /\ (o + Len(items) < n => Len(items) # 0)
  BY <1>1, <1>2, <1>5
<1>7. ASSUME NEW i \in 1..Len(items)
      PROVE  o + i \in 1..n /\ items[i] = left[o + i]
  <2>1. i \in Nat /\ i >= 1 /\ o < m /\ i <= m - o
    BY <1>5, <1>6
  <2>2. i \in 1..m - (o + 1) + 1 /\ o + 1 + i - 1 = o + i /\ o + i \in 1..n
    BY <1>1, <1>2, <2>1
  <2> QED BY <1>4, <2>2
<1> QED BY <1>4, <1>6, <1>7 DEF IsPage

\* Two sequences, one after the other.
IsJoined(T, s, u, m, n, r) ==
  /\ r \in Seq(T) /\ Shown(r) = Shown(s) \cup Shown(u)
  /\ m \in Nat /\ n \in Nat /\ DOMAIN s = 1..m /\ DOMAIN u = 1..n /\ DOMAIN r = 1..m + n
  /\ \A i \in 1..m : r[i] = s[i]
  /\ \A i \in 1..n : r[m + i] = u[i]
  /\ \A i \in DOMAIN r : i \in 1..m \/ \E k \in 1..n : i = m + k

LEMMA Joined ==
  ASSUME NEW T, NEW s \in Seq(T), NEW u \in Seq(T), NEW m, m = Len(s), NEW n, n = Len(u), NEW r, r = s \o u
  PROVE  IsJoined(T, s, u, m, n, r)
<1>1. m \in Nat /\ n \in Nat /\ DOMAIN s = 1..m /\ DOMAIN u = 1..n
  BY LenProperties
<1>2. r \in Seq(T) /\ Len(r) = m + n /\ \A i \in 1..m + n : r[i] = IF i <= m THEN s[i] ELSE u[i - m]
  BY ConcatProperties
<1>3. DOMAIN r = 1..m + n
  BY <1>2, LenProperties
<1>4. \A i \in 1..m : i \in 1..m + n /\ r[i] = s[i]
  BY <1>1, <1>2
<1>5. \A i \in 1..n : m + i \in 1..m + n /\ r[m + i] = u[i]
  <2> TAKE i \in 1..n
  <2>1. m + i \in 1..m + n /\ ~(m + i <= m) /\ m + i - m = i
    BY <1>1
  <2> QED BY <1>2, <2>1
<1>6. \A i \in 1..m + n : i \in 1..m \/ \E k \in 1..n : i = m + k
  <2> TAKE i \in 1..m + n
  <2>1. i \in 1..m \/ (i - m \in 1..n /\ i = m + (i - m))
    BY <1>1
  <2> QED BY <2>1
<1>7. Shown(r) = Shown(s) \cup Shown(u)
  <2>1. ASSUME NEW x \in Shown(r) PROVE x \in Shown(s) \cup Shown(u)
    <3>1. PICK i \in DOMAIN r : r[i] = x
      BY <2>1 DEF Shown
    <3>2. CASE i \in 1..m
      BY <1>1, <1>4, <3>1, <3>2 DEF Shown
    <3>3. ASSUME NEW k \in 1..n, i = m + k PROVE x \in Shown(u)
      <4>1. k \in DOMAIN u /\ u[k] = x
        BY <1>1, <1>5, <3>1, <3>3
      <4> QED BY <4>1 DEF Shown
    <3> QED BY <1>3, <1>6, <3>1, <3>2, <3>3
  <2>2. ASSUME NEW x \in Shown(s) PROVE x \in Shown(r)
    BY <1>1, <1>3, <1>4, <2>2 DEF Shown
  <2>3. ASSUME NEW x \in Shown(u) PROVE x \in Shown(r)
    <3>1. PICK i \in 1..n : u[i] = x
      BY <1>1, <2>3 DEF Shown
    <3>2. m + i \in DOMAIN r /\ r[m + i] = x
      BY <1>3, <1>5, <3>1
    <3> QED BY <3>2 DEF Shown
  <2> QED BY <2>1, <2>2, <2>3
<1> QED BY <1>1, <1>2, <1>3, <1>4, <1>5, <1>6, <1>7 DEF IsJoined

IsCut(S, o, told, kept, gone, back, runs, left, items, next, told2, kept2, gone2, back2) ==
  /\ S \in Seq(Runs) /\ IsInjective(S) /\ o \in Nat
  /\ told \in Seq(Runs) /\ back \in BOOLEAN /\ Lists(told, kept, gone, back, S, o)
  /\ left = Listing!Left(runs, S) /\ items = Listing!Page(left, o) /\ next = o + Len(items)
  /\ told2 = told \o items /\ gone2 = gone \cup (Shown(S) \ runs)
  /\ back2 = (back \/ gone \cap runs # {})
  /\ gone2 = {} => kept2 \subseteq Shown(S)

IsTold(S, o, told, kept, gone, back, runs, left, items, next, told2, kept2, gone2, back2) ==
  /\ told2 \in Seq(Runs) /\ next \in Nat /\ Lists(told2, kept2, gone2, back2, S, next)
  /\ next < Len(left) => told2 # <<>>
  /\ ~(next < Len(left)) /\ gone2 = {} => kept2 \subseteq Shown(told2)

\* A page keeps the beginning, and when there is no next one, everything was shown.
LEMMA ListPage ==
  ASSUME NEW S, NEW o, NEW told, NEW kept, NEW gone, NEW back, NEW runs, NEW left, NEW items, NEW next,
         NEW told2, NEW kept2, NEW gone2, NEW back2,
         IsCut(S, o, told, kept, gone, back, runs, left, items, next, told2, kept2, gone2, back2)
  PROVE  IsTold(S, o, told, kept, gone, back, runs, left, items, next, told2, kept2, gone2, back2)
<1>a. S \in Seq(Runs) /\ IsInjective(S) /\ o \in Nat
  BY DEF IsCut
<1>b. told \in Seq(Runs) /\ back \in BOOLEAN /\ Lists(told, kept, gone, back, S, o)
  BY DEF IsCut
<1>c. left = Listing!Left(runs, S) /\ items = Listing!Page(left, o) /\ next = o + Len(items)
  BY DEF IsCut
<1>d. told2 = told \o items /\ gone2 = gone \cup (Shown(S) \ runs)
  BY DEF IsCut
<1>e. back2 = (back \/ gone \cap runs # {}) /\ (gone2 = {} => kept2 \subseteq Shown(S))
  BY DEF IsCut
<1>E. PICK E : E = {i \in DOMAIN S : S[i] \in runs}
  OBVIOUS
<1>t. PICK t : t = Listing!OldestFirst(E)
  OBVIOUS
<1>n. PICK n : n = Cardinality(E)
  OBVIOUS
<1>k. PICK k : k = Len(items)
  OBVIOUS
<1>m. PICK m : m = Len(told)
  OBVIOUS
<1>l. IsLeft(left, runs, S, E, t, n)
  BY <1>a, <1>c, <1>E, <1>t, <1>n, LeftFacts
<1>1. /\ E \subseteq Nat /\ IsFiniteSet(E) /\ Sorts(t, E) /\ Enumerates(t, E, n)
      /\ left \in Seq(Runs) /\ Len(left) = n /\ \A p \in 1..n : left[p] = S[t[p]]
  BY <1>l DEF IsLeft
<1>2. /\ n \in Nat /\ t \in [1..n -> E]
      /\ \A i, j \in 1..n : t[i] = t[j] => i = j
      /\ \A e \in E : \E p \in 1..n : t[p] = e
  BY <1>1 DEF Enumerates
<1>p. IsPage(items, left, o, n)
  BY <1>1, <1>a, <1>c, PageFacts
<1>3. /\ items \in Seq(Runs) /\ k \in Nat
      /\ \A i \in 1..k : o + i \in 1..n /\ items[i] = left[o + i]
      /\ o + k < n => k # 0
  BY <1>p, <1>k DEF IsPage
<1>4. next = o + k /\ next \in Nat
  BY <1>3, <1>a, <1>c, <1>k
<1>j. IsJoined(Runs, told, items, m, k, told2)
  BY <1>3, <1>b, <1>d, <1>k, <1>m, Joined
<1>5. /\ told2 \in Seq(Runs) /\ Shown(told2) = Shown(told) \cup Shown(items)
      /\ m \in Nat /\ DOMAIN told = 1..m /\ DOMAIN items = 1..k /\ DOMAIN told2 = 1..m + k
      /\ \A i \in 1..m : told2[i] = told[i]
      /\ \A i \in 1..k : told2[m + i] = items[i]
      /\ \A i \in DOMAIN told2 : i \in 1..m \/ \E q \in 1..k : i = m + q
  BY <1>j DEF IsJoined
<1>6. \A i \in 1..k : o + i \in 1..n /\ t[o + i] \in E /\ t[o + i] \in DOMAIN S /\ items[i] = S[t[o + i]]
  <2> TAKE i \in 1..k
  <2>1. o + i \in 1..n /\ items[i] = left[o + i]
    BY <1>3
  <2>2. t[o + i] \in E /\ left[o + i] = S[t[o + i]]
    BY <1>1, <1>2, <2>1
  <2> QED BY <1>E, <2>1, <2>2
<1>7. \A i, j \in DOMAIN S : S[i] = S[j] => i = j
  BY <1>a DEF IsInjective
<1>8. Len(S) \in Nat /\ DOMAIN S = 1..Len(S)
  BY <1>a, LenProperties
<1>r. PICK ranked \in BOOLEAN : ranked <=> gone \cap runs = {}
  OBVIOUS
<1>9. ASSUME ranked, NEW p \in 1..n
      PROVE  Rank(S, gone2, t[p]) = p /\ p <= Rank(S, gone, t[p])
  <2>j. PICK j : j = t[p]
    OBVIOUS
  <2>1. j \in E /\ j \in 1..Len(S) /\ j \in Nat
    <3>1. j \in E
      BY <1>2, <2>j, <1>9
    <3> QED BY <1>1, <1>8, <1>E, <3>1
  <2>2. {i \in 1..j : S[i] \notin gone2} = {i \in E : i <= j}
    <3>1. ASSUME NEW i \in 1..j PROVE i \in DOMAIN S /\ i <= j /\ S[i] \in Shown(S)
      <4>1. i \in DOMAIN S /\ i <= j
        BY <1>8, <2>1
      <4> QED BY <4>1 DEF Shown
    <3>2. ASSUME NEW i \in E, i <= j PROVE i \in 1..j /\ S[i] \in runs
      BY <1>8, <1>E, <2>1, <3>2
    <3> QED BY <1>9, <1>d, <1>r, <1>E, <3>1, <3>2
  <2>3. Rank(S, gone2, j) = p
    <3>1. IsPlace(E, t, p)
      BY <1>1, <1>n, <1>9, PlaceIsCount
    <3> QED BY <2>2, <3>1, <2>j DEF Rank, IsPlace
  <2>4. {i \in 1..j : S[i] \notin gone2} \subseteq {i \in 1..j : S[i] \notin gone}
    BY <1>d
  <2>5. IsFiniteSet({i \in 1..j : S[i] \notin gone})
    BY <2>1, RankIsNumber
  <2>6. Rank(S, gone2, j) <= Rank(S, gone, j)
    BY <2>4, <2>5, FS_Subset DEF Rank
  <2> QED BY <2>3, <2>6, <2>j
<1>10. ~back2 => ranked /\ ~back
  BY <1>b, <1>e, <1>r
<1>11. gone2 = {} => ranked /\ gone = {} /\ Shown(S) \subseteq runs
  BY <1>d, <1>r
<1>12. \A i \in DOMAIN told2 : told2[i] \in Shown(S)
  <2>1. Shown(told) \subseteq Shown(S)
    BY <1>b DEF Lists, Shown
  <2>2. \A i \in 1..k : items[i] \in Shown(S)
    <3> TAKE i \in 1..k
    <3>1. t[o + i] \in DOMAIN S /\ items[i] = S[t[o + i]]
      BY <1>6
    <3> QED BY <3>1 DEF Shown
  <2>3. Shown(items) \subseteq Shown(S)
    BY <1>5, <2>2 DEF Shown
  <2>4. Shown(told2) \subseteq Shown(S)
    BY <1>5, <2>1, <2>3
  <2> QED BY <2>4 DEF Shown
\* Whoever was told before is not on this page.
<1>13. ASSUME ~back2, NEW i \in 1..k PROVE items[i] \notin Shown(told)
  <2> SUFFICES ASSUME items[i] \in Shown(told) PROVE FALSE
    OBVIOUS
  <2>j. PICK j : j = t[o + i]
    OBVIOUS
  <2>1. o + i \in 1..n /\ j \in E /\ j \in DOMAIN S /\ items[i] = S[j]
    BY <1>6, <2>j
  <2>2. S[j] \in Shown(told) \ gone
    BY <1>10, <1>13, <1>r, <1>E, <2>1
  <2>3. Rank(S, gone, j) <= o
    BY <1>10, <1>13, <1>b, <2>1, <2>2 DEF Lists
  <2>4. o + i <= Rank(S, gone, j) /\ Rank(S, gone, j) \in Nat
    <3>1. o + i <= Rank(S, gone, j)
      BY <1>9, <1>10, <1>13, <2>1, <2>j
    <3>2. Rank(S, gone, j) \in Nat
      <4>1. j \in Nat
        BY <1>8, <2>1
      <4> QED BY <4>1, RankIsNumber
    <3> QED BY <3>1, <3>2
  <2> QED BY <1>a, <1>3, <2>3, <2>4
<1>14. ASSUME ~back2 PROVE IsInjective(told2)
  <2> SUFFICES ASSUME NEW i \in DOMAIN told2, NEW j \in DOMAIN told2, told2[i] = told2[j] PROVE i = j
    BY DEF IsInjective
  <2>1. \A p, q \in DOMAIN told : told[p] = told[q] => p = q
    BY <1>10, <1>14, <1>b DEF Lists, IsInjective
  <2>2. \A p \in 1..m : told2[p] \in Shown(told)
    BY <1>5 DEF Shown
  <2>3. \A p \in 1..k : told2[m + p] \notin Shown(told)
    BY <1>5, <1>13, <1>14
  <2>4. \A p, q \in 1..k : items[p] = items[q] => p = q
    <3> TAKE p, q \in 1..k
    <3> HAVE items[p] = items[q]
    <3>1. t[o + p] = t[o + q]
      <4>1. /\ t[o + p] \in DOMAIN S /\ items[p] = S[t[o + p]]
            /\ t[o + q] \in DOMAIN S /\ items[q] = S[t[o + q]]
        BY <1>6
      <4> QED BY <1>7, <4>1
    <3>2. o + p = o + q
      BY <1>2, <1>6, <3>1
    <3> QED BY <1>a, <3>2
  <2>5. CASE i \in 1..m /\ j \in 1..m
    BY <1>5, <2>1, <2>5
  <2>6. CASE ~(i \in 1..m) /\ ~(j \in 1..m)
    <3>1. PICK p \in 1..k : i = m + p
      BY <1>5, <2>6
    <3>2. PICK q \in 1..k : j = m + q
      BY <1>5, <2>6
    <3>3. items[p] = items[q]
      BY <1>5, <3>1, <3>2
    <3> QED BY <2>4, <3>1, <3>2, <3>3
  <2>7. CASE ~(i \in 1..m <=> j \in 1..m)
    BY <1>5, <2>2, <2>3, <2>7
  <2> QED BY <2>5, <2>6, <2>7
<1>15. ASSUME ~back2, NEW j \in DOMAIN S, S[j] \in Shown(told2) \ gone2
       PROVE  Rank(S, gone2, j) <= next
  <2>1. S[j] \in runs
    BY <1>15, <1>d DEF Shown
  <2>2. PICK p \in 1..n : t[p] = j
    BY <1>2, <1>E, <1>15, <2>1
  <2>3. Rank(S, gone2, j) = p /\ p <= Rank(S, gone, j)
    BY <1>9, <1>10, <1>15, <2>2
  <2>4. CASE S[j] \in Shown(told)
    <3>1. Rank(S, gone, j) <= o
      <4>1. S[j] \notin gone
        BY <1>15, <1>d
      <4> QED BY <1>10, <1>15, <1>b, <2>4, <4>1 DEF Lists
    <3>2. Rank(S, gone, j) \in Nat
      <4>1. j \in Nat
        BY <1>8, <1>15
      <4> QED BY <4>1, RankIsNumber
    <3> QED BY <1>2, <1>3, <1>4, <1>a, <2>3, <3>1, <3>2
  <2>5. CASE S[j] \in Shown(items)
    <3>1. PICK i \in 1..k : items[i] = S[j]
      BY <1>5, <2>5 DEF Shown
    <3>2. t[o + i] = t[p]
      <4>1. t[o + i] \in DOMAIN S /\ items[i] = S[t[o + i]]
        BY <1>6
      <4> QED BY <1>7, <1>15, <2>2, <3>1, <4>1
    <3>3. o + i = p
      <4>1. o + i \in 1..n
        BY <1>6
      <4> QED BY <1>2, <3>2, <4>1
    <3> QED BY <1>3, <1>4, <1>a, <2>3, <3>3
  <2> QED BY <1>5, <1>15, <2>4, <2>5
<1>16. ASSUME gone2 = {}, NEW j \in DOMAIN S, Rank(S, gone2, j) <= next
       PROVE  S[j] \in Shown(told2)
  <2>1. PICK p \in 1..n : t[p] = j
    <3>1. j \in E
      BY <1>11, <1>16, <1>E DEF Shown
    <3> QED BY <1>2, <3>1
  <2>2. Rank(S, gone2, j) = p
    BY <1>9, <1>11, <1>16, <2>1
  <2>3. CASE p <= o
    <3>1. Rank(S, gone, j) <= o
      BY <1>11, <1>16, <2>2, <2>3
    <3> QED BY <1>5, <1>11, <1>16, <1>b, <3>1 DEF Lists
  <2>4. CASE ~(p <= o)
    <3>i. PICK i : i = p - o
      OBVIOUS
    <3>1. i \in 1..k /\ o + i = p
      BY <1>2, <1>3, <1>4, <1>16, <1>a, <2>2, <2>4, <3>i
    <3>2. items[i] = S[j] /\ i \in DOMAIN items
      <4>1. items[i] = S[t[o + i]]
        BY <1>6, <3>1
      <4> QED BY <1>5, <2>1, <3>1, <4>1
    <3>3. S[j] \in Shown(items)
      BY <3>2 DEF Shown
    <3> QED BY <1>5, <3>3
  <2> QED BY <2>3, <2>4
<1>17. Lists(told2, kept2, gone2, back2, S, next)
  BY <1>12, <1>14, <1>15, <1>16, <1>e DEF Lists
<1>18. next < Len(left) => told2 # <<>>
  <2> SUFFICES ASSUME next < Len(left) PROVE 1 \in DOMAIN told2
    OBVIOUS
  <2>1. k # 0
    BY <1>1, <1>3, <1>4, <1>18
  <2> QED BY <1>3, <1>5, <2>1
<1>19. ASSUME ~(next < Len(left)), gone2 = {}, NEW r \in kept2 PROVE r \in Shown(told2)
  <2>1. PICK j \in DOMAIN S : S[j] = r
    BY <1>19, <1>e DEF Shown
  <2>2. PICK p \in 1..n : t[p] = j
    <3>1. j \in E
      BY <1>11, <1>19, <1>E, <2>1 DEF Shown
    <3> QED BY <1>2, <3>1
  <2>3. Rank(S, gone2, j) = p
    BY <1>9, <1>11, <1>19, <2>2
  <2>4. p <= next
    BY <1>1, <1>2, <1>4, <1>19
  <2> QED BY <1>16, <1>19, <2>1, <2>3, <2>4
<1> QED BY <1>4, <1>5, <1>17, <1>18, <1>19 DEF IsTold

LEMMA NewestFacts ==
  ASSUME NEW runs, runs \subseteq Runs, NEW S, S = Listing!NewestFirst(runs)
  PROVE  /\ S \in Seq(Runs) /\ IsInjective(S) /\ Shown(S) = runs
         /\ Lists(<<>>, {}, {}, FALSE, S, 0)
<1> PICK t : t = Listing!OldestFirst(runs)
  OBVIOUS
<1> PICK n : n = Cardinality(runs)
  OBVIOUS
<1>1. runs \subseteq Nat /\ IsFiniteSet(runs)
  BY RequestAssumption, FS_Subset
<1>2. Enumerates(t, runs, n)
  BY <1>1, SmallestFirstSorts, SortsAll
<1>3. /\ n \in Nat /\ t \in [1..n -> runs]
      /\ \A i, j \in 1..n : t[i] = t[j] => i = j
      /\ \A e \in runs : \E p \in 1..n : t[p] = e
  BY <1>2 DEF Enumerates
<1>4. DOMAIN t = 1..n /\ Len(t) = n
  <2>1. t \in Seq(runs)
    BY <1>3, SeqDef
  <2>2. DOMAIN t = 1..n /\ DOMAIN t = 1..Len(t) /\ Len(t) \in Nat
    BY <1>3, <2>1, LenProperties
  <2> QED BY <1>3, <2>1, <2>2
<1>5. S = [i \in 1..n |-> t[n - i + 1]]
  BY <1>4 DEF Listing!NewestFirst, Listing!Reverse
<1>6. \A i \in 1..n : n - i + 1 \in 1..n /\ n - (n - i + 1) + 1 = i
  BY <1>3
<1>7. DOMAIN S = 1..n /\ \A i \in 1..n : S[i] = t[n - i + 1] /\ S[i] \in runs
  BY <1>3, <1>5, <1>6
<1>8. S \in Seq(Runs)
  <2>1. S \in [1..n -> Runs]
    BY <1>5, <1>7
  <2> QED BY <1>3, <2>1, SeqDef
<1>9. IsInjective(S)
  <2> SUFFICES ASSUME NEW i \in 1..n, NEW j \in 1..n, S[i] = S[j] PROVE i = j
    BY <1>7 DEF IsInjective
  <2>1. n - i + 1 = n - j + 1
    BY <1>3, <1>6, <1>7
  <2> QED BY <1>6, <2>1
<1>10. Shown(S) = runs
  <2>1. ASSUME NEW r \in runs PROVE r \in Shown(S)
    <3>1. PICK p \in 1..n : t[p] = r
      BY <1>3
    <3>2. n - p + 1 \in 1..n /\ S[n - p + 1] = r
      BY <1>6, <1>7, <3>1
    <3> QED BY <1>7, <3>2 DEF Shown
  <2> QED BY <1>7, <2>1 DEF Shown
<1>11. \A j \in DOMAIN S : ~(Rank(S, {}, j) <= 0)
  <2> TAKE j \in DOMAIN S
  <2>1. j \in Nat /\ j >= 1
    BY <1>3, <1>7
  <2>2. {k \in 1..j : S[k] \notin {}} = 1..j
    OBVIOUS
  <2>3. Cardinality(1..j) = j
    <3>1. 1 \in Int /\ j \in Int /\ j - 1 + 1 = j /\ ~(1 > j)
      BY <2>1
    <3> QED BY <3>1, FS_Interval
  <2>4. Rank(S, {}, j) = j
    BY <2>2, <2>3 DEF Rank
  <2> QED BY <2>1, <2>4
<1>12. DOMAIN <<>> = {} /\ Shown(<<>>) = {}
  BY DEF Shown
<1>13. Lists(<<>>, {}, {}, FALSE, S, 0)
  BY <1>11, <1>12 DEF Lists, IsInjective
<1> QED BY <1>8, <1>9, <1>10, <1>13

\* What a client was told of a Job's runs are all up to the last one that stayed.
JobTells(told, kept, after) ==
  /\ Ascending(told)
  /\ \A i \in DOMAIN told : told[i] <= after
  /\ \A r \in kept : r <= after => r \in Shown(told)

LEMMA AscendingOnce ==
  ASSUME NEW told \in Seq(Runs), Ascending(told)
  PROVE  IsInjective(told)
<1>1. \A i \in DOMAIN told : i \in Nat /\ told[i] \in Nat
  <2>1. DOMAIN told = 1..Len(told) /\ Len(told) \in Nat
    BY LenProperties
  <2>2. \A i \in DOMAIN told : told[i] \in Runs
    BY <2>1, ElementOfSeq
  <2>3. Runs \subseteq Nat
    BY RequestAssumption
  <2> TAKE i \in DOMAIN told
  <2>4. told[i] \in Runs
    BY <2>2
  <2>5. i \in Nat
    BY <2>1
  <2> QED BY <2>3, <2>4, <2>5
<1> SUFFICES ASSUME NEW i \in DOMAIN told, NEW j \in DOMAIN told, told[i] = told[j] PROVE i = j
  BY DEF IsInjective
<1>2. (i < j => told[i] < told[j]) /\ (j < i => told[j] < told[i])
  BY DEF Ascending
<1> QED BY <1>1, <1>2

IsJobCut(told, after, there, left, items, told2, kept2) ==
  /\ told \in Seq(Runs) /\ after \in Nat /\ JobTells(told, {}, after) /\ there \subseteq Runs
  /\ left = Listing!OldestFirst({r \in there : r > after}) /\ items = Listing!Page(left, 0) /\ told2 = told \o items
  /\ kept2 \subseteq there /\ \A r \in kept2 : r <= after => r \in Shown(told)

IsJobTold(told, after, there, left, items, told2, kept2) ==
  /\ told2 \in Seq(Runs) /\ Ascending(told2) /\ Len(items) \in Nat
  /\ Len(items) < Len(left) => told2 # <<>> /\ Listing!Last(items) \in Nat /\ JobTells(told2, kept2, Listing!Last(items))
  /\ ~(Len(items) < Len(left)) => kept2 \subseteq Shown(told2)

LEMMA JobPage ==
  ASSUME NEW told, NEW after, NEW there, NEW left, NEW items, NEW told2, NEW kept2,
         IsJobCut(told, after, there, left, items, told2, kept2)
  PROVE  IsJobTold(told, after, there, left, items, told2, kept2)
<1>b. told \in Seq(Runs) /\ after \in Nat /\ JobTells(told, {}, after) /\ there \subseteq Runs
  BY DEF IsJobCut
<1>c. left = Listing!OldestFirst({r \in there : r > after}) /\ items = Listing!Page(left, 0) /\ told2 = told \o items
  BY DEF IsJobCut
<1>d. kept2 \subseteq there /\ \A r \in kept2 : r <= after => r \in Shown(told)
  BY DEF IsJobCut
<1>E. PICK E : E = {r \in there : r > after}
  OBVIOUS
<1>n. PICK n : n = Cardinality(E)
  OBVIOUS
<1>k. PICK k : k = Len(items)
  OBVIOUS
<1>m. PICK m : m = Len(told)
  OBVIOUS
<1>a. Runs \subseteq Nat /\ IsFiniteSet(Runs)
  BY RequestAssumption
<1>1. E \subseteq Runs /\ E \subseteq Nat /\ IsFiniteSet(E)
  <2>1. E \subseteq Runs
    BY <1>b, <1>E
  <2> QED BY <1>a, <2>1, FS_Subset
<1>2. Enumerates(left, E, n)
  <2>1. left = Listing!OldestFirst(E)
    BY <1>c, <1>E
  <2> QED BY <1>1, <1>n, <2>1, SmallestFirstSorts, SortsAll
<1>3. /\ n \in Nat /\ left \in [1..n -> E]
      /\ \A i, j \in 1..n : i < j <=> left[i] < left[j]
      /\ \A e \in E : \E p \in 1..n : left[p] = e
  BY <1>2 DEF Enumerates
<1>4. left \in Seq(Runs) /\ Len(left) = n
  <2>1. left \in Seq(Runs)
    <3>1. left \in [1..n -> Runs]
      BY <1>1, <1>3
    <3> QED BY <1>3, <3>1, SeqDef
  <2>2. DOMAIN left = 1..n /\ DOMAIN left = 1..Len(left) /\ Len(left) \in Nat
    BY <1>3, <2>1, LenProperties
  <2> QED BY <1>3, <2>1, <2>2
<1>5. IsPage(items, left, 0, n)
  <2>1. 0 \in Nat
    OBVIOUS
  <2> QED BY <1>4, <1>c, <2>1, PageFacts
<1>6. /\ items \in Seq(Runs) /\ k \in Nat
      /\ \A i \in 1..k : i \in 1..n /\ items[i] = left[i]
      /\ k < n => k # 0
  <2>1. k \in Nat /\ (\A i \in 1..k : 0 + i = i) /\ 0 + k = k
    BY <1>5, <1>k DEF IsPage
  <2> QED BY <1>5, <1>k, <2>1 DEF IsPage
<1>7. IsJoined(Runs, told, items, m, k, told2)
  BY <1>6, <1>b, <1>c, <1>k, <1>m, Joined
<1>8. /\ told2 \in Seq(Runs) /\ Shown(told2) = Shown(told) \cup Shown(items)
      /\ m \in Nat /\ DOMAIN told = 1..m /\ DOMAIN items = 1..k /\ DOMAIN told2 = 1..m + k
      /\ \A i \in 1..m : told2[i] = told[i]
      /\ \A i \in 1..k : told2[m + i] = items[i]
      /\ \A i \in DOMAIN told2 : i \in 1..m \/ \E q \in 1..k : i = m + q
  BY <1>7 DEF IsJoined
<1>9. \A i \in 1..k : items[i] \in E /\ items[i] \in Nat /\ after < items[i]
  <2> TAKE i \in 1..k
  <2>1. items[i] \in E
    BY <1>3, <1>6
  <2> QED BY <1>b, <1>1, <1>E, <2>1
<1>10. \A i \in 1..m : told[i] \in Nat /\ told[i] <= after
  <2> TAKE i \in 1..m
  <2>1. told[i] \in Runs
    BY <1>b, <1>8, <1>m, ElementOfSeq
  <2> QED BY <1>a, <1>b, <1>8, <2>1 DEF JobTells
<1>11. \A i, j \in 1..k : i < j => items[i] < items[j]
  BY <1>3, <1>6
<1>12. Ascending(told2)
  <2> SUFFICES ASSUME NEW i \in DOMAIN told2, NEW j \in DOMAIN told2, i < j PROVE told2[i] < told2[j]
    BY DEF Ascending
  <2>1. CASE j \in 1..m
    <3>1. i \in 1..m
      BY <1>6, <1>8, <2>1
    <3> QED BY <1>b, <1>8, <2>1, <3>1 DEF JobTells, Ascending
  <2>2. CASE ~(j \in 1..m)
    <3>1. PICK q \in 1..k : j = m + q
      BY <1>8, <2>2
    <3>2. CASE i \in 1..m
      <4>1. told2[i] = told[i] /\ told2[j] = items[q]
        BY <1>8, <3>1, <3>2
      <4>2. told[i] \in Nat /\ told[i] <= after /\ items[q] \in Nat /\ after < items[q]
        BY <1>9, <1>10, <3>1, <3>2
      <4> QED BY <1>b, <4>1, <4>2
    <3>3. CASE ~(i \in 1..m)
      <4>1. PICK p \in 1..k : i = m + p
        BY <1>8, <3>3
      <4>2. p < q
        BY <1>6, <1>8, <3>1, <4>1
      <4> QED BY <1>8, <1>11, <3>1, <4>1, <4>2
    <3> QED BY <3>2, <3>3
  <2> QED BY <2>1, <2>2
<1>13. ASSUME k < n
       PROVE  told2 # <<>> /\ Listing!Last(items) \in Nat /\ JobTells(told2, kept2, Listing!Last(items))
  <2>1. k \in 1..k /\ Listing!Last(items) = items[k] /\ items[k] = left[k] /\ k \in 1..n /\ items[k] \in Nat
    BY <1>6, <1>9, <1>13, <1>k DEF Listing!Last
  <2>l. PICK last : last = items[k]
    OBVIOUS
  <2>2. m + k \in DOMAIN told2
    BY <1>6, <1>8, <2>1
  <2>3. \A i \in 1..k : items[i] <= last
    <3> TAKE i \in 1..k
    <3>1. i = k \/ i < k
      BY <1>6
    <3>2. items[i] \in Nat /\ last \in Nat /\ last = items[k]
      BY <1>9, <2>1, <2>l
    <3>3. i < k => items[i] < items[k]
      BY <1>11, <2>1
    <3> QED BY <3>1, <3>2, <3>3
  <2>4. \A i \in DOMAIN told2 : told2[i] <= last
    <3> TAKE i \in DOMAIN told2
    <3>1. CASE i \in 1..m
      <4>1. told2[i] \in Nat /\ told2[i] <= after /\ after < last
        BY <1>8, <1>9, <1>10, <2>1, <2>l, <3>1
      <4> QED BY <1>b, <2>1, <2>l, <4>1
    <3>2. CASE ~(i \in 1..m)
      BY <1>8, <2>3, <3>2
    <3> QED BY <3>1, <3>2
  <2>5. ASSUME NEW r \in kept2, r <= last PROVE r \in Shown(told2)
    <3>1. r \in Nat /\ r \in there
      BY <1>a, <1>b, <1>d, <2>5
    <3>2. CASE r <= after
      BY <1>8, <1>d, <2>5, <3>2
    <3>3. CASE ~(r <= after)
      <4>1. r \in E
        BY <3>1, <3>3, <1>E, <1>b
      <4>2. PICK p \in 1..n : left[p] = r
        BY <1>3, <4>1
      <4>3. ~(left[k] < left[p])
        BY <2>1, <2>5, <2>l, <3>1, <4>2
      <4>4. p \in 1..k /\ items[p] = r
        <5>1. k < p <=> left[k] < left[p]
          BY <1>3, <2>1
        <5>2. p <= k
          BY <1>3, <1>6, <4>3, <5>1
        <5> QED BY <1>6, <4>2, <5>2
      <4> QED BY <1>8, <4>4 DEF Shown
    <3> QED BY <3>2, <3>3
  <2>6. DOMAIN <<>> = {}
    OBVIOUS
  <2> QED BY <1>12, <2>1, <2>2, <2>4, <2>5, <2>6, <2>l DEF JobTells
<1>14. ASSUME ~(k < n), NEW r \in kept2 PROVE r \in Shown(told2)
  <2>1. r \in Nat /\ r \in there
    BY <1>a, <1>b, <1>d, <1>14
  <2>2. CASE r <= after
    BY <1>8, <1>d, <1>14, <2>2
  <2>3. CASE ~(r <= after)
    <3>1. r \in E
      BY <2>1, <2>3, <1>E, <1>b
    <3>2. PICK p \in 1..n : left[p] = r
      BY <1>3, <3>1
    <3>3. p \in 1..k /\ items[p] = r
      <4>1. p <= k
        BY <1>3, <1>6, <1>14
      <4> QED BY <1>6, <3>2, <4>1
    <3> QED BY <1>8, <3>3 DEF Shown
  <2> QED BY <2>2, <2>3
<1> QED BY <1>4, <1>6, <1>8, <1>12, <1>13, <1>14, <1>k DEF IsJobTold

-----------------------------------------------------------------------------
(* The registry of tokens *)

Token == [name : Names, query : Listing!Queries, snapshot : Seq(Runs), offset : Nat, after : Nat]

LEMMA PartFacts ==
  ASSUME NEW T, NEW s \in Seq(T), NEW a \in Nat \ {0}, NEW b \in Nat, b <= Len(s), NEW r, r = SubSeq(s, a, b)
  PROVE  r \in Seq(T) /\ Shown(r) \subseteq Shown(s)
<1> PICK n : n = Len(s)
  OBVIOUS
<1>1. n \in Nat /\ DOMAIN s = 1..n
  BY LenProperties
<1>2. \A i \in a..b : i \in 1..n
  BY <1>1
<1>3. \A i \in a..b : s[i] \in T
  BY <1>1, <1>2, ElementOfSeq
<1>4. /\ r \in Seq(T) /\ Len(r) = IF a <= b THEN b - a + 1 ELSE 0
      /\ \A i \in 1..b - a + 1 : r[i] = s[a + i - 1]
  <2>1. a \in Int /\ b \in Int
    OBVIOUS
  <2> QED BY <1>3, <2>1, SubSeqProperties
<1>5. DOMAIN r = 1..Len(r)
  BY <1>4, LenProperties
<1>6. \A i \in DOMAIN r : r[i] \in Shown(s)
  <2> TAKE i \in DOMAIN r
  <2>1. i \in 1..b - a + 1 /\ a + i - 1 \in a..b
    BY <1>4, <1>5
  <2>2. r[i] = s[a + i - 1] /\ a + i - 1 \in DOMAIN s
    BY <1>1, <1>2, <1>4, <2>1
  <2> QED BY <2>2 DEF Shown
<1> QED BY <1>4, <1>6 DEF Shown

LEMMA WithoutFacts ==
  ASSUME tokens \in Seq(Token), NEW name, name \in Listing!Registered
  PROVE  /\ Listing!Without(name) \in Seq(Token) /\ Shown(Listing!Without(name)) \subseteq Shown(tokens)
         /\ tokens[Listing!Cursor(name)] \in Shown(tokens) /\ tokens[Listing!Cursor(name)] \in Token
         /\ tokens[Listing!Cursor(name)].name = name
<1> PICK n : n = Len(tokens)
  OBVIOUS
<1> PICK p : p = Listing!Cursor(name)
  OBVIOUS
<1>1. n \in Nat /\ DOMAIN tokens = 1..n
  BY LenProperties
<1>2. \E i \in DOMAIN tokens : tokens[i].name = name
  BY DEF Listing!Registered
<1>3. p \in DOMAIN tokens /\ tokens[p].name = name
  BY <1>2 DEF Listing!Cursor
<1> PICK front : front = SubSeq(tokens, 1, p - 1)
  OBVIOUS
<1> PICK rear : rear = SubSeq(tokens, p + 1, n)
  OBVIOUS
<1>4. front \in Seq(Token) /\ Shown(front) \subseteq Shown(tokens)
  <2>1. 1 \in Nat \ {0} /\ p - 1 \in Nat /\ p - 1 <= n
    BY <1>1, <1>3
  <2> QED BY <2>1, PartFacts
<1>5. rear \in Seq(Token) /\ Shown(rear) \subseteq Shown(tokens)
  <2>1. p + 1 \in Nat \ {0} /\ n \in Nat /\ n <= n
    BY <1>1, <1>3
  <2> QED BY <2>1, PartFacts
<1>6. Listing!Without(name) = front \o rear
  BY DEF Listing!Without, Listing!RemoveAt
<1>7. IsJoined(Token, front, rear, Len(front), Len(rear), front \o rear)
  BY <1>4, <1>5, Joined
<1>8. front \o rear \in Seq(Token) /\ Shown(front \o rear) = Shown(front) \cup Shown(rear)
  BY <1>7 DEF IsJoined
<1>9. tokens[p] \in Token /\ tokens[p] \in Shown(tokens)
  BY <1>1, <1>3, ElementOfSeq DEF Shown
<1> QED BY <1>3, <1>4, <1>5, <1>6, <1>8, <1>9

IsAppended(T, s, e, r) == r \in Seq(T) /\ Len(r) \in Nat \ {0} /\ Shown(r) \subseteq Shown(s) \cup {e}

LEMMA AppendShows ==
  ASSUME NEW T, NEW s \in Seq(T), NEW e \in T, NEW r, r = Append(s, e)
  PROVE  IsAppended(T, s, e, r)
<1>1. Len(s) \in Nat /\ DOMAIN s = 1..Len(s)
  BY LenProperties
<1>2. r \in Seq(T) /\ Len(r) = Len(s) + 1 /\ \A i \in 1..Len(s) + 1 : r[i] = IF i = Len(s) + 1 THEN e ELSE s[i]
  BY <1>1, AppendProperties
<1>3. DOMAIN r = 1..Len(s) + 1
  BY <1>2, LenProperties
<1>4. \A i \in DOMAIN r : r[i] \in Shown(s) \cup {e}
  <2> TAKE i \in DOMAIN r
  <2>1. i = Len(s) + 1 \/ i \in DOMAIN s
    BY <1>1, <1>3
  <2> QED BY <1>1, <1>2, <1>3, <2>1 DEF Shown
<1>5. Shown(r) \subseteq Shown(s) \cup {e}
  BY <1>4 DEF Shown
<1> QED BY <1>1, <1>2, <1>5 DEF IsAppended

LEMMA TouchedFacts ==
  ASSUME tokens \in Seq(Token), NEW name, name \in Listing!Registered
  PROVE  Listing!Touched(name) \in Seq(Token) /\ Shown(Listing!Touched(name)) \subseteq Shown(tokens)
<1> PICK rest : rest = Listing!Without(name)
  OBVIOUS
<1> PICK token : token = tokens[Listing!Cursor(name)]
  OBVIOUS
<1> PICK r : r = Append(rest, token)
  OBVIOUS
<1>1. rest \in Seq(Token) /\ Shown(rest) \subseteq Shown(tokens) /\ token \in Shown(tokens) /\ token \in Token
  BY WithoutFacts
<1>a. IsAppended(Token, rest, token, r)
  BY <1>1, AppendShows
<1>2. r \in Seq(Token) /\ Shown(r) \subseteq Shown(rest) \cup {token}
  BY <1>a DEF IsAppended
<1>3. Listing!Touched(name) = r
  BY DEF Listing!Touched
<1> QED BY <1>1, <1>2, <1>3

LEMMA IssuedFacts ==
  ASSUME NEW registry \in Seq(Token), NEW token \in Token, NEW r, r = Listing!Issued(registry, token)
  PROVE  r \in Seq(Token) /\ Shown(r) \subseteq Shown(registry) \cup {token}
<1> PICK all : all = Append(registry, token)
  OBVIOUS
<1>a. IsAppended(Token, registry, token, all)
  BY AppendShows
<1>1. all \in Seq(Token) /\ Len(all) \in Nat \ {0} /\ Shown(all) \subseteq Shown(registry) \cup {token}
  BY <1>a DEF IsAppended
<1>2. r = all \/ r = Tail(all)
  BY DEF Listing!Issued
<1>3. CASE r = Tail(all)
  <2>1. Tail(all) = SubSeq(all, 2, Len(all))
    OBVIOUS
  <2>2. 2 \in Nat \ {0} /\ Len(all) \in Nat /\ Len(all) <= Len(all)
    BY <1>1
  <2> QED BY <1>1, <1>3, <2>1, <2>2, PartFacts
<1> QED BY <1>1, <1>2, <1>3

-----------------------------------------------------------------------------
(* The walks *)

Walk ==
  [pc : {"idle", "reading", "paging", "done"}, query : Listing!Queries, token : Names \cup {NoToken},
   seen : SUBSET Runs, told : Seq(Runs), kept : SUBSET Runs, gone : SUBSET Runs, back : BOOLEAN]

\* What a token says of the walk that holds it.
TokenHolds(told, kept, gone, back, k) ==
  /\ k.query = "job" => JobTells(told, kept, k.after)
  /\ k.query # "job" => IsInjective(k.snapshot) /\ Lists(told, kept, gone, back, k.snapshot, k.offset)

WalkHolds(w) ==
  /\ w.pc = "reading" /\ w.token = NoToken => w.told = <<>> /\ w.gone = {} /\ ~w.back
  /\ w.pc = "paging" => w.token # NoToken
  /\ w.token # NoToken => w.told # <<>>
  /\ ~w.back => IsInjective(w.told)
  /\ w.pc = "done" /\ w.gone = {} => w.kept \subseteq Shown(w.told)

Agrees(w, registry) ==
  \A k \in Shown(registry) : k.name = w.token => TokenHolds(w.told, w.kept, w.gone, w.back, k)

ListingInductive ==
  /\ tokens \in Seq(Token) /\ walk \in [Listers -> Walk]
  /\ \A l \in Listers : WalkHolds(walk[l]) /\ Agrees(walk[l], tokens)

LEMMA IdleHolds == Listing!Idle \in Walk /\ WalkHolds(Listing!Idle) /\ Listing!Idle.token = NoToken
<1>1. DOMAIN <<>> = {}
  OBVIOUS
<1>2. <<>> \in Seq(Runs)
  OBVIOUS
<1>3. Listing!Idle \in Walk
  BY <1>2 DEF Listing!Idle, Walk, Listing!Queries
<1> QED BY <1>1, <1>3 DEF Listing!Idle, WalkHolds, IsInjective

\* Nobody's walk is said anything of by no token.
LEMMA NoTokenAgrees ==
  ASSUME NEW registry \in Seq(Token), NEW w, w.token = NoToken
  PROVE  Agrees(w, registry)
<1>1. \A k \in Shown(registry) : k \in Token
  <2>1. DOMAIN registry = 1..Len(registry)
    BY LenProperties
  <2> QED BY <2>1, ElementOfSeq DEF Shown
<1>2. \A k \in Shown(registry) : k.name \in Names
  BY <1>1 DEF Token
<1>3. NoToken \notin Names
  BY RequestAssumption
<1> QED BY <1>2, <1>3 DEF Agrees

LEMMA WalkMoves ==
  ASSUME ListingInductive, NEW l \in Listers, NEW w \in Walk, walk' = [walk EXCEPT ![l] = w], tokens' \in Seq(Token),
         WalkHolds(w), Agrees(w, tokens'),
         \A k \in Shown(tokens') : k \in Shown(tokens) \/ \A q \in Listers : k.name # walk[q].token
  PROVE  ListingInductive'
<1>1. walk' \in [Listers -> Walk]
  BY DEF ListingInductive
<1>2. ASSUME NEW q \in Listers PROVE WalkHolds(walk'[q]) /\ Agrees(walk'[q], tokens')
  <2>1. CASE q = l
    BY <2>1 DEF ListingInductive
  <2>2. CASE q # l
    <3>1. walk'[q] = walk[q]
      BY <2>2 DEF ListingInductive
    <3>2. Agrees(walk[q], tokens')
      BY DEF ListingInductive, Agrees
    <3> QED BY <3>1, <3>2 DEF ListingInductive
  <2> QED BY <2>1, <2>2
<1>3. Shown(tokens)' = Shown(tokens')
  BY DEF Shown
<1> QED BY <1>1, <1>2, <1>3 DEF ListingInductive, Agrees, WalkHolds, TokenHolds

\* A step that changes no token and one walk.
LEMMA WalkGoesOn ==
  ASSUME ListingInductive, NEW l \in Listers, NEW w \in Walk, walk' = [walk EXCEPT ![l] = w], tokens' = tokens,
         WalkHolds(w),
         w.token = NoToken \/ (/\ w.token = walk[l].token /\ w.told = walk[l].told /\ w.kept = walk[l].kept
                              /\ w.gone = walk[l].gone /\ w.back = walk[l].back)
  PROVE  ListingInductive'
<1>1. tokens \in Seq(Token) /\ Agrees(walk[l], tokens)
  BY DEF ListingInductive
<1>2. Agrees(w, tokens)
  BY <1>1, NoTokenAgrees DEF Agrees
<1>3. tokens' \in Seq(Token) /\ Agrees(w, tokens')
  BY <1>1, <1>2
<1>4. \A k \in Shown(tokens') : k \in Shown(tokens)
  OBVIOUS
<1> QED BY <1>3, <1>4, WalkMoves

LEMMA WalkFacts ==
  ASSUME ListingInductive, NEW l \in Listers, NEW w, w = walk[l]
  PROVE  w \in Walk /\ WalkHolds(w) /\ Agrees(w, tokens)
BY DEF ListingInductive

LEMMA ListingAskKeeps ==
  ASSUME ListingInductive, NEW l \in Listers, NEW query \in Listing!Queries, Listing!Ask(l, query)
  PROVE  ListingInductive'
<1> PICK idle : idle = Listing!Idle
  OBVIOUS
<1> PICK seen : seen = {r \in Runs : local[r] # "none"}
  OBVIOUS
<1> PICK w : w = [idle EXCEPT !.pc = "reading", !.query = query, !.seen = seen]
  OBVIOUS
<1>1. idle \in Walk /\ WalkHolds(idle) /\ idle.token = NoToken
  BY IdleHolds
<1>2. w \in Walk
  BY <1>1 DEF Walk
<1>3. w.pc = "reading" /\ w.token = NoToken /\ w.told = idle.told /\ w.gone = idle.gone /\ w.back = idle.back
  BY <1>1 DEF Walk
<1>4. idle.told = <<>> /\ idle.gone = {} /\ ~idle.back
  BY DEF Listing!Idle
<1>5. WalkHolds(w)
  BY <1>1, <1>3, <1>4 DEF WalkHolds
<1>6. walk' = [walk EXCEPT ![l] = w] /\ tokens' = tokens
  BY DEF Listing!Ask
<1> QED BY <1>2, <1>3, <1>5, <1>6, WalkGoesOn

LEMMA AskNextKeeps ==
  ASSUME ListingInductive, NEW l \in Listers, Listing!AskNext(l)
  PROVE  ListingInductive'
<1> PICK old : old = walk[l]
  OBVIOUS
<1> PICK seen : seen = {r \in Runs : local[r] # "none"}
  OBVIOUS
<1> PICK w : w = [old EXCEPT !.pc = "reading", !.seen = seen]
  OBVIOUS
<1>1. old \in Walk /\ WalkHolds(old) /\ old.pc = "paging"
  BY WalkFacts DEF Listing!AskNext
<1>2. w \in Walk
  BY <1>1 DEF Walk
<1>3. /\ w.pc = "reading" /\ w.token = old.token /\ w.told = old.told /\ w.kept = old.kept
      /\ w.gone = old.gone /\ w.back = old.back
  BY <1>1 DEF Walk
<1>4. WalkHolds(w)
  BY <1>1, <1>3 DEF WalkHolds
<1>5. walk' = [walk EXCEPT ![l] = w] /\ tokens' = tokens
  BY DEF Listing!AskNext
<1> QED BY <1>2, <1>3, <1>4, <1>5, WalkGoesOn

LEMMA StartsAfresh ==
  ASSUME ListingInductive, NEW l \in Listers, walk' = [walk EXCEPT ![l] = Listing!Idle], tokens' = tokens
  PROVE  ListingInductive'
BY IdleHolds, WalkGoesOn

LEMMA ExpireKeeps ==
  ASSUME ListingInductive, NEW name, Listing!Expire(name)
  PROVE  ListingInductive'
<1>1. /\ Listing!Without(name) \in Seq(Token) /\ Shown(Listing!Without(name)) \subseteq Shown(tokens)
  BY WithoutFacts DEF Listing!Expire, ListingInductive
<1>2. tokens' = Listing!Without(name) /\ walk' = walk
  BY DEF Listing!Expire
<1>3. tokens' \in Seq(Token) /\ Shown(tokens') \subseteq Shown(tokens)
  BY <1>1, <1>2
<1>4. \A l \in Listers : WalkHolds(walk[l]) /\ Agrees(walk[l], tokens')
  BY <1>3 DEF ListingInductive, Agrees
<1> QED BY <1>2, <1>3, <1>4 DEF ListingInductive, Agrees, Shown

LEMMA ListingRestartKeeps ==
  ASSUME ListingInductive, Listing!Restart
  PROVE  ListingInductive'
<1>1. tokens' = <<>> /\ walk' = [l \in Listers |-> IF walk[l].pc = "reading" THEN Listing!Idle ELSE walk[l]]
  BY DEF Listing!Restart
<1>2. tokens' \in Seq(Token) /\ Shown(tokens') = {}
  BY <1>1 DEF Shown
<1>3. walk' \in [Listers -> Walk]
  BY <1>1, IdleHolds DEF ListingInductive
<1>4. \A l \in Listers : WalkHolds(walk'[l])
  BY <1>1, IdleHolds DEF ListingInductive
<1>5. \A l \in Listers : Agrees(walk'[l], tokens')
  BY <1>2 DEF Agrees
<1> QED BY <1>2, <1>3, <1>4, <1>5 DEF ListingInductive, WalkHolds, Agrees, Shown, TokenHolds

-----------------------------------------------------------------------------
(* The answers *)

\* A page was cut for l: the registry the token of the next page goes to, what the client
\* is told, and what that says of the walk so far.
IsAnswer(l, old, registry, token, more, items, runs, snapshot, told, kept, gone, back) ==
  /\ old = walk[l] /\ old.pc = "reading"
  /\ registry \in Seq(Token) /\ Shown(registry) \subseteq Shown(tokens)
  /\ token.name \in Names /\ token.name \notin Listing!Registered /\ ~Listing!Held(token.name)
  /\ more \in BOOLEAN /\ tokens' = IF more THEN Listing!Issued(registry, token) ELSE registry
  /\ runs \subseteq Runs /\ snapshot \subseteq Runs
  /\ Listing!Told(l, items, IF more THEN token.name ELSE NoToken, runs, snapshot)
  /\ told \in Seq(Runs) /\ told = old.told \o items
  /\ kept = (IF old.told = <<>> THEN runs ELSE old.kept \cap runs)
  /\ gone = old.gone \cup (snapshot \ runs)
  /\ back \in BOOLEAN /\ back = (old.back \/ old.gone \cap runs # {})
  /\ ~back => IsInjective(told)
  /\ more => token \in Token /\ told # <<>> /\ TokenHolds(told, kept, gone, back, token)
  /\ ~more /\ gone = {} => kept \subseteq Shown(told)

\* The client is told it and holds the token of the next page, or the reply is lost and it
\* goes on with its old token.
LEMMA AnswerKeeps ==
  ASSUME ListingInductive, NEW l \in Listers, NEW old, NEW registry, NEW token, NEW more, NEW items, NEW runs,
         NEW snapshot, NEW told2, NEW kept2, NEW gone2, NEW back2,
         IsAnswer(l, old, registry, token, more, items, runs, snapshot, told2, kept2, gone2, back2)
  PROVE  ListingInductive'
<1>0. /\ old = walk[l] /\ old.pc = "reading"
      /\ registry \in Seq(Token) /\ Shown(registry) \subseteq Shown(tokens)
      /\ token.name \in Names /\ token.name \notin Listing!Registered /\ ~Listing!Held(token.name)
      /\ more \in BOOLEAN /\ tokens' = IF more THEN Listing!Issued(registry, token) ELSE registry
      /\ runs \subseteq Runs /\ snapshot \subseteq Runs
      /\ Listing!Told(l, items, IF more THEN token.name ELSE NoToken, runs, snapshot)
      /\ told2 \in Seq(Runs) /\ told2 = old.told \o items
      /\ kept2 = (IF old.told = <<>> THEN runs ELSE old.kept \cap runs)
      /\ gone2 = old.gone \cup (snapshot \ runs)
      /\ back2 \in BOOLEAN /\ back2 = (old.back \/ old.gone \cap runs # {})
      /\ ~back2 => IsInjective(told2)
      /\ more => token \in Token /\ told2 # <<>> /\ TokenHolds(told2, kept2, gone2, back2, token)
      /\ ~more /\ gone2 = {} => kept2 \subseteq Shown(told2)
  BY DEF IsAnswer
<1> USE <1>0
<1>1. old \in Walk /\ WalkHolds(old) /\ Agrees(old, tokens)
  BY WalkFacts
<1>2. tokens' \in Seq(Token) /\ Shown(tokens') \subseteq Shown(registry) \cup (IF more THEN {token} ELSE {})
  <2>1. CASE more
    BY <2>1, IssuedFacts
  <2>2. CASE ~more
    BY <2>2
  <2> QED BY <2>1, <2>2
<1>3. \A k \in Shown(tokens) : k.name # token.name
  BY DEF Shown, Listing!Registered
<1>4. \A q \in Listers : token.name # walk[q].token
  BY DEF Listing!Held
<1>5. \A k \in Shown(tokens') : k \in Shown(tokens) \/ \A q \in Listers : k.name # walk[q].token
  BY <1>2, <1>4
<1>6. token.name \in Names /\ NoToken \notin Names
  BY RequestAssumption
<1> PICK name : name = IF more THEN token.name ELSE NoToken
  OBVIOUS
<1> PICK pc : pc = IF name = NoToken THEN "done" ELSE "paging"
  OBVIOUS
<1> PICK next : next = [old EXCEPT !.pc = pc, !.token = name, !.seen = {},
                                   !.told = told2, !.kept = kept2, !.gone = gone2, !.back = back2]
  OBVIOUS
<1> PICK again : again = [old EXCEPT !.pc = "paging", !.seen = {}]
  OBVIOUS
<1>7. CASE walk' = [walk EXCEPT ![l] = next]
  <2>1. kept2 \in SUBSET Runs /\ gone2 \in SUBSET Runs
    BY <1>1 DEF Walk
  <2>a. name \in Names \cup {NoToken} /\ pc \in {"idle", "reading", "paging", "done"}
    BY <1>6
  <2>b. /\ next.pc = pc /\ next.query = old.query /\ next.token = name /\ next.seen = {} /\ next.told = told2
        /\ next.kept = kept2 /\ next.gone = gone2 /\ next.back = back2
    BY <1>1 DEF Walk
  <2>c. next = [pc |-> pc, query |-> old.query, token |-> name, seen |-> {}, told |-> told2, kept |-> kept2,
                gone |-> gone2, back |-> back2]
    BY <1>1 DEF Walk
  <2>d. old.query \in Listing!Queries
    BY <1>1 DEF Walk
  <2>2. next \in Walk
    BY <2>a, <2>c, <2>d, <2>1 DEF Walk
  <2>3. /\ next.token = name /\ next.told = told2 /\ next.kept = kept2 /\ next.gone = gone2 /\ next.back = back2
        /\ next.pc = (IF name = NoToken THEN "done" ELSE "paging")
    BY <1>1 DEF Walk
  <2>4. WalkHolds(next)
    BY <1>6, <2>3 DEF WalkHolds
  <2>5. Agrees(next, tokens')
    <3>1. CASE more
      BY <1>2, <1>3, <2>3, <3>1 DEF Agrees
    <3>2. CASE ~more
      BY <1>2, <2>3, <3>2, NoTokenAgrees
    <3> QED BY <3>1, <3>2
  <2> QED BY <1>2, <1>5, <1>7, <2>2, <2>4, <2>5, WalkMoves
<1>8. CASE old.token # NoToken /\ walk' = [walk EXCEPT ![l] = again]
  <2>1. again \in Walk
    BY <1>1 DEF Walk
  <2>2. /\ again.token = old.token /\ again.told = old.told /\ again.kept = old.kept /\ again.gone = old.gone
        /\ again.back = old.back /\ again.pc = "paging"
    BY <1>1 DEF Walk
  <2>3. WalkHolds(again)
    BY <1>1, <1>8, <2>2 DEF WalkHolds
  <2>4. Agrees(again, tokens')
    <3>1. \A k \in Shown(tokens') : k.name = old.token => k \in Shown(tokens)
      BY <1>2, <1>4
    <3> QED BY <1>1, <2>2, <3>1 DEF Agrees
  <2> QED BY <1>2, <1>5, <1>8, <2>1, <2>3, <2>4, WalkMoves
<1>9. CASE walk' = [walk EXCEPT ![l] = Listing!Idle]
  <2>1. Agrees(Listing!Idle, tokens')
    BY <1>2, IdleHolds, NoTokenAgrees
  <2> QED BY <1>2, <1>5, <1>9, <2>1, IdleHolds, WalkMoves
<1>10. \/ walk' = [walk EXCEPT ![l] = next]
       \/ old.token # NoToken /\ walk' = [walk EXCEPT ![l] = again]
       \/ walk' = [walk EXCEPT ![l] = Listing!Idle]
  <2>1. \/ walk' = [walk EXCEPT ![l] =
               [old EXCEPT !.pc = IF name = NoToken THEN "done" ELSE "paging", !.token = name, !.seen = {},
                           !.told = old.told \o items,
                           !.kept = IF old.told = <<>> THEN runs ELSE old.kept \cap runs,
                           !.gone = old.gone \cup (snapshot \ runs),
                           !.back = old.back \/ old.gone \cap runs # {}]]
        \/ walk' = [walk EXCEPT ![l] =
               IF old.token = NoToken THEN Listing!Idle ELSE [old EXCEPT !.pc = "paging", !.seen = {}]]
    BY DEF Listing!Told
  <2>2. next = [old EXCEPT !.pc = IF name = NoToken THEN "done" ELSE "paging", !.token = name, !.seen = {},
                           !.told = old.told \o items,
                           !.kept = IF old.told = <<>> THEN runs ELSE old.kept \cap runs,
                           !.gone = old.gone \cup (snapshot \ runs),
                           !.back = old.back \/ old.gone \cap runs # {}]
    OBVIOUS
  <2>3. CASE old.token = NoToken
    BY <2>1, <2>2, <2>3
  <2>4. CASE old.token # NoToken
    BY <2>1, <2>2, <2>4
  <2> QED BY <2>3, <2>4
<1> QED BY <1>7, <1>8, <1>9, <1>10

\* The snapshot and the place in it that a page is cut from, and what the client was
\* told of that snapshot before.
IsContinued(old, runs, first, S, o, kept) ==
  /\ runs \subseteq Runs /\ S \in Seq(Runs) /\ IsInjective(S) /\ o \in Nat
  /\ old.told \in Seq(Runs) /\ old.back \in BOOLEAN
  /\ Lists(old.told, kept, old.gone, old.back, S, o)
  /\ first => Shown(S) = runs /\ old.told = <<>>
  /\ ~first => old.told # <<>> /\ (old.gone = {} => old.kept \subseteq Shown(S))

LEMMA Continues ==
  ASSUME ListingInductive, NEW l \in Listers, NEW old, old = walk[l], old.pc = "reading", old.query # "job",
         NEW known, known \subseteq Runs, NEW runs, runs = Listing!Listed(old.query, old.seen, known),
         NEW first, first = (old.token = NoToken), first \/ Listing!Resolves(old.token, old.query),
         NEW cursor, cursor = tokens[Listing!Cursor(old.token)],
         NEW S, S = (IF first THEN Listing!NewestFirst(runs) ELSE cursor.snapshot),
         NEW o, o = (IF first THEN 0 ELSE cursor.offset),
         NEW kept, kept = (IF first THEN {} ELSE old.kept)
  PROVE  IsContinued(old, runs, first, S, o, kept)
<1>1. old \in Walk /\ WalkHolds(old) /\ Agrees(old, tokens) /\ tokens \in Seq(Token)
  BY WalkFacts DEF ListingInductive
<1>2. old.told \in Seq(Runs) /\ old.back \in BOOLEAN /\ old.seen \subseteq Runs
  BY <1>1 DEF Walk
<1>3. runs \subseteq Runs
  BY <1>2 DEF Listing!Listed
<1>4. CASE first
  <2>1. S = Listing!NewestFirst(runs) /\ o = 0 /\ kept = {}
    BY <1>4
  <2>2. S \in Seq(Runs) /\ IsInjective(S) /\ Shown(S) = runs /\ Lists(<<>>, {}, {}, FALSE, S, 0)
    BY <1>3, <2>1, NewestFacts
  <2>3. old.told = <<>> /\ old.gone = {} /\ old.back = FALSE
    BY <1>1, <1>2, <1>4 DEF WalkHolds
  <2>4. Lists(old.told, kept, old.gone, old.back, S, o)
    BY <2>1, <2>2, <2>3, Zenon
  <2> QED BY <1>2, <1>3, <1>4, <2>1, <2>2, <2>3, <2>4 DEF IsContinued
<1>5. CASE ~first
  <2>1. old.token \in Listing!Registered /\ cursor.query = old.query
    BY <1>5 DEF Listing!Resolves
  <2>2. cursor \in Shown(tokens) /\ cursor \in Token /\ cursor.name = old.token
    BY <1>1, <2>1, WithoutFacts
  <2>3. TokenHolds(old.told, old.kept, old.gone, old.back, cursor)
    BY <1>1, <2>2 DEF Agrees
  <2>4. S = cursor.snapshot /\ o = cursor.offset /\ kept = old.kept
    BY <1>5
  <2>5. S \in Seq(Runs) /\ o \in Nat
    BY <2>2, <2>4 DEF Token
  <2>6. IsInjective(S) /\ Lists(old.told, old.kept, old.gone, old.back, S, o)
    BY <2>1, <2>3, <2>4 DEF TokenHolds
  <2>7. old.told # <<>>
    BY <1>1, <1>5 DEF WalkHolds
  <2>8. old.gone = {} => old.kept \subseteq Shown(S)
    BY <2>6 DEF Lists
  <2> QED BY <1>2, <1>3, <1>5, <2>4, <2>5, <2>6, <2>7, <2>8 DEF IsContinued
<1> QED BY <1>4, <1>5

LEMMA FreshFacts ==
  ASSUME Listing!Unused # {}
  PROVE  Listing!Fresh \in Names /\ Listing!Fresh \notin Listing!Registered /\ ~Listing!Held(Listing!Fresh)
<1>1. Listing!Fresh \in Listing!Unused
  BY DEF Listing!Fresh
<1> QED BY <1>1 DEF Listing!Unused

\* What the registry holds besides the token of the next page.
LEMMA RegistryFacts ==
  ASSUME ListingInductive, NEW name, NEW query, NEW first \in BOOLEAN, first \/ Listing!Resolves(name, query),
         NEW registry, registry = (IF first THEN tokens ELSE Listing!Touched(name))
  PROVE  registry \in Seq(Token) /\ Shown(registry) \subseteq Shown(tokens)
<1>1. tokens \in Seq(Token)
  BY DEF ListingInductive
<1>2. CASE first
  BY <1>1, <1>2
<1>3. CASE ~first
  <2>1. name \in Listing!Registered
    BY <1>3 DEF Listing!Resolves
  <2> QED BY <1>1, <1>3, <2>1, TouchedFacts
<1> QED BY <1>2, <1>3

LEMMA ShownRuns ==
  ASSUME NEW s \in Seq(Runs)
  PROVE  Shown(s) \subseteq Runs
<1>1. DOMAIN s = 1..Len(s)
  BY LenProperties
<1> QED BY <1>1, ElementOfSeq DEF Shown

LEMMA ListRunsKeeps ==
  ASSUME ListingInductive, NEW l \in Listers, NEW known, known \subseteq Runs, Listing!ListRuns(l, known)
  PROVE  ListingInductive'
<1>w. PICK old : old = walk[l]
  OBVIOUS
<1>r. PICK runs : runs = Listing!Listed(old.query, old.seen, known)
  OBVIOUS
<1>f. PICK first \in BOOLEAN : first = (old.token = NoToken)
  OBVIOUS
<1>c. PICK cursor : cursor = tokens[Listing!Cursor(old.token)]
  OBVIOUS
<1>s. PICK S : S = IF first THEN Listing!NewestFirst(runs) ELSE cursor.snapshot
  OBVIOUS
<1>o. PICK o : o = IF first THEN 0 ELSE cursor.offset
  OBVIOUS
<1>l. PICK left : left = Listing!Left(runs, S)
  OBVIOUS
<1>i. PICK items : items = Listing!Page(left, o)
  OBVIOUS
<1>x. PICK next : next = o + Len(items)
  OBVIOUS
<1>m. PICK more \in BOOLEAN : more <=> next < Len(left)
  OBVIOUS
<1>g. PICK registry : registry = IF first THEN tokens ELSE Listing!Touched(old.token)
  OBVIOUS
<1>t. PICK token : token = [name |-> Listing!Fresh, query |-> old.query, snapshot |-> S, offset |-> next, after |-> 0]
  OBVIOUS
<1>1. old.pc = "reading" /\ old.query # "job" /\ Listing!Unused # {}
  BY <1>w DEF Listing!ListRuns
<1>2. CASE first \/ Listing!Resolves(old.token, old.query)
  <2>1. /\ Listing!Told(l, items, IF more THEN token.name ELSE NoToken, runs, Listing!ToSet(S))
        /\ tokens' = IF more THEN Listing!Issued(registry, token) ELSE registry
    BY <1>2, <1>w, <1>r, <1>f, <1>c, <1>s, <1>o, <1>l, <1>i, <1>x, <1>m, <1>g, <1>t
    DEF Listing!ListRuns, Listing!More
  <2>k. PICK kept : kept = IF first THEN {} ELSE old.kept
    OBVIOUS
  <2>d. PICK told2 : told2 = old.told \o items
    OBVIOUS
  <2>q. PICK kept2 : kept2 = IF old.told = <<>> THEN runs ELSE old.kept \cap runs
    OBVIOUS
  <2>n. PICK gone2 : gone2 = old.gone \cup (Shown(S) \ runs)
    OBVIOUS
  <2>b. PICK back2 \in BOOLEAN : back2 = (old.back \/ old.gone \cap runs # {})
    OBVIOUS
  <2>2. /\ runs \subseteq Runs /\ S \in Seq(Runs) /\ IsInjective(S) /\ o \in Nat
        /\ old.told \in Seq(Runs) /\ old.back \in BOOLEAN
        /\ Lists(old.told, kept, old.gone, old.back, S, o)
        /\ first => Shown(S) = runs /\ old.told = <<>>
        /\ ~first => old.told # <<>> /\ (old.gone = {} => old.kept \subseteq Shown(S))
    <3>1. IsContinued(old, runs, first, S, o, kept)
      BY <1>1, <1>2, <1>w, <1>r, <1>f, <1>c, <1>s, <1>o, <2>k, Continues
    <3> QED BY <3>1 DEF IsContinued
  <2>3. gone2 = {} => kept2 \subseteq Shown(S)
    BY <2>2, <2>q, <2>n
  <2>4. /\ told2 \in Seq(Runs) /\ next \in Nat /\ Lists(told2, kept2, gone2, back2, S, next)
        /\ next < Len(left) => told2 # <<>>
        /\ ~(next < Len(left)) /\ gone2 = {} => kept2 \subseteq Shown(told2)
    <3>t. PICK told \in Seq(Runs) : told = old.told
      BY <2>2
    <3>g. PICK gone : gone = old.gone
      OBVIOUS
    <3>b. PICK back \in BOOLEAN : back = old.back
      BY <2>2
    <3>1. Lists(told, kept, gone, back, S, o)
      BY <2>2, <3>t, <3>g, <3>b
    <3>2. told2 = told \o items /\ gone2 = gone \cup (Shown(S) \ runs) /\ back2 = (back \/ gone \cap runs # {})
      BY <2>d, <2>n, <2>b, <3>t, <3>g, <3>b
    <3>3. IsCut(S, o, told, kept, gone, back, runs, left, items, next, told2, kept2, gone2, back2)
      BY <1>l, <1>i, <1>x, <2>2, <2>3, <3>1, <3>2, <3>t, <3>b DEF IsCut
    <3>4. IsTold(S, o, told, kept, gone, back, runs, left, items, next, told2, kept2, gone2, back2)
      BY <3>3, ListPage
    <3> QED BY <3>4 DEF IsTold
  <2>6. registry \in Seq(Token) /\ Shown(registry) \subseteq Shown(tokens)
    BY <1>2, <1>f, <1>g, RegistryFacts
  <2>7. token.name \in Names /\ token.name \notin Listing!Registered /\ ~Listing!Held(token.name)
    BY <1>1, <1>t, FreshFacts
  <2>8. old.query \in Listing!Queries
    <3>1. old \in Walk
      BY <1>w, WalkFacts
    <3> QED BY <3>1 DEF Walk
  <2>9. token \in Token
    BY <1>t, <2>2, <2>4, <2>7, <2>8 DEF Token
  <2>10. TokenHolds(told2, kept2, gone2, back2, token)
    BY <1>1, <1>t, <2>2, <2>4 DEF TokenHolds
  <2>11. ~back2 => IsInjective(told2)
    BY <2>4 DEF Lists
  <2>12. Shown(S) \subseteq Runs
    BY <2>2, ShownRuns
  <2>13. Listing!ToSet(S) = Shown(S)
    BY DEF Listing!ToSet, Shown
  <2>14. IsAnswer(l, old, registry, token, more, items, runs, Shown(S), told2, kept2, gone2, back2)
    BY <1>1, <1>w, <1>m, <2>1, <2>2, <2>4, <2>6, <2>7, <2>9, <2>10, <2>11, <2>12, <2>13, <2>d, <2>q, <2>n, <2>b
    DEF IsAnswer
  <2> QED BY <2>14, AnswerKeeps
<1>3. CASE ~(first \/ Listing!Resolves(old.token, old.query))
  <2>1. walk' = [walk EXCEPT ![l] = Listing!Idle] /\ tokens' = tokens
    BY <1>3, <1>w, <1>f DEF Listing!ListRuns, Listing!Refused
  <2> QED BY <2>1, StartsAfresh
<1> QED BY <1>2, <1>3

\* Where Core's pages of a Job's runs go on, and what the client was told before.
IsJobContinued(old, after, there, kept) ==
  /\ old.told \in Seq(Runs) /\ after \in Nat /\ JobTells(old.told, {}, after)
  /\ kept \subseteq there /\ \A r \in kept : r <= after => r \in Shown(old.told)

LEMMA JobContinues ==
  ASSUME ListingInductive, NEW l \in Listers, NEW old, old = walk[l], old.pc = "reading",
         NEW first, first = (old.token = NoToken), first \/ Listing!Resolves(old.token, "job"),
         NEW cursor, cursor = tokens[Listing!Cursor(old.token)],
         NEW after, after = (IF first THEN 0 ELSE cursor.after),
         NEW there, there = Listing!InCore,
         NEW kept2, kept2 = (IF old.told = <<>> THEN there ELSE old.kept \cap there)
  PROVE  IsJobContinued(old, after, there, kept2)
<1>1. old \in Walk /\ WalkHolds(old) /\ Agrees(old, tokens) /\ tokens \in Seq(Token)
  BY WalkFacts DEF ListingInductive
<1>2. old.told \in Seq(Runs)
  BY <1>1 DEF Walk
<1>3. kept2 \subseteq there /\ there \subseteq Runs
  BY DEF Listing!InCore
<1>4. CASE first
  <2>1. old.told = <<>> /\ after = 0
    BY <1>1, <1>4 DEF WalkHolds
  <2>2. DOMAIN <<>> = {}
    OBVIOUS
  <2>3. JobTells(old.told, {}, after)
    BY <2>1, <2>2 DEF JobTells, Ascending
  <2>4. ASSUME NEW r \in kept2 PROVE ~(r <= after)
    <3>1. r \in Runs
      BY <1>3
    <3>2. r \in Nat \ {0}
      BY <3>1, RequestAssumption
    <3> QED BY <2>1, <3>2
  <2> QED BY <1>2, <1>3, <2>1, <2>3, <2>4 DEF IsJobContinued
<1>5. CASE ~first
  <2>1. old.token \in Listing!Registered /\ cursor.query = "job"
    BY <1>5 DEF Listing!Resolves
  <2>2. cursor \in Shown(tokens) /\ cursor \in Token /\ cursor.name = old.token
    BY <1>1, <2>1, WithoutFacts
  <2>3. TokenHolds(old.told, old.kept, old.gone, old.back, cursor)
    BY <1>1, <2>2 DEF Agrees
  <2>4. after \in Nat /\ after = cursor.after
    BY <1>5, <2>2 DEF Token
  <2>5. JobTells(old.told, old.kept, after)
    BY <2>1, <2>3, <2>4 DEF TokenHolds
  <2>6. old.told # <<>>
    BY <1>1, <1>5 DEF WalkHolds
  <2>7. kept2 \subseteq old.kept
    BY <2>6
  <2> QED BY <1>2, <1>3, <2>4, <2>5, <2>7 DEF JobTells, IsJobContinued
<1> QED BY <1>4, <1>5

LEMMA ListJobRunsKeeps ==
  ASSUME ListingInductive, NEW l \in Listers, Listing!ListJobRuns(l)
  PROVE  ListingInductive'
<1>w. PICK old : old = walk[l]
  OBVIOUS
<1>h. PICK there : there = Listing!InCore
  OBVIOUS
<1>f. PICK first \in BOOLEAN : first = (old.token = NoToken)
  OBVIOUS
<1>c. PICK cursor : cursor = tokens[Listing!Cursor(old.token)]
  OBVIOUS
<1>a. PICK after : after = IF first THEN 0 ELSE cursor.after
  OBVIOUS
<1>l. PICK left : left = Listing!OldestFirst({r \in there : r > after})
  OBVIOUS
<1>i. PICK items : items = Listing!Page(left, 0)
  OBVIOUS
<1>m. PICK more \in BOOLEAN : more <=> Len(items) < Len(left)
  OBVIOUS
<1>g. PICK registry : registry = IF first THEN tokens ELSE Listing!Touched(old.token)
  OBVIOUS
<1>t. PICK token : token = [name |-> Listing!Fresh, query |-> "job", snapshot |-> <<>>, offset |-> 0,
                          after |-> Listing!Last(items)]
  OBVIOUS
<1>1. old.pc = "reading" /\ old.query = "job" /\ Listing!Unused # {}
  BY <1>w DEF Listing!ListJobRuns
<1>2. CASE first \/ Listing!Resolves(old.token, "job")
  <2>1. /\ Listing!Told(l, items, IF more THEN token.name ELSE NoToken, there, {})
        /\ tokens' = IF more THEN Listing!Issued(registry, token) ELSE registry
    BY <1>2, <1>w, <1>h, <1>f, <1>c, <1>a, <1>l, <1>i, <1>m, <1>g, <1>t
    DEF Listing!ListJobRuns, Listing!More
  <2>d. PICK told2 : told2 = old.told \o items
    OBVIOUS
  <2>q. PICK kept2 : kept2 = IF old.told = <<>> THEN there ELSE old.kept \cap there
    OBVIOUS
  <2>n. PICK gone2 : gone2 = old.gone \cup ({} \ there)
    OBVIOUS
  <2>b. PICK back2 \in BOOLEAN : back2 = (old.back \/ old.gone \cap there # {})
    OBVIOUS
  <2>2. /\ old.told \in Seq(Runs) /\ after \in Nat /\ JobTells(old.told, {}, after)
        /\ kept2 \subseteq there /\ \A r \in kept2 : r <= after => r \in Shown(old.told)
    <3>1. IsJobContinued(old, after, there, kept2)
      BY <1>1, <1>2, <1>w, <1>f, <1>c, <1>a, <1>h, <2>q, JobContinues
    <3> QED BY <3>1 DEF IsJobContinued
  <2>3. there \subseteq Runs
    BY <1>h DEF Listing!InCore
  <2>4. IsJobCut(old.told, after, there, left, items, told2, kept2)
    BY <1>l, <1>i, <2>d, <2>2, <2>3 DEF IsJobCut
  <2>5. IsJobTold(old.told, after, there, left, items, told2, kept2)
    BY <2>4, JobPage
  <2>6. registry \in Seq(Token) /\ Shown(registry) \subseteq Shown(tokens)
    BY <1>2, <1>f, <1>g, RegistryFacts
  <2>7. token.name \in Names /\ token.name \notin Listing!Registered /\ ~Listing!Held(token.name)
    BY <1>1, <1>t, FreshFacts
  <2>8. told2 \in Seq(Runs) /\ IsInjective(told2)
    <3>1. told2 \in Seq(Runs) /\ Ascending(told2)
      BY <2>5 DEF IsJobTold
    <3> QED BY <3>1, AscendingOnce
  <2>9. ASSUME more PROVE token \in Token /\ told2 # <<>> /\ TokenHolds(told2, kept2, gone2, back2, token)
    <3>1. told2 # <<>> /\ Listing!Last(items) \in Nat /\ JobTells(told2, kept2, Listing!Last(items))
      BY <1>m, <2>5, <2>9 DEF IsJobTold
    <3>2. "job" \in Listing!Queries /\ <<>> \in Seq(Runs) /\ 0 \in Nat
      BY DEF Listing!Queries
    <3> QED BY <1>t, <2>7, <3>1, <3>2 DEF Token, TokenHolds
  <2>10. ~more => kept2 \subseteq Shown(told2)
    BY <1>m, <2>5 DEF IsJobTold
  <2>11. IsAnswer(l, old, registry, token, more, items, there, {}, told2, kept2, gone2, back2)
    BY <1>1, <1>w, <2>1, <2>3, <2>6, <2>7, <2>8, <2>9, <2>10, <2>d, <2>q, <2>n, <2>b DEF IsAnswer
  <2> QED BY <2>11, AnswerKeeps
<1>3. CASE ~(first \/ Listing!Resolves(old.token, "job"))
  <2>1. walk' = [walk EXCEPT ![l] = Listing!Idle] /\ tokens' = tokens
    BY <1>3, <1>w, <1>f DEF Listing!ListJobRuns, Listing!Refused
  <2> QED BY <2>1, StartsAfresh
<1> QED BY <1>2, <1>3

-----------------------------------------------------------------------------
(* Every walk *)

LEMMA ListingStart ==
  ASSUME Listing!Init
  PROVE  ListingInductive
<1>1. tokens \in Seq(Token) /\ Shown(tokens) = {}
  BY DEF Listing!Init, Shown
<1>2. walk = [l \in Listers |-> Listing!Idle]
  BY DEF Listing!Init
<1> QED BY <1>1, <1>2, IdleHolds DEF ListingInductive, Agrees

LEMMA ListingStep ==
  ASSUME ListingInductive, Listing!Next \/ UNCHANGED listing
  PROVE  ListingInductive'
<1>1. CASE tokens' = tokens /\ walk' = walk
  BY <1>1 DEF ListingInductive, Agrees, WalkHolds, TokenHolds, Shown
<1>2. ASSUME NEW l \in Listers, NEW query \in Listing!Queries, Listing!Ask(l, query) PROVE ListingInductive'
  BY <1>2, ListingAskKeeps
<1>3. ASSUME NEW l \in Listers, Listing!AskNext(l) PROVE ListingInductive'
  BY <1>3, AskNextKeeps
<1>4. ASSUME NEW l \in Listers, NEW known \in {Listing!InCore, {}}, Listing!ListRuns(l, known) PROVE ListingInductive'
  <2>1. known \subseteq Runs
    BY DEF Listing!InCore
  <2> QED BY <1>4, <2>1, ListRunsKeeps
<1>5. ASSUME NEW l \in Listers, Listing!ListJobRuns(l) PROVE ListingInductive'
  BY <1>5, ListJobRunsKeeps
<1>6. ASSUME NEW l \in Listers, Listing!GiveUp(l) PROVE ListingInductive'
  BY <1>6, StartsAfresh DEF Listing!GiveUp
<1>7. ASSUME NEW r \in Runs, Listing!Create(r) \/ Listing!End(r) \/ Listing!Delete(r) \/ Listing!Record(r)
      PROVE  ListingInductive'
  BY <1>1, <1>7 DEF Listing!Create, Listing!End, Listing!Delete, Listing!Record
<1>8. ASSUME NEW name \in Names, Listing!Expire(name) PROVE ListingInductive'
  BY <1>8, ExpireKeeps
<1>9. ASSUME Listing!Restart PROVE ListingInductive'
  BY <1>9, ListingRestartKeeps
<1>10. CASE UNCHANGED listing
  BY <1>1, <1>10 DEF listing
<1>11. CASE Listing!Next
  BY <1>2, <1>3, <1>4, <1>5, <1>6, <1>7, <1>8, <1>9, <1>11 DEF Listing!Next
<1> QED BY <1>10, <1>11

LEMMA ListingsHold == RequestSpec => []ListingInductive
<1>1. RequestInit => ListingInductive
  BY ListingStart DEF RequestInit
<1>2. ListingInductive /\ [RequestNext]_RequestVars => ListingInductive'
  BY ListingStep DEF RequestNext, RequestVars
<1> QED BY <1>1, <1>2, PTL DEF RequestSpec

\* No run appears twice in one walk through a listing, for any number of runs, clients
\* and tokens and any page size, unless one that was missing from a page is back
\* (page of pagination.py, list_runs and list_job_runs).
THEOREM NoRunIsListedTwice == RequestSpec => []NoRunTwice
<1>1. ListingInductive => NoRunTwice
  BY DEF ListingInductive, WalkHolds, IsInjective, NoRunTwice, Listing!NoRunTwice, Listing!IsInjective
<1> QED BY <1>1, ListingsHold, PTL

\* A walk that reached its end has shown every run that stayed, unless one of its
\* snapshot was missing from a page (page of pagination.py, list_runs, list_job_runs).
THEOREM EveryKeptRunIsListed == RequestSpec => []KeptRunsAreListed
<1>1. ListingInductive => KeptRunsAreListed
  BY DEF ListingInductive, WalkHolds, Shown, KeptRunsAreListed, Listing!KeptRunsAreListed, Listing!ToSet
<1> QED BY <1>1, ListingsHold, PTL
=============================================================================
