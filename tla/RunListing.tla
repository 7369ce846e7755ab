------------------------------ MODULE RunListing ------------------------------
(***************************************************************************)
(* Listings of runs and their pages: the registry of continuation tokens   *)
(* of mn_api/pagination.py, and the listings of routes/v1/jobs.py over it. *)
(*                                                                         *)
(* GET /runs merges what Core answers with the records kept on this        *)
(* computer, sorts them newest first and continues along the snapshot of   *)
(* the first page.  GET /jobs/{id}/runs continues where Core's own page    *)
(* ended.  Runs come, end and are deleted between two pages and between    *)
(* the two reads of one page; a reply is lost and its page asked again;    *)
(* tokens expire, are evicted, or are lost with the process.               *)
(*                                                                         *)
(* Runs are numbered in the order of their creation.  A token's name is    *)
(* random, so a name is used again here once nobody holds it.              *)
(***************************************************************************)
EXTENDS Naturals, Sequences, SequencesExt, FiniteSets

CONSTANTS
  Runs,        \* numbers of the runs, 1..n
  Listers,     \* clients that walk through a listing
  Names,       \* names of tokens
  PageSize,
  Capacity,    \* PageTokenRegistry's maximum
  NoToken

VARIABLES
  core,      \* Core's record of each run
  local,     \* its record in the run store of this computer
  tokens,    \* the registry, least recently used first
  walk       \* each client's walk

vars == <<core, local, tokens, walk>>

Queries == {"all", "unfinished", "job"}

\* The request's position in its walk and what the client got so far:
\* told, in order; kept, the runs every page of the walk could have shown; gone,
\* the runs of the snapshot that were missing from a page; and whether one of
\* those was back for a later page.
Idle == [pc |-> "idle", query |-> "all", token |-> NoToken, seen |-> {}, told |-> <<>>, kept |-> {},
         gone |-> {}, back |-> FALSE]

Init ==
  /\ core = [r \in Runs |-> "none"]
  /\ local = [r \in Runs |-> "none"]
  /\ tokens = <<>>
  /\ walk = [l \in Listers |-> Idle]

-----------------------------------------------------------------------------
(* The registry *)

Held(name) == \E l \in Listers : walk[l].token = name
Registered == {tokens[i].name : i \in DOMAIN tokens}
Cursor(name) == (CHOOSE i \in DOMAIN tokens : tokens[i].name = name)
Without(name) == RemoveAt(tokens, Cursor(name))

\* resolve: the token is known, was issued for this route, principal and filters,
\* and becomes the most recently used.
Resolves(name, query) == name \in Registered /\ tokens[Cursor(name)].query = query
Touched(name) == Append(Without(name), tokens[Cursor(name)])

\* issue: the least recently used token makes room.
Issued(registry, token) ==
  LET all == Append(registry, token)
  IN  IF Len(all) > Capacity THEN Tail(all) ELSE all

\* A token's time is over, and the next call of the registry drops it.
Expire(name) ==
  /\ name \in Registered
  /\ tokens' = Without(name)
  /\ UNCHANGED <<core, local, walk>>

-----------------------------------------------------------------------------
(* One page *)

\* _all_runs: Core's record wins; a run only this computer knows is history, whose
\* status is unknown unless it ended.
InCore == {r \in Runs : core[r] \in {"live", "ended"}}
Ended(r, known) == IF r \in known THEN core[r] = "ended" ELSE local[r] = "ended"

\* list_runs: the filter applies to the merged records.
Listed(query, seen, known) ==
  {r \in seen \cup known : query = "unfinished" => ~Ended(r, known)}

\* A choice, of which more can be proved than of SetToSortSeq.
OldestFirst(numbers) ==
  CHOOSE s \in [1..Cardinality(numbers) -> numbers] : \A i, j \in DOMAIN s : i < j => s[i] < s[j]

NewestFirst(runs) == Reverse(OldestFirst(runs))

\* Mutant of Left: the next page is cut from the runs as they are sorted now.
LeftAfresh(runs, snapshot) == NewestFirst(runs)

\* page: the snapshot's runs that are still there, in its order.
Left(runs, snapshot) ==
  LET places == OldestFirst({i \in DOMAIN snapshot : snapshot[i] \in runs})
  IN  [k \in DOMAIN places |-> snapshot[places[k]]]

Page(left, offset) ==
  SubSeq(left, offset + 1, IF offset + PageSize < Len(left) THEN offset + PageSize ELSE Len(left))

\* Mutant of More: the last run is taken for the end.
MoreButOne(left, next) == next + 1 < Len(left)

More(left, next) == next < Len(left)

\* Names nobody has. Names are random and never run out (a bound of the model).
Unused == {name \in Names : name \notin Registered /\ ~Held(name)}
Fresh == CHOOSE name \in Unused : TRUE

\* The reply reaches the client, or it is lost and the client keeps its old token.
Told(l, items, token, runs, snapshot) ==
  LET old == walk[l]
      told == [old EXCEPT !.pc = IF token = NoToken THEN "done" ELSE "paging", !.token = token, !.seen = {},
                          !.told = old.told \o items,
                          !.kept = IF old.told = <<>> THEN runs ELSE old.kept \cap runs,
                          !.gone = old.gone \cup (snapshot \ runs),
                          !.back = old.back \/ old.gone \cap runs # {}]
      lost == IF old.token = NoToken THEN Idle ELSE [old EXCEPT !.pc = "paging", !.seen = {}]
  IN  \/ walk' = [walk EXCEPT ![l] = told]
      \/ walk' = [walk EXCEPT ![l] = lost]

Refused(l) == walk' = [walk EXCEPT ![l] = Idle]

\* The first request of a walk, and the next with the token of the last reply.
\* list_local_runs is read before Core is asked for the runs of each Job.
Ask(l, query) ==
  /\ walk[l].pc = "idle"
  /\ walk' = [walk EXCEPT ![l] = [Idle EXCEPT !.pc = "reading", !.query = query,
                                              !.seen = {r \in Runs : local[r] # "none"}]]
  /\ UNCHANGED <<core, local, tokens>>

AskNext(l) ==
  /\ walk[l].pc = "paging"
  /\ walk' = [walk EXCEPT ![l] = [@ EXCEPT !.pc = "reading", !.seen = {r \in Runs : local[r] # "none"}]]
  /\ UNCHANGED <<core, local, tokens>>

\* list_runs: Core answers, or a Job's owner or Core itself cannot be read and its
\* runs are missing from the answer.
ListRuns(l, known) ==
  LET asked == walk[l]
      runs == Listed(asked.query, asked.seen, known)
      first == asked.token = NoToken
      cursor == tokens[Cursor(asked.token)]
      snapshot == IF first THEN NewestFirst(runs) ELSE cursor.snapshot
      offset == IF first THEN 0 ELSE cursor.offset
      left == Left(runs, snapshot)
      items == Page(left, offset)
      next == offset + Len(items)
      more == More(left, next)
      registry == IF first THEN tokens ELSE Touched(asked.token)
      token == [name |-> Fresh, query |-> asked.query, snapshot |-> snapshot, offset |-> next, after |-> 0]
  IN  /\ asked.pc = "reading" /\ asked.query # "job" /\ Unused # {}
      /\ IF first \/ Resolves(asked.token, asked.query)
           THEN /\ Told(l, items, IF more THEN token.name ELSE NoToken, runs, ToSet(snapshot))
                /\ tokens' = IF more THEN Issued(registry, token) ELSE registry
           ELSE Refused(l) /\ UNCHANGED tokens
      /\ UNCHANGED <<core, local>>

\* _upstream_page: Core's own page after the last one, oldest first.
ListJobRuns(l) ==
  LET asked == walk[l]
      first == asked.token = NoToken
      after == IF first THEN 0 ELSE tokens[Cursor(asked.token)].after
      left == OldestFirst({r \in InCore : r > after})
      items == Page(left, 0)
      more == More(left, Len(items))
      registry == IF first THEN tokens ELSE Touched(asked.token)
      token == [name |-> Fresh, query |-> "job", snapshot |-> <<>>, offset |-> 0, after |-> Last(items)]
  IN  /\ asked.pc = "reading" /\ asked.query = "job" /\ Unused # {}
      /\ IF first \/ Resolves(asked.token, "job")
           THEN /\ Told(l, items, IF more THEN token.name ELSE NoToken, InCore, {})
                /\ tokens' = IF more THEN Issued(registry, token) ELSE registry
           ELSE Refused(l) /\ UNCHANGED tokens
      /\ UNCHANGED <<core, local>>

\* The request raises, or the client gives up its walk.
GiveUp(l) ==
  /\ walk[l].pc # "idle"
  /\ walk' = [walk EXCEPT ![l] = Idle]
  /\ UNCHANGED <<core, local, tokens>>

-----------------------------------------------------------------------------
(* The rest of the world *)

Create(r) ==
  /\ core[r] = "none"
  /\ \A q \in Runs : q < r => core[q] # "none"
  /\ core' = [core EXCEPT ![r] = "live"]
  /\ UNCHANGED <<local, tokens, walk>>

End(r) ==
  /\ core[r] = "live"
  /\ core' = [core EXCEPT ![r] = "ended"]
  /\ UNCHANGED <<local, tokens, walk>>

\* delete_run
Delete(r) ==
  /\ core[r] \in {"live", "ended"}
  /\ core' = [core EXCEPT ![r] = "deleted"]
  /\ UNCHANGED <<local, tokens, walk>>

\* The run's record is written or replicated here, some time after Core's.
Record(r) ==
  /\ core[r] \in {"live", "ended"}
  /\ local[r] # core[r]
  /\ local' = [local EXCEPT ![r] = core[r]]
  /\ UNCHANGED <<core, tokens, walk>>

\* Requests in progress end; the clients keep their tokens.
Restart ==
  /\ tokens' = <<>>
  /\ walk' = [l \in Listers |-> IF walk[l].pc = "reading" THEN Idle ELSE walk[l]]
  /\ UNCHANGED <<core, local>>

Next ==
  \/ \E l \in Listers :
       \/ \E query \in Queries : Ask(l, query)
       \/ AskNext(l)
       \/ \E known \in {InCore, {}} : ListRuns(l, known)
       \/ ListJobRuns(l)
       \/ GiveUp(l)
  \/ \E r \in Runs : Create(r) \/ End(r) \/ Delete(r) \/ Record(r)
  \/ \E name \in Names : Expire(name)
  \/ Restart

Spec == Init /\ [][Next]_vars

-----------------------------------------------------------------------------
(* Properties *)

\* No run appears twice in one walk through a listing, whatever is created or
\* deleted between its pages, and however often a page is asked again, unless a run
\* that was missing from a page (its Job's owner did not answer) is back for a later
\* one: it moves the runs behind it past the offset again.
NoRunTwice == \A l \in Listers : ~walk[l].back => IsInjective(walk[l].told)

\* A walk that reached its end has shown every run that all its pages could have
\* shown, unless a run of its snapshot was missing from one of them (a deleted run,
\* or an owner that did not answer, moves the offset past another one).
KeptRunsAreListed ==
  \A l \in Listers :
    walk[l].pc = "done" /\ walk[l].gone = {} => walk[l].kept \subseteq ToSet(walk[l].told)
=============================================================================
