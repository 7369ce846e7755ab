------------------------------ MODULE MCJobReplies ------------------------------
(***************************************************************************)
(* TLC instance of JobReplies: two requests, two Jobs of which one changes,*)
(* and an answer that one of the requests relays.                          *)
(***************************************************************************)
EXTENDS JobReplies, TLC

\* The requests are interchangeable.
Symmetry == Permutations(Requests)

Untouched(j) ==
  /\ \A a \in Actors : At(a, "idle") \/ Job(a) # j
  /\ ~Has(base, j) /\ ~Has(context, j)

\* Bound of the instance: an answer is relayed beside nothing else, after the only request.
RelayedAlone ==
  \/ \A t \in Requests : Relaying(t, "none")
  \/ /\ asked = 1 /\ \A j \in Jobs : core[j] = [version |-> 1, deleted |-> FALSE] /\ At(j, "idle")
     /\ \A entry \in Range(base) \cup Range(context) : entry.age = "fresh"

\* Bound of the instance: where a Job is deleted, the other one is left alone.
DeletedAlone == \A j \in Jobs : core[j].deleted => \A k \in Jobs \ {j} : Untouched(k)
=============================================================================
