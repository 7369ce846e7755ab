----------------------------- MODULE MCJobPreparation -----------------------------
(***************************************************************************)
(* Instances of JobPreparation for TLC.                                    *)
(***************************************************************************)
EXTENDS JobPreparation, TLC

\* Handlers, configurations, keys of updates and the Jobs that are created are interchangeable.
Symmetry ==
  Permutations(Handlers) \cup Permutations(Configurations) \cup Permutations(UpdateKeys)
    \cup Permutations(Jobs \ Prepared)

InUse(operations) ==
  \/ \E op \in operations : receipt[op] # NoReceipt
  \/ \E h \in Handlers : handler[h].pc # "idle" /\ handler[h].op \in operations

Twice == \A op \in Updates : InUse({op})

\* Bound of the run: a behaviour either creates a Job or updates a prepared one, and then either two
\* keys change it, one handler at a time, or one key and its other supervisor.
OneKindOfRequest ==
  \/ /\ ~InUse(Updates)
     /\ \A j \in Prepared : job[j].revision = 1
  \/ /\ ~InUse(Operations \ Updates)
     /\ Twice => /\ \A j \in Prepared : job[j].revision = 1 + Cardinality({op \in Updates : applied[op] # 0})
                 /\ Cardinality({h \in Handlers : handler[h].pc # "idle"}) <= 1
=============================================================================
