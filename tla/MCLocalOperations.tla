--------------------------- MODULE MCLocalOperations ---------------------------
(***************************************************************************)
(* Instances of LocalOperations for TLC.                                   *)
(***************************************************************************)
EXTENDS LocalOperations, TLC

\* Calls, request fingerprints, proposed options, Core identities and clients are interchangeable.
Symmetry == Permutations(Calls) \cup Permutations(Requests)
              \cup Permutations(Options) \cup Permutations(Core) \cup Permutations(Streams)

InUse(ops) ==
  \/ \E op \in ops : entry[op] # NoEntry \/ (op \in Durable /\ journal[op] # NoJournal)
  \/ \E c \in Calls : call[c].op \in ops
  \/ \E s \in Streams : stream[s].op \in ops

\* Bound of the streams: a behaviour has durable operations, or those kept only in memory.
OneSort == ~InUse(Durable) \/ ~InUse(Volatile \cup Core)
=============================================================================
