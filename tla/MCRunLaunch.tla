------------------------------- MODULE MCRunLaunch -------------------------------
(***************************************************************************)
(* Instances of RunLaunch for TLC.                                         *)
(***************************************************************************)
EXTENDS RunLaunch, TLC

\* Values and keys are interchangeable.
Symmetry == Permutations(Keys) \cup Permutations(Values)

\* The values of a field are interchangeable: the Job may as well start with the same one everywhere.
SameAtFirst == job.revision = 1 => \A f \in Fields : job.configuration[f] = CHOOSE v \in Values : TRUE
=============================================================================
