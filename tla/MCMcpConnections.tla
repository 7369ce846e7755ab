---------------------------- MODULE MCMcpConnections ----------------------------
(***************************************************************************)
(* Instances of McpConnections for TLC.                                    *)
(***************************************************************************)
EXTENDS McpConnections, TLC

\* Handlers are interchangeable.
Symmetry == Permutations(Handlers)
=============================================================================
