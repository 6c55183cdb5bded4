------------------------- MODULE MCCheckpointDrift -------------------------
(***************************************************************************)
(* Instances of CheckpointDrift for TLC.                                   *)
(***************************************************************************)
EXTENDS CheckpointDrift, TLC

CONSTANTS o1, o2, a, b

MCOperators == {o1, o2}
MCPolicies == {a, b}
MCSymmetry == Permutations(MCOperators) \cup Permutations(MCPolicies)
=============================================================================
