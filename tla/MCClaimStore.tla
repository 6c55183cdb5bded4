---------------------------- MODULE MCClaimStore ----------------------------
(* A small instance of ClaimStore: two callers, one quarantined file, two    *)
(* bundles of one id, and one of another that is not genuine.                *)
EXTENDS ClaimStore, TLC

CONSTANTS d1, d2, d3, i1, i2

MCIdOf == [d \in Docs |-> IF d = d3 THEN i2 ELSE i1]
Symmetry == Permutations(Procs)

\* States that differ in given and spoilt alike, but not in their difference, have the
\* same future: no step and no property looks at more.
Seen == <<disk, job, succeeded, raced, broken, halved, crowded, kept, verdicts,
          [f \in Files |-> given[f] \ spoilt[f]]>>
=============================================================================
