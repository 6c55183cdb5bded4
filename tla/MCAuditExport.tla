---------------------------- MODULE MCAuditExport ----------------------------
(* A small instance of AuditExport: two callers, three rows of either length, *)
(* two exports in either format.                                              *)
EXTENDS AuditExport, TLC

Symmetry == Permutations(Procs)
=============================================================================
