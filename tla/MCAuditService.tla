--------------------------- MODULE MCAuditService ---------------------------
(* Instances of AuditService for TLC.                                        *)
EXTENDS AuditService, TLC

ThreadSymmetry == Permutations(Threads)
=============================================================================
