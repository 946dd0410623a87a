--------------------------- MODULE MCAuditDossier ---------------------------
(* Small instances of AuditDossier for TLC.                                *)
EXTENDS AuditDossier, TLC

CONSTANTS t1, t2, l1, l2, e1, e2, e3, r1

Symmetry ==
  Permutations(Threads) \cup Permutations(Loggers) \cup Permutations(Events)
=============================================================================
