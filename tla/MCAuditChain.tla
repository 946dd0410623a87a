---------------------------- MODULE MCAuditChain ----------------------------
(* Small instances of AuditChain for TLC.                                  *)
EXTENDS AuditChain, TLC

CONSTANTS t1, t2, t3, l1, l2, e1, e2, e3, e4

Symmetry ==
  Permutations(Threads) \cup Permutations(Loggers) \cup Permutations(Events)
=============================================================================
