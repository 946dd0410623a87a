----------------------------- MODULE MCAuditLog -----------------------------
(***************************************************************************)
(* Small instances of AuditDossier and ChainIntegrity for TLC.  A behaviour*)
(* is one of four parts: local writers with failing writes and crashes     *)
(* ("write"), the same beside a reader ("read"), writers of an S3 bucket   *)
(* of which one at a time is in a call ("s3"), and a verifier over a chain *)
(* at rest ("integrity").                                                  *)
(***************************************************************************)
EXTENDS AuditDossier, ChainIntegrity, TLC

CONSTANTS t1, t2, t3, l1, l2, e1, e2, e3, e4, r1

VARIABLE part

S3 == INSTANCE AuditChain WITH Backend <- "s3", Faults <- {"crash", "upload"}

AllVars == <<dossierVars, integrityVars, part>>

Busy == {t \in Threads : pc[t] # "idle"}

ReadEvents == 3      \* events written beside a reader
ReadThreads == 2     \* threads in a call beside a reader


AuditInit ==
  /\ DossierInit
  /\ IntegrityInit
  /\ part \in {"write", "read", "s3", "integrity"}

AuditNext ==
  \/ /\ part = "write"
     /\ Next
     /\ UNCHANGED <<readerVars, integrityVars, part>>
  \/ /\ part = "read"
     /\ DossierNext
     /\ Cardinality(issued') <= ReadEvents
     /\ Cardinality(Busy') <= ReadThreads
     /\ UNCHANGED <<integrityVars, part>>
  \/ /\ part = "s3"
     /\ S3!Next
     /\ Serial'
     /\ UNCHANGED <<readerVars, integrityVars, part>>
  \/ /\ part = "integrity"
     /\ IntegrityNext
     /\ UNCHANGED <<dossierVars, part>>

AuditSpec == AuditInit /\ [][AuditNext]_AllVars

Symmetry ==
  Permutations(Threads) \cup Permutations(Loggers) \cup Permutations(Events)
=============================================================================
