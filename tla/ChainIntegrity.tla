--------------------------- MODULE ChainIntegrity ---------------------------
(***************************************************************************)
(* verify_chain (chapters/ch12/verify_chain.py) over a chain at rest: one  *)
(* logger wrote it, stored objects were then edited, lost or misplaced,    *)
(* and the verifier scans what it reads back, record by record.            *)
(***************************************************************************)
EXTENDS AuditRecords, SequencesExt

CONSTANTS
  MaxRecords,    \* bound on the records written
  MaxChanges     \* bound on the changes made to them at rest

ASSUME IntegrityConstantsOK == MaxRecords \in Nat /\ MaxChanges \in Nat

VARIABLES
  written,       \* the chain as AuditLogger wrote it
  stored,        \* the chain as the store holds it now
  changes,       \* changes made so far
  phase,         \* "writing", "scanning" or "done"
  index,         \* the record the scan looks at next
  expected,      \* the verifier's expected_prev
  unverifiable   \* VerificationResult.unverifiable

integrityVars == <<written, stored, changes, phase, index, expected, unverifiable>>
scanVars == <<phase, index, expected, unverifiable>>

IntegrityInit ==
  /\ written = << >>
  /\ stored = << >>
  /\ changes = 0
  /\ phase = "writing"
  /\ index = 1
  /\ expected = Genesis
  /\ unverifiable = << >>

(* One complete append of the only logger.                                 *)
AppendRecord(e) ==
  /\ phase = "writing"
  /\ changes = 0
  /\ Len(written) < MaxRecords
  /\ LET prev == ExpectedPrev(written, Len(written) + 1)
         body == [sequence |-> Len(written), event |-> e]
         record == [sequence |-> body.sequence, event |-> e,
                    prev_hash |-> prev, record_hash |-> HashRecord(body, prev)]
     IN written' = Append(written, record)
  /\ stored' = written'
  /\ UNCHANGED <<changes, scanVars>>

(* An object's payload is edited, an object is lost, the contents of two   *)
(* keys are exchanged.                                                     *)
Edited(i, e) == [stored EXCEPT ![i].event = e]

Exchanged(i, j) == [stored EXCEPT ![i] = stored[j], ![j] = stored[i]]

Change ==
  /\ phase = "writing"
  /\ changes < MaxChanges
  /\ \E i \in 1..Len(stored) :
       \/ \E e \in Events \ {stored[i].event} : stored' = Edited(i, e)
       \/ \E j \in 1..Len(stored) \ {i} : stored' = Exchanged(i, j)
       \/ stored' = RemoveAt(stored, i)
  /\ changes' = changes + 1
  /\ UNCHANGED <<written, scanVars>>

BeginScan ==
  /\ phase = "writing"
  /\ phase' = "scanning"
  /\ UNCHANGED <<written, stored, changes, index, expected, unverifiable>>

\* Mutant: only the links are checked, no digest is recomputed.
LinksOnly(r, prev) == r.prev_hash = prev

(* The link and the recomputed digest of one record.                       *)
RecordVerifies(r, prev) == Sound(r, prev)

\* Mutant: only the record that breaks the chain is reported.
OnlyTheBreak(i) == <<stored[i].sequence>>

(* records[index:], the record that breaks the chain and every later one.  *)
Cascade(i) == [k \in 1..(Len(stored) - i + 1) |-> stored[i + k - 1].sequence]

ScanRecord ==
  /\ phase = "scanning"
  /\ \/ /\ index > Len(stored)
        /\ phase' = "done"
        /\ UNCHANGED <<index, expected, unverifiable>>
     \/ /\ index <= Len(stored)
        /\ RecordVerifies(stored[index], expected)
        /\ expected' = stored[index].record_hash
        /\ index' = index + 1
        /\ UNCHANGED <<phase, unverifiable>>
     \/ /\ index <= Len(stored)
        /\ ~RecordVerifies(stored[index], expected)
        /\ unverifiable' = Cascade(index)
        /\ phase' = "done"
        /\ UNCHANGED <<index, expected>>
  /\ UNCHANGED <<written, stored, changes>>

IntegrityNext ==
  \/ \E e \in Events : AppendRecord(e)
  \/ Change
  \/ BeginScan
  \/ ScanRecord

IntegritySpec == IntegrityInit /\ [][IntegrityNext]_integrityVars

-----------------------------------------------------------------------------
(* Properties                                                              *)

Changed == {i \in 1..Len(stored) : stored[i] # written[i]}

(* "Altering record 3 invalidates 3 and everything after it": whatever was *)
(* edited, lost or exchanged, digests not recomputed, the verifier reports *)
(* exactly the records from the first position that is not as it was       *)
(* written.  A verified chain is a prefix of the written one (a lost tail  *)
(* is not noticed).                                                        *)
CascadeFromFirstChange ==
  phase = "done" =>
    IF Changed = {}
    THEN unverifiable = << >>
    ELSE \E first \in Changed :
           /\ \A i \in Changed : first <= i
           /\ unverifiable = [k \in 1..(Len(stored) - first + 1) |->
                                stored[first + k - 1].sequence]
=============================================================================
