-------------------------- MODULE FeedbackCapture --------------------------
(***************************************************************************)
(* FeedbackCapture.capture (Chapter 14, feedback_capture.py): writes what  *)
(* a reviewer did to the audit log, and admits some of it to a training    *)
(* dataset.                                                                *)
(*                                                                         *)
(* The datasets are in the process that captures, which may die; the log   *)
(* outlives it and may raise, before or after it recorded.  The log is the *)
(* abstract AuditLog that AuditChain implements.                           *)
(***************************************************************************)
EXTENDS Naturals, Sequences, FiniteSets

CONSTANTS
  Captures,     \* FeedbackCapture objects
  NoDataset,
  Reviews,      \* what reviewers may have decided
  MaxRecords,   \* bound on the oversight records written
  LogFaults     \* "crash": the process dies; "raise", "lost": append raises
                \* without, or after, having recorded

INFORMATIVE_OUTCOMES == {"modify", "override"}

(* Two reviews of one recommendation may be the same.  decided_at may      *)
(* precede assigned_at: both are the caller's.                             *)
OversightActions ==
  [outcome : {"uphold"} \cup INFORMATIVE_OUTCOMES, fit_for_training : BOOLEAN,
   decided : {"after", "before"}]

ASSUME CaptureConstantsOK ==
  /\ NoDataset \notin Captures
  /\ Reviews \subseteq OversightActions
  /\ MaxRecords \in Nat
  /\ LogFaults \subseteq {"crash", "raise", "lost"}

VARIABLES
  dataset,   \* the dataset each capture writes to, named for its creator
  records,   \* FeedbackDataset.records of every dataset
  capture,   \* the call of capture in progress on each object
  slot,      \* the position append gave its event plus one, 0 before that
  answered,  \* the <<dataset, event>> of each call that returned, in order
  oversight, \* the audit log of oversight_action events
  told       \* the <<position, event>> pairs append has returned

auditLog == <<oversight, told>>
feedbackVars == <<dataset, records, capture, slot, answered, auditLog>>

Audit == INSTANCE AuditLog WITH
           Events <- Reviews, log <- oversight, acked <- told

FeedbackInit ==
  /\ dataset = [c \in Captures |-> NoDataset]
  /\ records = [d \in Captures |-> << >>]
  /\ capture = [c \in Captures |-> << >>]
  /\ slot = [c \in Captures |-> 0]
  /\ answered = << >>
  /\ Audit!Init

(* dataset or FeedbackDataset(): one that is still empty is falsy, and the  *)
(* capture makes its own instead.                                          *)
Adopted(given, c) ==
  IF given # NoDataset /\ records[given] # << >> THEN given ELSE c

(* A capture is given no dataset, or the one another capture writes to.    *)
Open(c) ==
  /\ dataset[c] = NoDataset
  /\ \E given \in {dataset[other] : other \in Captures} :
       dataset' = [dataset EXCEPT ![c] = Adopted(given, c)]
  /\ UNCHANGED <<records, capture, slot, answered, auditLog>>

Busy(c) == capture[c] # << >>

(* to_payload raises before anything is written when a decision precedes   *)
(* its assignment; such an action never gets further.                      *)
Capture(c, a) ==
  /\ dataset[c] # NoDataset
  /\ ~Busy(c)
  /\ a.decided = "after"
  /\ capture' = [capture EXCEPT ![c] = <<a>>]
  /\ UNCHANGED <<dataset, records, slot, answered, auditLog>>

PassesGates(a) == a.outcome \in INFORMATIVE_OUTCOMES /\ a.fit_for_training

Room == Cardinality(DOMAIN oversight) < MaxRecords

EndCapture(c) ==
  /\ capture' = [capture EXCEPT ![c] = << >>]
  /\ slot' = [slot EXCEPT ![c] = 0]

Appending(c) == Busy(c) /\ slot[c] = 0

AppendAudit(c) ==
  /\ Appending(c)
  /\ Room
  /\ Audit!Record(capture[c][1])
  /\ \E n \in DOMAIN oversight' \ DOMAIN oversight :
       slot' = [slot EXCEPT ![c] = n + 1]
  /\ UNCHANGED <<dataset, records, capture, answered>>

\* Mutant: the gates stand in a finally block.
AppendRaisesFinally(c) ==
  /\ Appending(c)
  /\ \/ "raise" \in LogFaults /\ UNCHANGED auditLog
     \/ "lost" \in LogFaults /\ Room /\ Audit!Record(capture[c][1])
  /\ records' = IF PassesGates(capture[c][1])
                THEN [records EXCEPT ![dataset[c]] = Append(@, capture[c][1])]
                ELSE records
  /\ EndCapture(c)
  /\ UNCHANGED <<dataset, answered>>

(* The exception leaves capture before the gates.                          *)
AppendRaises(c) ==
  /\ Appending(c)
  /\ \/ "raise" \in LogFaults /\ UNCHANGED auditLog
     \/ "lost" \in LogFaults /\ Room /\ Audit!Record(capture[c][1])
  /\ EndCapture(c)
  /\ UNCHANGED <<dataset, records, answered>>

\* Mutant: every override is a correction.
LearnedUnvouched(c) ==
  LET a == capture[c][1] IN
  IF a.outcome \in INFORMATIVE_OUTCOMES
  THEN [records EXCEPT ![dataset[c]] = Append(@, a)] ELSE records

Learned(c) ==
  LET a == capture[c][1] IN
  IF PassesGates(a) THEN [records EXCEPT ![dataset[c]] = Append(@, a)] ELSE records

AdmitAndReturn(c) ==
  /\ Busy(c)
  /\ slot[c] > 0
  /\ Audit!Answer(slot[c] - 1)
  /\ records' = Learned(c)
  /\ answered' = Append(answered, <<dataset[c], capture[c][1]>>)
  /\ EndCapture(c)
  /\ UNCHANGED <<dataset>>

(* The process dies with its datasets.                                     *)
FeedbackCrash ==
  /\ "crash" \in LogFaults
  /\ dataset' = [c \in Captures |-> NoDataset]
  /\ records' = [d \in Captures |-> << >>]
  /\ capture' = [c \in Captures |-> << >>]
  /\ slot' = [c \in Captures |-> 0]
  /\ answered' = << >>
  /\ UNCHANGED auditLog

FeedbackNext ==
  \/ \E c \in Captures, a \in Reviews : Capture(c, a)
  \/ \E c \in Captures :
       Open(c) \/ AppendAudit(c) \/ AppendRaises(c) \/ AdmitAndReturn(c)
  \/ FeedbackCrash

FeedbackSpec == FeedbackInit /\ [][FeedbackNext]_feedbackVars

-----------------------------------------------------------------------------
(* Properties                                                              *)

(* Every variable has its type, and a call has a position in the log only  *)
(* while it runs.                                                          *)
CaptureTypeOK ==
  /\ dataset \in [Captures -> Captures \cup {NoDataset}]
  /\ records \in [Captures -> Seq(Reviews)]
  /\ capture \in [Captures -> {<<a>> : a \in Reviews} \cup {<< >>}]
  /\ slot \in [Captures -> Nat]
  /\ \A c \in Captures : slot[c] > 0 => Busy(c) /\ slot[c] - 1 \in DOMAIN oversight
  /\ answered \in Seq(Captures \X Reviews)

(* What may be learned from is audited: no action is in the datasets more  *)
(* often than the log holds it, although appends fail, lose their answer   *)
(* and are tried again, and captures share a dataset.                      *)
LearnedIsAudited ==
  \A a \in Reviews :
    Cardinality({x \in {<<d, i>> : d \in Captures, i \in 1..MaxRecords} :
                   x[2] \in DOMAIN records[x[1]] /\ records[x[1]][x[2]] = a})
      <= Cardinality({n \in DOMAIN oversight : oversight[n] = a})

(* A dataset holds exactly the informative actions vouched for by a human  *)
(* whose capture returned, once for each return and in that order: a call  *)
(* that raised taught nothing, and a retried one teaches once.             *)
Lessons(returned, d, n) ==
  {k \in 1..n : /\ returned[k][1] = d
                /\ returned[k][2].outcome # "uphold"
                /\ returned[k][2].fit_for_training}

LearnedOncePerAnswer ==
  \A d \in Captures :
    LET lessons == Lessons(answered, d, Len(answered))
    IN  /\ Len(records[d]) = Cardinality(lessons)
        /\ \A k \in lessons :
             records[d][Cardinality(Lessons(answered, d, k))] = answered[k][2]

(* Both: what a model may learn from is on the record, and taught once.    *)
LearningAccountable == LearnedIsAudited /\ LearnedOncePerAnswer
=============================================================================
