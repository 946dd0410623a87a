--------------------------- MODULE GovernanceGate ---------------------------
(***************************************************************************)
(* The publish checkpoint of Chapter 17 (governance_checkpoint.py) inside  *)
(* a checkpointed graph: a run pauses at interrupt(), callers resume it    *)
(* with a reviewer's answer, and the node checks the role, joins the       *)
(* reviewer to the responsibility chain, writes the audit record and       *)
(* returns the state update that the checkpointer then saves.              *)
(*                                                                         *)
(* A caller may die between any two of these steps, and nothing stops two  *)
(* callers from resuming the same paused run.  The audit log is the        *)
(* abstract AuditLog that AuditChain implements.                           *)
(***************************************************************************)
EXTENDS Naturals, Sequences, FiniteSets

CONSTANTS
  Runs,          \* graph runs (thread ids)
  Resumers,      \* processes that invoke the graph
  Reviewers,     \* named humans
  NoReviewer,    \* the empty reviewer name
  Roles,         \* roles a caller may claim
  ApproverRoles, \* roles that may clear the checkpoint
  Decisions,     \* strings a caller may resume with, besides "reject"
  MaxRecords,    \* bound on the oversight records written
  CallFaults     \* "crash": a caller dies; "raise": append raises;
                 \* "lost": append records and then raises

ASSUME GateConstantsOK ==
  /\ ApproverRoles \subseteq Roles
  /\ "reject" \notin Decisions
  /\ NoReviewer \notin Reviewers
  /\ Resumers \cap (Reviewers \cup {NoReviewer}) = {}
  /\ MaxRecords \in Nat
  /\ CallFaults \subseteq {"crash", "raise", "lost"}

ApprovalResponses ==
  [decision : Decisions \cup {"reject"},
   reviewer : Reviewers \cup {NoReviewer},
   reviewer_role : Roles]

(* An oversight_action event.  The record holds the answer; the run it is  *)
(* about and the process that wrote it are not in it and are kept here for *)
(* the properties alone.                                                   *)
OversightActions == [run : Runs, by : Resumers, response : ApprovalResponses]

(* A hop of the responsibility chain; its action is not distinguished.     *)
Hops == [actor : Resumers \cup {"publish_checkpoint"},
         principal : Resumers \cup Reviewers \cup {NoReviewer}]

VARIABLES
  run,        \* what the checkpointer holds of each run
  scope,      \* callers inside a start_chain block
  place,      \* where each caller is in the node
  call,       \* the event it is about to record, << >> outside a call
  slot,       \* the position append gave that event
  chain,      \* the ContextVar in the node's copied context
  oversight,  \* the audit log of oversight_action events
  told        \* the <<position, event>> pairs append has returned

gateVars == <<run, scope, place, call, slot, chain, oversight, told>>

Audit == INSTANCE AuditLog WITH
           Events <- OversightActions, log <- oversight, acked <- told

NewRun == [status |-> "new", reviewer |-> NoReviewer, chain |-> << >>]

GateInit ==
  /\ run = [g \in Runs |-> NewRun]
  /\ scope = {}
  /\ place = [c \in Resumers |-> "idle"]
  /\ call = [c \in Resumers |-> << >>]
  /\ slot = [c \in Resumers |-> 0]
  /\ chain = [c \in Resumers |-> << >>]
  /\ Audit!Init

-----------------------------------------------------------------------------
(* The caller's side                                                       *)

(* start_chain(actor, principal) opens or closes around the invocations.   *)
EnterScope(c) ==
  /\ place[c] = "idle"
  /\ c \notin scope
  /\ scope' = scope \cup {c}
  /\ UNCHANGED <<run, place, call, slot, chain, oversight, told>>

ExitScope(c) ==
  /\ place[c] = "idle"
  /\ c \in scope
  /\ scope' = scope \ {c}
  /\ UNCHANGED <<run, place, call, slot, chain, oversight, told>>

(* The first execution of the node ends in interrupt(); the pause is saved.*)
InvokeToInterrupt(g) ==
  /\ run[g].status = "new"
  /\ run' = [run EXCEPT ![g].status = "paused"]
  /\ UNCHANGED <<scope, place, call, slot, chain, oversight, told>>

(* Command(resume=...): the node re-executes from the top in a copy of the *)
(* caller's context, and interrupt() returns the answer.                   *)
Resume(c, g, response) ==
  /\ place[c] = "idle"
  /\ run[g].status = "paused"
  /\ place' = [place EXCEPT ![c] = "check"]
  /\ call' = [call EXCEPT ![c] = [run |-> g, by |-> c, response |-> response]]
  /\ chain' = [chain EXCEPT ![c] =
       IF c \in scope THEN <<[actor |-> c, principal |-> c]>> ELSE << >>]
  /\ UNCHANGED <<run, scope, slot, oversight, told>>

-----------------------------------------------------------------------------
(* checkpoint_node after interrupt() has returned                          *)

(* The node raises or its process dies: its context is discarded.          *)
LeaveNode(c) ==
  /\ place' = [place EXCEPT ![c] = "idle"]
  /\ call' = [call EXCEPT ![c] = << >>]
  /\ slot' = [slot EXCEPT ![c] = 0]
  /\ chain' = [chain EXCEPT ![c] = << >>]

\* Mutant: the role is recorded, not checked.
AnyRole(c) == TRUE

MayClear(c) == call[c].response.reviewer_role \in ApproverRoles

CheckRole(c) ==
  /\ place[c] = "check"
  /\ \/ /\ MayClear(c)
        /\ place' = [place EXCEPT ![c] = "delegate"]
        /\ UNCHANGED <<call, slot, chain>>
     \/ /\ ~MayClear(c)                     \* PermissionError
        /\ LeaveNode(c)
  /\ UNCHANGED <<run, scope, oversight, told>>

\* Mutant: the hop always inherits the chain's principal.
InheritedPrincipal(c) == chain[c][Len(chain[c])].principal

(* delegated_by or chain[-1].principal                                     *)
HopPrincipal(c) ==
  IF call[c].response.reviewer = NoReviewer
  THEN chain[c][Len(chain[c])].principal
  ELSE call[c].response.reviewer

Delegate(c) ==
  /\ place[c] = "delegate"
  /\ \/ /\ chain[c] = << >>                 \* ChainNotStartedError
        /\ LeaveNode(c)
     \/ /\ chain[c] # << >>
        /\ chain' = [chain EXCEPT ![c] =
             Append(@, [actor |-> "publish_checkpoint",
                        principal |-> HopPrincipal(c)])]
        /\ place' = [place EXCEPT ![c] = "append"]
        /\ UNCHANGED <<call, slot>>
  /\ UNCHANGED <<run, scope, oversight, told>>

Room == Cardinality(DOMAIN oversight) < MaxRecords

AppendAudit(c) ==
  /\ place[c] = "append"
  /\ Room
  /\ Audit!Record(call[c])
  /\ \E n \in DOMAIN oversight' \ DOMAIN oversight : slot' = [slot EXCEPT ![c] = n]
  /\ place' = [place EXCEPT ![c] = "answer"]
  /\ UNCHANGED <<run, scope, call, chain>>

\* Mutant: a failed append is logged and ignored.
AppendErrorIgnored(c) ==
  /\ "raise" \in CallFaults
  /\ place[c] = "append"
  /\ place' = [place EXCEPT ![c] = "return"]
  /\ UNCHANGED <<run, scope, call, slot, chain, oversight, told>>

(* DuplicateKeyError or a failed write: nothing recorded, the node raises. *)
AppendRaises(c) ==
  /\ "raise" \in CallFaults
  /\ place[c] = "append"
  /\ LeaveNode(c)
  /\ UNCHANGED <<run, scope, oversight, told>>

(* The record is stored and the caller sees an error all the same.         *)
AppendLost(c) ==
  /\ "lost" \in CallFaults
  /\ place[c] = "append"
  /\ Room
  /\ Audit!Record(call[c])
  /\ LeaveNode(c)
  /\ UNCHANGED <<run, scope>>

AppendReturns(c) ==
  /\ place[c] = "answer"
  /\ Audit!Answer(slot[c])
  /\ place' = [place EXCEPT ![c] = "return"]
  /\ UNCHANGED <<run, scope, call, slot, chain>>

\* Mutant: halted and published are mixed up.
OutcomeSwapped(c) ==
  [status |-> IF call[c].response.decision = "reject" THEN "published" ELSE "halted",
   reviewer |-> call[c].response.reviewer,
   chain |-> chain[c]]

(* Every decision but "reject" publishes.                                  *)
Outcome(c) ==
  [status |-> IF call[c].response.decision = "reject" THEN "halted" ELSE "published",
   reviewer |-> call[c].response.reviewer,
   chain |-> chain[c]]

(* The node returns and the checkpointer saves its update; it does not     *)
(* compare it with what another resume may have saved meanwhile.           *)
SaveUpdate(c) ==
  /\ place[c] = "return"
  /\ run' = [run EXCEPT ![call[c].run] = Outcome(c)]
  /\ LeaveNode(c)
  /\ UNCHANGED <<scope, oversight, told>>

CallerDies(c) ==
  /\ "crash" \in CallFaults
  /\ place[c] # "idle"
  /\ LeaveNode(c)
  /\ scope' = scope \ {c}
  /\ UNCHANGED <<run, oversight, told>>

NodeStep(c) ==
  \/ CheckRole(c)
  \/ Delegate(c)
  \/ AppendAudit(c)
  \/ AppendRaises(c)
  \/ AppendLost(c)
  \/ AppendReturns(c)
  \/ SaveUpdate(c)

GateNext ==
  \/ \E g \in Runs : InvokeToInterrupt(g)
  \/ \E c \in Resumers, g \in Runs, response \in ApprovalResponses :
       Resume(c, g, response)
  \/ \E c \in Resumers : EnterScope(c) \/ ExitScope(c) \/ NodeStep(c) \/ CallerDies(c)

GateSpec == GateInit /\ [][GateNext]_gateVars

-----------------------------------------------------------------------------
(* Properties                                                              *)

Answered == {"delegate", "append", "answer", "return"}   \* past the role check

(* Every variable has its type, a caller has an event exactly while it is  *)
(* in the node, and only approvers' events get past the role check.        *)
GateTypeOK ==
  /\ run \in [Runs -> [status : {"new", "paused", "published", "halted"},
                       reviewer : Reviewers \cup {NoReviewer},
                       chain : Seq(Hops)]]
  /\ scope \subseteq Resumers
  /\ place \in [Resumers -> {"idle", "check"} \cup Answered]
  /\ call \in [Resumers -> OversightActions \cup {<< >>}]
  /\ slot \in [Resumers -> Nat]
  /\ chain \in [Resumers -> Seq(Hops)]
  /\ \A c \in Resumers : place[c] = "idle" <=> call[c] = << >>
  /\ DOMAIN oversight \subseteq Nat
  /\ \A i \in DOMAIN oversight : oversight[i] \in OversightActions

(* "A rejected credential must not leave an approval trail": no record of  *)
(* the log comes from a resume with a role that may not clear the          *)
(* checkpoint, although the record is written three steps after the check. *)
NoTrailForWrongRole ==
  \A i \in DOMAIN oversight : oversight[i].response.reviewer_role \in ApproverRoles

Settled(g) == run[g].status \in {"published", "halted"}

Matches(event, g) ==
  /\ event.run = g
  /\ event.response.reviewer = run[g].reviewer
  /\ (event.response.decision = "reject") <=> (run[g].status = "halted")

(* "Written to the Chapter 12 audit log on approve and on reject alike":   *)
(* a run the checkpointer holds as published or halted has a record of     *)
(* that outcome, by that reviewer, which append acknowledged, whatever     *)
(* races, crashes and failed appends came before.                          *)
OutcomeIsRecorded ==
  \A g \in Runs : Settled(g) =>
    \E i \in DOMAIN oversight : Matches(oversight[i], g) /\ <<i, oversight[i]>> \in told

(* The saved chain starts with whoever opened the run and ends with the    *)
(* reviewer of the saved outcome, although the ContextVar is private to    *)
(* each resume; an empty reviewer name leaves the opener as the principal. *)
ChainEndsWithReviewer ==
  \A g \in Runs : Settled(g) =>
    /\ Len(run[g].chain) = 2
    /\ run[g].chain[2].principal = IF run[g].reviewer = NoReviewer
                                   THEN run[g].chain[1].principal
                                   ELSE run[g].reviewer

(* After crashes, failed appends and appends whose answer was lost, the    *)
(* newest record about a finished run is the one of its outcome, as long   *)
(* as one caller does the retrying.                                        *)
LatestRecordIsOutcome ==
  \A g \in Runs :
    LET about == {i \in DOMAIN oversight : oversight[i].run = g} IN
      /\ Settled(g)
      /\ \A i, j \in about : oversight[i].by = oversight[j].by
      => \E i \in about : Matches(oversight[i], g) /\ \A j \in about : j <= i

(* "An approval gate that accepts any resume value is a speed bump": only  *)
(* the decision "approve" publishes.                                       *)
PublishOnlyOnApprove ==
  \A c \in Resumers :
    place[c] = "return" /\ Outcome(c).status = "published"
      => call[c].response.decision = "approve"
=============================================================================
