---------------------------- MODULE SimulatorRun ----------------------------
(***************************************************************************)
(* simulator/runner.py over src/aiobs/testing/harness.py: the selected     *)
(* examples run one after the other in one process, each through the       *)
(* harness, which captures its spans and holds them to the contract of     *)
(* src/aiobs/testing/assertions.py.  What an example does with spans and   *)
(* telemetry is TelemetryCapture.                                          *)
(***************************************************************************)
EXTENDS TelemetryCapture

CONSTANTS
  Selections,  \* what select() may return: sequences of [expect_error, pillar]
  Strict       \* run(strict=...)

Pillars == {"performance", "roi", "risk", "responsibility"}

ASSUME SimulatorOK ==
  /\ Strict \in BOOLEAN
  /\ Selections \subseteq Seq([expect_error : BOOLEAN, pillar : Pillars])
  /\ \A s \in Selections : 1..Len(s) \subseteq Blocks

VARIABLES
  selected,    \* the specs of this run
  running,     \* position of the example that is running, 0 between two
  outcomes,    \* SimulationReport.outcomes
  phase        \* "run", "done" or "aborted"

runnerVars == <<selected, running, outcomes, phase>>

MODEL_INVOKING_OPERATIONS == {"chat", "text_completion", "embeddings"}

(* A span's shape: its operation ("none" outside GenAI), whether provider  *)
(* and model and both usage counts are set, whether some attribute is in   *)
(* no namespace (semconv.classify answers "unknown") or looks like PII,    *)
(* and its pillar.                                                         *)
SpanShapes ==
  [operation : MODEL_INVOKING_OPERATIONS \cup {"none", "execute_tool"},
   provider : BOOLEAN, usage : BOOLEAN, unnamespaced : BOOLEAN,
   personal : BOOLEAN, pillar : Pillars \cup {"none"}]

ASSUME ShapesOK == Shapes \subseteq SpanShapes

SimulatorInit ==
  /\ TelemetryInit
  /\ selected \in Selections
  /\ running = 0
  /\ outcomes = << >>
  /\ phase = "run"

-----------------------------------------------------------------------------
(* The contract                                                            *)

GenAISpanValid(s) ==
  /\ s.provider
  /\ s.operation \in MODEL_INVOKING_OPERATIONS => s.usage

MeetsContract(s) ==
  /\ Strict => ~s.unnamespaced /\ ~s.personal
  /\ s.operation # "none" => GenAISpanValid(s)

\* Mutant: no spans, no complaints.
CheckedEach(found) == \A i \in found : MeetsContract(spans[i].shape)

(* _check: an example that emitted no span is a violation of its own.      *)
Checked(found) ==
  found # {} /\ \A i \in found : MeetsContract(spans[i].shape)

-----------------------------------------------------------------------------
(* run                                                                     *)

Begin ==
  /\ phase = "run"
  /\ running = 0
  /\ Len(outcomes) < Len(selected)
  /\ running' = Len(outcomes) + 1
  /\ Enter(Len(outcomes) + 1)
  /\ UNCHANGED <<selected, outcomes, phase>>

(* What an example may do.  A span that is still open when its example     *)
(* ends may be ended later, by a thread it left behind.                    *)
Body ==
  /\ phase = "run"
  /\ IF running = 0
     THEN \E i \in DOMAIN spans : EndSpan(i)
     ELSE \/ SpanStep
          \/ Configure("none", TRUE)
          \/ ResetSpans
          \/ \E b \in Blocks \ (1..Len(selected)) : Enter(b) \/ Leave(b)
  /\ UNCHANGED runnerVars

Status(error, clean) ==
  IF error THEN "ERROR" ELSE IF clean THEN "PASS" ELSE "VIOLATION"

(* How the example's function ended: it returned, or it raised, which the  *)
(* harness catches whatever it is, a KeyboardInterrupt included.  An error *)
(* that was expected is not kept, an expected one that did not come is a   *)
(* violation.                                                              *)
Finish(how) ==
  /\ phase = "run"
  /\ running > 0
  /\ LET expected == selected[running].expect_error
         clean == /\ expected => how # "returned"
                  /\ Checked(FinishedSpans)
         error == how # "returned" /\ ~expected
     IN  outcomes' = Append(outcomes, [how |-> how, status |-> Status(error, clean)])
  /\ Leave(running)
  /\ running' = 0
  /\ UNCHANGED <<selected, phase>>

(* The harness itself raises, in a check or in configure: run() makes a    *)
(* result of its own with the error and no span.                           *)
HarnessRaises ==
  /\ phase = "run"
  /\ running > 0
  /\ outcomes' = Append(outcomes, [how |-> "harness", status |-> "ERROR"])
  /\ block' = [block EXCEPT ![running] = "failed"]
  /\ running' = 0
  /\ UNCHANGED <<providerVars, cached, spans, captured, disturbed, selected, phase>>

(* on_result is called outside the try: what it raises ends the run.       *)
CallbackRaises ==
  /\ phase = "run"
  /\ running = 0
  /\ outcomes # << >>
  /\ phase' = "aborted"
  /\ UNCHANGED <<telemetryVars, selected, running, outcomes>>

Report ==
  /\ phase = "run"
  /\ running = 0
  /\ Len(outcomes) = Len(selected)
  /\ phase' = "done"
  /\ UNCHANGED <<telemetryVars, selected, running, outcomes>>

SimulatorNext ==
  \/ Begin
  \/ Body
  \/ \E how \in {"returned", "raised"} : Finish(how)
  \/ HarnessRaises
  \/ CallbackRaises
  \/ Report

SimulatorSpec == SimulatorInit /\ [][SimulatorNext]_<<telemetryVars, runnerVars>>

-----------------------------------------------------------------------------
(* The report                                                              *)

Passed == {i \in DOMAIN outcomes : outcomes[i].status = "PASS"}

PillarsCovered(i) == {spans[j].shape.pillar : j \in captured[i]} \ {"none"}

Observed(p) == Cardinality({i \in DOMAIN outcomes : p \in PillarsCovered(i)})

(* aiobs-sim run: 2 for an empty selection, 0 when every example passed.   *)
ExitCode ==
  IF selected = << >> THEN 2
  ELSE IF Passed = DOMAIN outcomes THEN 0 ELSE 1

-----------------------------------------------------------------------------
(* Properties                                                              *)

KeptPromise(i) == selected[i].expect_error <=> outcomes[i].how # "returned"

OwnSpans(i) == {j \in FinishedWithin(i) : spans[j].tracer = "fresh"}

(* An example whose telemetry nobody reconfigured passes only if it ended  *)
(* as its spec says, finished a span, and each span it finished meets the  *)
(* contract, whatever the examples before it left open or configured; and  *)
(* if it ended so and does not pass, one of its own spans is to blame, or  *)
(* there is none.                                                          *)
StatusEarned(i) ==
  /\ outcomes[i].status = "PASS" =>
       /\ KeptPromise(i)
       /\ FinishedWithin(i) # {}
       /\ \A j \in OwnSpans(i) : MeetsContract(spans[j].shape)
  /\ outcomes[i].status # "PASS" /\ KeptPromise(i) =>
       OwnSpans(i) = {} \/ \E j \in FinishedWithin(i) : ~MeetsContract(spans[j].shape)

(* The report of the simulator is earned: the statuses of its outcomes, an *)
(* exit code of 0, for which every selected example ran and kept its       *)
(* promise, and the coverage, where a pillar is observed on an example     *)
(* only if a span of that example carried it.                              *)
ReportEarned ==
  /\ \A i \in DOMAIN outcomes :
       ~disturbed[i] /\ outcomes[i].how # "harness" => StatusEarned(i)
  /\ phase = "done" /\ ExitCode = 0 => \A i \in DOMAIN selected : KeptPromise(i)
  /\ \A p \in {selected[i].pillar : i \in DOMAIN selected} :
       Observed(p) <= Cardinality({i \in DOMAIN outcomes :
         \E j \in FinishedWithin(i) : spans[j].shape.pillar = p})
=============================================================================
