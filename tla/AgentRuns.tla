------------------------------ MODULE AgentRuns ------------------------------
(***************************************************************************)
(* src/aiobs/agents.py and the agent runs of testing/scenarios.py: a run   *)
(* is a flat list of steps, and its failures are read off the shape of it, *)
(* at any time, while steps are still added.                               *)
(***************************************************************************)
EXTENDS Integers, Sequences, FiniteSets, FiniteSetsExt, Functions

CONSTANTS
  AgentSteps,   \* steps that may be added: [agent, action, tokens]
  Repeats,      \* threshold of detect_step_repetition, 3 in the code
  StepCeiling,  \* max_steps of detect_missing_termination, 20 in the code
  TokenBudget,  \* token_budget of classify, 100,000 in the code
  TightBudget,  \* TOKEN_BUDGET of chapter 16, 20,000
  MaxAgentRuns, MaxAdded  \* bounds on the runs, and on the steps added to them

(* No threshold is above what the scenario it is for does.                 *)
ASSUME AgentRunsOK ==
  /\ \A s \in AgentSteps : s.tokens \in Nat
  /\ Repeats \in 2..12 /\ StepCeiling \in 1..25
  /\ TightBudget \in Nat \ {0} /\ TokenBudget \in Nat /\ TokenBudget >= TightBudget
  /\ MaxAgentRuns \in Nat /\ MaxAdded \in Nat

VARIABLES
  runs,      \* the runs, each with the scenario it began as
  tripped   \* the modes each was ever found to trip, by budget

agentVars == <<runs, tripped>>

AgentStep(agent, action, tokens) == [agent |-> agent, action |-> action, tokens |-> tokens]

(* Actions are numbered.                                                   *)
ScenarioSteps(key) ==
  CASE key = "silent_retry_loop" -> [i \in 1..12 |-> AgentStep("researcher", 0, 4200)]
    [] key = "no_termination" -> [i \in 1..25 |-> AgentStep("summarizer", i, 800)]
    [] key = "unverified_output" -> <<AgentStep("planner", 0, 500), AgentStep("executor", 1, 700)>>
    [] OTHER -> << >>

Scenarios == {"silent_retry_loop", "no_termination", "unverified_output", "none"}

Budgets == {TokenBudget, TightBudget}

-----------------------------------------------------------------------------
(* The detectors                                                           *)

TotalOf(run) == SumFunction([i \in DOMAIN run.steps |-> run.steps[i].tokens])

HandoffDepth(run) ==
  Cardinality({i \in 2..Len(run.steps) : run.steps[i].agent # run.steps[i - 1].agent})

SameStep(run, i, j) ==
  run.steps[i].agent = run.steps[j].agent /\ run.steps[i].action = run.steps[j].action

\* Mutant: only steps in a row are counted.
RepetitionInARow(run) ==
  \E i \in 1..(Len(run.steps) - Repeats + 1) : \A k \in 1..(Repeats - 1) : SameStep(run, i, i + k)

DetectStepRepetition(run) ==
  \E i \in DOMAIN run.steps :
    Cardinality({j \in DOMAIN run.steps : SameStep(run, i, j)}) >= Repeats

DetectMissingTermination(run) == ~run.terminated /\ Len(run.steps) >= StepCeiling
DetectMissingVerification(run) == run.terminated /\ ~run.verified
DetectUnboundedConsumption(run, budget) == TotalOf(run) > budget

Classify(run, budget) ==
  {m \in {"FM-1.1", "FM-1.3", "FM-1.5", "FM-3.2"} :
    CASE m = "FM-1.1" -> DetectUnboundedConsumption(run, budget)
      [] m = "FM-1.3" -> DetectStepRepetition(run)
      [] m = "FM-1.5" -> DetectMissingTermination(run)
      [] OTHER -> DetectMissingVerification(run)}

(* failure_vector classifies at the default budget.                        *)
FailureVector(mode) ==
  Cardinality({i \in DOMAIN runs : mode \in Classify(runs[i], TokenBudget)})

-----------------------------------------------------------------------------
AgentInit == runs = << >> /\ tripped = << >>

BeginRun(key) ==
  /\ Len(runs) < MaxAgentRuns
  /\ runs' = Append(runs, [scenario |-> key, steps |-> ScenarioSteps(key),
                           terminated |-> key = "unverified_output", verified |-> FALSE])
  /\ tripped' = Append(tripped, [b \in Budgets |-> {}])

Added == SumFunction([i \in DOMAIN runs |->
  Len(runs[i].steps) - Len(ScenarioSteps(runs[i].scenario))])

AddStep(i, step) ==
  /\ Added < MaxAdded
  /\ runs' = [runs EXCEPT ![i].steps = Append(@, step)]
  /\ UNCHANGED tripped

(* The caller declares the run complete, or its result checked.            *)
MarkTerminated(i) == runs' = [runs EXCEPT ![i].terminated = TRUE] /\ UNCHANGED tripped
MarkVerified(i) == runs' = [runs EXCEPT ![i].verified = TRUE] /\ UNCHANGED tripped

ClassifyRun(i, budget) ==
  /\ tripped' = [tripped EXCEPT ![i][budget] = @ \cup Classify(runs[i], budget)]
  /\ UNCHANGED runs

AgentNext ==
  \/ \E key \in Scenarios : BeginRun(key)
  \/ \E i \in DOMAIN runs :
       \/ \E step \in AgentSteps : AddStep(i, step)
       \/ MarkTerminated(i)
       \/ MarkVerified(i)
       \/ \E b \in Budgets : ClassifyRun(i, b)

AgentSpec == AgentInit /\ [][AgentNext]_agentVars

-----------------------------------------------------------------------------
(* Properties                                                              *)

AgentsOf(run) == {run.steps[i].agent : i \in DOMAIN run.steps}
KindsOf(run) == {<<run.steps[i].agent, run.steps[i].action>> : i \in DOMAIN run.steps}

(* No agent outruns its alarm: agents that take turns repeat themselves as *)
(* visibly as one does alone, so that a run with more steps than Repeats-1 *)
(* of each kind is caught; what was found once, a repetition or an         *)
(* overrun, is found for good, and is in the failure vector if it was      *)
(* found at the default budget; a run at the ceiling is on no list only if *)
(* it is complete and checked; each scenario is caught by the detector it  *)
(* names until that is answered; and control passed at least once to every *)
(* agent but the first.                                                    *)
FailuresClassified ==
  /\ \A i \in DOMAIN runs : LET run == runs[i] IN
       /\ Len(run.steps) > (Repeats - 1) * Cardinality(KindsOf(run)) =>
            "FM-1.3" \in Classify(run, TokenBudget)
       /\ \A b \in Budgets : (tripped[i][b] \cap {"FM-1.1", "FM-1.3"}) \subseteq Classify(run, b)
       /\ "FM-1.5" \in tripped[i][TokenBudget] =>
            run.terminated \/ "FM-1.5" \in Classify(run, TokenBudget)
       /\ Len(run.steps) >= StepCeiling /\ Classify(run, TokenBudget) = {} =>
            run.terminated /\ run.verified
       /\ CASE run.scenario = "silent_retry_loop" -> "FM-1.3" \in Classify(run, TightBudget)
            [] run.scenario = "no_termination" ->
                 run.terminated \/ "FM-1.5" \in Classify(run, TightBudget)
            [] run.scenario = "unverified_output" ->
                 run.verified \/ "FM-3.2" \in Classify(run, TightBudget)
            [] OTHER -> TRUE
       /\ run.steps # << >> => HandoffDepth(run) \in (Cardinality(AgentsOf(run)) - 1)..(Len(run.steps) - 1)
  /\ \A m \in {"FM-1.1", "FM-1.3"} :
       Cardinality({i \in DOMAIN runs : m \in tripped[i][TokenBudget]}) <= FailureVector(m)
=============================================================================
