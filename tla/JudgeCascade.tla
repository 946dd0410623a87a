---------------------------- MODULE JudgeCascade ----------------------------
(***************************************************************************)
(* src/aiobs/evals/decision.py: a decision judge in front of a fallback    *)
(* evaluator, and chapters/ch13/cascade_judge.py, which scores samples     *)
(* with one.  evaluate is taken apart where it touches last_decision and   *)
(* last_escalated, which callers on several threads share when they share  *)
(* an evaluator.  Probabilities and scores are in percent.                 *)
(***************************************************************************)
EXTENDS Integers, Sequences, FiniteSets, FiniteSetsExt

CONSTANTS
  Callers,     \* threads, each with samples of its own
  Samples,     \* what may be judged: [answer, fallback]
  MaxSamples,  \* samples per caller
  AcceptThresholds

VARIABLES
  accept_threshold,
  evaluator,     \* the evaluator each caller uses
  last_decision, \* per evaluator
  last_escalated,
  todo,          \* the samples each caller has left
  step,          \* where its call of evaluate is
  mine,          \* what the call holds in its local variables
  results,       \* what its calls returned
  refused        \* the calls that raised

cascadeVars == <<accept_threshold, evaluator, last_decision, last_escalated,
                 todo, step, mine, results, refused>>

Labels == {"supported", "hallucinated"}
Threshold == 60

ASSUME SamplesOK ==
  /\ \A s \in Samples :
       s.fallback \in -50..150 /\ s.answer.probabilities \in [Labels -> Int]
  /\ AcceptThresholds \subseteq 50..100

-----------------------------------------------------------------------------
(* Decision: what a judge may answer is checked when it is built, against  *)
(* a tolerance for rounded distributions.                                  *)
Confidence(d) == Max({d.probabilities[l] : l \in Labels})

\* Mutant: the distribution is taken on trust.
UncheckedDecision(d) == d.label \in Labels

ValidDecision(d) ==
  /\ LET total == d.probabilities["supported"] + d.probabilities["hallucinated"]
     IN  total - 100 \in -2..2
  /\ d.label \in Labels
  /\ d.probabilities[d.label] = Confidence(d)

(* MockDecisionJudge: the overlap of the words in quarters, on a logistic  *)
(* curve that is rounded; half is "supported".                             *)
Curve == <<0, 5, 50, 95, 100>>
MockDecision(quarters) ==
  LET first == Curve[quarters + 1]
  IN  [label |-> IF first >= 100 - first THEN "supported" ELSE "hallucinated",
       probabilities |-> [l \in Labels |-> IF l = "supported" THEN first ELSE 100 - first]]

NoDecision == [label |-> "none", probabilities |-> [l \in Labels |-> 0]]
Nothing == [sample |-> << >>, decision |-> NoDecision, score |-> 0]

-----------------------------------------------------------------------------
(* evaluate_with_cascade makes an evaluator for itself; others may share.  *)
CascadeInit ==
  /\ accept_threshold \in AcceptThresholds
  /\ evaluator \in [Callers -> Callers]
  /\ \A c \in Callers : evaluator[evaluator[c]] = evaluator[c]
  /\ last_decision = [c \in Callers |-> NoDecision]
  /\ last_escalated = [c \in Callers |-> FALSE]
  /\ todo \in [Callers -> UNION {[1..n -> Samples] : n \in 1..MaxSamples}]
  /\ step = [c \in Callers |-> "idle"]
  /\ mine = [c \in Callers |-> Nothing]
  /\ results = [c \in Callers |-> << >>]
  /\ refused = [c \in Callers |-> 0]

\* Mutant: the decision is kept on the class.
OfClass(c) == CHOOSE d \in Callers : TRUE

Of(c) == evaluator[c]

(* score asks the judge; an answer that is no decision raises.             *)
Decide(c) ==
  /\ step[c] = "idle"
  /\ todo[c] # << >>
  /\ todo' = [todo EXCEPT ![c] = Tail(@)]
  /\ LET sample == Head(todo[c])
     IN  IF ValidDecision(sample.answer)
         THEN /\ mine' = [mine EXCEPT ![c] =
                  [sample |-> sample, decision |-> sample.answer, score |-> 0]]
              /\ last_decision' = [last_decision EXCEPT ![Of(c)] = sample.answer]
              /\ step' = [step EXCEPT ![c] = "decided"]
              /\ UNCHANGED refused
         ELSE /\ refused' = [refused EXCEPT ![c] = @ + 1]
              /\ UNCHANGED <<mine, last_decision, step>>
  /\ UNCHANGED <<accept_threshold, evaluator, last_escalated, results>>

NoteEscalation(c) ==
  /\ step[c] = "decided"
  /\ last_escalated' = [last_escalated EXCEPT
       ![Of(c)] = Confidence(mine[c].decision) < accept_threshold]
  /\ step' = [step EXCEPT ![c] = "noted"]
  /\ UNCHANGED <<accept_threshold, evaluator, last_decision, todo, mine, results, refused>>

(* It reads the attribute again to choose the judge whose score it takes.  *)
TakeScore(c) ==
  /\ step[c] = "noted"
  /\ mine' = [mine EXCEPT ![c].score =
       IF last_escalated[Of(c)] THEN mine[c].sample.fallback
       ELSE mine[c].decision.probabilities["supported"]]
  /\ step' = [step EXCEPT ![c] = "scored"]
  /\ UNCHANGED <<accept_threshold, evaluator, last_decision, last_escalated, todo, results, refused>>

Clamp(score) == Min({100, Max({0, score})})

(* evaluate builds the detail from what the evaluator holds by then, and   *)
(* evaluate_with_cascade derives the verdict from the result.              *)
ReportResult(c) ==
  /\ step[c] = "scored"
  /\ LET decision == last_decision[Of(c)]
         score == Clamp(mine[c].score)
         escalated == last_escalated[Of(c)]
         verdict == IF escalated
                    THEN IF score >= Threshold THEN "supported" ELSE "hallucinated"
                    ELSE decision.label
     IN  results' = [results EXCEPT ![c] = Append(@,
           [sample |-> mine[c].sample, score |-> score, passed |-> score >= Threshold,
            probabilities |-> decision.probabilities, confidence |-> Confidence(decision),
            escalated |-> escalated, verdict |-> verdict])]
  /\ step' = [step EXCEPT ![c] = "idle"]
  /\ mine' = [mine EXCEPT ![c] = Nothing]
  /\ UNCHANGED <<accept_threshold, evaluator, last_decision, last_escalated, todo, refused>>

CascadeNext == \E c \in Callers : Decide(c) \/ NoteEscalation(c) \/ TakeScore(c) \/ ReportResult(c)

CascadeSpec == CascadeInit /\ [][CascadeNext]_cascadeVars

-----------------------------------------------------------------------------
(* The report over a caller's samples, and the fees of the two judges.     *)
Escalated(c) == {i \in DOMAIN results[c] : results[c][i].escalated}

\* In thousandths of a dollar per 1,000 judgments, times the samples.
Fees(c) == 44 * Len(results[c]) + 12182 * Cardinality(Escalated(c))

-----------------------------------------------------------------------------
(* Properties                                                              *)

Alone(c) == \A d \in Callers \ {c} : evaluator[d] # evaluator[c]

(* A caller that shares its evaluator with nobody gets, for each sample, a *)
(* result about that sample: the distribution is the judge's for it; it is *)
(* escalated exactly if that is not confident enough, and then the score   *)
(* is the fallback's; and a verdict accepted at a threshold above the pass *)
(* mark agrees with the score that is stored beside it.  Whoever shares,   *)
(* what is stored as a distribution is one, and the cascade costs a caller *)
(* less than the generative judge alone unless more than 99 samples in a   *)
(* hundred escalated.                                                      *)
ResultsAreOwn ==
  \A c \in Callers : \A i \in DOMAIN results[c] : LET r == results[c][i] IN
    /\ \/ 100 * Cardinality(Escalated(c)) > 99 * Len(results[c])
       \/ Fees(c) < 12182 * Len(results[c])
    /\ r.probabilities["supported"] + r.probabilities["hallucinated"] - 100 \in -2..2
    /\ r.score \in 0..100
    /\ Alone(c) =>
         /\ r.probabilities = r.sample.answer.probabilities
         /\ r.escalated = (r.confidence < accept_threshold)
         /\ r.score = Clamp(IF r.escalated THEN r.sample.fallback
                            ELSE r.sample.answer.probabilities["supported"])
         /\ accept_threshold > Threshold => (r.verdict = "supported") = r.passed
=============================================================================
