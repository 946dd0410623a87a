----------------------------- MODULE CostBudget -----------------------------
(***************************************************************************)
(* CostBreaker (Chapter 16, extra_breakers.py): check(estimate) before a   *)
(* call, record(actual) after it.  The two are the caller's to pair, so a  *)
(* call made from inside another one checks before the outer one has       *)
(* recorded.  Money is in whole units.                                     *)
(***************************************************************************)
EXTENDS Naturals, Sequences

CONSTANTS
  Budget,       \* budget_usd
  Estimates,    \* what a call may be estimated at
  Overspend,    \* how far an actual cost may exceed its estimate
  MaxDepth,     \* bound on calls inside one another
  MaxSpent      \* bound on what is spent in one run

ASSUME BudgetConstantsOK ==
  /\ Budget \in Nat \ {0}
  /\ Estimates \subseteq Nat
  /\ \E dearest \in Estimates : \A e \in Estimates : e <= dearest
  /\ Overspend \in Nat
  /\ MaxDepth \in Nat
  /\ MaxSpent \in Nat

VARIABLES
  spent_usd,
  open,        \* the estimates of the calls in progress, the innermost last
  deepest,     \* the most calls in progress at once since the last reset
  excess       \* what actual costs exceeded their estimates by since then

budgetVars == <<spent_usd, open, deepest, excess>>

BudgetInit ==
  /\ spent_usd = 0
  /\ open = << >>
  /\ deepest = 0
  /\ excess = 0

\* Mutant: the budget is checked for what was spent, not for the call.
FitsSpent(estimate) == spent_usd <= Budget

Fits(estimate) == spent_usd + estimate <= Budget

(* A check that raises changes nothing, and the call is not made.          *)
CheckCost(estimate) ==
  /\ Len(open) < MaxDepth
  /\ Fits(estimate)
  /\ open' = Append(open, estimate)
  /\ deepest' = IF Len(open') > deepest THEN Len(open') ELSE deepest
  /\ UNCHANGED <<spent_usd, excess>>

EndCall == open' = SubSeq(open, 1, Len(open) - 1)

RecordCost(actual) ==
  /\ open # << >>
  /\ actual <= open[Len(open)] + Overspend
  /\ spent_usd + actual <= MaxSpent
  /\ spent_usd' = spent_usd + actual
  /\ excess' = IF actual > open[Len(open)] THEN excess + actual - open[Len(open)]
                                           ELSE excess
  /\ EndCall
  /\ UNCHANGED <<deepest>>

(* The call raises and is never recorded.                                  *)
CallRaises ==
  /\ open # << >>
  /\ EndCall
  /\ UNCHANGED <<spent_usd, deepest, excess>>

(* A new run.  Calls of the old one may still be in progress, and will     *)
(* record what they cost.                                                  *)
ResetCost ==
  /\ spent_usd' = 0
  /\ deepest' = Len(open)
  /\ excess' = 0
  /\ UNCHANGED <<open>>

CostNext ==
  \/ \E estimate \in Estimates : CheckCost(estimate)
  \/ \E actual \in 0..MaxSpent : RecordCost(actual)
  \/ CallRaises
  \/ ResetCost

CostSpec == BudgetInit /\ [][CostNext]_budgetVars

-----------------------------------------------------------------------------
(* Properties                                                              *)

(* Every variable has its type, and nesting is not deeper than recorded.   *)
CostTypeOK ==
  /\ spent_usd \in Nat
  /\ open \in Seq(Estimates)
  /\ Len(open) <= deepest
  /\ deepest \in Nat
  /\ excess \in Nat

Dearest == CHOOSE m \in Estimates : \A e \in Estimates : e <= m

(* "Checking afterwards means the budget is always exceeded by exactly one *)
(* call": checking before, calls that do not overlap and cost what was     *)
(* estimated never exceed it.  A run exceeds it by no more than what the   *)
(* estimates left out and one dearest call for each level of nesting.      *)
OverrunBounded ==
  LET levels == IF deepest = 0 THEN 0 ELSE deepest - 1
  IN  spent_usd <= Budget + excess + levels * Dearest
=============================================================================
