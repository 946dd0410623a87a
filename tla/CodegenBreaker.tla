--------------------------- MODULE CodegenBreaker ---------------------------
(***************************************************************************)
(* VerifiedCodeGenTool (Chapter 16, codegen_breaker.py): generates an      *)
(* artifact, runs every verifier on it and counts consecutive generations  *)
(* that did not pass them all.  The generator and the verifiers are given  *)
(* by the caller and may raise.                                            *)
(***************************************************************************)
EXTENDS Naturals, Sequences

CONSTANTS
  Verifiers,        \* how many there are
  FailStreakLimit,  \* fail_streak_limit
  MaxRuns           \* bound on the runs

ASSUME CodegenConstantsOK ==
  /\ Verifiers \in Nat
  /\ FailStreakLimit \in Nat \ {0}
  /\ MaxRuns \in Nat

VerificationOutcome == {"pass", "fail", "error", "skipped"}

VARIABLES
  verifying,    \* the run in progress: verifiers done, and all_passed
  fail_streak,
  verdicts,     \* "pass" or "fail" of every run that met all its verifiers
  unverified    \* artifacts returned unverified since one last passed

codegenVars == <<verifying, fail_streak, verdicts, unverified>>

NoRun == [at |-> "idle", done |-> 0, all_passed |-> "yes"]

CodegenInit ==
  /\ verifying = NoRun
  /\ fail_streak = 0
  /\ verdicts = << >>
  /\ unverified = 0

Generate ==
  /\ verifying = NoRun
  /\ Len(verdicts) < MaxRuns
  /\ verifying' = [NoRun EXCEPT !.at = "verify"]
  /\ UNCHANGED <<fail_streak, verdicts, unverified>>

(* result.outcome is not VerificationOutcome.PASS                          *)
Fails(outcome) == outcome # "pass"

Verify(outcome) ==
  /\ verifying.at = "verify"
  /\ verifying.done < Verifiers
  /\ verifying' = [verifying EXCEPT !.done = @ + 1,
                                    !.all_passed = IF Fails(outcome) THEN "no" ELSE @]
  /\ UNCHANGED <<fail_streak, verdicts, unverified>>

\* Mutant: a generation that raised starts the count afresh.
StreakForgotten == 0

(* A generation that raised, in the generator or in a verifier, has no     *)
(* verdict.                                                                *)
StreakAfterRaise == fail_streak

RunRaises ==
  /\ verifying.at = "verify"
  /\ verifying.done < Verifiers
  /\ verifying' = NoRun
  /\ fail_streak' = StreakAfterRaise
  /\ UNCHANGED <<verdicts, unverified>>

Streak == IF verifying.all_passed = "yes" THEN 0 ELSE fail_streak + 1

\* Mutant: the limit is passed before it trips.
TripsLate(streak) == streak > FailStreakLimit

Trips(streak) == streak >= FailStreakLimit

(* Every verifier has answered: the artifact is returned, or CircuitOpen   *)
(* raised instead.  The next run is not kept from starting.                *)
FinishRun ==
  /\ verifying.at = "verify"
  /\ verifying.done = Verifiers
  /\ fail_streak' = Streak
  /\ verdicts' = Append(verdicts, IF verifying.all_passed = "yes" THEN "pass" ELSE "fail")
  /\ unverified' = IF verifying.all_passed = "yes" THEN 0
                   ELSE IF Trips(Streak) THEN unverified ELSE unverified + 1
  /\ verifying' = NoRun

CodegenNext ==
  \/ Generate
  \/ \E outcome \in VerificationOutcome : Verify(outcome)
  \/ RunRaises
  \/ FinishRun

CodegenSpec == CodegenInit /\ [][CodegenNext]_codegenVars

-----------------------------------------------------------------------------
(* Properties                                                              *)

(* Every variable has its type, and nothing of a run outlives it.          *)
CodegenTypeOK ==
  /\ verifying \in [at : {"idle", "verify"}, done : 0..Verifiers, all_passed : {"yes", "no"}]
  /\ verifying.at = "idle" => verifying = NoRun
  /\ fail_streak \in Nat
  /\ verdicts \in Seq({"pass", "fail"})
  /\ unverified \in Nat

(* The streak is the number of judged generations since one last passed,   *)
(* however many generations raised in between: an oracle that breaks down  *)
(* neither clears the streak nor adds to it.  And, "likely a loop, not a   *)
(* fix": fewer unverified artifacts than the limit are handed out before   *)
(* one passes.                                                             *)
StreakCountsVerdicts ==
  /\ fail_streak <= Len(verdicts)
  /\ \A k \in 1..fail_streak : verdicts[Len(verdicts) + 1 - k] = "fail"
  /\ fail_streak < Len(verdicts) => verdicts[Len(verdicts) - fail_streak] = "pass"
  /\ unverified < FailStreakLimit
=============================================================================
