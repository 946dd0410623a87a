----------------------------- MODULE GuardedCall -----------------------------
(***************************************************************************)
(* chapters/ch10/guardrails.py over injection_detector.py and              *)
(* src/aiobs/risk.py: guarded_call runs a model between an input and an    *)
(* output guardrail and writes each decision on its span.  The model       *)
(* callable may raise, and may itself make a guarded call.  A prompt is    *)
(* the set of the patterns that match it, a system prompt the sequence of  *)
(* its words (lower().split()), and a completion the sequence of what      *)
(* stands in it: words or pieces of words, and spaces and line feeds.      *)
(***************************************************************************)
EXTENDS Integers, Sequences, FiniteSets, SequencesExt, FiniteSetsExt

CONSTANTS
  Prompts,      \* prompts: sets of matching patterns
  Completions,  \* what a model may answer
  SystemPrompts,
  Shingle,      \* words of a shingle, 8 in the code
  Thresholds,   \* percent
  MaxGuarded    \* bound on the calls of a behaviour

VARIABLES
  guarded,    \* the calls made, each with the attributes of its span
  openSpans,  \* those that have not returned, innermost last
  events      \* security.prompt_injection_detected events, by call

guardVars == <<guarded, openSpans, events>>

Patterns == {"override_instructions", "reveal_instructions", "repeat_context", "role_reassignment"}

ASSUME GuardOK ==
  /\ Prompts \subseteq SUBSET Patterns
  /\ "none" \notin Completions
  /\ Thresholds \subseteq 0..100
  /\ Shingle \in Nat \ {0} /\ MaxGuarded \in Nat

Score(pattern) == IF pattern \in {"repeat_context", "role_reassignment"} THEN 55 ELSE 90

(* detect_injection: the score of the most severe pattern that matches.    *)
InjectionScore(prompt) == IF prompt = {} THEN 0 ELSE Max({Score(p) : p \in prompt})

(* input_guardrail                                                         *)
InputAction(prompt, threshold) ==
  IF prompt = {} THEN "allow"
  ELSE IF InjectionScore(prompt) >= threshold THEN "block" ELSE "flag"

(* " ".join(words)                                                         *)
Joined(words) ==
  [k \in 1..(2 * Len(words) - 1) |-> IF k % 2 = 1 THEN words[(k + 1) \div 2] ELSE " "]

(* Any Shingle words of the system prompt in a row; a shorter one has none.*)
Shingles(system) ==
  {Joined(SubSeq(system, i, i + Shingle - 1)) : i \in 1..(Len(system) - Shingle + 1)}

(* detect_system_prompt_leak looks for them in the output as it stands, so *)
(* that one with a line feed or two spaces between its words is not found. *)
Leaks(output, system) == Shingles(system) \cap SubSeqs(output) # {}

\* Mutant: the output is looked at when the input raised a flag.
OutputOfFlagged(call, completion) ==
  IF call.input = "flag" /\ Leaks(completion, call.system) THEN "block" ELSE "allow"

OutputAction(call, completion) ==
  IF Leaks(completion, call.system) THEN "block" ELSE "allow"

GuardInit == guarded = << >> /\ openSpans = << >> /\ events = << >>

-----------------------------------------------------------------------------
(* guarded_call                                                            *)

Current == openSpans[Len(openSpans)]

(* A blocked input returns at once, without the model.                     *)
CallGuarded(prompt, system, threshold) ==
  /\ Len(guarded) < MaxGuarded
  /\ LET action == InputAction(prompt, threshold)  i == Len(guarded) + 1 IN
       /\ guarded' = Append(guarded,
            [prompt |-> prompt, system |-> system, threshold |-> threshold,
             input |-> action, detected |-> action # "allow",
             output |-> IF action = "block" THEN "not_evaluated" ELSE "absent",
             model |-> action # "block", completion |-> "none",
             ended |-> IF action = "block" THEN "returned" ELSE "open"])
       /\ openSpans' = IF action = "block" THEN openSpans ELSE Append(openSpans, i)
       /\ events' = IF prompt = {} THEN events ELSE Append(events, i)

End(output, completion, how) ==
  /\ guarded' = [guarded EXCEPT ![Current] =
                   [@ EXCEPT !.output = output, !.completion = completion, !.ended = how]]
  /\ openSpans' = Front(openSpans)
  /\ UNCHANGED events

ModelAnswers(completion) ==
  /\ openSpans # << >>
  /\ LET action == OutputAction(guarded[Current], completion)
     IN  End(action, IF action = "block" THEN "none" ELSE completion, "returned")

(* The model raises, or a guarded call inside it did; the span ends as it  *)
(* is.                                                                     *)
ModelRaises ==
  /\ openSpans # << >>
  /\ End("absent", "none", "raised")

GuardNext ==
  \/ \E p \in Prompts, s \in SystemPrompts, t \in Thresholds : CallGuarded(p, s, t)
  \/ \E c \in Completions : ModelAnswers(c)
  \/ ModelRaises

GuardSpec == GuardInit /\ [][GuardNext]_guardVars

-----------------------------------------------------------------------------
(* Properties                                                              *)

Ended == {i \in DOMAIN guarded : guarded[i].ended # "open"}
Stopped(i) == guarded[i].input = "block" \/ guarded[i].output = "block"

(* Nested, flagged or failing, a guarded call never hands out a completion *)
(* in which Shingle words of its system prompt stand in a row with single  *)
(* spaces between them (nothing is said of a text that breaks the row),    *)
(* runs no model on an input it blocked, and leaves a trail that adds up:  *)
(* every call has a span with its input decision, every prompt that        *)
(* matched a pattern has one event and a span that says so, and among the  *)
(* calls that returned those without a completion are exactly those a      *)
(* guardrail stopped.                                                      *)
GuardrailsAccountable ==
  /\ \A i \in Ended : LET g == guarded[i] IN
       /\ g.completion # "none" => g.model /\ ~Leaks(g.completion, g.system)
       /\ g.model => InjectionScore(g.prompt) < g.threshold \/ g.prompt = {}
       /\ g.ended = "returned" => (g.completion = "none" <=> Stopped(i))
  /\ \A i \in DOMAIN guarded :
       LET n == Cardinality({j \in DOMAIN events : events[j] = i}) IN
         /\ n = (IF guarded[i].prompt = {} THEN 0 ELSE 1)
         /\ guarded[i].detected <=> n = 1
=============================================================================
