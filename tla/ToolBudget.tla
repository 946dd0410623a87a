----------------------------- MODULE ToolBudget -----------------------------
(***************************************************************************)
(* ObservableTool and ToolCounter (Chapter 16, observable_tool.py): tools  *)
(* with a call budget, in one agent run.  A tool is a function that may    *)
(* call tools, itself included, and may catch what they raise; so calls    *)
(* nest, and a refusal deep in the nest travels up through tools that are  *)
(* still running.                                                          *)
(*                                                                         *)
(* Spans are left out; of the previews only that the tool's own redactor   *)
(* may raise in them.                                                      *)
(***************************************************************************)
EXTENDS Naturals, Sequences, FiniteSets

CONSTANTS
  Tools,
  MaxCalls,    \* max_calls of each tool
  MaxRequests, \* bound on the calls made of a tool
  MaxResets    \* bound on the resets of a tool

ASSUME ToolConstantsOK ==
  /\ MaxCalls \in [Tools -> Nat]
  /\ MaxRequests \in Nat
  /\ MaxResets \in Nat

Outcomes == {"ok", "error", "breaker_open"}

VARIABLES
  calls,     \* ObservableTool.calls
  outcomes,  \* ToolCounter.counts
  nest,      \* the calls in progress, the innermost last
  raising,   \* "raised": an exception travels up
  requests,  \* the calls made of each tool
  resets,
  ran,       \* runs of each tool's function since it was last reset
  refused,   \* tools that refused a call since they were last reset
  uncounted  \* calls that a redactor ended, which no outcome counts

asked == <<requests, resets>>
toolVars == <<calls, outcomes, nest, raising, asked, ran, refused, uncounted>>

None == [t \in Tools |-> 0]

ToolInit ==
  /\ calls = None
  /\ outcomes = [t \in Tools |-> [o \in Outcomes |-> 0]]
  /\ nest = << >>
  /\ raising = "no"
  /\ requests = None
  /\ resets = None
  /\ ran = None
  /\ refused = {}
  /\ uncounted = None

Inner == nest[Len(nest)]
Outer == SubSeq(nest, 1, Len(nest) - 1)
Running == nest # << >> /\ Inner.at = "func" /\ raising = "no"
Entering == nest # << >> /\ Inner.at = "entry"

(* The agent, or a running tool, calls a tool.                             *)
Request(t) ==
  /\ raising = "no"
  /\ nest = << >> \/ Running
  /\ requests[t] < MaxRequests
  /\ requests' = [requests EXCEPT ![t] = @ + 1]
  /\ nest' = Append(nest, [tool |-> t, at |-> "entry"])
  /\ UNCHANGED <<calls, outcomes, raising, resets, ran, refused, uncounted>>

(* Somebody closes the breaker again, between calls or during one.         *)
Reset(t) ==
  /\ raising = "no"
  /\ ~Entering
  /\ resets[t] < MaxResets
  /\ resets' = [resets EXCEPT ![t] = @ + 1]
  /\ calls' = [calls EXCEPT ![t] = 0]
  /\ ran' = [ran EXCEPT ![t] = 0]
  /\ refused' = refused \ {t}
  /\ UNCHANGED <<outcomes, nest, raising, requests, uncounted>>

\* Mutant: one call too many.
ExhaustedLate(t) == calls[t] > MaxCalls[t]

Exhausted(t) == calls[t] >= MaxCalls[t]

Counted(t, outcome) == [outcomes EXCEPT ![t][outcome] = @ + 1]

Refuse ==
  /\ Entering
  /\ Exhausted(Inner.tool)
  /\ outcomes' = Counted(Inner.tool, "breaker_open")
  /\ refused' = refused \cup {Inner.tool}
  /\ nest' = Outer
  /\ raising' = "raised"                  \* CircuitOpen
  /\ UNCHANGED <<calls, asked, ran, uncounted>>

Admit ==
  /\ Entering
  /\ ~Exhausted(Inner.tool)
  /\ calls' = [calls EXCEPT ![Inner.tool] = @ + 1]
  /\ ran' = [ran EXCEPT ![Inner.tool] = @ + 1]
  /\ nest' = Append(Outer, [tool |-> Inner.tool, at |-> "func"])
  /\ UNCHANGED <<outcomes, raising, asked, refused, uncounted>>

Return ==
  /\ Running
  /\ outcomes' = Counted(Inner.tool, "ok")
  /\ nest' = Outer
  /\ UNCHANGED <<calls, raising, asked, ran, refused, uncounted>>

\* Mutant: a call that failed is not charged.
RefundCall(t) == [calls EXCEPT ![t] = IF @ > 0 THEN @ - 1 ELSE @]

(* A call that failed stays charged.                                       *)
AfterError(t) == calls

\* Mutant: a refusal inside a tool is not that tool's error.
CountUnlessNested ==
  IF raising = "no" THEN Counted(Inner.tool, "error") ELSE outcomes

CountError == Counted(Inner.tool, "error")

(* The function raises, or does not catch what a tool it called raised.    *)
FuncRaises ==
  /\ nest # << >>
  /\ Inner.at = "func"
  /\ outcomes' = CountError
  /\ calls' = AfterError(Inner.tool)
  /\ nest' = Outer
  /\ raising' = "raised"
  /\ UNCHANGED <<asked, ran, refused, uncounted>>

(* The function, or the agent, catches it.                                 *)
Catch ==
  /\ raising = "raised"
  /\ raising' = "no"
  /\ UNCHANGED <<calls, outcomes, nest, asked, ran, refused, uncounted>>

(* The redactor raises on the arguments, before the budget is looked at,   *)
(* or on the result.                                                       *)
PreviewRaises ==
  /\ Entering \/ Running
  /\ uncounted' = [uncounted EXCEPT ![Inner.tool] = @ + 1]
  /\ nest' = Outer
  /\ raising' = "raised"
  /\ UNCHANGED <<calls, outcomes, asked, ran, refused>>

ToolNext ==
  \/ \E t \in Tools : Request(t) \/ Reset(t)
  \/ Refuse
  \/ Admit
  \/ Return
  \/ FuncRaises
  \/ Catch
  \/ PreviewRaises

ToolSpec == ToolInit /\ [][ToolNext]_toolVars

-----------------------------------------------------------------------------
(* Properties                                                              *)

Frames == [tool : Tools, at : {"entry", "func"}]

(* Every variable has its type, and only the innermost call can be one     *)
(* that has not reached its function.                                      *)
ToolTypeOK ==
  /\ calls \in [Tools -> Nat]
  /\ outcomes \in [Tools -> [Outcomes -> Nat]]
  /\ nest \in Seq(Frames)
  /\ \A i \in 1..Len(nest) - 1 : nest[i].at = "func"
  /\ raising \in {"no", "raised"}
  /\ requests \in [Tools -> Nat]
  /\ resets \in [Tools -> Nat]
  /\ ran \in [Tools -> Nat]
  /\ refused \subseteq Tools
  /\ uncounted \in [Tools -> Nat]

(* "A circuit breaker, not a rate limit": between two resets the function  *)
(* of a tool runs at most max_calls times, counting runs that failed, that *)
(* are still going on, and that a running tool asked for.                  *)
BudgetHolds == \A t \in Tools : ran[t] <= MaxCalls[t]

(* "Once it trips the tool stops being callable until someone resets it":  *)
(* while a tool that has refused a call is not reset, no function of it    *)
(* starts, whatever the calls still in progress come to.                   *)
StaysOpen ==
  [][\A t \in Tools : t \in refused /\ t \in refused' => ran'[t] = ran[t]]_toolVars

(* No failure is invisible: every call made of a tool is in progress, has  *)
(* exactly one outcome in the counter, or was ended by its redactor; one   *)
(* refusal deep in a nest is an error of each tool it travels through.     *)
EveryCallAccounted ==
  \A t \in Tools :
    requests[t] = outcomes[t]["ok"] + outcomes[t]["error"]
                  + outcomes[t]["breaker_open"] + uncounted[t]
                  + Cardinality({i \in DOMAIN nest : nest[i].tool = t})
=============================================================================
