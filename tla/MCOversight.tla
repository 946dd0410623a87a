---------------------------- MODULE MCOversight ----------------------------
(***************************************************************************)
(* Small instances, for TLC, of what keeps an agent in bounds: the router  *)
(* and the feedback capture of Chapter 14, the four breakers of Chapter    *)
(* 16, its meters of agent runs and of memory, the guarded call of Chapter *)
(* 10 and the responsibility chain of Chapter 17.  They share no state, so *)
(* that a behaviour is about one.                                          *)
(***************************************************************************)
EXTENDS HitlRouter, FeedbackCapture, ToolBudget, LoopBreaker, CodegenBreaker,
        CostBudget, GuardedCall, DelegationScopes, AgentMeters, TLC

CONSTANTS decline, hesitant, refund, c1, c2, search, fetch

VARIABLE part

(* An override that counts, one nobody vouched for, an agreement, and one  *)
(* whose times disagree.                                                   *)
MCReviews ==
  {[outcome |-> "override", fit_for_training |-> TRUE, decided |-> "after"],
   [outcome |-> "override", fit_for_training |-> FALSE, decided |-> "after"],
   [outcome |-> "uphold", fit_for_training |-> TRUE, decided |-> "after"],
   [outcome |-> "modify", fit_for_training |-> TRUE, decided |-> "before"]}

MCMaxCalls == [t \in Tools |-> IF t = search THEN 2 ELSE 1]

(* a b c d: three quarters alike with a b c, which is also a drift away    *)
(* from a b c e and b c d, and a text of no token.                         *)
MCTexts == {{"a", "b", "c"}, {"a", "b", "c", "d"}, {"a", "b", "c", "e"},
            {"b", "c", "d"}, {}}
MCThreshold == <<3, 4>>

(* Nothing suspicious, a weak pattern, a weak one beside a strong one.     *)
MCPrompts == {{}, {"repeat_context"}, {"repeat_context", "override_instructions"}}

(* A system prompt with two shingles and one too short for any; an answer  *)
(* that repeats a shingle at the end of a longer word, one in which a line *)
(* feed breaks it, and one with its words out of order.                    *)
MCSystemPrompts == {<<"a", "b", "c">>, <<"a">>}
MCCompletions == {<<"x", "a", " ", "b">>, <<"a", "\n", "b">>, <<"b", " ", "a">>}

(* Two agents whose steps may repeat, one of them dear.                    *)
MCAgentSteps == {AgentStep("researcher", 0, 60000), AgentStep("writer", 0, 800)}

(* Memories above the bar, at it and below it, for either query.           *)
MCMemories == {[q \in Queries |-> IF q = "q1" THEN 20 ELSE 70],
               [q \in Queries |-> IF q = "q1" THEN 60 ELSE 0]}

(* Drops in the order of the dict; the last names a kind there is not.     *)
Dropped(kind, count) == [kind |-> kind, count |-> count]
MCDrops == {<< >>, <<Dropped("history", 2)>>,
            <<Dropped("retrieval", 1), Dropped("images", 3), Dropped("history", 1)>>}

meterVars == <<agentVars, memoryVars>>
AgentVars == <<toolVars, loopVars, codegenVars, budgetVars>>

(* A run by itself goes on to the ceiling; beside a second run three steps *)
(* are enough, and one when the first is a scenario.                       *)
SmallFleet ==
  /\ \A i \in 2..Len(runs') : runs'[i].scenario = "none"
  /\ Len(runs') = 2 => Added' <= IF runs'[1].scenario = "none" THEN 3 ELSE 1

OversightInit ==
  /\ RouterInit
  /\ FeedbackInit
  /\ ToolInit
  /\ LoopInit
  /\ CodegenInit
  /\ BudgetInit
  /\ GuardInit
  /\ ScopesInit
  /\ AgentInit
  /\ MemoryInit
  /\ part \in {"router", "feedback", "tool", "loop", "codegen", "cost",
               "guard", "scopes", "runs", "memory"}
  /\ part # "router" => stream = [i \in 1..MaxRoutes |-> FALSE]

OversightNext ==
  \/ /\ part = "router"
     /\ RouterNext
     /\ UNCHANGED <<feedbackVars, AgentVars, guardVars, scopeVars, meterVars, part>>
  \/ /\ part = "feedback"
     /\ FeedbackNext
     /\ UNCHANGED <<routerVars, AgentVars, guardVars, scopeVars, meterVars, part>>
  \/ /\ part = "tool"
     /\ ToolNext
     /\ UNCHANGED <<routerVars, feedbackVars, loopVars, codegenVars, budgetVars,
                    guardVars, scopeVars, meterVars, part>>
  \/ /\ part = "loop"
     /\ LoopNext
     /\ UNCHANGED <<routerVars, feedbackVars, toolVars, codegenVars, budgetVars,
                    guardVars, scopeVars, meterVars, part>>
  \/ /\ part = "codegen"
     /\ CodegenNext
     /\ UNCHANGED <<routerVars, feedbackVars, toolVars, loopVars, budgetVars,
                    guardVars, scopeVars, meterVars, part>>
  \/ /\ part = "cost"
     /\ CostNext
     /\ UNCHANGED <<routerVars, feedbackVars, toolVars, loopVars, codegenVars,
                    guardVars, scopeVars, meterVars, part>>
  \/ /\ part = "guard"
     /\ GuardNext
     /\ UNCHANGED <<routerVars, feedbackVars, AgentVars, scopeVars, meterVars, part>>
  \/ /\ part = "scopes"
     /\ ScopesNext
     /\ UNCHANGED <<routerVars, feedbackVars, AgentVars, guardVars, meterVars, part>>
  \/ /\ part = "runs"
     /\ AgentNext
     /\ SmallFleet
     /\ UNCHANGED <<routerVars, feedbackVars, AgentVars, guardVars, scopeVars,
                    memoryVars, part>>
  \/ /\ part = "memory"
     /\ MemoryNext
     /\ UNCHANGED <<routerVars, feedbackVars, AgentVars, guardVars, scopeVars,
                    agentVars, part>>

OversightSpec ==
  OversightInit
    /\ [][OversightNext]_<<routerVars, feedbackVars, AgentVars, guardVars,
                           scopeVars, meterVars, part>>

Symmetry == Permutations(Captures)
=============================================================================
