-------------------------- MODULE BriefingPipeline --------------------------
(***************************************************************************)
(* The research -> draft -> review pipeline of Chapter 15, which the       *)
(* repository writes twice: run_pipeline (agent_graph.py), a loop over     *)
(* plain callables with the trace its health map is built from, and        *)
(* build_graph (langgraph_graph.py), a checkpointed StateGraph whose nodes *)
(* are executed again when they did not live to return.                    *)
(*                                                                         *)
(* Both are run here with the same reviewer, side by side.                 *)
(***************************************************************************)
EXTENDS Naturals, FiniteSets

CONSTANTS
  MaxHops,     \* MAX_HOPS
  Decisions,   \* what a reviewer answers, besides "approve"
  MaxCrashes   \* bound on the deaths of a process that executes the graph

ASSUME PipelineConstantsOK ==
  /\ MaxHops \in Nat \ {0}
  /\ "approve" \notin Decisions
  /\ MaxCrashes \in Nat

(* The drafts that fit under the cap: one takes two hops.                  *)
Attempts == {a \in 1..MaxHops : 2 * a <= MaxHops + 1}

VARIABLES
  reviewer,   \* its answer to each attempt (make_reviewer: no memory)
  cap,        \* the max_hops run_pipeline was called with
  plain,      \* run_pipeline: where it is, state["hop"], attempt
  trace,      \* its RunTrace, counted: spans, handoffs, routing decisions
  graph,      \* GraphState as the checkpointer holds it, and the next node
  executor,   \* "running" while that node's update is not saved yet
  crashes

plainVars == <<plain, trace>>
graphVars == <<graph, executor, crashes>>
vars == <<reviewer, cap, plainVars, graphVars>>

Traces ==
  [drafts : Nat, reviews : Nat, toReviewer : Nat, toWriter : Nat, revise : Nat]

Init ==
  /\ reviewer \in [Attempts -> Decisions \cup {"approve"}]
  /\ cap \in 0..MaxHops
  /\ plain = [at |-> "research", hop |-> 0, attempt |-> 0]
  /\ trace = [drafts |-> 0, reviews |-> 0, toReviewer |-> 0, toWriter |-> 0,
              revise |-> 0]
  /\ graph = [next |-> "research", hop |-> 0, attempt |-> 0]
  /\ executor = "idle"
  /\ crashes = 0

-----------------------------------------------------------------------------
(* run_pipeline                                                            *)

\* Mutant: the cap is the last hop a round may start at.
MayDraftLate(hop) == hop <= cap

\* Mutant: the round about to start is counted already.
MayDraftEarly(hop) == hop + 2 < cap

(* while state["hop"] < max_hops                                           *)
MayDraft(hop) == hop < cap

NextRound(hop) == IF MayDraft(hop) THEN "draft" ELSE "capped"

Research ==
  /\ plain.at = "research"
  /\ plain' = [plain EXCEPT !.at = NextRound(0)]
  /\ UNCHANGED <<reviewer, cap, trace, graphVars>>

Draft ==
  /\ plain.at = "draft"
  /\ plain' = [at |-> "review", hop |-> plain.hop + 1, attempt |-> plain.attempt + 1]
  /\ trace' = [trace EXCEPT !.drafts = @ + 1, !.toReviewer = @ + 1]
  /\ UNCHANGED <<reviewer, cap, graphVars>>

\* Mutant: the handoff is logged before the decision is looked at.
AlwaysHandedBack(decision) ==
  [trace EXCEPT !.reviews = @ + 1,
                !.revise = IF decision = "revise" THEN @ + 1 ELSE @,
                !.toWriter = @ + 1]

ReviewTrace(decision) ==
  [trace EXCEPT !.reviews = @ + 1,
                !.revise = IF decision = "revise" THEN @ + 1 ELSE @,
                !.toWriter = IF decision = "approve" THEN @ ELSE @ + 1]

Review ==
  /\ plain.at = "review"
  /\ LET decision == reviewer[plain.attempt]
         hop == plain.hop + 1
     IN  /\ plain' = [plain EXCEPT !.hop = hop,
                                   !.at = IF decision = "approve"
                                          THEN "approved" ELSE NextRound(hop)]
         /\ trace' = ReviewTrace(decision)
  /\ UNCHANGED <<reviewer, cap, graphVars>>

(* A callable raises and the exception leaves run_pipeline.                *)
Raise ==
  /\ plain.at \in {"research", "draft", "review"}
  /\ plain' = [plain EXCEPT !.at = "raised"]
  /\ UNCHANGED <<reviewer, cap, trace, graphVars>>

PlainStep == Research \/ Draft \/ Review

-----------------------------------------------------------------------------
(* build_graph, compiled with a checkpointer                               *)

(* The executor picks the next node, from the saved state.                 *)
StartNode ==
  /\ graph.next \in {"research", "draft", "review", "publish"}
  /\ executor = "idle"
  /\ executor' = "running"
  /\ UNCHANGED <<reviewer, cap, plainVars, graph, crashes>>

\* Mutant: the last draft is published whatever the reviewer said.
CapPublishes(decision, hop) ==
  IF decision = "approve" \/ hop >= MaxHops THEN "approved" ELSE "revise"

RouteAfterReview(decision, hop) ==
  IF decision = "approve" THEN "approved"
  ELSE IF hop >= MaxHops THEN "capped" ELSE "revise"

\* Mutant: a revision starts over with the research.
TargetResearch(route) ==
  CASE route = "approved" -> "publish"
    [] route = "revise"   -> "research"
    [] route = "capped"   -> "end"

(* The conditional edges, with a publish node as Chapter 17 adds it.       *)
Target(route) ==
  CASE route = "approved" -> "publish"
    [] route = "revise"   -> "draft"
    [] route = "capped"   -> "end"

(* A node returns; its update and the edge taken are saved together.       *)
ReturnResearch ==
  /\ graph.next = "research"
  /\ graph' = [next |-> "draft", hop |-> 0, attempt |-> 0]

\* Mutant: the update leaves the attempt out.
ReturnDraftUncounted ==
  /\ graph.next = "draft"
  /\ graph' = [next |-> "review", hop |-> graph.hop + 1, attempt |-> graph.attempt]

ReturnDraft ==
  /\ graph.next = "draft"
  /\ graph' = [next |-> "review", hop |-> graph.hop + 1, attempt |-> graph.attempt + 1]

ReturnReview ==
  /\ graph.next = "review"
  /\ LET hop == graph.hop + 1
         route == RouteAfterReview(reviewer[graph.attempt], hop)
     IN  graph' = [graph EXCEPT !.hop = hop, !.next = Target(route)]

ReturnPublish ==
  /\ graph.next = "publish"
  /\ graph' = [graph EXCEPT !.next = "published"]

FinishNode ==
  /\ executor = "running"
  /\ ReturnResearch \/ ReturnDraft \/ ReturnReview \/ ReturnPublish
  /\ executor' = "idle"
  /\ UNCHANGED <<reviewer, cap, plainVars, crashes>>

(* The process dies or the node raises; nothing of its update is saved,    *)
(* and the next invocation executes the same node again.                   *)
Crash ==
  /\ executor = "running"
  /\ crashes < MaxCrashes
  /\ crashes' = crashes + 1
  /\ executor' = "idle"
  /\ UNCHANGED <<reviewer, cap, plainVars, graph>>

GraphStep == StartNode \/ FinishNode

Next == PlainStep \/ Raise \/ GraphStep \/ Crash

Spec == Init /\ [][Next]_vars

(* The loop runs on, and somebody invokes a graph that has a next node.    *)
FairSpec == Spec /\ WF_vars(PlainStep) /\ WF_vars(GraphStep)

-----------------------------------------------------------------------------
(* Properties                                                              *)

PlainEnds == {"approved", "capped"}
GraphEnds == {"published", "end"}

TypeOK ==
  /\ reviewer \in [Attempts -> Decisions \cup {"approve"}]
  /\ cap \in 0..MaxHops
  /\ plain \in [at : {"research", "draft", "review", "raised"} \cup PlainEnds,
                hop : Nat, attempt : 0..MaxHops]
  /\ trace \in Traces
  /\ graph \in [next : {"research", "draft", "review", "publish"} \cup GraphEnds,
                hop : Nat, attempt : 0..MaxHops]
  /\ executor \in {"idle", "running"}
  /\ crashes \in 0..MaxCrashes

(* The same reviewer gives the same result in both: langgraph_graph.py is  *)
(* "the same pipeline as a real langgraph StateGraph".  One checks the cap *)
(* before a draft, the other after a review, and the graph's nodes may     *)
(* have been executed several times.                                       *)
SameOutcome ==
  /\ cap = MaxHops
  /\ plain.at \in PlainEnds
  /\ graph.next \in GraphEnds
  => /\ plain.at = "approved" <=> graph.next = "published"
     /\ plain.hop = graph.hop
     /\ plain.attempt = graph.attempt

Rejected(upTo) == \A a \in 1..upTo : reviewer[a] # "approve"

(* What is published is the first draft the reviewer approved, and the     *)
(* graph gives up without publishing only when it rejected every one.      *)
PublishesFirstApproved ==
  /\ graph.next \in {"publish", "published"} =>
       /\ graph.attempt \in Attempts
       /\ reviewer[graph.attempt] = "approve"
       /\ Rejected(graph.attempt - 1)
  /\ graph.next = "end" => Rejected(graph.attempt)

(* A node that was executed again is not counted again: the hop a          *)
(* checkpoint holds is the number of drafts and reviews it contains, so    *)
(* crashes do not bring the cap nearer.                                    *)
HopsCountSavedNodes ==
  graph.hop = IF graph.next = "review" THEN 2 * graph.attempt - 1
                                       ELSE 2 * graph.attempt

(* The cap bounds the spend of a reviewer that never approves: neither     *)
(* shape goes past it, but for the review of the last draft when the cap   *)
(* is odd.                                                                 *)
CapBoundsHops ==
  /\ plain.hop <= cap + (cap % 2)
  /\ graph.hop <= MaxHops + (MaxHops % 2)

Answered(words) == {a \in 1..trace.reviews : reviewer[a] \in words}

(* The health map draws a handoff back to the writer for every draft that  *)
(* was not approved, and charges a rejection to research for every one     *)
(* that was answered with "revise", over the drafts that were reviewed and *)
(* no others: the answer to a draft in review is not in the trace, the     *)
(* last rejection under the cap is, and a draft rejected in another word   *)
(* is drawn back and charged to nobody.                                    *)
MapChargesRejections ==
  /\ plain.at # "raised" =>
       trace.reviews = IF plain.at = "review" THEN trace.drafts - 1 ELSE trace.drafts
  /\ trace.revise = Cardinality(Answered({"revise"}))
  /\ trace.toWriter = Cardinality(Answered(Decisions))

(* Whatever the reviewer answers, both shapes end.                         *)
Terminates ==
  <>(plain.at \in PlainEnds \cup {"raised"} /\ graph.next \in GraphEnds)
=============================================================================
