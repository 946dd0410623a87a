----------------------------- MODULE HitlRouter -----------------------------
(***************************************************************************)
(* HitlRouter.route (Chapter 14, hitl_router.py): decides whether a person *)
(* sees a recommendation, puts it in a review queue and counts it.         *)
(*                                                                         *)
(* The review queue (MockQueue stands in for it) is outside the process    *)
(* and may raise, before or after it stored the item.  The process may die *)
(* and start again with the same seed.                                     *)
(***************************************************************************)
EXTENDS Naturals, Sequences, FiniteSets

CONSTANTS
  Recommendations, \* what the model recommends
  Mandatory,       \* those of a class in MANDATORY_CLASSES
  Doubtful,        \* those with a confidence below the threshold
  MaxRoutes,       \* bound on routes per life of the process, and on items queued
  QueueFaults      \* "crash": the process dies; "raise", "lost": the queue
                   \* raises without, or after, having stored

ASSUME RouterConstantsOK ==
  /\ Mandatory \subseteq Recommendations
  /\ Doubtful \subseteq Recommendations
  /\ MaxRoutes \in Nat
  /\ QueueFaults \subseteq {"crash", "raise", "lost"}

Queues == {"specialist_review", "general_review", "audit_sample"}
Reasons == {"mandatory_class", "below_threshold", "sampled_audit", "auto_approved"}

VARIABLES
  stream,    \* what the seed makes of the sampler's draws, TRUE below the rate
  drawn,     \* the draws made since the router was created
  route,     \* the call of route in progress, its reason once decided
  queue,     \* MockQueue.items
  counts,    \* RouteCounter.counts, by destination
  decided,   \* every decision since the router was created, in order
  results    \* what route has returned

routerVars == <<stream, drawn, route, queue, counts, decided, results>>

NoRoute == [at |-> "idle"]
NoCounts == [destination \in Queues \cup {"auto"} |-> 0]

RouterInit ==
  /\ stream \in [1..MaxRoutes -> BOOLEAN]
  /\ drawn = 0
  /\ route = NoRoute
  /\ queue = << >>
  /\ counts = NoCounts
  /\ decided = << >>
  /\ results = {}

\* Mutant: the sampler is asked about every recommendation.
DrawForAll(r) == TRUE

(* should_sample is called only on the last branch.                        *)
ConsultsSampler(r) == r \notin Mandatory /\ r \notin Doubtful

\* Mutant: a confident model is a defence.
ConfidenceOnly(r, sampled) ==
  IF r \in Doubtful THEN "below_threshold"
  ELSE IF sampled THEN "sampled_audit" ELSE "auto_approved"

Reason(r, sampled) ==
  IF r \in Mandatory THEN "mandatory_class"
  ELSE IF r \in Doubtful THEN "below_threshold"
  ELSE IF sampled THEN "sampled_audit" ELSE "auto_approved"

SelectQueue(r, reason) ==
  CASE reason = "sampled_audit" -> "audit_sample"
    [] reason # "sampled_audit" /\ r \in Mandatory -> "specialist_review"
    [] reason # "sampled_audit" /\ r \notin Mandatory -> "general_review"

Decide(r) ==
  /\ route = NoRoute
  /\ Len(decided) < MaxRoutes
  /\ drawn' = IF ConsultsSampler(r) THEN drawn + 1 ELSE drawn
  /\ LET reason == Reason(r, ConsultsSampler(r) /\ stream[drawn + 1]) IN
       /\ decided' = Append(decided, [about |-> r, reason |-> reason])
       /\ route' = IF reason = "auto_approved"
                   THEN [at |-> "count", about |-> r, reason |-> reason,
                         to |-> "auto"]
                   ELSE [at |-> "enqueue", about |-> r, reason |-> reason,
                         to |-> SelectQueue(r, reason)]
  /\ UNCHANGED <<stream, queue, counts, results>>

Stored == Append(queue, [to |-> route.to, about |-> route.about])

\* Mutant: the route is counted whether or not it reached the queue.
EndRaisedCounted ==
  /\ route' = NoRoute
  /\ counts' = [counts EXCEPT ![route.to] = @ + 1]

(* The exception leaves route before the counter.                          *)
EndRaised ==
  /\ route' = NoRoute
  /\ UNCHANGED counts

Enqueue ==
  /\ route.at = "enqueue"
  /\ Len(queue) < MaxRoutes
  /\ queue' = Stored
  /\ route' = [route EXCEPT !.at = "count"]
  /\ UNCHANGED <<stream, drawn, counts, decided, results>>

EnqueueRaises ==
  /\ route.at = "enqueue"
  /\ \/ "raise" \in QueueFaults /\ UNCHANGED queue
     \/ "lost" \in QueueFaults /\ Len(queue) < MaxRoutes /\ queue' = Stored
  /\ EndRaised
  /\ UNCHANGED <<stream, drawn, decided, results>>

CountAndReturn ==
  /\ route.at = "count"
  /\ counts' = [counts EXCEPT ![route.to] = @ + 1]
  /\ results' = results \cup {[about |-> route.about, to |-> route.to]}
  /\ route' = NoRoute
  /\ UNCHANGED <<stream, drawn, queue, decided>>

(* The process dies; the next router is created with the same seed.        *)
RouterCrash ==
  /\ "crash" \in QueueFaults
  /\ drawn' = 0
  /\ route' = NoRoute
  /\ counts' = NoCounts
  /\ decided' = << >>
  /\ UNCHANGED <<stream, queue, results>>

RouterNext ==
  \/ \E r \in Recommendations : Decide(r)
  \/ Enqueue
  \/ EnqueueRaises
  \/ CountAndReturn
  \/ RouterCrash

RouterSpec == RouterInit /\ [][RouterNext]_routerVars

-----------------------------------------------------------------------------
(* Properties                                                              *)

Items == [to : Queues, about : Recommendations]

(* Every variable has its type.                                            *)
RouterTypeOK ==
  /\ stream \in [1..MaxRoutes -> BOOLEAN]
  /\ drawn \in 0..MaxRoutes
  /\ route = NoRoute
     \/ route \in [at : {"enqueue", "count"}, about : Recommendations,
                   reason : Reasons, to : Queues \cup {"auto"}]
  /\ queue \in Seq(Items)
  /\ counts \in [Queues \cup {"auto"} -> Nat]
  /\ decided \in Seq([about : Recommendations, reason : Reasons])
  /\ results \subseteq [about : Recommendations, to : Queues \cup {"auto"}]

(* "An audit rate you cannot reproduce is an audit rate you cannot         *)
(* evidence": what the sampler said follows from the seed and from the     *)
(* order of the confident, unregulated recommendations alone, although     *)
(* other recommendations came between them and some never reached a queue. *)
SamplesFollowSeed ==
  LET eligible(n) == {k \in 1..n : decided[k].about \notin Mandatory \cup Doubtful}
  IN  \A n \in DOMAIN decided :
        decided[n].reason = "sampled_audit"
          <=> n \in eligible(n) /\ stream[Cardinality(eligible(n))]

(* A recommendation that route returned waits for a person, in the queue   *)
(* route named, unless it was confident and unregulated; one of a          *)
(* mandatory class waits for a specialist however confident the model was. *)
(* The counter never claims more reviews than a queue was handed, whether  *)
(* the queue raised before or after it took the item, and across restarts. *)
RoutedWorkIsQueued ==
  /\ \A x \in results :
       /\ x.to = "auto" => x.about \notin Mandatory \cup Doubtful
       /\ x.to # "auto" => \E i \in DOMAIN queue : queue[i] = x
       /\ x.about \in Mandatory => x.to = "specialist_review"
  /\ \A q \in Queues : counts[q] <= Cardinality({i \in DOMAIN queue : queue[i].to = q})

(* All three: what is routed can be evidenced, and waits for somebody.     *)
RoutingAccountable == RouterTypeOK /\ SamplesFollowSeed /\ RoutedWorkIsQueued
=============================================================================
