---------------------------- MODULE ReviewProofs ----------------------------
(***************************************************************************)
(* What stands between a model and a person, for any recommendations,      *)
(* reviews, captures and faults: routed work is counted, queued and        *)
(* sampled as the seed says (HitlRouter), what is learned is audited       *)
(* (FeedbackCapture), and a briefing is published when its reviewer        *)
(* approves, under the cap, in both shapes of the pipeline                 *)
(* (BriefingPipeline).                                                     *)
(***************************************************************************)
EXTENDS BriefingPipeline, HitlRouter, FeedbackCapture, FiniteSetTheorems, TLAPS

(* The positions of a sequence whose element is in S.                      *)
Places(s, S) == {i \in DOMAIN s : s[i] \in S}

LEMMA PlacesCount ==
  ASSUME NEW D, NEW s \in Seq(D), NEW S
  PROVE  IsFiniteSet(Places(s, S)) /\ Cardinality(Places(s, S)) \in Nat
<1>1. Len(s) \in Nat /\ DOMAIN s = 1..Len(s)
      OBVIOUS
<1>2. Places(s, S) \subseteq 1..Len(s) /\ IsFiniteSet(1..Len(s))
      BY <1>1, FS_Interval DEF Places
<1> QED BY <1>2, FS_Subset, FS_CardinalityType

(* One more element takes one more place, in the sets that hold it.        *)
LEMMA PlacesAppend ==
  ASSUME NEW D, NEW s \in Seq(D), NEW e \in D, NEW S
  PROVE  Cardinality(Places(Append(s, e), S))
           = Cardinality(Places(s, S)) + (IF e \in S THEN 1 ELSE 0)
<1> DEFINE longer == Append(s, e)
           top == Len(s) + 1
<1>1. /\ Len(s) \in Nat
      /\ DOMAIN s = 1..Len(s)
      /\ DOMAIN longer = 1..top
      /\ longer[top] = e
      /\ \A i \in 1..Len(s) : longer[i] = s[i]
      OBVIOUS
<1>2. top \notin Places(s, S)
      BY <1>1 DEF Places
<1>3. CASE e \in S
  <2>1. Places(longer, S) = Places(s, S) \cup {top}
        BY <1>1, <1>3 DEF Places
  <2> QED BY <1>2, <1>3, <2>1, PlacesCount, FS_AddElement
<1>4. CASE e \notin S
  <2>1. Places(longer, S) = Places(s, S)
        BY <1>1, <1>4 DEF Places
  <2> QED BY <1>4, <2>1, PlacesCount
<1> QED BY <1>3, <1>4

-----------------------------------------------------------------------------
(* HitlRouter                                                              *)

RoutingDecisions == [about : Recommendations, reason : Reasons]

(* Those of the first n decisions of s on which the sampler was asked.     *)
Eligible(s, n) == {k \in 1..n : s[k].about \notin Mandatory \cup Doubtful}

(* The sampler was asked once for each of them, so that the next draw is   *)
(* the one the seed made for the next of them.                             *)
DrawsCounted ==
  /\ Len(decided) <= MaxRoutes
  /\ drawn = Cardinality(Eligible(decided, Len(decided)))

(* A call of route in progress is on its way to where its return will say  *)
(* it went; once it is about to be counted its item is in the queue.       *)
RouteOnItsWay ==
  route # NoRoute =>
    /\ route.to = "auto" =>
         route.at = "count" /\ route.about \notin Mandatory \cup Doubtful
    /\ route.at = "count" /\ route.to # "auto" =>
         \E i \in DOMAIN queue : queue[i] = [about |-> route.about, to |-> route.to]
    /\ route.about \in Mandatory => route.to = "specialist_review"

ResultsQueued ==
  \A x \in results :
    /\ x.to = "auto" => x.about \notin Mandatory \cup Doubtful
    /\ x.to # "auto" => \E i \in DOMAIN queue : queue[i] = x
    /\ x.about \in Mandatory => x.to = "specialist_review"

(* The item of the call that is about to be counted is still uncounted.    *)
Awaited(q) == IF route.at = "count" /\ route.to = q THEN 1 ELSE 0

Queued(q) == Cardinality({i \in DOMAIN queue : queue[i].to = q})

CountsBacked == \A q \in Queues : counts[q] + Awaited(q) <= Queued(q)

RouterInv ==
  /\ RouterTypeOK
  /\ SamplesFollowSeed
  /\ DrawsCounted
  /\ RouteOnItsWay
  /\ ResultsQueued
  /\ CountsBacked

LEMMA SamplesMean ==
  SamplesFollowSeed <=>
    \A n \in DOMAIN decided :
      decided[n].reason = "sampled_audit"
        <=> n \in Eligible(decided, n) /\ stream[Cardinality(Eligible(decided, n))]
BY DEF SamplesFollowSeed, Eligible

LEMMA EligibleCount ==
  ASSUME NEW s, NEW n \in Nat
  PROVE  /\ IsFiniteSet(Eligible(s, n))
         /\ Cardinality(Eligible(s, n)) \in Nat
         /\ Cardinality(Eligible(s, n)) <= n
<1>1. IsFiniteSet(1..n) /\ Cardinality(1..n) = n
      BY FS_Interval
<1>2. Eligible(s, n) \subseteq 1..n
      BY DEF Eligible
<1> QED BY <1>1, <1>2, FS_Subset, FS_CardinalityType

QueuedPlaces(q) == Places(queue, {x \in Items : x.to = q})

LEMMA QueuedCount ==
  ASSUME RouterTypeOK, NEW q
  PROVE  /\ Queued(q) = Cardinality(QueuedPlaces(q))
         /\ Queued(q) \in Nat
<1>1. queue \in Seq(Items)
      BY DEF RouterTypeOK
<1>2. \A i \in DOMAIN queue : queue[i] \in Items
      BY <1>1
<1>3. {i \in DOMAIN queue : queue[i].to = q} = QueuedPlaces(q)
      BY <1>2 DEF QueuedPlaces, Places
<1> QED BY <1>1, <1>3, PlacesCount DEF Queued, QueuedPlaces

LEMMA CallInProgress ==
  ASSUME RouterTypeOK, route # NoRoute
  PROVE  /\ route.at \in {"enqueue", "count"}
         /\ route.about \in Recommendations
         /\ route.to \in Queues \cup {"auto"}
         /\ route.reason \in Reasons
         /\ [route EXCEPT !.at = "count"].about = route.about
         /\ [route EXCEPT !.at = "count"].to = route.to
         /\ [route EXCEPT !.at = "count"].at = "count"
         /\ [route EXCEPT !.at = "count"]
              \in [at : {"enqueue", "count"}, about : Recommendations,
                   reason : Reasons, to : Queues \cup {"auto"}]
BY DEF RouterTypeOK

LEMMA RouterInitInv == RouterInit => RouterInv
<1> SUFFICES ASSUME RouterInit PROVE RouterInv
    OBVIOUS
<1> USE RouterConstantsOK DEF RouterInit
<1>1. RouterTypeOK
      BY DEF RouterTypeOK, NoCounts
<1>2. Len(decided) = 0 /\ DOMAIN decided = {}
      OBVIOUS
<1>3. SamplesFollowSeed
      BY <1>2 DEF SamplesFollowSeed
<1>4. Eligible(decided, Len(decided)) = {}
      BY <1>2 DEF Eligible
<1>5. DrawsCounted
  <2>1. Cardinality(Eligible(decided, Len(decided))) = 0
        BY <1>4, FS_EmptySet
  <2> QED BY <1>2, <2>1 DEF DrawsCounted
<1>6. RouteOnItsWay /\ ResultsQueued
      BY DEF RouteOnItsWay, ResultsQueued
<1>7. CountsBacked
  <2>1. \A q \in Queues : counts[q] = 0 /\ Awaited(q) = 0
        BY DEF NoCounts, Awaited, NoRoute
  <2> QED BY <1>1, <2>1, QueuedCount DEF CountsBacked
<1> QED BY <1>1, <1>3, <1>5, <1>6, <1>7 DEF RouterInv

LEMMA DecideStep ==
  ASSUME RouterInv, NEW r \in Recommendations, Decide(r)
  PROVE  RouterInv'
<1> USE RouterConstantsOK DEF RouterInv
<1> DEFINE sampled == ConsultsSampler(r) /\ stream[drawn + 1]
           reason == Reason(r, sampled)
           n == Len(decided)
<1>1. /\ n \in Nat
      /\ DOMAIN decided = 1..n
      /\ DOMAIN decided' = 1..(n + 1)
      /\ Len(decided') = n + 1
      /\ decided'[n + 1] = [about |-> r, reason |-> reason]
      /\ \A k \in 1..n : decided'[k] = decided[k]
      BY DEF Decide, RouterTypeOK
<1>2. n + 1 <= MaxRoutes
      BY <1>1 DEF Decide
<1>3. reason \in Reasons
      BY DEF Reason, Reasons
<1>4. reason = "sampled_audit" <=> sampled
      BY DEF Reason, ConsultsSampler
<1>5. reason = "auto_approved" => ConsultsSampler(r)
      BY DEF Reason, ConsultsSampler
<1>6. r \in Mandatory => SelectQueue(r, reason) = "specialist_review"
      BY DEF SelectQueue, Reason
<1>7. SelectQueue(r, reason) \in Queues
      BY DEF SelectQueue, Queues
<1>8. UNCHANGED <<stream, queue, counts, results>>
      BY DEF Decide
<1>9. /\ drawn = Cardinality(Eligible(decided, n))
      /\ drawn \in Nat
      /\ drawn <= n
      BY <1>1, EligibleCount DEF DrawsCounted
<1>10. \A k \in 0..n : Eligible(decided', k) = Eligible(decided, k)
       BY <1>1 DEF Eligible
<1>11. /\ drawn' = Cardinality(Eligible(decided', n + 1))
       /\ sampled <=> n + 1 \in Eligible(decided', n + 1)
                         /\ stream[Cardinality(Eligible(decided', n + 1))]
  <2>1. CASE ConsultsSampler(r)
    <3>1. Eligible(decided', n + 1) = Eligible(decided, n) \cup {n + 1}
          BY <1>1, <2>1 DEF Eligible, ConsultsSampler
    <3>2. n + 1 \notin Eligible(decided, n)
          BY <1>1 DEF Eligible
    <3>3. Cardinality(Eligible(decided', n + 1)) = drawn + 1
          BY <1>1, <1>9, <3>1, <3>2, EligibleCount, FS_AddElement
    <3>4. drawn' = drawn + 1
          BY <2>1 DEF Decide
    <3> QED BY <2>1, <3>1, <3>3, <3>4
  <2>2. CASE ~ConsultsSampler(r)
    <3>1. Eligible(decided', n + 1) = Eligible(decided, n)
          BY <1>1, <2>2 DEF Eligible, ConsultsSampler
    <3>2. n + 1 \notin Eligible(decided, n)
          BY <1>1 DEF Eligible
    <3> QED BY <1>9, <2>2, <3>1, <3>2 DEF Decide
  <2> QED BY <2>1, <2>2
<1> HIDE DEF sampled
<1>12. SamplesFollowSeed'
  <2> SUFFICES ASSUME NEW k \in 1..(n + 1)
               PROVE  decided'[k].reason = "sampled_audit"
                        <=> k \in Eligible(decided', k)
                              /\ stream[Cardinality(Eligible(decided', k))]
      BY <1>1, <1>8 DEF SamplesFollowSeed, Eligible
  <2>1. CASE k = n + 1
        BY <1>1, <1>4, <1>11, <2>1
  <2>2. CASE k # n + 1
    <3>1. k \in 1..n
          BY <1>1, <2>2
    <3> QED BY <1>1, <1>10, <3>1, SamplesMean
  <2> QED BY <2>1, <2>2
<1>13. DrawsCounted'
       BY <1>1, <1>2, <1>11 DEF DrawsCounted
<1> HIDE DEF reason
<1>14. RouterTypeOK'
  <2>1. drawn' \in 0..MaxRoutes
        BY <1>1, <1>2, <1>13, EligibleCount DEF DrawsCounted
  <2>2. route' \in [at : {"enqueue", "count"}, about : Recommendations,
                    reason : Reasons, to : Queues \cup {"auto"}]
        BY <1>3, <1>7 DEF Decide, reason, sampled
  <2>3. decided' \in Seq(RoutingDecisions)
        BY <1>3 DEF Decide, RouterTypeOK, RoutingDecisions, reason, sampled
  <2> QED BY <1>8, <2>1, <2>2, <2>3 DEF RouterTypeOK, RoutingDecisions
<1>15. /\ route'.about = r
       /\ reason = "auto_approved" => route'.to = "auto" /\ route'.at = "count"
       /\ reason # "auto_approved" =>
            route'.to = SelectQueue(r, reason) /\ route'.at = "enqueue"
       BY DEF Decide, reason, sampled
<1>16. RouteOnItsWay'
       BY <1>5, <1>6, <1>7, <1>15 DEF RouteOnItsWay, Queues, ConsultsSampler
<1>17. ResultsQueued'
       BY <1>8 DEF ResultsQueued
<1>18. CountsBacked'
  <2> SUFFICES ASSUME NEW q \in Queues
               PROVE  counts[q] + Awaited(q)' <= Queued(q)
      BY <1>8 DEF CountsBacked, Queued
  <2>1. Awaited(q)' = 0
        BY <1>15 DEF Awaited, Queues
  <2>2. Awaited(q) = 0 \/ Awaited(q) = 1
        BY DEF Awaited
  <2>3. counts[q] \in Nat /\ Queued(q) \in Nat
        BY QueuedCount DEF RouterTypeOK
  <2> QED BY <2>1, <2>2, <2>3 DEF CountsBacked
<1> QED BY <1>12, <1>13, <1>14, <1>16, <1>17, <1>18

(* What a step leaves of a decision it leaves of the samples.              *)
LEMMA SamplesUnchanged ==
  ASSUME SamplesFollowSeed, DrawsCounted, UNCHANGED <<stream, drawn, decided>>
  PROVE  SamplesFollowSeed' /\ DrawsCounted'
<1>1. SamplesFollowSeed'
      BY DEF SamplesFollowSeed
<1>2. DrawsCounted'
      BY DEF DrawsCounted, Eligible
<1> QED BY <1>1, <1>2

(* An item more in the queue is one more of its queue and of no other, and *)
(* it takes nothing away.                                                  *)
LEMMA StoredItem ==
  ASSUME RouterTypeOK, RouteOnItsWay, route.at = "enqueue", queue' = Stored
  PROVE  /\ queue' \in Seq(Items)
         /\ \A x : (\E i \in DOMAIN queue : queue[i] = x)
                    => \E i \in DOMAIN queue' : queue'[i] = x
         /\ \E i \in DOMAIN queue' :
              queue'[i] = [about |-> route.about, to |-> route.to]
         /\ \A q \in Queues :
              Queued(q)' = Queued(q) + (IF route.to = q THEN 1 ELSE 0)
<1>1. route # NoRoute
      BY DEF NoRoute
<1>2. route.to \in Queues /\ route.about \in Recommendations
      BY <1>1, CallInProgress DEF RouteOnItsWay
<1> DEFINE item == [to |-> route.to, about |-> route.about]
<1>3. item \in Items /\ queue \in Seq(Items) /\ queue' = Append(queue, item)
      BY <1>2 DEF Items, Stored, RouterTypeOK
<1>4. /\ Len(queue) \in Nat
      /\ DOMAIN queue = 1..Len(queue)
      /\ DOMAIN queue' = 1..(Len(queue) + 1)
      /\ queue'[Len(queue) + 1] = item
      /\ \A i \in DOMAIN queue : queue'[i] = queue[i]
      /\ queue' \in Seq(Items)
      BY <1>3
<1>5. ASSUME NEW q \in Queues
      PROVE  Queued(q)' = Queued(q) + (IF route.to = q THEN 1 ELSE 0)
  <2> DEFINE wanted == {x \in Items : x.to = q}
  <2>1. Cardinality(Places(queue', wanted))
          = Cardinality(Places(queue, wanted)) + (IF item \in wanted THEN 1 ELSE 0)
        BY <1>3, PlacesAppend
  <2>2. item \in wanted <=> route.to = q
        BY <1>3
  <2>3. {i \in DOMAIN queue' : queue'[i].to = q} = Places(queue', wanted)
        BY <1>4 DEF Places
  <2> QED BY <2>1, <2>2, <2>3, QueuedCount DEF Queued, QueuedPlaces
<1> QED BY <1>4, <1>5

LEMMA EnqueueStep == ASSUME RouterInv, Enqueue PROVE RouterInv'
<1> USE RouterConstantsOK DEF RouterInv
<1>1. route # NoRoute
      BY DEF Enqueue, NoRoute
<1>2. UNCHANGED <<stream, drawn, counts, decided, results>>
      BY DEF Enqueue
<1>3. SamplesFollowSeed' /\ DrawsCounted'
      BY <1>2, SamplesUnchanged
<1>4. /\ route'.at = "count"
      /\ route'.about = route.about
      /\ route'.to = route.to
      /\ route' \in [at : {"enqueue", "count"}, about : Recommendations,
                     reason : Reasons, to : Queues \cup {"auto"}]
      BY <1>1, CallInProgress DEF Enqueue
<1>5. RouterTypeOK'
      BY <1>2, <1>4, StoredItem DEF Enqueue, RouterTypeOK
<1>6. RouteOnItsWay'
  <2>1. route.to # "auto"
        BY <1>1 DEF RouteOnItsWay, Enqueue
  <2>2. \E i \in DOMAIN queue' :
          queue'[i] = [about |-> route.about, to |-> route.to]
        BY StoredItem DEF Enqueue
  <2> QED BY <1>1, <1>4, <2>1, <2>2 DEF RouteOnItsWay
<1>7. ResultsQueued'
      BY <1>2, StoredItem DEF Enqueue, ResultsQueued
<1>8. CountsBacked'
  <2> SUFFICES ASSUME NEW q \in Queues
               PROVE  counts[q] + Awaited(q)' <= Queued(q)'
      BY <1>2 DEF CountsBacked
  <2>1. counts[q] \in Nat /\ Queued(q) \in Nat
        BY QueuedCount DEF RouterTypeOK
  <2>2. Awaited(q) = 0 /\ Awaited(q)' = (IF route.to = q THEN 1 ELSE 0)
        BY <1>4 DEF Awaited, Enqueue
  <2>3. Queued(q)' = Queued(q) + (IF route.to = q THEN 1 ELSE 0)
        BY StoredItem DEF Enqueue
  <2> QED BY <2>1, <2>2, <2>3 DEF CountsBacked
<1> QED BY <1>3, <1>5, <1>6, <1>7, <1>8

LEMMA EnqueueRaisesStep == ASSUME RouterInv, EnqueueRaises PROVE RouterInv'
<1> USE RouterConstantsOK DEF RouterInv
<1>1. /\ UNCHANGED <<stream, drawn, counts, decided, results>>
      /\ route' = NoRoute
      /\ route.at = "enqueue"
      BY DEF EnqueueRaises, EndRaised
<1>2. SamplesFollowSeed' /\ DrawsCounted'
      BY <1>1, SamplesUnchanged
<1>3. queue' = queue \/ queue' = Stored
      BY DEF EnqueueRaises
<1>4. RouterTypeOK'
      BY <1>1, <1>3, StoredItem DEF RouterTypeOK
<1>5. RouteOnItsWay'
      BY <1>1 DEF RouteOnItsWay
<1>6. ResultsQueued'
      BY <1>1, <1>3, StoredItem DEF ResultsQueued
<1>7. CountsBacked'
  <2> SUFFICES ASSUME NEW q \in Queues
               PROVE  counts[q] + Awaited(q)' <= Queued(q)'
      BY <1>1 DEF CountsBacked
  <2>1. counts[q] \in Nat /\ Queued(q) \in Nat
        BY QueuedCount DEF RouterTypeOK
  <2>2. Awaited(q) = 0 /\ Awaited(q)' = 0
        BY <1>1 DEF Awaited, NoRoute
  <2>3. Queued(q)' = Queued(q) \/ Queued(q)' = Queued(q) + 1
    <3>1. CASE queue' = queue
          BY <3>1 DEF Queued
    <3>2. CASE queue' = Stored
          BY <1>1, <2>1, <3>2, StoredItem
    <3> QED BY <1>3, <3>1, <3>2
  <2> QED BY <2>1, <2>2, <2>3 DEF CountsBacked
<1> QED BY <1>2, <1>4, <1>5, <1>6, <1>7

LEMMA CountStep == ASSUME RouterInv, CountAndReturn PROVE RouterInv'
<1> USE RouterConstantsOK DEF RouterInv
<1>1. /\ UNCHANGED <<stream, drawn, queue, decided>>
      /\ route' = NoRoute
      /\ route.at = "count"
      BY DEF CountAndReturn
<1>2. route # NoRoute
      BY <1>1 DEF NoRoute
<1>3. /\ route.to \in Queues \cup {"auto"}
      /\ route.about \in Recommendations
      BY <1>2, CallInProgress
<1>4. counts' = [counts EXCEPT ![route.to] = counts[route.to] + 1]
      BY DEF CountAndReturn
<1>5. counts' \in [Queues \cup {"auto"} -> Nat]
      BY <1>3, <1>4 DEF RouterTypeOK
<1>6. RouterTypeOK'
      BY <1>1, <1>3, <1>5 DEF RouterTypeOK, CountAndReturn
<1>7. SamplesFollowSeed' /\ DrawsCounted'
      BY <1>1, SamplesUnchanged
<1>8. RouteOnItsWay'
      BY <1>1 DEF RouteOnItsWay
<1>9. ResultsQueued'
  <2> SUFFICES ASSUME NEW x \in results'
               PROVE  /\ x.to = "auto" => x.about \notin Mandatory \cup Doubtful
                      /\ x.to # "auto" => \E i \in DOMAIN queue : queue[i] = x
                      /\ x.about \in Mandatory => x.to = "specialist_review"
      BY <1>1 DEF ResultsQueued
  <2>1. CASE x \in results
        BY <2>1 DEF ResultsQueued
  <2>2. CASE x = [about |-> route.about, to |-> route.to]
        BY <1>1, <1>2, <2>2 DEF RouteOnItsWay
  <2> QED BY <2>1, <2>2 DEF CountAndReturn
<1>10. CountsBacked'
  <2> SUFFICES ASSUME NEW q \in Queues
               PROVE  counts'[q] + Awaited(q)' <= Queued(q)
      BY <1>1 DEF CountsBacked, Queued
  <2>1. Awaited(q)' = 0
        BY <1>1 DEF Awaited, NoRoute
  <2>2. counts[q] \in Nat /\ Queued(q) \in Nat
        BY QueuedCount DEF RouterTypeOK
  <2>3. counts'[q] = counts[q] + Awaited(q)
        BY <1>1, <1>3, <1>4, <2>2 DEF RouterTypeOK, Awaited
  <2> QED BY <2>1, <2>2, <2>3 DEF CountsBacked, Awaited
<1> QED BY <1>6, <1>7, <1>8, <1>9, <1>10

LEMMA CrashStep == ASSUME RouterInv, RouterCrash PROVE RouterInv'
<1> USE RouterConstantsOK DEF RouterInv
<1>1. /\ UNCHANGED <<stream, queue, results>>
      /\ drawn' = 0
      /\ route' = NoRoute
      /\ counts' = NoCounts
      /\ decided' = << >>
      BY DEF RouterCrash
<1>2. Len(decided') = 0 /\ DOMAIN decided' = {}
      BY <1>1
<1>3. RouterTypeOK'
      BY <1>1 DEF RouterTypeOK, NoCounts
<1>4. SamplesFollowSeed'
      BY <1>2 DEF SamplesFollowSeed
<1>5. DrawsCounted'
  <2>1. Eligible(decided', Len(decided')) = {}
        BY <1>2 DEF Eligible
  <2>2. Cardinality(Eligible(decided', Len(decided'))) = 0
        BY <2>1, FS_EmptySet
  <2> QED BY <1>1, <1>2, <2>2 DEF DrawsCounted
<1>6. RouteOnItsWay' /\ ResultsQueued'
      BY <1>1 DEF RouteOnItsWay, ResultsQueued
<1>7. CountsBacked'
  <2> SUFFICES ASSUME NEW q \in Queues
               PROVE  counts'[q] + Awaited(q)' <= Queued(q)
      BY <1>1 DEF CountsBacked, Queued
  <2>1. counts'[q] = 0 /\ Awaited(q)' = 0
        BY <1>1 DEF NoCounts, Awaited, NoRoute
  <2> QED BY <2>1, QueuedCount
<1> QED BY <1>3, <1>4, <1>5, <1>6, <1>7

LEMMA RouterNextInv == RouterInv /\ [RouterNext]_routerVars => RouterInv'
<1> SUFFICES ASSUME RouterInv, [RouterNext]_routerVars PROVE RouterInv'
    OBVIOUS
<1>1. CASE \E r \in Recommendations : Decide(r)
      BY <1>1, DecideStep
<1>2. CASE Enqueue
      BY <1>2, EnqueueStep
<1>3. CASE EnqueueRaises
      BY <1>3, EnqueueRaisesStep
<1>4. CASE CountAndReturn
      BY <1>4, CountStep
<1>5. CASE RouterCrash
      BY <1>5, CrashStep
<1>6. CASE UNCHANGED routerVars
      BY <1>6 DEF routerVars, RouterInv, RouterTypeOK, SamplesFollowSeed,
                  DrawsCounted, Eligible, RouteOnItsWay, ResultsQueued,
                  CountsBacked, Awaited, Queued
<1> QED BY <1>1, <1>2, <1>3, <1>4, <1>5, <1>6 DEF RouterNext

(* What is routed can be evidenced and waits for somebody: the samples     *)
(* follow the seed, what route returned is in the queue it named, and the  *)
(* counter claims no review that no queue was handed (HitlRouter.route).   *)
THEOREM RoutingHolds == RouterSpec => []RoutingAccountable
<1>1. RouterInv => RoutingAccountable
  <2> SUFFICES ASSUME RouterInv PROVE RoutingAccountable
      OBVIOUS
  <2>1. \A q \in Queues : counts[q] <= Queued(q)
    <3> SUFFICES ASSUME NEW q \in Queues PROVE counts[q] <= Queued(q)
        OBVIOUS
    <3>1. counts[q] \in Nat /\ Queued(q) \in Nat
          BY QueuedCount DEF RouterInv, RouterTypeOK
    <3>2. Awaited(q) \in Nat
          BY DEF Awaited
    <3>3. counts[q] + Awaited(q) <= Queued(q)
          BY DEF RouterInv, CountsBacked
    <3> QED BY <3>1, <3>2, <3>3
  <2>2. RoutedWorkIsQueued
        BY <2>1 DEF RouterInv, ResultsQueued, RoutedWorkIsQueued, Queued
  <2> QED BY <2>2 DEF RouterInv, RoutingAccountable
<1> QED BY <1>1, RouterInitInv, RouterNextInv, PTL DEF RouterSpec

-----------------------------------------------------------------------------
(* FeedbackCapture                                                         *)

(* Where an action is learned, by which calls it is recorded and not yet   *)
(* answered, and where the log holds it.                                   *)
LearnedAt(a) ==
  {x \in Captures \X Nat : x[2] \in DOMAIN records[x[1]] /\ records[x[1]][x[2]] = a}
Owed(a) == {c \in Captures : capture[c] = <<a>> /\ slot[c] > 0}
AuditedAt(a) == {n \in DOMAIN oversight : oversight[n] = a}

(* A call that may still teach an action has it in the log already, beside *)
(* all that was learned of it before.                                      *)
TaughtAndOwed ==
  \A a \in Reviews :
    /\ IsFiniteSet(LearnedAt(a))
    /\ IsFiniteSet(Owed(a))
    /\ IsFiniteSet(AuditedAt(a))
    /\ Cardinality(LearnedAt(a)) + Cardinality(Owed(a)) <= Cardinality(AuditedAt(a))

FeedbackInv ==
  /\ CaptureTypeOK
  /\ \A n \in DOMAIN oversight : n \in Nat
  /\ \A c \in Captures : Busy(c) => dataset[c] \in Captures
  /\ LearnedOncePerAnswer
  /\ TaughtAndOwed

LEMMA CallOf ==
  ASSUME FeedbackInv, NEW c \in Captures, Busy(c)
  PROVE  /\ dataset[c] \in Captures
         /\ capture[c][1] \in Reviews
         /\ capture[c] = <<capture[c][1]>>
<1>1. PICK a \in Reviews : capture[c] = <<a>>
      BY DEF FeedbackInv, CaptureTypeOK, Busy
<1> QED BY <1>1 DEF FeedbackInv

LEMMA GatesTeach ==
  ASSUME NEW a \in Reviews
  PROVE  PassesGates(a) <=> a.outcome # "uphold" /\ a.fit_for_training
BY CaptureConstantsOK DEF PassesGates, INFORMATIVE_OUTCOMES, OversightActions

LEMMA LessonsCount ==
  ASSUME NEW s, NEW d, NEW n \in Nat
  PROVE  IsFiniteSet(Lessons(s, d, n)) /\ Cardinality(Lessons(s, d, n)) \in Nat
<1>1. Lessons(s, d, n) \subseteq 1..n /\ IsFiniteSet(1..n)
      BY FS_Interval DEF Lessons
<1> QED BY <1>1, FS_Subset, FS_CardinalityType

LEMMA LessonRank ==
  ASSUME NEW s, NEW d, NEW n \in Nat, NEW k \in Lessons(s, d, n)
  PROVE  /\ Cardinality(Lessons(s, d, k)) \in Nat \ {0}
         /\ Cardinality(Lessons(s, d, k)) <= Cardinality(Lessons(s, d, n))
<1>1. k \in 1..n /\ k \in Lessons(s, d, k)
      BY DEF Lessons
<1>2. Lessons(s, d, k) \subseteq Lessons(s, d, n)
      BY <1>1 DEF Lessons
<1>3. IsFiniteSet(Lessons(s, d, k)) /\ IsFiniteSet(Lessons(s, d, n))
      BY <1>1, LessonsCount
<1>4. Cardinality(Lessons(s, d, k)) # 0
      BY <1>1, <1>3, FS_EmptySet
<1> QED BY <1>2, <1>3, <1>4, FS_Subset, FS_CardinalityType

LEMMA FeedbackInitInv == FeedbackInit => FeedbackInv
<1> SUFFICES ASSUME FeedbackInit PROVE FeedbackInv
    OBVIOUS
<1> USE DEF FeedbackInit, Audit!Init
<1>1. DOMAIN oversight = {} /\ \A c \in Captures : ~Busy(c)
      BY DEF Busy
<1>2. CaptureTypeOK
      BY <1>1 DEF CaptureTypeOK
<1>3. LearnedOncePerAnswer
  <2> SUFFICES ASSUME NEW d \in Captures
               PROVE  Lessons(answered, d, Len(answered)) = {} /\ Len(records[d]) = 0
      BY FS_EmptySet DEF LearnedOncePerAnswer
  <2> QED BY DEF Lessons
<1>4. TaughtAndOwed
  <2>1. \A a \in Reviews : LearnedAt(a) = {} /\ Owed(a) = {} /\ AuditedAt(a) = {}
        BY <1>1 DEF LearnedAt, Owed, AuditedAt, Busy
  <2>2. IsFiniteSet({}) /\ Cardinality({}) = 0 /\ 0 + 0 <= 0
        BY FS_EmptySet
  <2> QED BY <2>1, <2>2 DEF TaughtAndOwed
<1> QED BY <1>1, <1>2, <1>3, <1>4 DEF FeedbackInv

(* A record of e adds one place of e to the log, and takes none away.      *)
LEMMA Recorded ==
  ASSUME FeedbackInv, NEW e \in Reviews, Audit!Record(e)
  PROVE  /\ DOMAIN oversight \subseteq DOMAIN oversight'
         /\ \A n \in DOMAIN oversight' : n \in Nat
         /\ \A a \in Reviews :
              /\ IsFiniteSet(AuditedAt(a)')
              /\ Cardinality(AuditedAt(a)')
                   = Cardinality(AuditedAt(a)) + (IF a = e THEN 1 ELSE 0)
<1>1. PICK n \in Audit!Ends :
        oversight' = [i \in DOMAIN oversight \cup {n} |->
                        IF i = n THEN e ELSE oversight[i]]
      BY DEF Audit!Record
<1>2. n \notin DOMAIN oversight /\ n \in Nat
      BY DEF Audit!Ends, FeedbackInv
<1>3. /\ DOMAIN oversight' = DOMAIN oversight \cup {n}
      /\ oversight'[n] = e
      /\ \A i \in DOMAIN oversight : oversight'[i] = oversight[i]
      BY <1>1, <1>2
<1>4. ASSUME NEW a \in Reviews
      PROVE  /\ IsFiniteSet(AuditedAt(a)')
             /\ Cardinality(AuditedAt(a)')
                  = Cardinality(AuditedAt(a)) + (IF a = e THEN 1 ELSE 0)
  <2>1. IsFiniteSet(AuditedAt(a)) /\ n \notin AuditedAt(a)
        BY <1>2 DEF FeedbackInv, TaughtAndOwed, AuditedAt
  <2>2. CASE a = e
    <3>1. AuditedAt(a)' = AuditedAt(a) \cup {n}
          BY <1>3, <2>2 DEF AuditedAt
    <3> QED BY <2>1, <2>2, <3>1, FS_AddElement
  <2>3. CASE a # e
    <3>1. AuditedAt(a)' = AuditedAt(a)
          BY <1>3, <2>3 DEF AuditedAt
    <3>2. Cardinality(AuditedAt(a)) \in Nat
          BY <2>1, FS_CardinalityType
    <3> QED BY <2>1, <2>3, <3>1, <3>2
  <2> QED BY <2>2, <2>3
<1>5. \A i \in DOMAIN oversight' : i \in Nat
      BY <1>2, <1>3 DEF FeedbackInv
<1> QED BY <1>3, <1>4, <1>5

LEMMA LessonsKept ==
  ASSUME LearnedOncePerAnswer, UNCHANGED <<records, answered>>
  PROVE  LearnedOncePerAnswer'
BY DEF LearnedOncePerAnswer, Lessons

LEMMA OpenStep ==
  ASSUME FeedbackInv, NEW c \in Captures, Open(c)
  PROVE  FeedbackInv'
<1>1. UNCHANGED <<records, capture, slot, answered, oversight, told>>
      BY DEF Open, auditLog
<1>2. PICK given \in {dataset[other] : other \in Captures} :
        dataset' = [dataset EXCEPT ![c] = Adopted(given, c)]
      BY DEF Open
<1>3. Adopted(given, c) \in Captures
      BY <1>2 DEF Adopted, FeedbackInv, CaptureTypeOK
<1>4. /\ dataset' \in [Captures -> Captures \cup {NoDataset}]
      /\ \A b \in Captures : dataset'[b] = dataset[b] \/ dataset'[b] \in Captures
      BY <1>2, <1>3 DEF FeedbackInv, CaptureTypeOK
<1>5. CaptureTypeOK'
      BY <1>1, <1>4 DEF FeedbackInv, CaptureTypeOK, Busy
<1>6. LearnedOncePerAnswer'
      BY <1>1, LessonsKept DEF FeedbackInv
<1>7. TaughtAndOwed'
      BY <1>1 DEF FeedbackInv, TaughtAndOwed, LearnedAt, Owed, AuditedAt
<1> QED BY <1>1, <1>4, <1>5, <1>6, <1>7 DEF FeedbackInv, Busy

LEMMA CaptureStep ==
  ASSUME FeedbackInv, NEW c \in Captures, NEW e \in Reviews, Capture(c, e)
  PROVE  FeedbackInv'
<1>1. UNCHANGED <<dataset, records, slot, answered, oversight, told>>
      BY DEF Capture, auditLog
<1>2. /\ capture' = [capture EXCEPT ![c] = <<e>>]
      /\ slot[c] = 0
      /\ dataset[c] \in Captures
      BY DEF Capture, FeedbackInv, CaptureTypeOK
<1>3. CaptureTypeOK'
      BY <1>1, <1>2 DEF FeedbackInv, CaptureTypeOK, Busy
<1>4. LearnedOncePerAnswer'
      BY <1>1, LessonsKept DEF FeedbackInv
<1>5. \A b \in Captures : slot[b] > 0 => capture'[b] = capture[b]
      BY <1>2 DEF FeedbackInv, CaptureTypeOK
<1>6. \A a \in Reviews : /\ LearnedAt(a)' = LearnedAt(a)
                         /\ AuditedAt(a)' = AuditedAt(a)
      BY <1>1 DEF LearnedAt, AuditedAt
<1>7. \A a \in Reviews : Owed(a)' = Owed(a)
      BY <1>1, <1>5 DEF Owed
<1>8. TaughtAndOwed'
      BY <1>6, <1>7 DEF FeedbackInv, TaughtAndOwed
<1> QED BY <1>1, <1>2, <1>3, <1>4, <1>8 DEF FeedbackInv, Busy, CaptureTypeOK

LEMMA AppendAuditStep ==
  ASSUME FeedbackInv, NEW c \in Captures, AppendAudit(c)
  PROVE  FeedbackInv'
<1> DEFINE e == capture[c][1]
<1>1. /\ Busy(c) /\ slot[c] = 0
      /\ UNCHANGED <<dataset, records, capture, answered>>
      BY DEF AppendAudit, Appending
<1>2. Audit!Record(e)
      BY DEF AppendAudit
<1>3. e \in Reviews /\ capture[c] = <<e>>
      BY <1>1, CallOf
<1>4. /\ DOMAIN oversight \subseteq DOMAIN oversight'
      /\ \A n \in DOMAIN oversight' : n \in Nat
      BY <1>3, <1>2, Recorded
<1>5. PICK n \in DOMAIN oversight' : slot' = [slot EXCEPT ![c] = n + 1]
      BY DEF AppendAudit
<1>6. /\ slot' \in [Captures -> Nat]
      /\ slot'[c] > 0
      /\ slot'[c] - 1 \in DOMAIN oversight'
      /\ \A b \in Captures \ {c} : slot'[b] = slot[b]
  <2>1. n \in Nat /\ n + 1 \in Nat /\ n + 1 > 0 /\ (n + 1) - 1 = n
        BY <1>4
  <2>2. slot' \in [Captures -> Nat] /\ slot'[c] = n + 1
        BY <1>5, <2>1 DEF FeedbackInv, CaptureTypeOK
  <2>3. \A b \in Captures \ {c} : slot'[b] = slot[b]
        BY <1>5 DEF FeedbackInv, CaptureTypeOK
  <2> QED BY <2>1, <2>2, <2>3
<1>7. CaptureTypeOK'
      BY <1>1, <1>4, <1>6 DEF FeedbackInv, CaptureTypeOK, Busy
<1>8. LearnedOncePerAnswer'
      BY <1>1, LessonsKept DEF FeedbackInv
<1>9. TaughtAndOwed'
  <2> SUFFICES ASSUME NEW a \in Reviews
               PROVE  /\ IsFiniteSet(LearnedAt(a)')
                      /\ IsFiniteSet(Owed(a)')
                      /\ IsFiniteSet(AuditedAt(a)')
                      /\ Cardinality(LearnedAt(a)') + Cardinality(Owed(a)')
                           <= Cardinality(AuditedAt(a)')
      BY DEF TaughtAndOwed
  <2> DEFINE one == IF a = e THEN 1 ELSE 0
  <2>1. /\ IsFiniteSet(AuditedAt(a)')
        /\ Cardinality(AuditedAt(a)') = Cardinality(AuditedAt(a)) + one
        BY <1>3, <1>2, Recorded
  <2>2. LearnedAt(a)' = LearnedAt(a)
        BY <1>1 DEF LearnedAt
  <2>3. /\ IsFiniteSet(LearnedAt(a)) /\ IsFiniteSet(Owed(a))
        /\ IsFiniteSet(AuditedAt(a))
        /\ Cardinality(LearnedAt(a)) + Cardinality(Owed(a))
              <= Cardinality(AuditedAt(a))
        BY DEF FeedbackInv, TaughtAndOwed
  <2>4. /\ IsFiniteSet(Owed(a)')
        /\ Cardinality(Owed(a)') = Cardinality(Owed(a)) + one
    <3>1. CASE a = e
      <4>1. Owed(a)' = Owed(a) \cup {c} /\ c \notin Owed(a)
            BY <1>1, <1>3, <1>6, <3>1 DEF Owed
      <4> QED BY <2>3, <3>1, <4>1, FS_AddElement
    <3>2. CASE a # e
      <4>1. Owed(a)' = Owed(a)
            BY <1>1, <1>3, <1>6, <3>2 DEF Owed
      <4>2. Cardinality(Owed(a)) \in Nat
            BY <2>3, FS_CardinalityType
      <4> QED BY <2>3, <3>2, <4>1, <4>2
    <3> QED BY <3>1, <3>2
  <2>5. /\ Cardinality(LearnedAt(a)) \in Nat
        /\ Cardinality(Owed(a)) \in Nat
        /\ Cardinality(AuditedAt(a)) \in Nat
        BY <2>3, FS_CardinalityType
  <2> HIDE DEF one
  <2>6. one \in Nat
        BY DEF one
  <2> QED BY <2>1, <2>2, <2>3, <2>4, <2>5, <2>6
<1> QED BY <1>1, <1>4, <1>7, <1>8, <1>9 DEF FeedbackInv, Busy

LEMMA AppendRaisesStep ==
  ASSUME FeedbackInv, NEW c \in Captures, AppendRaises(c)
  PROVE  FeedbackInv'
<1> DEFINE e == capture[c][1]
<1>1. /\ Busy(c) /\ slot[c] = 0
      /\ UNCHANGED <<dataset, records, answered>>
      /\ capture' = [capture EXCEPT ![c] = << >>]
      /\ slot' = [slot EXCEPT ![c] = 0]
      BY DEF AppendRaises, Appending, EndCapture
<1>2. e \in Reviews
      BY <1>1, CallOf
<1>3. oversight' = oversight \/ Audit!Record(e)
      BY DEF AppendRaises, auditLog
<1>4. /\ DOMAIN oversight \subseteq DOMAIN oversight'
      /\ \A n \in DOMAIN oversight' : n \in Nat
      BY <1>2, <1>3, Recorded DEF FeedbackInv
<1>5. /\ capture' \in [Captures -> {<<a>> : a \in Reviews} \cup {<< >>}]
      /\ slot' \in [Captures -> Nat]
      /\ slot'[c] = 0 /\ capture'[c] = << >>
      /\ \A b \in Captures \ {c} : slot'[b] = slot[b] /\ capture'[b] = capture[b]
      BY <1>1 DEF FeedbackInv, CaptureTypeOK
<1>6. CaptureTypeOK'
  <2>1. ASSUME NEW b \in Captures, slot'[b] > 0
        PROVE  capture'[b] # << >> /\ slot'[b] - 1 \in DOMAIN oversight'
    <3>1. b # c
          BY <1>5, <2>1
    <3>2. slot'[b] = slot[b] /\ capture'[b] = capture[b]
          BY <1>5, <3>1
    <3> QED BY <1>4, <2>1, <3>2 DEF FeedbackInv, CaptureTypeOK, Busy
  <2> QED BY <1>1, <1>5, <2>1 DEF FeedbackInv, CaptureTypeOK, Busy
<1>7. LearnedOncePerAnswer'
      BY <1>1, LessonsKept DEF FeedbackInv
<1>8. TaughtAndOwed'
  <2> SUFFICES ASSUME NEW a \in Reviews
               PROVE  /\ IsFiniteSet(LearnedAt(a)')
                      /\ IsFiniteSet(Owed(a)')
                      /\ IsFiniteSet(AuditedAt(a)')
                      /\ Cardinality(LearnedAt(a)') + Cardinality(Owed(a)')
                           <= Cardinality(AuditedAt(a)')
      BY DEF TaughtAndOwed
  <2>1. /\ IsFiniteSet(LearnedAt(a)) /\ IsFiniteSet(Owed(a))
        /\ IsFiniteSet(AuditedAt(a))
        /\ Cardinality(LearnedAt(a)) + Cardinality(Owed(a))
              <= Cardinality(AuditedAt(a))
        BY DEF FeedbackInv, TaughtAndOwed
  <2>2. /\ Cardinality(LearnedAt(a)) \in Nat
        /\ Cardinality(Owed(a)) \in Nat
        /\ Cardinality(AuditedAt(a)) \in Nat
        BY <2>1, FS_CardinalityType
  <2>3. /\ IsFiniteSet(AuditedAt(a)')
        /\ Cardinality(AuditedAt(a)') >= Cardinality(AuditedAt(a))
        /\ Cardinality(AuditedAt(a)') \in Nat
    <3>1. CASE oversight' = oversight
          BY <2>1, <2>2, <3>1 DEF AuditedAt
    <3>2. CASE Audit!Record(e)
          BY <1>2, <2>2, <3>2, Recorded
    <3> QED BY <1>3, <3>1, <3>2
  <2>4. LearnedAt(a)' = LearnedAt(a)
        BY <1>1 DEF LearnedAt
  <2>5. Owed(a)' = Owed(a)
        BY <1>1, <1>5 DEF Owed
  <2> QED BY <2>1, <2>2, <2>3, <2>4, <2>5
<1>9. \A b \in Captures : Busy(b)' => dataset'[b] \in Captures
      BY <1>1, <1>5 DEF FeedbackInv, Busy
<1> QED BY <1>4, <1>6, <1>7, <1>8, <1>9 DEF FeedbackInv

(* A call that teaches appends its action to the dataset it was opened on; *)
(* it owed the log nothing, for the action is there since the append.      *)
LEMMA AdmitStep ==
  ASSUME FeedbackInv, NEW c \in Captures, AdmitAndReturn(c)
  PROVE  FeedbackInv'
<1> DEFINE e == capture[c][1]
           d == dataset[c]
           n == Len(answered)
           taught == PassesGates(e)
<1>1. /\ Busy(c) /\ slot[c] > 0
      /\ UNCHANGED <<dataset, oversight>>
      /\ capture' = [capture EXCEPT ![c] = << >>]
      /\ slot' = [slot EXCEPT ![c] = 0]
      /\ answered' = Append(answered, <<d, e>>)
      BY DEF AdmitAndReturn, EndCapture, Audit!Answer
<1>2. e \in Reviews /\ d \in Captures /\ capture[c] = <<e>>
      BY <1>1, CallOf
<1>3. records' = IF taught THEN [records EXCEPT ![d] = Append(records[d], e)]
                 ELSE records
      BY DEF AdmitAndReturn, Learned
<1>4. taught <=> e.outcome # "uphold" /\ e.fit_for_training
      BY <1>2, GatesTeach
<1> HIDE DEF taught, e, d
<1>5. /\ records \in [Captures -> Seq(Reviews)]
      /\ records[d] \in Seq(Reviews)
      /\ Len(records[d]) \in Nat
      /\ answered \in Seq(Captures \X Reviews)
      /\ n \in Nat
      BY <1>2 DEF FeedbackInv, CaptureTypeOK
<1>6. /\ answered' \in Seq(Captures \X Reviews)
      /\ Len(answered') = n + 1
      /\ answered'[n + 1] = <<d, e>>
      /\ \A k \in 1..n : answered'[k] = answered[k]
      BY <1>1, <1>2, <1>5
<1>7. /\ records' \in [Captures -> Seq(Reviews)]
      /\ \A b \in Captures \ {d} : records'[b] = records[b]
      /\ taught => records'[d] = Append(records[d], e)
      /\ ~taught => records'[d] = records[d]
      BY <1>2, <1>3, <1>5
<1>8. /\ capture' \in [Captures -> {<<a>> : a \in Reviews} \cup {<< >>}]
      /\ slot' \in [Captures -> Nat]
      /\ slot'[c] = 0 /\ capture'[c] = << >>
      /\ \A b \in Captures \ {c} : slot'[b] = slot[b] /\ capture'[b] = capture[b]
      BY <1>1 DEF FeedbackInv, CaptureTypeOK
<1>9. CaptureTypeOK'
  <2>1. ASSUME NEW b \in Captures, slot'[b] > 0
        PROVE  capture'[b] # << >> /\ slot'[b] - 1 \in DOMAIN oversight'
    <3>1. b # c
          BY <1>8, <2>1
    <3>2. slot'[b] = slot[b] /\ capture'[b] = capture[b]
          BY <1>8, <3>1
    <3> QED BY <1>1, <2>1, <3>2 DEF FeedbackInv, CaptureTypeOK, Busy
  <2> QED BY <1>1, <1>6, <1>7, <1>8, <2>1 DEF FeedbackInv, CaptureTypeOK, Busy
<1>10. LearnedOncePerAnswer'
  <2> DEFINE before(b, k) == Lessons(answered, b, k)
             after(b, k) == Lessons(answered', b, k)
  <2> SUFFICES ASSUME NEW b \in Captures
               PROVE  /\ Len(records'[b]) = Cardinality(after(b, n + 1))
                      /\ \A k \in after(b, n + 1) :
                           records'[b][Cardinality(after(b, k))] = answered'[k][2]
      BY <1>6 DEF LearnedOncePerAnswer
  <2>1. /\ Len(records[b]) = Cardinality(before(b, n))
        /\ \A k \in before(b, n) :
             records[b][Cardinality(before(b, k))] = answered[k][2]
        BY DEF FeedbackInv, LearnedOncePerAnswer
  <2>2. \A k \in 0..n : after(b, k) = before(b, k)
    <3> SUFFICES ASSUME NEW k \in 0..n PROVE after(b, k) = before(b, k)
        OBVIOUS
    <3>1. \A j \in 1..k : answered'[j] = answered[j]
          BY <1>5, <1>6
    <3> QED BY <3>1 DEF Lessons
  <2>3. \A k \in before(b, n) : k \in 1..n
        BY DEF Lessons
  <2>4. CASE taught /\ b = d
    <3>1. /\ after(b, n + 1) = before(b, n) \cup {n + 1}
          /\ n + 1 \notin before(b, n)
          BY <1>4, <1>5, <1>6, <2>4, SMTT(30) DEF Lessons
    <3>2. /\ IsFiniteSet(before(b, n))
          /\ Cardinality(after(b, n + 1)) = Cardinality(before(b, n)) + 1
          BY <1>5, <3>1, LessonsCount, FS_AddElement
    <3>3. /\ Len(records'[b]) = Len(records[b]) + 1
          /\ records'[b][Len(records[b]) + 1] = e
          /\ \A i \in 1..Len(records[b]) : records'[b][i] = records[b][i]
      <4>1. records[b] \in Seq(Reviews) /\ records'[b] = Append(records[b], e)
            BY <1>5, <1>7, <2>4
      <4> QED BY <4>1
    <3>4. ASSUME NEW k \in after(b, n + 1)
          PROVE  records'[b][Cardinality(after(b, k))] = answered'[k][2]
      <4>1. CASE k = n + 1
            BY <1>6, <2>1, <3>2, <3>3, <4>1
      <4>2. CASE k \in before(b, n)
        <5>1. Cardinality(before(b, k)) \in 1..Len(records[b])
              BY <1>5, <2>1, <4>2, LessonRank
        <5>2. after(b, k) = before(b, k) /\ answered'[k] = answered[k]
              BY <1>5, <1>6, <2>2, <2>3, <4>2
        <5> QED BY <2>1, <3>3, <4>2, <5>1, <5>2
      <4> QED BY <3>1, <3>4, <4>1, <4>2
    <3> QED BY <2>1, <3>2, <3>3, <3>4
  <2>5. CASE ~(taught /\ b = d)
    <3>1. after(b, n + 1) = before(b, n)
      <4>1. \A j \in 1..n : answered'[j] = answered[j]
            BY <1>6
      <4>2. n + 1 \notin after(b, n + 1)
            BY <1>4, <1>5, <1>6, <2>5 DEF Lessons
      <4>3. 1..(n + 1) = 1..n \cup {n + 1}
            BY <1>5
      <4> QED BY <4>1, <4>2, <4>3 DEF Lessons
    <3>2. records'[b] = records[b]
          BY <1>7, <2>5
    <3>3. \A k \in before(b, n) :
            after(b, k) = before(b, k) /\ answered'[k] = answered[k]
          BY <1>5, <1>6, <2>2, <2>3
    <3> QED BY <2>1, <3>1, <3>2, <3>3
  <2> QED BY <2>4, <2>5
<1>11. \A b \in Captures :
         /\ \A i \in DOMAIN records[b] :
              i \in DOMAIN records'[b] /\ records'[b][i] = records[b][i]
         /\ \A i \in DOMAIN records'[b] :
              i \in DOMAIN records[b]
                \/ (b = d /\ i = Len(records[d]) + 1 /\ records'[b][i] = e)
  <2> SUFFICES ASSUME NEW b \in Captures
               PROVE  /\ \A i \in DOMAIN records[b] :
                           i \in DOMAIN records'[b] /\ records'[b][i] = records[b][i]
                      /\ \A i \in DOMAIN records'[b] :
                           i \in DOMAIN records[b]
                             \/ (b = d /\ i = Len(records[d]) + 1
                                   /\ records'[b][i] = e)
      OBVIOUS
  <2>1. CASE records'[b] = records[b]
        BY <2>1
  <2>2. CASE b = d /\ records'[b] = Append(records[b], e)
        BY <1>5, <2>2
  <2> QED BY <1>7, <2>1, <2>2
<1>12. TaughtAndOwed'
  <2> SUFFICES ASSUME NEW a \in Reviews
               PROVE  /\ IsFiniteSet(LearnedAt(a)')
                      /\ IsFiniteSet(Owed(a)')
                      /\ IsFiniteSet(AuditedAt(a)')
                      /\ Cardinality(LearnedAt(a)') + Cardinality(Owed(a)')
                           <= Cardinality(AuditedAt(a)')
      BY DEF TaughtAndOwed
  <2>1. /\ IsFiniteSet(LearnedAt(a)) /\ IsFiniteSet(Owed(a))
        /\ IsFiniteSet(AuditedAt(a))
        /\ Cardinality(LearnedAt(a)) + Cardinality(Owed(a))
              <= Cardinality(AuditedAt(a))
        BY DEF FeedbackInv, TaughtAndOwed
  <2>2. /\ Cardinality(LearnedAt(a)) \in Nat
        /\ Cardinality(Owed(a)) \in Nat
        /\ Cardinality(AuditedAt(a)) \in Nat
        BY <2>1, FS_CardinalityType
  <2>3. AuditedAt(a)' = AuditedAt(a)
        BY <1>1 DEF AuditedAt
  <2>4. CASE a = e
    <3>1. c \in Owed(a) /\ Owed(a)' = Owed(a) \ {c}
          BY <1>1, <1>2, <1>8, <2>4 DEF Owed
    <3>2. /\ IsFiniteSet(Owed(a)')
          /\ Cardinality(Owed(a)') = Cardinality(Owed(a)) - 1
          BY <2>1, <3>1, FS_RemoveElement
    <3>3. /\ IsFiniteSet(LearnedAt(a)')
          /\ Cardinality(LearnedAt(a)') \in Nat
          /\ Cardinality(LearnedAt(a)') <= Cardinality(LearnedAt(a)) + 1
      <4> DEFINE x == <<d, Len(records[d]) + 1>>
      <4>1. LearnedAt(a)' \subseteq LearnedAt(a) \cup {x}
        <5> SUFFICES ASSUME NEW y \in LearnedAt(a)', y # x
                     PROVE  y \in LearnedAt(a)
            OBVIOUS
        <5>1. /\ y \in Captures \X Nat
              /\ y = <<y[1], y[2]>>
              /\ y[1] \in Captures
              /\ y[2] \in DOMAIN records'[y[1]]
              /\ records'[y[1]][y[2]] = a
              BY DEF LearnedAt
        <5>2. /\ y[2] \in DOMAIN records[y[1]]
              /\ records[y[1]][y[2]] = records'[y[1]][y[2]]
              BY <1>11, <5>1
        <5> QED BY <5>1, <5>2 DEF LearnedAt
      <4>2. /\ IsFiniteSet(LearnedAt(a) \cup {x})
            /\ \/ Cardinality(LearnedAt(a) \cup {x}) = Cardinality(LearnedAt(a))
               \/ Cardinality(LearnedAt(a) \cup {x}) = Cardinality(LearnedAt(a)) + 1
            BY <2>1, FS_AddElement
      <4> HIDE DEF x
      <4>3. /\ IsFiniteSet(LearnedAt(a)')
            /\ Cardinality(LearnedAt(a)') <= Cardinality(LearnedAt(a) \cup {x})
            BY <4>1, <4>2, FS_Subset
      <4>4. Cardinality(LearnedAt(a)') \in Nat
            BY <4>3, FS_CardinalityType
      <4> QED BY <2>2, <4>2, <4>3, <4>4
    <3>4. Cardinality(Owed(a)) # 0
          BY <2>1, <3>1, FS_EmptySet
    <3> QED BY <2>1, <2>2, <2>3, <3>2, <3>3, <3>4
  <2>5. CASE a # e
    <3>1. Owed(a)' = Owed(a)
          BY <1>2, <1>8, <2>5 DEF Owed
    <3>2. LearnedAt(a)' = LearnedAt(a)
      <4>1. \A b \in Captures, i \in Nat :
              (i \in DOMAIN records'[b] /\ records'[b][i] = a)
                <=> (i \in DOMAIN records[b] /\ records[b][i] = a)
            BY <1>11, <2>5
      <4> QED BY <4>1 DEF LearnedAt
    <3> QED BY <2>1, <2>3, <3>1, <3>2
  <2> QED BY <2>4, <2>5
<1>13. \A b \in Captures : Busy(b)' => dataset'[b] \in Captures
       BY <1>1, <1>8 DEF FeedbackInv, Busy
<1> QED BY <1>1, <1>9, <1>10, <1>12, <1>13 DEF FeedbackInv

LEMMA FeedbackCrashStep == ASSUME FeedbackInv, FeedbackCrash PROVE FeedbackInv'
<1>1. /\ dataset' = [c \in Captures |-> NoDataset]
      /\ records' = [d \in Captures |-> << >>]
      /\ capture' = [c \in Captures |-> << >>]
      /\ slot' = [c \in Captures |-> 0]
      /\ answered' = << >>
      /\ oversight' = oversight
      BY DEF FeedbackCrash, auditLog
<1>2. CaptureTypeOK'
      BY <1>1 DEF CaptureTypeOK
<1>3. \A c \in Captures : ~Busy(c)'
      BY <1>1 DEF Busy
<1>4. IsFiniteSet({}) /\ Cardinality({}) = 0
      BY FS_EmptySet
<1>5. LearnedOncePerAnswer'
  <2>1. \A d \in Captures :
          Lessons(answered', d, Len(answered')) = {} /\ Len(records'[d]) = 0
        BY <1>1 DEF Lessons
  <2> QED BY <1>4, <2>1 DEF LearnedOncePerAnswer
<1>6. TaughtAndOwed'
  <2> SUFFICES ASSUME NEW a \in Reviews
               PROVE  /\ IsFiniteSet(LearnedAt(a)')
                      /\ IsFiniteSet(Owed(a)')
                      /\ IsFiniteSet(AuditedAt(a)')
                      /\ Cardinality(LearnedAt(a)') + Cardinality(Owed(a)')
                           <= Cardinality(AuditedAt(a)')
      BY DEF TaughtAndOwed
  <2>1. LearnedAt(a)' = {} /\ Owed(a)' = {} /\ AuditedAt(a)' = AuditedAt(a)
        BY <1>1 DEF LearnedAt, Owed, AuditedAt
  <2>2. IsFiniteSet(AuditedAt(a)) /\ Cardinality(AuditedAt(a)) \in Nat
        BY FS_CardinalityType DEF FeedbackInv, TaughtAndOwed
  <2> QED BY <1>4, <2>1, <2>2
<1> QED BY <1>1, <1>2, <1>3, <1>5, <1>6 DEF FeedbackInv

LEMMA FeedbackNextInv == FeedbackInv /\ [FeedbackNext]_feedbackVars => FeedbackInv'
<1> SUFFICES ASSUME FeedbackInv, [FeedbackNext]_feedbackVars PROVE FeedbackInv'
    OBVIOUS
<1>1. CASE \E c \in Captures, a \in Reviews : Capture(c, a)
      BY <1>1, CaptureStep
<1>2. CASE \E c \in Captures :
             Open(c) \/ AppendAudit(c) \/ AppendRaises(c) \/ AdmitAndReturn(c)
      BY <1>2, OpenStep, AppendAuditStep, AppendRaisesStep, AdmitStep
<1>3. CASE FeedbackCrash
      BY <1>3, FeedbackCrashStep
<1>4. CASE UNCHANGED feedbackVars
  <2>1. UNCHANGED <<dataset, records, capture, slot, answered, oversight>>
        BY <1>4 DEF feedbackVars, auditLog
  <2>2. CaptureTypeOK'
        BY <2>1 DEF FeedbackInv, CaptureTypeOK, Busy
  <2>3. LearnedOncePerAnswer'
        BY <2>1, LessonsKept DEF FeedbackInv
  <2>4. TaughtAndOwed'
        BY <2>1 DEF FeedbackInv, TaughtAndOwed, LearnedAt, Owed, AuditedAt
  <2> QED BY <2>1, <2>2, <2>3, <2>4 DEF FeedbackInv, Busy
<1> QED BY <1>1, <1>2, <1>3, <1>4 DEF FeedbackNext

(* What a model may learn from is on the record, and taught once: however  *)
(* many captures share a dataset, and whatever appends fail, lose their    *)
(* answer or are tried again (FeedbackCapture.capture).                    *)
THEOREM LearningHolds == FeedbackSpec => []LearningAccountable
<1>1. FeedbackInv => LearningAccountable
  <2> SUFFICES ASSUME FeedbackInv PROVE LearningAccountable
      OBVIOUS
  <2>1. LearnedIsAudited
    <3> SUFFICES ASSUME NEW a \in Reviews
                 PROVE  Cardinality({x \in {<<d, i>> : d \in Captures, i \in 1..MaxRecords} :
                                       x[2] \in DOMAIN records[x[1]]
                                         /\ records[x[1]][x[2]] = a})
                          <= Cardinality({n \in DOMAIN oversight : oversight[n] = a})
        BY DEF LearnedIsAudited
    <3> DEFINE counted == {x \in {<<d, i>> : d \in Captures, i \in 1..MaxRecords} :
                             x[2] \in DOMAIN records[x[1]] /\ records[x[1]][x[2]] = a}
    <3>1. counted \subseteq LearnedAt(a)
          BY CaptureConstantsOK DEF LearnedAt
    <3>2. /\ IsFiniteSet(LearnedAt(a)) /\ IsFiniteSet(Owed(a))
          /\ IsFiniteSet(AuditedAt(a))
          /\ Cardinality(LearnedAt(a)) + Cardinality(Owed(a))
                <= Cardinality(AuditedAt(a))
          BY DEF FeedbackInv, TaughtAndOwed
    <3>3. IsFiniteSet(counted) /\ Cardinality(counted) <= Cardinality(LearnedAt(a))
          BY <3>1, <3>2, FS_Subset
    <3>4. /\ Cardinality(counted) \in Nat
          /\ Cardinality(LearnedAt(a)) \in Nat
          /\ Cardinality(Owed(a)) \in Nat
          /\ Cardinality(AuditedAt(a)) \in Nat
          BY <3>2, <3>3, FS_CardinalityType
    <3> HIDE DEF counted
    <3>5. Cardinality(counted) <= Cardinality(AuditedAt(a))
          BY <3>2, <3>3, <3>4
    <3> QED BY <3>5 DEF counted, AuditedAt
  <2> QED BY <2>1 DEF FeedbackInv, LearningAccountable
<1> QED BY <1>1, FeedbackInitInv, FeedbackNextInv, PTL DEF FeedbackSpec

-----------------------------------------------------------------------------
(* BriefingPipeline, for every cap, every reviewer and any number of       *)
(* crashes.                                                                *)

(* Where run_pipeline is, and what the reviewer said on the way there.     *)
PlainInv ==
  /\ trace.drafts = plain.attempt
  /\ plain.at = "research" => plain.hop = 0 /\ plain.attempt = 0
  /\ plain.at = "draft" =>
       /\ plain.hop = 2 * plain.attempt
       /\ plain.hop < cap
       /\ Rejected(plain.attempt)
  /\ plain.at = "review" =>
       /\ plain.hop = 2 * plain.attempt - 1
       /\ plain.hop <= cap
       /\ plain.attempt \in Attempts
       /\ Rejected(plain.attempt - 1)
  /\ plain.at = "approved" =>
       /\ plain.hop = 2 * plain.attempt
       /\ plain.hop <= cap + 1
       /\ plain.attempt \in Attempts
       /\ reviewer[plain.attempt] = "approve"
       /\ Rejected(plain.attempt - 1)
  /\ plain.at = "capped" =>
       /\ plain.hop = 2 * plain.attempt
       /\ cap <= plain.hop
       /\ plain.hop <= cap + 1
       /\ Rejected(plain.attempt)
  /\ plain.hop <= cap + (cap % 2)

(* The same of the graph's saved state.                                    *)
GraphInv ==
  /\ graph.next = "research" => graph.attempt = 0
  /\ graph.next = "draft" => graph.hop < MaxHops /\ Rejected(graph.attempt)
  /\ graph.next = "review" =>
       /\ graph.hop <= MaxHops
       /\ graph.attempt \in Attempts
       /\ Rejected(graph.attempt - 1)
  /\ graph.next \in {"publish", "published"} => graph.hop <= MaxHops + 1
  /\ graph.next = "end" =>
       /\ MaxHops <= graph.hop
       /\ graph.hop <= MaxHops + 1
       /\ Rejected(graph.attempt)
  /\ graph.hop <= MaxHops + (MaxHops % 2)

PipelineInv ==
  /\ TypeOK
  /\ PlainInv
  /\ GraphInv
  /\ HopsCountSavedNodes
  /\ PublishesFirstApproved
  /\ MapChargesRejections

LEMMA PipelineInitInv == Init => PipelineInv
<1> SUFFICES ASSUME Init PROVE PipelineInv
    OBVIOUS
<1> USE PipelineConstantsOK DEF Init
<1>1. TypeOK
      BY DEF TypeOK, Traces
<1>2. PlainInv /\ GraphInv
      BY DEF PlainInv, GraphInv
<1>3. HopsCountSavedNodes /\ PublishesFirstApproved /\ MapChargesRejections
  <2>1. Answered({"revise"}) = {} /\ Answered(Decisions) = {}
        BY DEF Answered
  <2> QED BY <2>1, FS_EmptySet
          DEF HopsCountSavedNodes, PublishesFirstApproved, MapChargesRejections
<1> QED BY <1>1, <1>2, <1>3 DEF PipelineInv

-----------------------------------------------------------------------------
(* run_pipeline's steps                                                    *)

LEMMA ResearchStep == PipelineInv /\ Research => PipelineInv'
<1> SUFFICES ASSUME PipelineInv, Research PROVE PipelineInv'
    OBVIOUS
<1> USE PipelineConstantsOK DEF Research, NextRound, MayDraft, graphVars
<1>1. TypeOK'
      BY DEF PipelineInv, TypeOK, PlainEnds
<1>2. PlainInv'
      BY DEF PipelineInv, TypeOK, PlainInv, Rejected
<1>3. GraphInv' /\ HopsCountSavedNodes' /\ PublishesFirstApproved' /\ MapChargesRejections'
      BY DEF PipelineInv, GraphInv, HopsCountSavedNodes, PublishesFirstApproved,
             MapChargesRejections, Answered, Rejected
<1> QED BY <1>1, <1>2, <1>3 DEF PipelineInv

(* A review appends its answer to those that were counted.                 *)
LEMMA AnsweredGrows ==
  ASSUME NEW words, NEW n \in Nat,
         IsFiniteSet({a \in 1..n : reviewer[a] \in words})
  PROVE  /\ IsFiniteSet({a \in 1..(n + 1) : reviewer[a] \in words})
         /\ Cardinality({a \in 1..(n + 1) : reviewer[a] \in words})
              = IF reviewer[n + 1] \in words
                THEN Cardinality({a \in 1..n : reviewer[a] \in words}) + 1
                ELSE Cardinality({a \in 1..n : reviewer[a] \in words})
<1> DEFINE Said(m) == {a \in 1..m : reviewer[a] \in words}
<1>1. 1..(n + 1) = (1..n) \cup {n + 1} /\ n + 1 \notin 1..n
      OBVIOUS
<1>2. CASE reviewer[n + 1] \in words
  <2>1. Said(n + 1) = Said(n) \cup {n + 1} /\ n + 1 \notin Said(n)
        BY <1>1, <1>2
  <2> HIDE DEF Said
  <2>2. IsFiniteSet(Said(n))
        BY DEF Said
  <2>3. /\ IsFiniteSet(Said(n + 1))
        /\ Cardinality(Said(n + 1)) = Cardinality(Said(n)) + 1
        BY <2>1, <2>2, FS_AddElement
  <2> QED BY <1>2, <2>3 DEF Said
<1>3. CASE reviewer[n + 1] \notin words
  <2>1. Said(n + 1) = Said(n)
        BY <1>1, <1>3
  <2> QED BY <1>3, <2>1
<1> QED BY <1>2, <1>3

(* The updates of a trace, and of where the loop is, keep their types.     *)
LEMMA DraftTraced ==
  ASSUME NEW t \in Traces, NEW x \in Nat, NEW y \in Nat
  PROVE  [t EXCEPT !.drafts = x, !.toReviewer = y] \in Traces
BY DEF Traces

LEMMA ReviewTraced ==
  ASSUME NEW t \in Traces, NEW x \in Nat, NEW y \in Nat, NEW z \in Nat
  PROVE  [t EXCEPT !.reviews = x, !.revise = y, !.toWriter = z] \in Traces
BY DEF Traces

LEMMA LoopMoves ==
  ASSUME NEW Points, NEW p \in [at : Points, hop : Nat, attempt : 0..MaxHops],
         NEW h \in Nat, NEW point \in Points
  PROVE  [p EXCEPT !.hop = h, !.at = point]
           \in [at : Points, hop : Nat, attempt : 0..MaxHops]
OBVIOUS

LEMMA DraftStep == PipelineInv /\ Draft => PipelineInv'
<1> SUFFICES ASSUME PipelineInv, Draft PROVE PipelineInv'
    OBVIOUS
<1> USE PipelineConstantsOK DEF Draft, graphVars
<1>1. plain.hop = 2 * plain.attempt /\ plain.hop < cap /\ cap \in 0..MaxHops
      BY DEF PipelineInv, TypeOK, PlainInv
<1>2. plain.attempt + 1 \in Attempts
      BY <1>1 DEF PipelineInv, TypeOK, Attempts
<1>3. TypeOK'
  <2>1. plain' \in [at : {"research", "draft", "review", "raised"} \cup PlainEnds,
                    hop : Nat, attempt : 0..MaxHops]
        BY <1>1, <1>2 DEF PipelineInv, TypeOK, Attempts
  <2>2. trace.drafts + 1 \in Nat /\ trace.toReviewer + 1 \in Nat /\ trace \in Traces
        BY DEF PipelineInv, TypeOK, Traces
  <2>3. trace' \in Traces
        BY <2>2, DraftTraced
  <2> QED BY <2>1, <2>3 DEF PipelineInv, TypeOK
<1>4. PlainInv'
      BY <1>1, <1>2 DEF PipelineInv, TypeOK, PlainInv, Rejected
<1>5. GraphInv' /\ HopsCountSavedNodes' /\ PublishesFirstApproved'
      BY DEF PipelineInv, GraphInv, HopsCountSavedNodes, PublishesFirstApproved, Rejected
<1>6. MapChargesRejections'
  <2>1. /\ trace \in Traces
        /\ trace' = [trace EXCEPT !.drafts = @ + 1, !.toReviewer = @ + 1]
        /\ plain.at = "draft" /\ plain'.at = "review"
        BY DEF PipelineInv, TypeOK
  <2>2. /\ trace'.reviews = trace.reviews
        /\ trace'.revise = trace.revise
        /\ trace'.toWriter = trace.toWriter
        /\ trace'.drafts = trace.drafts + 1
        /\ trace.drafts \in Nat
        BY <2>1 DEF Traces
  <2>3. Answered({"revise"})' = Answered({"revise"}) /\ Answered(Decisions)' = Answered(Decisions)
        BY <2>2 DEF Answered
  <2> QED BY <2>1, <2>2, <2>3 DEF PipelineInv, MapChargesRejections
<1> QED BY <1>3, <1>4, <1>5, <1>6 DEF PipelineInv

LEMMA ReviewStep == PipelineInv /\ Review => PipelineInv'
<1> SUFFICES ASSUME PipelineInv, Review PROVE PipelineInv'
    OBVIOUS
<1> USE PipelineConstantsOK
<1> DEFINE decision == reviewer[plain.attempt]
           hop == plain.hop + 1
<1>1. /\ plain.hop = 2 * plain.attempt - 1
      /\ plain.hop <= cap
      /\ plain.attempt \in Attempts
      /\ Rejected(plain.attempt - 1)
      BY DEF PipelineInv, PlainInv, Review
<1>2. cap \in 0..MaxHops /\ plain.attempt \in 1..MaxHops /\ hop = 2 * plain.attempt
      BY <1>1 DEF PipelineInv, TypeOK, Attempts
<1>3. /\ plain'.hop = hop
      /\ plain'.attempt = plain.attempt
      /\ plain'.at = IF decision = "approve" THEN "approved" ELSE NextRound(hop)
      BY DEF Review, PipelineInv, TypeOK
<1>4. UNCHANGED <<reviewer, cap, graphVars>>
      BY DEF Review
<1>5. TypeOK'
  <2>1. plain' \in [at : {"research", "draft", "review", "raised"} \cup PlainEnds,
                    hop : Nat, attempt : 0..MaxHops]
    <3> DEFINE point == IF decision = "approve" THEN "approved" ELSE NextRound(hop)
    <3>1. plain' = [plain EXCEPT !.hop = hop, !.at = point]
          BY DEF Review
    <3>2. point \in {"research", "draft", "review", "raised"} \cup PlainEnds
          BY DEF NextRound, PlainEnds
    <3>3. hop \in Nat
          BY <1>2
    <3> HIDE DEF point
    <3> QED BY <3>1, <3>2, <3>3, LoopMoves DEF PipelineInv, TypeOK
  <2>2. trace' \in Traces
    <3> DEFINE revise == IF decision = "revise" THEN trace.revise + 1 ELSE trace.revise
               toWriter == IF decision = "approve" THEN trace.toWriter
                                                   ELSE trace.toWriter + 1
    <3>1. trace' = [trace EXCEPT !.reviews = @ + 1, !.revise = revise,
                                 !.toWriter = toWriter]
          BY DEF Review, ReviewTrace
    <3>2. trace \in Traces
          BY DEF PipelineInv, TypeOK
    <3>3. trace.reviews + 1 \in Nat /\ revise \in Nat /\ toWriter \in Nat
          BY <3>2 DEF Traces
    <3> HIDE DEF revise, toWriter
    <3> QED BY <3>1, <3>2, <3>3, ReviewTraced
  <2> QED BY <2>1, <2>2, <1>4 DEF PipelineInv, TypeOK, graphVars
<1>6. PlainInv'
  <2>0. trace'.drafts = plain.attempt
        BY DEF Review, ReviewTrace, PipelineInv, TypeOK, Traces, PlainInv
  <2>1. cap <= hop => hop <= cap + 1
        BY <1>1, <1>2
  <2>2. hop <= cap + (cap % 2)
        BY <1>1, <1>2
  <2>3. decision # "approve" => Rejected(plain.attempt)
        BY <1>1, <1>2 DEF Rejected
  <2>4. hop <= cap + 1
        BY <1>1, <1>2
  <2>5. CASE decision = "approve"
        BY <1>1, <1>2, <1>3, <1>4, <2>0, <2>2, <2>4, <2>5 DEF PlainInv, Rejected
  <2>6. CASE decision # "approve" /\ hop < cap
        BY <1>2, <1>3, <1>4, <2>0, <2>2, <2>3, <2>6 DEF PlainInv, Rejected, NextRound, MayDraft
  <2>7. CASE decision # "approve" /\ ~(hop < cap)
        BY <1>2, <1>3, <1>4, <2>0, <2>2, <2>3, <2>4, <2>7
           DEF PlainInv, Rejected, NextRound, MayDraft
  <2> QED BY <2>5, <2>6, <2>7
<1>7. GraphInv' /\ HopsCountSavedNodes' /\ PublishesFirstApproved'
      BY <1>4 DEF PipelineInv, GraphInv, HopsCountSavedNodes, PublishesFirstApproved, Rejected,
                  graphVars
<1>8. MapChargesRejections'
  <2> DEFINE Said(words, n) == {a \in 1..n : reviewer[a] \in words}
  <2>1. /\ trace.reviews \in Nat
        /\ trace.reviews + 1 = plain.attempt
        /\ trace.drafts = plain.attempt
        BY <1>2 DEF Review, PipelineInv, TypeOK, Traces, PlainInv, MapChargesRejections
  <2>2. /\ trace \in Traces
        /\ trace' = ReviewTrace(decision)
        BY DEF Review, PipelineInv, TypeOK
  <2>3. /\ trace'.reviews = trace.reviews + 1
        /\ trace'.drafts = trace.drafts
        /\ trace'.revise = IF decision = "revise" THEN trace.revise + 1 ELSE trace.revise
        /\ trace'.toWriter = IF decision = "approve" THEN trace.toWriter
                                                     ELSE trace.toWriter + 1
        BY <2>2 DEF ReviewTrace, Traces
  <2>4. decision \in Decisions \cup {"approve"}
        BY <1>1 DEF PipelineInv, TypeOK
  <2>5. /\ trace.revise = Cardinality(Said({"revise"}, trace.reviews))
        /\ trace.toWriter = Cardinality(Said(Decisions, trace.reviews))
        BY DEF PipelineInv, MapChargesRejections, Answered
  <2>6. ASSUME NEW words
        PROVE  Cardinality(Said(words, trace.reviews + 1))
                 = IF decision \in words THEN Cardinality(Said(words, trace.reviews)) + 1
                                         ELSE Cardinality(Said(words, trace.reviews))
    <3>1. IsFiniteSet(Said(words, trace.reviews))
      <4>1. IsFiniteSet(1..trace.reviews)
            BY <2>1, FS_Interval
      <4> QED BY <4>1, FS_Subset
    <3>2. /\ 1..(trace.reviews + 1) = 1..plain.attempt
          /\ decision = reviewer[trace.reviews + 1]
          BY <2>1
    <3>3. Cardinality(Said(words, trace.reviews + 1))
            = IF reviewer[trace.reviews + 1] \in words
              THEN Cardinality(Said(words, trace.reviews)) + 1
              ELSE Cardinality(Said(words, trace.reviews))
          BY <2>1, <3>1, AnsweredGrows
    <3> HIDE DEF Said, decision
    <3> QED BY <3>2, <3>3
  <2>7. Answered({"revise"})' = Said({"revise"}, trace.reviews + 1)
        BY <1>4, <2>3 DEF Answered
  <2>8. Answered(Decisions)' = Said(Decisions, trace.reviews + 1)
        BY <1>4, <2>3 DEF Answered
  <2> HIDE DEF Said, decision
  <2>9. trace'.revise = Cardinality(Answered({"revise"})')
        BY <2>3, <2>5, <2>6, <2>7
  <2>10. trace'.toWriter = Cardinality(Answered(Decisions)')
        BY <2>3, <2>4, <2>5, <2>6, <2>8
  <2>11. plain'.at # "review" /\ trace'.reviews = trace'.drafts
        BY <1>3, <2>1, <2>3 DEF NextRound, decision
  <2> QED BY <2>9, <2>10, <2>11 DEF MapChargesRejections
<1> QED BY <1>5, <1>6, <1>7, <1>8 DEF PipelineInv

-----------------------------------------------------------------------------
(* The graph's steps                                                       *)

LEMMA FinishStep == PipelineInv /\ FinishNode => PipelineInv'
<1> SUFFICES ASSUME PipelineInv, FinishNode PROVE PipelineInv'
    OBVIOUS
<1> USE PipelineConstantsOK
<1>1. UNCHANGED <<reviewer, cap, plainVars, crashes>> /\ executor' = "idle"
      BY DEF FinishNode
<1>2. PlainInv' /\ MapChargesRejections'
      BY <1>1 DEF PipelineInv, PlainInv, MapChargesRejections, Answered, Rejected, plainVars
<1>3. SUFFICES /\ graph' \in [next : {"research", "draft", "review", "publish"}
                                       \cup GraphEnds,
                              hop : Nat, attempt : 0..MaxHops]
               /\ GraphInv' /\ HopsCountSavedNodes' /\ PublishesFirstApproved'
      BY <1>1, <1>2 DEF PipelineInv, TypeOK, plainVars
<1>4. CASE ReturnResearch
      BY <1>1, <1>4 DEF ReturnResearch, PipelineInv, TypeOK, GraphInv, HopsCountSavedNodes,
                        PublishesFirstApproved, Rejected
<1>5. CASE ReturnDraft
  <2>1. graph.hop = 2 * graph.attempt /\ graph.hop < MaxHops /\ Rejected(graph.attempt)
        BY <1>5 DEF ReturnDraft, PipelineInv, TypeOK, GraphInv, HopsCountSavedNodes
  <2>2. graph.attempt + 1 \in Attempts
        BY <2>1 DEF PipelineInv, TypeOK, Attempts
  <2>3. graph' = [next |-> "review", hop |-> graph.hop + 1,
                  attempt |-> graph.attempt + 1]
        BY <1>5 DEF ReturnDraft
  <2>4. graph.hop \in Nat /\ graph.attempt \in Nat
        BY DEF PipelineInv, TypeOK
  <2> QED BY <1>1, <2>1, <2>2, <2>3, <2>4
          DEF GraphInv, HopsCountSavedNodes, PublishesFirstApproved, Rejected, Attempts
<1>6. CASE ReturnReview
  <2> DEFINE hop == graph.hop + 1
             onward == RouteAfterReview(reviewer[graph.attempt], hop)
  <2>1. /\ graph.hop = 2 * graph.attempt - 1
        /\ graph.hop <= MaxHops
        /\ graph.attempt \in Attempts
        /\ Rejected(graph.attempt - 1)
        BY <1>6 DEF ReturnReview, PipelineInv, GraphInv, HopsCountSavedNodes
  <2>2. graph.attempt \in 1..MaxHops /\ hop = 2 * graph.attempt
        BY <2>1 DEF Attempts
  <2>3. hop <= MaxHops + (MaxHops % 2) /\ hop <= MaxHops + 1
        BY <2>1, <2>2
  <2>4. /\ graph'.hop = hop
        /\ graph'.attempt = graph.attempt
        /\ graph'.next = Target(onward)
        /\ graph' \in [next : {Target(onward)}, hop : {hop}, attempt : {graph.attempt}]
        BY <1>6 DEF ReturnReview, PipelineInv, TypeOK
  <2>5. CASE reviewer[graph.attempt] = "approve"
    <3>1. graph'.next = "publish"
          BY <2>4, <2>5 DEF RouteAfterReview, Target
    <3> QED BY <1>1, <2>1, <2>2, <2>3, <2>4, <2>5, <3>1
            DEF GraphInv, HopsCountSavedNodes, PublishesFirstApproved, Rejected
  <2>6. CASE reviewer[graph.attempt] # "approve"
    <3>1. Rejected(graph.attempt)
          BY <2>1, <2>2, <2>6 DEF Rejected
    <3>2. graph'.next = IF hop >= MaxHops THEN "end" ELSE "draft"
          BY <2>4, <2>6 DEF RouteAfterReview, Target
    <3> QED BY <1>1, <2>2, <2>3, <2>4, <3>1, <3>2
            DEF GraphInv, HopsCountSavedNodes, PublishesFirstApproved, Rejected, GraphEnds
  <2> QED BY <2>5, <2>6
<1>7. CASE ReturnPublish
      BY <1>1, <1>7 DEF ReturnPublish, PipelineInv, TypeOK, GraphInv, HopsCountSavedNodes,
                        PublishesFirstApproved, Rejected, GraphEnds
<1> QED BY <1>4, <1>5, <1>6, <1>7 DEF FinishNode

(* The other steps touch neither hop, nor attempt, nor next.               *)
LEMMA OtherSteps ==
  PipelineInv /\ (Raise \/ StartNode \/ Crash \/ UNCHANGED vars) => PipelineInv'
<1> SUFFICES ASSUME PipelineInv, Raise \/ StartNode \/ Crash \/ UNCHANGED vars PROVE PipelineInv'
    OBVIOUS
<1> USE PipelineConstantsOK DEF plainVars, graphVars
<1>1. CASE Raise
  <2>1. TypeOK'
        BY <1>1 DEF Raise, PipelineInv, TypeOK
  <2>2. PlainInv'
        BY <1>1 DEF Raise, PipelineInv, TypeOK, PlainInv
  <2>3. GraphInv' /\ HopsCountSavedNodes' /\ PublishesFirstApproved' /\ MapChargesRejections'
        BY <1>1 DEF Raise, PipelineInv, TypeOK, GraphInv, HopsCountSavedNodes,
                    PublishesFirstApproved, MapChargesRejections, Answered, Rejected
  <2> QED BY <2>1, <2>2, <2>3 DEF PipelineInv
<1>2. CASE StartNode \/ Crash \/ UNCHANGED vars
  <2>1. UNCHANGED <<reviewer, cap, plain, trace, graph>>
        BY <1>2 DEF StartNode, Crash, vars
  <2>2. TypeOK'
        BY <1>2, <2>1 DEF StartNode, Crash, vars, PipelineInv, TypeOK
  <2>3. /\ PlainInv' /\ GraphInv' /\ HopsCountSavedNodes'
        /\ PublishesFirstApproved' /\ MapChargesRejections'
        BY <2>1 DEF PipelineInv, PlainInv, GraphInv, HopsCountSavedNodes, PublishesFirstApproved,
                    MapChargesRejections, Answered, Rejected
  <2> QED BY <2>2, <2>3 DEF PipelineInv
<1> QED BY <1>1, <1>2

LEMMA Invariance == Spec => []PipelineInv
<1>1. PipelineInv /\ [Next]_vars => PipelineInv'
      BY ResearchStep, DraftStep, ReviewStep, FinishStep, OtherSteps
         DEF Next, PlainStep, GraphStep
<1> QED BY PipelineInitInv, <1>1, PTL DEF Spec

-----------------------------------------------------------------------------
(* Every variable keeps its type; in particular no attempt is made that    *)
(* does not fit under the cap.                                             *)
THEOREM PipelineTypeCorrect == Spec => []TypeOK
BY Invariance, PTL DEF PipelineInv

(* The hop of a checkpoint counts every saved draft and review once,       *)
(* however often the node was executed.                                    *)
THEOREM SavedNodesCountOnce == Spec => []HopsCountSavedNodes
BY Invariance, PTL DEF PipelineInv

(* What the graph publishes is the first draft the reviewer approved.      *)
THEOREM OnlyApprovedPublished == Spec => []PublishesFirstApproved
BY Invariance, PTL DEF PipelineInv

(* Neither shape goes past its cap by more than the review of its last     *)
(* draft, whatever the reviewer answers and however often a node died.     *)
THEOREM CapHolds == Spec => []CapBoundsHops
<1>1. PipelineInv => CapBoundsHops
      BY DEF PipelineInv, PlainInv, GraphInv, CapBoundsHops
<1> QED BY Invariance, <1>1, PTL

(* With one reviewer and one cap, run_pipeline and the graph end alike.    *)
THEOREM ShapesAgree == Spec => []SameOutcome
<1>1. PipelineInv => SameOutcome
  <2> SUFFICES ASSUME PipelineInv, cap = MaxHops,
                      plain.at \in PlainEnds, graph.next \in GraphEnds
               PROVE  /\ plain.at = "approved" <=> graph.next = "published"
                      /\ plain.hop = graph.hop
                      /\ plain.attempt = graph.attempt
      BY DEF SameOutcome
  <2> USE PipelineConstantsOK
  <2>1. plain.attempt \in 0..MaxHops /\ graph.attempt \in 0..MaxHops
        BY DEF PipelineInv, TypeOK
  <2>2. /\ plain.hop = 2 * plain.attempt /\ plain.hop <= MaxHops + 1
        /\ Rejected(plain.attempt - 1)
        BY <2>1 DEF PipelineInv, PlainInv, PlainEnds, Rejected
  <2>3. /\ graph.hop = 2 * graph.attempt /\ graph.hop <= MaxHops + 1
        /\ Rejected(graph.attempt - 1)
        BY <2>1 DEF PipelineInv, GraphInv, HopsCountSavedNodes, PublishesFirstApproved, GraphEnds,
                    Rejected
  <2>4. IF plain.at = "approved"
        THEN plain.attempt \in 1..MaxHops /\ reviewer[plain.attempt] = "approve"
        ELSE Rejected(plain.attempt) /\ MaxHops <= plain.hop
        BY DEF PipelineInv, PlainInv, PlainEnds, Attempts
  <2>5. IF graph.next = "published"
        THEN graph.attempt \in 1..MaxHops /\ reviewer[graph.attempt] = "approve"
        ELSE Rejected(graph.attempt) /\ MaxHops <= graph.hop
        BY DEF PipelineInv, GraphInv, PublishesFirstApproved, GraphEnds, Attempts
  <2>6. plain.attempt = graph.attempt
    <3>1. ASSUME plain.attempt < graph.attempt PROVE FALSE
      <4>1. ~(MaxHops <= plain.hop)
            BY <2>1, <2>2, <2>3, <3>1
      <4>2. plain.attempt \in 1..(graph.attempt - 1)
            BY <2>1, <2>4, <3>1, <4>1
      <4> QED BY <2>3, <2>4, <4>1, <4>2 DEF Rejected
    <3>2. ASSUME graph.attempt < plain.attempt PROVE FALSE
      <4>1. ~(MaxHops <= graph.hop)
            BY <2>1, <2>2, <2>3, <3>2
      <4>2. graph.attempt \in 1..(plain.attempt - 1)
            BY <2>1, <2>5, <3>2, <4>1
      <4> QED BY <2>2, <2>5, <4>1, <4>2 DEF Rejected
    <3> QED BY <2>1, <3>1, <3>2
  <2>7. plain.at = "approved" <=> graph.next = "published"
        BY <2>1, <2>4, <2>5, <2>6 DEF Rejected
  <2> QED BY <2>2, <2>3, <2>6, <2>7
<1> QED BY Invariance, <1>1, PTL

(* Whatever words the reviewer knows, the handoffs back are the drafts it  *)
(* did not approve, and the rejections charged those it answered with      *)
(* "revise".                                                               *)
THEOREM MapIsFair == Spec => []MapChargesRejections
BY Invariance, PTL DEF PipelineInv
=============================================================================
