--------------------------- MODULE MeasureProofs ----------------------------
(***************************************************************************)
(* Proofs about what the platform measures: the results of a cascade of    *)
(* judges among any number of callers (JudgeCascade), the gaps between     *)
(* groups of any number of decisions (FairnessGauges), the tiers of an     *)
(* alert over any number of days (DriftAlerts), the failures found in any  *)
(* runs of agents (AgentRuns) and the replies and streams of the seeded    *)
(* provider (MockProvider).  The sums and the inductions are those of      *)
(* CollectionProofs.                                                       *)
(***************************************************************************)
EXTENDS JudgeCascade, FairnessGauges, DriftAlerts, AgentMeters, MockProvider,
        CollectionProofs

(* The score of a result is the judge's, put back between 0 and 1.         *)
LEMMA ClampIs ==
  ASSUME NEW s \in Int
  PROVE  Clamp(s) = IF s < 0 THEN 0 ELSE IF s > 100 THEN 100 ELSE s
<1> DEFINE m == Max({0, s})  k == Min({100, m})
<1>1. m \in {0, s} /\ \A x \in {0, s} : m >= x
  <2>1. \E x \in {0, s} : \A y \in {0, s} : x >= y
    <3>1. CASE s < 0
          BY <3>1
    <3>2. CASE ~(s < 0)
          BY <3>2
    <3> QED BY <3>1, <3>2
  <2> QED BY <2>1 DEF Max
<1>2. m = IF s < 0 THEN 0 ELSE s
      BY <1>1
<1>3. m \in Int
      BY <1>2
<1> HIDE DEF m
<1>4. k \in {100, m} /\ \A x \in {100, m} : k =< x
  <2>1. \E x \in {100, m} : \A y \in {100, m} : x =< y
    <3>1. CASE m < 100
          BY <1>3, <3>1
    <3>2. CASE ~(m < 100)
          BY <1>3, <3>2
    <3> QED BY <3>1, <3>2
  <2> QED BY <2>1 DEF Min
<1>5. k = IF m < 100 THEN m ELSE 100
      BY <1>3, <1>4
<1> HIDE DEF k
<1>6. Clamp(s) = k
      BY DEF Clamp, k, m
<1> QED BY <1>2, <1>5, <1>6

-----------------------------------------------------------------------------
(* The cascade.  Whoever has an evaluator to itself finds in last_decision *)
(* and last_escalated what its own call has just written there.            *)
JudgeAnswers == {s.answer : s \in Samples}

ResultRecords ==
  [sample : Samples, score : Int, passed : BOOLEAN, probabilities : [Labels -> Int],
   confidence : Int, escalated : BOOLEAN, verdict : Labels]

Holdings ==
  [sample : Samples \cup {<< >>}, decision : JudgeAnswers \cup {NoDecision}, score : Int]

CascadeTypeOK ==
  /\ accept_threshold \in 50..100
  /\ evaluator \in [Callers -> Callers]
  /\ last_decision \in [Callers -> {d \in JudgeAnswers : ValidDecision(d)} \cup {NoDecision}]
  /\ last_escalated \in [Callers -> BOOLEAN]
  /\ todo \in [Callers -> Seq(Samples)]
  /\ step \in [Callers -> {"idle", "decided", "noted", "scored"}]
  /\ results \in [Callers -> Seq(ResultRecords)]
  /\ mine \in [Callers -> Holdings]

(* What a call in progress holds, and, for a caller that is alone, what    *)
(* its evaluator holds for it.                                             *)
Underway(c) ==
  step[c] # "idle" =>
    /\ mine[c].sample \in Samples
    /\ mine[c].decision = mine[c].sample.answer
    /\ ValidDecision(mine[c].decision)
    /\ last_decision[Of(c)] # NoDecision

OwnCall(c) ==
  Alone(c) =>
    /\ step[c] # "idle" => last_decision[Of(c)] = mine[c].decision
    /\ step[c] \in {"noted", "scored"} =>
         last_escalated[Of(c)] = (Confidence(mine[c].decision) < accept_threshold)
    /\ step[c] = "scored" =>
         mine[c].score = IF last_escalated[Of(c)] THEN mine[c].sample.fallback
                         ELSE mine[c].decision.probabilities["supported"]

IsDistribution(p) == p["supported"] + p["hallucinated"] - 100 \in -2..2

OwnResult(r) ==
  /\ r.probabilities = r.sample.answer.probabilities
  /\ r.escalated = (r.confidence < accept_threshold)
  /\ r.score = Clamp(IF r.escalated THEN r.sample.fallback
                     ELSE r.sample.answer.probabilities["supported"])
  /\ accept_threshold > Threshold => (r.verdict = "supported") = r.passed

Reported(c) ==
  \A i \in DOMAIN results[c] :
    /\ IsDistribution(results[c][i].probabilities)
    /\ results[c][i].score \in 0..100
    /\ Alone(c) => OwnResult(results[c][i])

CascadeInv ==
  CascadeTypeOK /\ \A c \in Callers : Underway(c) /\ OwnCall(c) /\ Reported(c)

LEMMA AnswerFacts ==
  ASSUME NEW s \in Samples
  PROVE  /\ s.fallback \in Int
         /\ s.answer \in JudgeAnswers
         /\ s.answer.probabilities \in [Labels -> Int]
         /\ s.answer.probabilities["supported"] \in Int
         /\ s.answer.probabilities["hallucinated"] \in Int
<1>1. /\ s.fallback \in -50..150 /\ s.answer \in JudgeAnswers
      /\ s.answer.probabilities \in [Labels -> Int]
      BY SamplesOK DEF JudgeAnswers
<1> QED BY <1>1 DEF Labels

LEMMA ValidFacts ==
  ASSUME NEW d \in JudgeAnswers, ValidDecision(d)
  PROVE  /\ d.label \in Labels
         /\ Confidence(d) = d.probabilities[d.label]
         /\ Confidence(d) \in Int
         /\ IsDistribution(d.probabilities)
         /\ d.probabilities \in [Labels -> Int]
         /\ d # NoDecision
<1>1. d.probabilities \in [Labels -> Int]
      BY SamplesOK DEF JudgeAnswers
<1>2. d.label \in Labels /\ d.probabilities[d.label] = Confidence(d)
      BY DEF ValidDecision
<1>3. Confidence(d) \in Int
      BY <1>1, <1>2
<1>4. d.probabilities["supported"] + d.probabilities["hallucinated"] - 100 \in -2..2
  <2>1. /\ d.probabilities["supported"] \in Int
        /\ d.probabilities["hallucinated"] \in Int
        BY <1>1 DEF Labels
  <2> QED BY <2>1 DEF ValidDecision
<1>5. d # NoDecision
      BY <1>2 DEF NoDecision, Labels
<1> QED BY <1>1, <1>2, <1>3, <1>4, <1>5 DEF IsDistribution

LEMMA CascadeInitInv == CascadeInit => CascadeInv
<1> SUFFICES ASSUME CascadeInit PROVE CascadeInv
    OBVIOUS
<1>1. CascadeTypeOK
  <2>1. accept_threshold \in 50..100 /\ mine \in [Callers -> Holdings]
    <3>1. Nothing \in Holdings
          BY DEF Nothing, Holdings
    <3> QED BY <3>1, SamplesOK DEF CascadeInit
  <2>2. todo \in [Callers -> Seq(Samples)]
    <3>1. \A f \in UNION {[1..n -> Samples] : n \in 1..MaxSamples} : f \in Seq(Samples)
      <4> SUFFICES ASSUME NEW n \in 1..MaxSamples, NEW f \in [1..n -> Samples]
                   PROVE  f \in Seq(Samples)
          OBVIOUS
      <4>1. n \in Nat
            OBVIOUS
      <4> QED BY <4>1
    <3> QED BY <3>1 DEF CascadeInit
  <2>3. results \in [Callers -> Seq(ResultRecords)]
    <3>1. << >> \in Seq(ResultRecords)
          OBVIOUS
    <3> QED BY <3>1 DEF CascadeInit
  <2> QED BY <2>1, <2>2, <2>3 DEF CascadeInit, CascadeTypeOK
<1>2. ASSUME NEW c \in Callers PROVE Underway(c) /\ OwnCall(c) /\ Reported(c)
  <2>1. step[c] = "idle" /\ results[c] = << >>
        BY DEF CascadeInit
  <2> QED BY <2>1 DEF Underway, OwnCall, Reported
<1> QED BY <1>1, <1>2 DEF CascadeInv

(* A step of one caller leaves the others alone, and an evaluator that is  *)
(* not its own.                                                            *)
LEMMA OthersKeep ==
  ASSUME CascadeInv, NEW c \in Callers, NEW d \in Callers \ {c},
         UNCHANGED <<evaluator, accept_threshold>>,
         step'[d] = step[d], mine'[d] = mine[d], results'[d] = results[d],
         \A e \in Callers \ {Of(c)} :
           last_decision'[e] = last_decision[e] /\ last_escalated'[e] = last_escalated[e],
         \A e \in Callers : last_decision[e] # NoDecision => last_decision'[e] # NoDecision
  PROVE  Underway(d)' /\ OwnCall(d)' /\ Reported(d)'
<1>1. Of(d) \in Callers /\ Of(d)' = Of(d) /\ Alone(d)' = Alone(d)
      BY DEF CascadeInv, CascadeTypeOK, Of, Alone
<1>2. Underway(d) /\ OwnCall(d) /\ Reported(d)
      BY DEF CascadeInv
<1>3. Underway(d)'
      BY <1>1, <1>2 DEF Underway
<1>4. OwnCall(d)'
  <2> SUFFICES ASSUME Alone(d) PROVE OwnCall(d)'
      BY <1>1 DEF OwnCall
  <2>1. Of(d) # Of(c)
        BY DEF Alone, Of
  <2>2. last_decision'[Of(d)] = last_decision[Of(d)] /\ last_escalated'[Of(d)] = last_escalated[Of(d)]
        BY <1>1, <2>1
  <2> QED BY <1>1, <1>2, <2>2 DEF OwnCall
<1>5. Reported(d)'
      BY <1>1, <1>2 DEF Reported, OwnResult
<1> QED BY <1>3, <1>4, <1>5

LEMMA DecideStep ==
  ASSUME CascadeInv, NEW c \in Callers, Decide(c)
  PROVE  CascadeInv'
<1> DEFINE s == Head(todo[c])
           m == [sample |-> s, decision |-> s.answer, score |-> 0]
<1>1. /\ CascadeTypeOK /\ step[c] = "idle" /\ todo[c] # << >>
      /\ todo' = [todo EXCEPT ![c] = Tail(todo[c])]
      /\ UNCHANGED <<accept_threshold, evaluator, last_escalated, results>>
      BY DEF CascadeInv, Decide
<1>2. s \in Samples /\ Tail(todo[c]) \in Seq(Samples)
  <2>1. todo[c] \in Seq(Samples)
        BY <1>1 DEF CascadeTypeOK
  <2> QED BY <1>1, <2>1
<1>3. /\ s.answer \in JudgeAnswers /\ Of(c) \in Callers
      /\ todo' \in [Callers -> Seq(Samples)]
      BY <1>1, <1>2, AnswerFacts DEF CascadeTypeOK, Of
<1>4. m \in Holdings /\ m.sample = s /\ m.decision = s.answer
  <2> HIDE DEF s
  <2> QED BY <1>2, <1>3 DEF Holdings
<1> HIDE DEF m
<1>5. CASE ValidDecision(s.answer)
  <2>1. /\ mine' = [mine EXCEPT ![c] = m]
        /\ last_decision' = [last_decision EXCEPT ![Of(c)] = s.answer]
        /\ step' = [step EXCEPT ![c] = "decided"]
        BY <1>5 DEF Decide, m
  <2> HIDE DEF s
  <2>2. s.answer # NoDecision
        BY <1>3, <1>5, ValidFacts
  <2>3. CascadeTypeOK'
        BY <1>1, <1>3, <1>4, <1>5, <2>1 DEF CascadeTypeOK
  <2>4. mine'[c] = m /\ step'[c] = "decided" /\ last_decision'[Of(c)] = s.answer
        BY <1>1, <1>3, <2>1 DEF CascadeTypeOK
  <2>5. Of(c)' = Of(c)
        BY <1>1 DEF Of
  <2>6. Underway(c)' /\ OwnCall(c)' /\ Reported(c)'
    <3>1. Underway(c)'
          BY <1>2, <1>4, <1>5, <2>2, <2>4, <2>5 DEF Underway
    <3>2. OwnCall(c)'
          BY <1>4, <2>4, <2>5 DEF OwnCall
    <3>3. Reported(c)'
          BY <1>1 DEF CascadeInv, Reported, OwnResult, Alone
    <3> QED BY <3>1, <3>2, <3>3
  <2>7. ASSUME NEW d \in Callers \ {c}
        PROVE  Underway(d)' /\ OwnCall(d)' /\ Reported(d)'
    <3>1. step'[d] = step[d] /\ mine'[d] = mine[d] /\ results'[d] = results[d]
          BY <1>1, <2>1 DEF CascadeTypeOK
    <3>2. \A e \in Callers \ {Of(c)} :
            last_decision'[e] = last_decision[e] /\ last_escalated'[e] = last_escalated[e]
          BY <1>1, <2>1 DEF CascadeTypeOK
    <3>3. \A e \in Callers : last_decision[e] # NoDecision => last_decision'[e] # NoDecision
          BY <2>2, <2>4, <3>2
    <3> QED BY <1>1, <3>1, <3>2, <3>3, OthersKeep
  <2> QED BY <2>3, <2>6, <2>7 DEF CascadeInv
<1>6. CASE ~ValidDecision(s.answer)
  <2>1. UNCHANGED <<mine, last_decision, step>>
        BY <1>6 DEF Decide
  <2>2. CascadeTypeOK'
        BY <1>1, <1>3, <2>1 DEF CascadeTypeOK
  <2>3. Underway(c)' /\ OwnCall(c)' /\ Reported(c)'
        BY <1>1, <2>1 DEF CascadeInv, Underway, OwnCall, Reported, OwnResult, Of, Alone
  <2>4. \A d \in Callers \ {c} : Underway(d)' /\ OwnCall(d)' /\ Reported(d)'
        BY <1>1, <2>1, OthersKeep
  <2> QED BY <2>2, <2>3, <2>4 DEF CascadeInv
<1> QED BY <1>5, <1>6

LEMMA NoteEscalationStep ==
  ASSUME CascadeInv, NEW c \in Callers, NoteEscalation(c)
  PROVE  CascadeInv'
<1> DEFINE low == Confidence(mine[c].decision) < accept_threshold
<1>1. /\ CascadeTypeOK /\ step[c] = "decided"
      /\ last_escalated' = [last_escalated EXCEPT ![Of(c)] = low]
      /\ step' = [step EXCEPT ![c] = "noted"]
      /\ UNCHANGED <<accept_threshold, evaluator, last_decision, todo, mine, results, refused>>
      BY DEF CascadeInv, NoteEscalation
<1>2. Underway(c) /\ OwnCall(c) /\ Reported(c) /\ Of(c) \in Callers
      BY <1>1 DEF CascadeInv, CascadeTypeOK, Of
<1>3. low \in BOOLEAN
      OBVIOUS
<1> HIDE DEF low
<1>4. CascadeTypeOK'
      BY <1>1, <1>2, <1>3 DEF CascadeTypeOK
<1>5. /\ step'[c] = "noted" /\ last_escalated'[Of(c)] = low
      /\ Of(c)' = Of(c) /\ Alone(c)' = Alone(c)
      BY <1>1, <1>2 DEF CascadeTypeOK, Of, Alone
<1>6. Underway(c)' /\ OwnCall(c)' /\ Reported(c)'
  <2>1. Underway(c)'
        BY <1>1, <1>2, <1>5 DEF Underway
  <2>2. OwnCall(c)'
        BY <1>1, <1>2, <1>5 DEF OwnCall, low
  <2>3. Reported(c)'
        BY <1>1, <1>2, <1>5 DEF Reported, OwnResult
  <2> QED BY <2>1, <2>2, <2>3
<1>7. ASSUME NEW d \in Callers \ {c}
      PROVE  Underway(d)' /\ OwnCall(d)' /\ Reported(d)'
  <2>1. step'[d] = step[d] /\ mine'[d] = mine[d] /\ results'[d] = results[d]
        BY <1>1 DEF CascadeTypeOK
  <2>2. \A e \in Callers \ {Of(c)} :
          last_decision'[e] = last_decision[e] /\ last_escalated'[e] = last_escalated[e]
        BY <1>1 DEF CascadeTypeOK
  <2> QED BY <1>1, <2>1, <2>2, OthersKeep
<1> QED BY <1>4, <1>6, <1>7 DEF CascadeInv

LEMMA ScoredHolding ==
  ASSUME NEW m \in Holdings, NEW x \in Int
  PROVE  LET n == [m EXCEPT !.score = x]
         IN  n \in Holdings /\ n.sample = m.sample /\ n.decision = m.decision /\ n.score = x
BY DEF Holdings

LEMMA TakeScoreStep ==
  ASSUME CascadeInv, NEW c \in Callers, TakeScore(c)
  PROVE  CascadeInv'
<1> DEFINE x == IF last_escalated[Of(c)] THEN mine[c].sample.fallback
                ELSE mine[c].decision.probabilities["supported"]
           m == [mine[c] EXCEPT !.score = x]
<1>1. /\ CascadeTypeOK /\ step[c] = "noted"
      /\ mine' = [mine EXCEPT ![c].score = x]
      /\ step' = [step EXCEPT ![c] = "scored"]
      /\ UNCHANGED <<accept_threshold, evaluator, last_decision, last_escalated, todo, results, refused>>
      BY DEF CascadeInv, TakeScore
<1>2. Underway(c) /\ OwnCall(c) /\ Reported(c) /\ Of(c) \in Callers /\ mine[c] \in Holdings
      BY <1>1 DEF CascadeInv, CascadeTypeOK, Of
<1>3. x \in Int
  <2>1. mine[c].sample \in Samples /\ mine[c].decision = mine[c].sample.answer
        BY <1>1, <1>2 DEF Underway
  <2> QED BY <2>1, AnswerFacts
<1>4. mine' = [mine EXCEPT ![c] = m]
      BY <1>1 DEF CascadeTypeOK
<1>5. m \in Holdings /\ m.sample = mine[c].sample /\ m.decision = mine[c].decision /\ m.score = x
  <2> HIDE DEF x
  <2> QED BY <1>2, <1>3, ScoredHolding
<1> HIDE DEF m
<1>6. CascadeTypeOK'
  <2>1. mine' \in [Callers -> Holdings]
        BY <1>1, <1>4, <1>5 DEF CascadeTypeOK
  <2>2. step' \in [Callers -> {"idle", "decided", "noted", "scored"}]
        BY <1>1 DEF CascadeTypeOK
  <2> QED BY <1>1, <2>1, <2>2 DEF CascadeTypeOK
<1>7. /\ step'[c] = "scored" /\ mine'[c] = m
      /\ Of(c)' = Of(c) /\ Alone(c)' = Alone(c)
      BY <1>1, <1>4 DEF CascadeTypeOK, Of, Alone
<1>8. Underway(c)' /\ OwnCall(c)' /\ Reported(c)'
  <2>1. Underway(c)'
        BY <1>1, <1>2, <1>5, <1>7 DEF Underway
  <2>2. OwnCall(c)'
        BY <1>1, <1>2, <1>5, <1>7 DEF OwnCall
  <2>3. Reported(c)'
        BY <1>1, <1>2, <1>7 DEF Reported, OwnResult
  <2> QED BY <2>1, <2>2, <2>3
<1>9. ASSUME NEW d \in Callers \ {c}
      PROVE  Underway(d)' /\ OwnCall(d)' /\ Reported(d)'
  <2>1. step'[d] = step[d] /\ mine'[d] = mine[d] /\ results'[d] = results[d]
        BY <1>1, <1>4 DEF CascadeTypeOK
  <2> QED BY <1>1, <2>1, OthersKeep
<1> QED BY <1>6, <1>8, <1>9 DEF CascadeInv

(* What a result says of the pass mark, when the label a judge is sure of  *)
(* above it is accepted.                                                   *)
LEMMA AcceptedAgrees ==
  ASSUME NEW d \in JudgeAnswers, ValidDecision(d), NEW t \in 50..100, t > Threshold,
         Confidence(d) >= t
  PROVE  (d.label = "supported") = (Clamp(d.probabilities["supported"]) >= Threshold)
<1> DEFINE s == d.probabilities["supported"]  h == d.probabilities["hallucinated"]
           k == Confidence(d)
<1>1. s \in Int /\ h \in Int /\ k \in Int /\ d.label \in {"supported", "hallucinated"}
      BY ValidFacts DEF Labels
<1>2. s + h - 100 \in -2..2 /\ d.probabilities[d.label] = k
      BY ValidFacts DEF IsDistribution
<1>3. Clamp(s) = IF s < 0 THEN 0 ELSE IF s > 100 THEN 100 ELSE s
      BY <1>1, ClampIs
<1>4. CASE d.label = "supported"
  <2>1. s = k
        BY <1>2, <1>4
  <2>2. Clamp(s) >= 60
    <3> HIDE DEF s, k
    <3> QED BY <1>1, <1>3, <2>1 DEF Threshold, k
  <2> QED BY <1>4, <2>2 DEF Threshold
<1>5. CASE d.label = "hallucinated"
  <2>1. h = k
        BY <1>2, <1>5
  <2>2. ~(Clamp(s) >= 60)
    <3>1. k > 60
          BY <1>1 DEF Threshold
    <3> HIDE DEF s, k, h
    <3> QED BY <1>1, <1>2, <1>3, <2>1, <3>1
  <2> QED BY <1>5, <2>2 DEF Threshold
<1> QED BY <1>1, <1>4, <1>5

(* A sequence that grows by one element.                                   *)
LEMMA Appended ==
  ASSUME NEW S, NEW q \in Seq(S), NEW e \in S
  PROVE  /\ Append(q, e) \in Seq(S)
         /\ \A i \in DOMAIN Append(q, e) :
              (i \in DOMAIN q /\ Append(q, e)[i] = q[i]) \/ Append(q, e)[i] = e
OBVIOUS

LEMMA ReportResultStep ==
  ASSUME CascadeInv, NEW c \in Callers, ReportResult(c)
  PROVE  CascadeInv'
<1> DEFINE d == last_decision[Of(c)]
           k == Clamp(mine[c].score)
           e == last_escalated[Of(c)]
           v == IF e THEN IF k >= Threshold THEN "supported" ELSE "hallucinated" ELSE d.label
           r == [sample |-> mine[c].sample, score |-> k, passed |-> k >= Threshold,
                 probabilities |-> d.probabilities, confidence |-> Confidence(d),
                 escalated |-> e, verdict |-> v]
<1>1. /\ CascadeTypeOK /\ step[c] = "scored"
      /\ results' = [results EXCEPT ![c] = Append(results[c], r)]
      /\ step' = [step EXCEPT ![c] = "idle"]
      /\ mine' = [mine EXCEPT ![c] = Nothing]
      /\ UNCHANGED <<accept_threshold, evaluator, last_decision, last_escalated, todo, refused>>
      BY DEF CascadeInv, ReportResult
<1>2. Underway(c) /\ OwnCall(c) /\ Reported(c) /\ Of(c) \in Callers /\ mine[c] \in Holdings
      BY <1>1 DEF CascadeInv, CascadeTypeOK, Of
<1>3. mine[c].sample \in Samples /\ mine[c].score \in Int /\ e \in BOOLEAN
      BY <1>1, <1>2 DEF Underway, Holdings, CascadeTypeOK
<1>4. d \in JudgeAnswers /\ ValidDecision(d)
  <2>1. d # NoDecision
        BY <1>1, <1>2 DEF Underway
  <2> QED BY <1>1, <1>2, <2>1 DEF CascadeTypeOK
<1>5. /\ d.label \in Labels /\ Confidence(d) \in Int /\ IsDistribution(d.probabilities)
      /\ d.probabilities \in [Labels -> Int]
  <2> HIDE DEF d
  <2> QED BY <1>4, ValidFacts
<1>6. k \in 0..100
  <2> DEFINE x == mine[c].score
  <2>1. x \in Int
        BY <1>3
  <2> HIDE DEF x
  <2>2. Clamp(x) \in 0..100
        BY <2>1, ClampIs
  <2> QED BY <2>2 DEF x
<1>7. v \in Labels
      BY <1>3, <1>5 DEF Labels
<1>8. accept_threshold \in 50..100
      BY <1>1 DEF CascadeTypeOK
<1>9. r \in ResultRecords
  <2> HIDE DEF d, k, e, v
  <2> QED BY <1>3, <1>5, <1>6, <1>7 DEF ResultRecords
<1>10. IsDistribution(r.probabilities) /\ r.score \in 0..100
       BY <1>5, <1>6
<1>11. ASSUME Alone(c) PROVE OwnResult(r)
  <2>1. /\ d = mine[c].decision /\ d = mine[c].sample.answer
        /\ e = (Confidence(d) < accept_threshold)
        /\ mine[c].score = IF e THEN mine[c].sample.fallback ELSE d.probabilities["supported"]
        BY <1>1, <1>2, <1>11 DEF Underway, OwnCall
  <2>2. accept_threshold > Threshold => (v = "supported") = (k >= Threshold)
    <3>1. CASE e
          BY <3>1
    <3>2. CASE ~e
      <4>1. Confidence(d) >= accept_threshold
        <5>1. ~(Confidence(d) < accept_threshold)
              BY <2>1, <3>2, Zenon
        <5> HIDE DEF d
        <5> QED BY <1>5, <1>8, <5>1
      <4>2. k = Clamp(d.probabilities["supported"]) /\ v = d.label
            BY <2>1, <3>2
      <4> HIDE DEF d, k, v
      <4> QED BY <1>4, <1>8, <4>1, <4>2, AcceptedAgrees
    <3> QED BY <1>3, <3>1, <3>2
  <2>3. k = Clamp(IF e THEN mine[c].sample.fallback
                  ELSE mine[c].sample.answer.probabilities["supported"])
        BY <2>1
  <2> HIDE DEF d, k, e, v
  <2> QED BY <2>1, <2>2, <2>3 DEF OwnResult
<1> HIDE DEF r
<1>12. CascadeTypeOK'
  <2>1. results' \in [Callers -> Seq(ResultRecords)]
    <3>1. results \in [Callers -> Seq(ResultRecords)]
          BY <1>1 DEF CascadeTypeOK
    <3>2. Append(results[c], r) \in Seq(ResultRecords)
          BY <1>9, <3>1, Appended
    <3> QED BY <1>1, <3>1, <3>2
  <2>2. mine' \in [Callers -> Holdings]
    <3>1. Nothing \in Holdings
          BY DEF Nothing, Holdings
    <3> QED BY <1>1, <3>1 DEF CascadeTypeOK
  <2>3. step' \in [Callers -> {"idle", "decided", "noted", "scored"}]
        BY <1>1 DEF CascadeTypeOK
  <2> QED BY <1>1, <2>1, <2>2, <2>3 DEF CascadeTypeOK
<1>13. /\ step'[c] = "idle" /\ results'[c] = Append(results[c], r)
       /\ Alone(c)' = Alone(c) /\ accept_threshold' = accept_threshold
       BY <1>1 DEF CascadeTypeOK, Alone
<1>14. Underway(c)' /\ OwnCall(c)' /\ Reported(c)'
  <2>1. Underway(c)' /\ OwnCall(c)'
        BY <1>13 DEF Underway, OwnCall
  <2>2. ASSUME NEW i \in DOMAIN results'[c]
        PROVE  /\ IsDistribution(results'[c][i].probabilities)
               /\ results'[c][i].score \in 0..100
               /\ Alone(c) => OwnResult(results'[c][i])
    <3>1. results[c] \in Seq(ResultRecords)
          BY <1>1 DEF CascadeTypeOK
    <3>2. (i \in DOMAIN results[c] /\ results'[c][i] = results[c][i]) \/ results'[c][i] = r
          BY <1>9, <1>13, <3>1, Appended
    <3> QED BY <1>2, <1>10, <1>11, <3>2 DEF Reported
  <2>3. Reported(c)'
        BY <1>13, <2>2 DEF Reported, OwnResult
  <2> QED BY <2>1, <2>3
<1>15. ASSUME NEW b \in Callers \ {c}
       PROVE  Underway(b)' /\ OwnCall(b)' /\ Reported(b)'
  <2>1. step'[b] = step[b] /\ mine'[b] = mine[b] /\ results'[b] = results[b]
        BY <1>1 DEF CascadeTypeOK
  <2> QED BY <1>1, <2>1, OthersKeep
<1> QED BY <1>12, <1>14, <1>15 DEF CascadeInv

LEMMA CascadeStep == CascadeInv /\ [CascadeNext]_cascadeVars => CascadeInv'
<1> SUFFICES ASSUME CascadeInv, [CascadeNext]_cascadeVars PROVE CascadeInv'
    OBVIOUS
<1>1. ASSUME NEW c \in Callers, Decide(c) PROVE CascadeInv'
      BY <1>1, DecideStep
<1>2. ASSUME NEW c \in Callers, NoteEscalation(c) PROVE CascadeInv'
      BY <1>2, NoteEscalationStep
<1>3. ASSUME NEW c \in Callers, TakeScore(c) PROVE CascadeInv'
      BY <1>3, TakeScoreStep
<1>4. ASSUME NEW c \in Callers, ReportResult(c) PROVE CascadeInv'
      BY <1>4, ReportResultStep
<1>5. CASE UNCHANGED cascadeVars
  <2>1. CascadeTypeOK'
        BY <1>5 DEF CascadeInv, CascadeTypeOK, cascadeVars
  <2>2. ASSUME NEW c \in Callers PROVE Underway(c)' /\ OwnCall(c)' /\ Reported(c)'
        BY <1>5 DEF CascadeInv, cascadeVars, Underway, OwnCall, Reported, OwnResult, Of, Alone
  <2> QED BY <2>1, <2>2 DEF CascadeInv
<1> QED BY <1>1, <1>2, <1>3, <1>4, <1>5 DEF CascadeNext

(* Fewer escalations than 99 in a hundred are cheaper than the generative  *)
(* judge alone.                                                            *)
LEMMA CascadeIsCheaper ==
  ASSUME CascadeInv, NEW c \in Callers, results[c] # << >>
  PROVE  \/ 100 * Cardinality(Escalated(c)) > 99 * Len(results[c])
         \/ Fees(c) < 12182 * Len(results[c])
<1>1. results[c] \in Seq(ResultRecords)
      BY DEF CascadeInv, CascadeTypeOK
<1>2. Len(results[c]) \in Nat /\ Len(results[c]) > 0
      BY <1>1
<1>3. IsFiniteSet(Escalated(c))
  <2>1. Escalated(c) \subseteq 1..Len(results[c])
        BY <1>1 DEF Escalated
  <2>2. PICK n \in Nat : n = Len(results[c])
        BY <1>2
  <2>3. IsFiniteSet(1..n)
    <3>1. 1 \in Int /\ n \in Int
          BY <2>2
    <3> QED BY ONLY <3>1, FS_Interval
  <2> QED BY <2>1, <2>2, <2>3, FS_Subset
<1>4. Cardinality(Escalated(c)) \in Nat
      BY <1>3, FS_CardinalityType
<1> DEFINE n == Len(results[c])  k == Cardinality(Escalated(c))
<1> HIDE DEF n, k
<1>5. n \in Nat /\ n > 0 /\ k \in Nat
      BY <1>2, <1>4 DEF n, k
<1>6. 100 * k > 99 * n \/ 44 * n + 12182 * k < 12182 * n
      BY <1>5
<1> QED BY <1>6 DEF Fees, n, k

(* src/aiobs/evals/decision.py evaluate and chapters/ch13/cascade_judge.py *)
(* evaluate_with_cascade: for any callers on any evaluators and any judges,*)
(* what a caller that shares with nobody is told of a sample is about that *)
(* sample, its verdict agrees with the score beside it when the cascade    *)
(* accepts above the pass mark, and the fees stay below the generative     *)
(* judge's.                                                                *)
THEOREM ResultsStayOwn == CascadeSpec => []ResultsAreOwn
<1>1. CascadeInv => ResultsAreOwn
  <2> SUFFICES ASSUME CascadeInv, NEW c \in Callers, NEW i \in DOMAIN results[c]
               PROVE  LET r == results[c][i] IN
                 /\ \/ 100 * Cardinality(Escalated(c)) > 99 * Len(results[c])
                    \/ Fees(c) < 12182 * Len(results[c])
                 /\ r.probabilities["supported"] + r.probabilities["hallucinated"] - 100 \in -2..2
                 /\ r.score \in 0..100
                 /\ Alone(c) => OwnResult(r)
      BY DEF ResultsAreOwn, OwnResult
  <2>1. Reported(c) /\ results[c] # << >>
        BY DEF CascadeInv
  <2> QED BY <2>1, CascadeIsCheaper DEF Reported, IsDistribution
<1>2. CascadeSpec => []CascadeInv
      BY CascadeInitInv, CascadeStep, PTL DEF CascadeSpec
<1> QED BY <1>1, <1>2, PTL

-----------------------------------------------------------------------------
(* The fairness gauges.  Everything a window publishes of its rates is     *)
(* computed from the groups that are measurable in it.                     *)
Parity(w) == Spread({PositiveRate(w[g]) : g \in Measurable(w)})

LEMMA CountFacts ==
  ASSUME NEW c \in Counts
  PROVE  /\ Size(c) \in Nat /\ ActualPositives(c) \in Nat /\ ActualNegatives(c) \in Nat
         /\ TruePositiveRate(c) \in Int /\ FalsePositiveRate(c) \in Int
         /\ PositiveRate(c) \in Int
<1>1. c[1] \in Nat /\ c[2] \in Nat /\ c[3] \in Nat /\ c[4] \in Nat
      BY FairnessOK
<1>2. Size(c) \in Nat /\ ActualPositives(c) \in Nat /\ ActualNegatives(c) \in Nat
      BY <1>1 DEF Size, ActualPositives, ActualNegatives
<1>3. \A part, whole \in Nat : Share(part, whole) \in Int
  <2> SUFFICES ASSUME NEW part \in Nat, NEW whole \in Nat, whole # 0
               PROVE  (Scale \div whole) * part \in Int
      BY DEF Share
  <2> DEFINE q == Scale \div whole
  <2>1. q \in Int
        BY FairnessOK
  <2> HIDE DEF q
  <2>2. q * part \in Int
        BY <2>1
  <2> QED BY <2>2 DEF q
<1>4. c[1] + c[2] \in Nat
      BY <1>1
<1> QED BY <1>1, <1>2, <1>3, <1>4
        DEF TruePositiveRate, FalsePositiveRate, PositiveRate

LEMMA WindowFacts ==
  ASSUME NEW w \in Windows
  PROVE  /\ IsFiniteSet(DOMAIN w)
         /\ \A g \in DOMAIN w : w[g] \in Counts /\ Size(w[g]) \in Nat
              /\ ActualPositives(w[g]) \in Nat /\ ActualNegatives(w[g]) \in Nat
<1>1. PICK gs \in SUBSET Groups : w \in [gs -> Counts]
      BY DEF Windows
<1>2. DOMAIN w = gs /\ \A g \in DOMAIN w : w[g] \in Counts
      BY <1>1
<1>3. IsFiniteSet(gs)
      BY FairnessOK, FS_Subset
<1> QED BY <1>2, <1>3, CountFacts

(* A gap is a number.                                                      *)
LEMMA GapIsInt ==
  ASSUME NEW S, IsFiniteSet(S), NEW f, f = [g \in S |-> f[g]], \A g \in S : f[g] \in Int
  PROVE  Gap(f) \in Int
<1>1. DOMAIN f = S
      BY Zenon
<1>2. CASE S = {}
  <2>1. Cardinality(S) < 2
        BY <1>2, FS_EmptySet
  <2> QED BY <1>1, <2>1 DEF Gap
<1>3. CASE S # {}
  <2> DEFINE R == {f[g] : g \in S}
  <2>1. R # {} /\ Max(R) \in Int /\ Min(R) \in Int
        BY <1>3, ExtremesOf
  <2> HIDE DEF R
  <2>2. Spread(R) \in Int
        BY <2>1 DEF Spread
  <2> QED BY <1>1, <2>2 DEF Gap, R
<1> QED BY <1>2, <1>3

LEMMA GapsOf ==
  ASSUME NEW w \in Windows
  PROVE  /\ TprGap(w) \in Int /\ FprGap(w) \in Int
         /\ EqualizedOddsGap(w) = -1 <=> TprGap(w) = -1 \/ FprGap(w) = -1
<1> DEFINE t == [g \in TprSupports(w) |-> TruePositiveRate(w[g])]
           f == [g \in FprSupports(w) |-> FalsePositiveRate(w[g])]
<1>1. /\ IsFiniteSet(TprSupports(w)) /\ IsFiniteSet(FprSupports(w))
      /\ TprSupports(w) \subseteq DOMAIN w /\ FprSupports(w) \subseteq DOMAIN w
  <2>1. TprSupports(w) \subseteq DOMAIN w /\ FprSupports(w) \subseteq DOMAIN w
        BY DEF TprSupports, FprSupports, Measurable
  <2> QED BY <2>1, WindowFacts, FS_Subset
<1>2. /\ \A g \in TprSupports(w) : t[g] \in Int
      /\ \A g \in FprSupports(w) : f[g] \in Int
  <2>1. \A g \in DOMAIN w : TruePositiveRate(w[g]) \in Int /\ FalsePositiveRate(w[g]) \in Int
        BY WindowFacts, CountFacts
  <2> QED BY <1>1, <2>1
<1>3. t = [g \in TprSupports(w) |-> t[g]] /\ f = [g \in FprSupports(w) |-> f[g]]
      OBVIOUS
<1>4. TprGap(w) = Gap(t) /\ FprGap(w) = Gap(f)
      BY DEF TprGap, FprGap
<1> HIDE DEF t, f
<1>5. TprGap(w) \in Int /\ FprGap(w) \in Int
      BY <1>1, <1>2, <1>3, <1>4, GapIsInt
<1>6. ASSUME NEW a \in Int, NEW b \in Int PROVE Max({a, b}) \in {a, b}
  <2>1. \E x \in {a, b} : \A y \in {a, b} : x >= y
    <3>1. CASE a >= b
          BY <3>1
    <3>2. CASE b > a
          BY <3>2
    <3> QED BY <3>1, <3>2
  <2> QED BY <2>1 DEF Max
<1>7. Max({TprGap(w), FprGap(w)}) \in {TprGap(w), FprGap(w)}
      BY <1>5, <1>6
<1>8. EqualizedOddsGap(w) = -1 <=> TprGap(w) = -1 \/ FprGap(w) = -1
  <2> DEFINE a == TprGap(w)  b == FprGap(w)  e == Max({TprGap(w), FprGap(w)})
  <2>1. e \in {a, b}
        BY <1>7
  <2>2. EqualizedOddsGap(w) = IF a = -1 \/ b = -1 THEN -1 ELSE e
        BY DEF EqualizedOddsGap
  <2> HIDE DEF a, b, e
  <2>3. EqualizedOddsGap(w) = -1 <=> a = -1 \/ b = -1
        BY <2>1, <2>2
  <2> QED BY <2>3 DEF a, b
<1> QED BY <1>5, <1>8

(* Windows that agree where a rate is supported agree on its gap.          *)
LEMMA SameGaps ==
  ASSUME NEW w, NEW v
  PROVE  /\ (/\ TprSupports(v) = TprSupports(w)
             /\ \A g \in TprSupports(w) : v[g] = w[g]) => TprGap(v) = TprGap(w)
         /\ (/\ FprSupports(v) = FprSupports(w)
             /\ \A g \in FprSupports(w) : v[g] = w[g]) => FprGap(v) = FprGap(w)
<1>1. ASSUME TprSupports(v) = TprSupports(w), \A g \in TprSupports(w) : v[g] = w[g]
      PROVE  TprGap(v) = TprGap(w)
  <2>1. [g \in TprSupports(v) |-> TruePositiveRate(v[g])]
          = [g \in TprSupports(w) |-> TruePositiveRate(w[g])]
        BY <1>1
  <2> QED BY <2>1 DEF TprGap
<1>2. ASSUME FprSupports(v) = FprSupports(w), \A g \in FprSupports(w) : v[g] = w[g]
      PROVE  FprGap(v) = FprGap(w)
  <2>1. [g \in FprSupports(v) |-> FalsePositiveRate(v[g])]
          = [g \in FprSupports(w) |-> FalsePositiveRate(w[g])]
        BY <1>2
  <2> QED BY <2>1 DEF FprGap
<1> QED BY <1>1, <1>2

LEMMA MergeFacts ==
  ASSUME NEW f, NEW g
  PROVE  /\ DOMAIN Merge(f, g) = DOMAIN f \cup DOMAIN g
         /\ \A k \in DOMAIN f : Merge(f, g)[k] = f[k]
         /\ \A k \in DOMAIN g : k \notin DOMAIN f => Merge(f, g)[k] = g[k]
BY DEF Merge

(* What a window publishes, gauge by gauge.                                *)
LEMMA PublishedFacts ==
  ASSUME NEW w
  PROVE  LET p == Published(w) IN
           /\ \A k \in DOMAIN p :
                k[1] \in {"sample_size", "positive_rate", "base_rate", "parity_gap",
                          "equalized_odds_gap"}
           /\ \A k \in DOMAIN p : k[1] = "base_rate" => k[2] \in Measurable(w)
           /\ \A g \in Measurable(w) : <<"base_rate", g>> \in DOMAIN p
           /\ \A g \in DOMAIN w :
                <<"sample_size", g>> \in DOMAIN p /\ p[<<"sample_size", g>>] = Size(w[g])
           /\ <<"parity_gap", "">> \in DOMAIN p /\ p[<<"parity_gap", "">>] = Parity(w)
           /\ <<"equalized_odds_gap", "">> \in DOMAIN p <=> EqualizedOddsGap(w) # -1
           /\ EqualizedOddsGap(w) # -1 =>
                p[<<"equalized_odds_gap", "">>] = EqualizedOddsGap(w)
<1> DEFINE single == [k \in {<<"parity_gap", "">>} |-> Parity(w)]
           odds == [k \in IF EqualizedOddsGap(w) = -1 THEN {} ELSE {<<"equalized_odds_gap", "">>} |->
                      EqualizedOddsGap(w)]
           sizes == Gauge("sample_size", [g \in DOMAIN w |-> Size(w[g])])
           rates == Gauge("positive_rate", [g \in Measurable(w) |-> PositiveRate(w[g])])
           bases == Gauge("base_rate", [g \in Measurable(w) |-> BaseRate(w[g])])
           m1 == Merge(rates, sizes)
           m2 == Merge(bases, m1)
           m3 == Merge(single, m2)
<1>1. /\ DOMAIN single = {<<"parity_gap", "">>} /\ single[<<"parity_gap", "">>] = Parity(w)
      /\ DOMAIN odds = IF EqualizedOddsGap(w) = -1 THEN {} ELSE {<<"equalized_odds_gap", "">>}
      /\ EqualizedOddsGap(w) # -1 => odds[<<"equalized_odds_gap", "">>] = EqualizedOddsGap(w)
      OBVIOUS
<1>2. /\ DOMAIN sizes = {"sample_size"} \X DOMAIN w
      /\ \A g \in DOMAIN w : sizes[<<"sample_size", g>>] = Size(w[g])
      BY DEF Gauge
<1>3. DOMAIN rates = {"positive_rate"} \X Measurable(w)
      BY DEF Gauge
<1>4. DOMAIN bases = {"base_rate"} \X Measurable(w)
      BY DEF Gauge
<1>5. Published(w) = Merge(odds, m3)
      BY DEF Published, Parity
<1> HIDE DEF single, odds, sizes, rates, bases
<1>6. /\ DOMAIN m1 = DOMAIN rates \cup DOMAIN sizes
      /\ \A g \in DOMAIN w : m1[<<"sample_size", g>>] = Size(w[g])
  <2>1. /\ DOMAIN m1 = DOMAIN rates \cup DOMAIN sizes
        /\ \A k \in DOMAIN rates : m1[k] = rates[k]
        /\ \A k \in DOMAIN sizes : k \notin DOMAIN rates => m1[k] = sizes[k]
        BY MergeFacts
  <2>2. \A g \in DOMAIN w :
          <<"sample_size", g>> \in DOMAIN sizes /\ <<"sample_size", g>> \notin DOMAIN rates
        BY <1>2, <1>3
  <2> QED BY <1>2, <1>3, <2>1, <2>2
<1> HIDE DEF m1
<1>7. /\ DOMAIN m2 = DOMAIN bases \cup DOMAIN rates \cup DOMAIN sizes
      /\ \A g \in DOMAIN w : m2[<<"sample_size", g>>] = Size(w[g])
  <2>1. /\ DOMAIN m2 = DOMAIN bases \cup DOMAIN m1
        /\ \A k \in DOMAIN bases : m2[k] = bases[k]
        /\ \A k \in DOMAIN m1 : k \notin DOMAIN bases => m2[k] = m1[k]
        BY MergeFacts
  <2>2. \A g \in DOMAIN w :
          <<"sample_size", g>> \in DOMAIN m1 /\ <<"sample_size", g>> \notin DOMAIN bases
        BY <1>2, <1>4, <1>6
  <2> QED BY <1>2, <1>4, <1>6, <2>1, <2>2
<1> HIDE DEF m2
<1>8. /\ DOMAIN m3 = DOMAIN single \cup DOMAIN bases \cup DOMAIN rates \cup DOMAIN sizes
      /\ \A g \in DOMAIN w : m3[<<"sample_size", g>>] = Size(w[g])
      /\ m3[<<"parity_gap", "">>] = Parity(w)
  <2>1. /\ DOMAIN m3 = DOMAIN single \cup DOMAIN m2
        /\ \A k \in DOMAIN single : m3[k] = single[k]
        /\ \A k \in DOMAIN m2 : k \notin DOMAIN single => m3[k] = m2[k]
        BY MergeFacts
  <2>2. \A g \in DOMAIN w :
          <<"sample_size", g>> \in DOMAIN m2 /\ <<"sample_size", g>> \notin DOMAIN single
        BY <1>1, <1>2, <1>7
  <2> QED BY <1>1, <1>2, <1>7, <2>1, <2>2
<1> HIDE DEF m3
<1>9. /\ DOMAIN Published(w) = DOMAIN odds \cup DOMAIN single \cup DOMAIN bases
                                 \cup DOMAIN rates \cup DOMAIN sizes
      /\ \A g \in DOMAIN w : Published(w)[<<"sample_size", g>>] = Size(w[g])
      /\ Published(w)[<<"parity_gap", "">>] = Parity(w)
      /\ EqualizedOddsGap(w) # -1 =>
           Published(w)[<<"equalized_odds_gap", "">>] = EqualizedOddsGap(w)
  <2>1. /\ DOMAIN Published(w) = DOMAIN odds \cup DOMAIN m3
        /\ \A k \in DOMAIN odds : Published(w)[k] = odds[k]
        /\ \A k \in DOMAIN m3 : k \notin DOMAIN odds => Published(w)[k] = m3[k]
    <3>1. /\ DOMAIN Merge(odds, m3) = DOMAIN odds \cup DOMAIN m3
          /\ \A k \in DOMAIN odds : Merge(odds, m3)[k] = odds[k]
          /\ \A k \in DOMAIN m3 : k \notin DOMAIN odds => Merge(odds, m3)[k] = m3[k]
          BY MergeFacts
    <3> QED BY <1>5, <3>1
  <2>2. \A g \in DOMAIN w :
          <<"sample_size", g>> \in DOMAIN m3 /\ <<"sample_size", g>> \notin DOMAIN odds
    <3>1. \A g \in DOMAIN w : <<"sample_size", g>> \in DOMAIN sizes
          BY <1>2
    <3>2. DOMAIN odds \subseteq {<<"equalized_odds_gap", "">>}
          BY <1>1
    <3>3. \A g : <<"sample_size", g>> # <<"equalized_odds_gap", "">>
          OBVIOUS
    <3>4. \A g : <<"sample_size", g>> \notin DOMAIN odds
          BY <3>2, <3>3
    <3> QED BY <1>8, <3>1, <3>4
  <2> QED BY <1>1, <1>2, <1>8, <2>1, <2>2
<1>10. /\ \A k \in DOMAIN sizes : k[1] = "sample_size"
       /\ \A k \in DOMAIN rates : k[1] = "positive_rate"
       /\ \A k \in DOMAIN bases : k[1] = "base_rate" /\ k[2] \in Measurable(w)
       /\ \A k \in DOMAIN single : k[1] = "parity_gap"
       /\ \A k \in DOMAIN odds : k[1] = "equalized_odds_gap"
  <2>1. ASSUME NEW x, NEW S PROVE \A k \in {x} \X S : k[1] = x /\ k[2] \in S
        OBVIOUS
  <2>2. \A k \in DOMAIN sizes : k[1] = "sample_size"
        BY <1>2, <2>1
  <2>3. \A k \in DOMAIN rates : k[1] = "positive_rate"
        BY <1>3, <2>1
  <2>4. \A k \in DOMAIN bases : k[1] = "base_rate" /\ k[2] \in Measurable(w)
        BY <1>4, <2>1
  <2>5. \A k \in DOMAIN single : k[1] = "parity_gap"
    <3>1. DOMAIN single = {<<"parity_gap", "">>}
          BY <1>1
    <3>2. <<"parity_gap", "">>[1] = "parity_gap"
          OBVIOUS
    <3> QED BY <3>1, <3>2, Zenon
  <2>6. \A k \in DOMAIN odds : k[1] = "equalized_odds_gap"
    <3>1. DOMAIN odds \subseteq {<<"equalized_odds_gap", "">>}
          BY <1>1
    <3>2. <<"equalized_odds_gap", "">>[1] = "equalized_odds_gap"
          OBVIOUS
    <3> QED BY <3>1, <3>2, Zenon
  <2> QED BY <2>2, <2>3, <2>4, <2>5, <2>6
<1>11. ASSUME NEW k \in DOMAIN Published(w)
       PROVE  /\ k[1] \in {"sample_size", "positive_rate", "base_rate", "parity_gap",
                           "equalized_odds_gap"}
              /\ k[1] = "base_rate" => k[2] \in Measurable(w)
  <2>1. k \in DOMAIN odds \/ k \in DOMAIN single \/ k \in DOMAIN bases \/ k \in DOMAIN rates
          \/ k \in DOMAIN sizes
        BY <1>9
  <2> QED BY <1>10, <2>1
<1>12. /\ \A g \in Measurable(w) : <<"base_rate", g>> \in DOMAIN Published(w)
       /\ \A g \in DOMAIN w : <<"sample_size", g>> \in DOMAIN Published(w)
       /\ <<"parity_gap", "">> \in DOMAIN Published(w)
       BY <1>1, <1>2, <1>4, <1>9
<1>13. <<"equalized_odds_gap", "">> \in DOMAIN Published(w) <=> EqualizedOddsGap(w) # -1
       BY <1>1, <1>2, <1>3, <1>4, <1>9
<1> QED BY <1>9, <1>11, <1>12, <1>13

(* What the gauges and the report hold of the last window, whatever the    *)
(* recorder held before it.                                                *)
GaugesInv ==
  windows # 0 =>
    /\ window \in Windows
    /\ report.tpr_gap = TprGap(window) /\ report.fpr_gap = FprGap(window)
    /\ \A k \in DOMAIN Published(window) : k \in DOMAIN gauges /\ gauges[k] = Published(window)[k]
    /\ \A k \in DOMAIN gauges :
         k[1] \in {"base_rate", "equalized_odds_gap"} => k \in DOMAIN Published(window)

LEMMA PublishInv ==
  ASSUME NEW w \in Windows, Publish(w)
  PROVE  GaugesInv'
<1>1. window' = w /\ gauges' = Merge(Published(w), Kept)
      BY DEF Publish
<1>2. report'.tpr_gap = TprGap(w) /\ report'.fpr_gap = FprGap(w)
      BY DEF Publish
<1>3. /\ DOMAIN Merge(Published(w), Kept) = DOMAIN Published(w) \cup DOMAIN Kept
      /\ \A k \in DOMAIN Published(w) : Merge(Published(w), Kept)[k] = Published(w)[k]
      BY MergeFacts
<1>4. \A k \in DOMAIN Kept : k[1] \notin {"base_rate", "equalized_odds_gap"}
      BY DEF Kept
<1>5. /\ \A k \in DOMAIN Published(w) : k \in DOMAIN gauges' /\ gauges'[k] = Published(w)[k]
      /\ \A k \in DOMAIN gauges' :
           k[1] \in {"base_rate", "equalized_odds_gap"} => k \in DOMAIN Published(w)
      BY <1>1, <1>3, <1>4
<1> QED BY <1>1, <1>2, <1>5 DEF GaugesInv

(* Taking groups out that are too small changes no gap.                    *)
LEMMA SmallGroupsDoNotCount ==
  ASSUME NEW w \in Windows
  PROVE  GapGauges(w) = GapGauges(Without(w, DOMAIN w \ Measurable(w)))
<1> DEFINE v == Without(w, DOMAIN w \ Measurable(w))
           keys == {<<"parity_gap", "">>, <<"equalized_odds_gap", "">>}
<1>1. /\ Measurable(w) \subseteq DOMAIN w /\ DOMAIN v = Measurable(w)
      /\ \A g \in Measurable(w) : v[g] = w[g]
      BY DEF Without, Measurable
<1>2. \A g \in Measurable(w) : Size(w[g]) >= MinN
      BY DEF Measurable
<1> HIDE DEF v
<1>3. Measurable(v) = Measurable(w)
      BY <1>1, <1>2 DEF Measurable
<1>4. TprSupports(v) = TprSupports(w) /\ FprSupports(v) = FprSupports(w)
      BY <1>1, <1>3 DEF TprSupports, FprSupports
<1>5. TprSupports(w) \subseteq Measurable(w) /\ FprSupports(w) \subseteq Measurable(w)
      BY DEF TprSupports, FprSupports
<1>6. TprGap(v) = TprGap(w) /\ FprGap(v) = FprGap(w)
      BY <1>1, <1>4, <1>5, SameGaps
<1>7. EqualizedOddsGap(v) = EqualizedOddsGap(w)
      BY <1>6 DEF EqualizedOddsGap
<1>8. Parity(v) = Parity(w)
  <2>1. {PositiveRate(v[g]) : g \in Measurable(v)} = {PositiveRate(w[g]) : g \in Measurable(w)}
        BY <1>1, <1>3
  <2> QED BY <2>1 DEF Parity
<1>9. DOMAIN Published(v) \cap keys = DOMAIN Published(w) \cap keys
  <2>1. /\ <<"parity_gap", "">> \in DOMAIN Published(v)
        /\ <<"equalized_odds_gap", "">> \in DOMAIN Published(v) <=> EqualizedOddsGap(v) # -1
        BY PublishedFacts
  <2>2. /\ <<"parity_gap", "">> \in DOMAIN Published(w)
        /\ <<"equalized_odds_gap", "">> \in DOMAIN Published(w) <=> EqualizedOddsGap(w) # -1
        BY PublishedFacts
  <2> QED BY <1>7, <2>1, <2>2
<1>10. \A k \in DOMAIN Published(w) \cap keys : Published(v)[k] = Published(w)[k]
  <2>1. Published(v)[<<"parity_gap", "">>] = Parity(v)
        BY PublishedFacts
  <2>2. Published(w)[<<"parity_gap", "">>] = Parity(w)
        BY PublishedFacts
  <2>3. ASSUME <<"equalized_odds_gap", "">> \in DOMAIN Published(w)
        PROVE  Published(v)[<<"equalized_odds_gap", "">>] = Published(w)[<<"equalized_odds_gap", "">>]
    <3>1. EqualizedOddsGap(w) # -1
          BY <2>3, PublishedFacts
    <3>2. Published(w)[<<"equalized_odds_gap", "">>] = EqualizedOddsGap(w)
          BY <3>1, PublishedFacts
    <3>3. Published(v)[<<"equalized_odds_gap", "">>] = EqualizedOddsGap(v)
          BY <1>7, <3>1, PublishedFacts
    <3> QED BY <1>7, <3>2, <3>3
  <2> QED BY <1>8, <2>1, <2>2, <2>3
<1>11. /\ GapGauges(w) = {<<k, Published(w)[k]>> : k \in DOMAIN Published(w) \cap keys}
       /\ GapGauges(v) = {<<k, Published(v)[k]>> : k \in DOMAIN Published(v) \cap keys}
       BY DEF GapGauges
<1>12. GapGauges(w) = GapGauges(v)
  <2> HIDE DEF keys
  <2> QED BY <1>9, <1>10, <1>11
<1> QED BY <1>12 DEF v

(* So does taking groups out that lack the denominator of an error rate.   *)
LEMMA UnsupportedGroupsDoNotCount ==
  ASSUME NEW w \in Windows
  PROVE  /\ TprGap(Without(w, {g \in DOMAIN w : ActualPositives(w[g]) < MinN})) = TprGap(w)
         /\ FprGap(Without(w, {g \in DOMAIN w : ActualNegatives(w[g]) < MinN})) = FprGap(w)
<1>1. /\ \A g \in DOMAIN w : ActualPositives(w[g]) \in Nat /\ ActualNegatives(w[g]) \in Nat
      /\ MinN \in Nat
      BY WindowFacts, FairnessOK
<1>2. ASSUME NEW v, v = Without(w, {g \in DOMAIN w : ActualPositives(w[g]) < MinN})
      PROVE  TprGap(v) = TprGap(w)
  <2>1. /\ DOMAIN v = {g \in DOMAIN w : ActualPositives(w[g]) >= MinN}
        /\ \A g \in DOMAIN v : v[g] = w[g]
        BY <1>1, <1>2 DEF Without
  <2>2. TprSupports(v) = TprSupports(w)
        BY <2>1 DEF TprSupports, Measurable
  <2>3. \A g \in TprSupports(w) : v[g] = w[g]
        BY <2>1 DEF TprSupports, Measurable
  <2> QED BY <2>2, <2>3, SameGaps
<1>3. ASSUME NEW v, v = Without(w, {g \in DOMAIN w : ActualNegatives(w[g]) < MinN})
      PROVE  FprGap(v) = FprGap(w)
  <2>1. /\ DOMAIN v = {g \in DOMAIN w : ActualNegatives(w[g]) >= MinN}
        /\ \A g \in DOMAIN v : v[g] = w[g]
        BY <1>1, <1>3 DEF Without
  <2>2. FprSupports(v) = FprSupports(w)
        BY <2>1 DEF FprSupports, Measurable
  <2>3. \A g \in FprSupports(w) : v[g] = w[g]
        BY <2>1 DEF FprSupports, Measurable
  <2> QED BY <2>2, <2>3, SameGaps
<1> QED BY <1>2, <1>3

(* chapters/ch13/fairness_metrics.py publish_fairness: for any groups,     *)
(* counts, floor and number of windows on one recorder, no gap tells of a  *)
(* group too small to publish, and the base rates, sizes and equalized     *)
(* odds gauge are of the last window.                                      *)
THEOREM GapsDiscloseNobody == FairnessSpec => []GapsAreDisclosable
<1>1. FairnessInit => GaugesInv
      BY DEF FairnessInit, GaugesInv
<1>2. GaugesInv /\ [FairnessNext]_fairnessVars => GaugesInv'
  <2>1. ASSUME NEW w \in Windows, Publish(w) PROVE GaugesInv'
        BY <2>1, PublishInv
  <2>2. CASE UNCHANGED fairnessVars /\ GaugesInv
        BY <2>2 DEF fairnessVars, GaugesInv
  <2> QED BY <2>1, <2>2 DEF FairnessNext
<1>3. GaugesInv => GapsAreDisclosable
  <2> SUFFICES ASSUME GaugesInv, windows > 0 PROVE GapsAreDisclosable
      BY DEF GapsAreDisclosable
  <2> DEFINE p == Published(window)
  <2>1. /\ window \in Windows
        /\ report.tpr_gap = TprGap(window) /\ report.fpr_gap = FprGap(window)
        /\ \A k \in DOMAIN p : k \in DOMAIN gauges /\ gauges[k] = p[k]
        /\ \A k \in DOMAIN gauges :
             k[1] \in {"base_rate", "equalized_odds_gap"} => k \in DOMAIN p
    <3>1. windows # 0
          OBVIOUS
    <3> QED BY <3>1 DEF GaugesInv
  <2>2. {k[2] : k \in {k \in DOMAIN gauges : k[1] = "base_rate"}} = Measurable(window)
    <3>1. /\ \A k \in DOMAIN p : k[1] = "base_rate" => k[2] \in Measurable(window)
          /\ \A g \in Measurable(window) : <<"base_rate", g>> \in DOMAIN p
          BY PublishedFacts
    <3> HIDE DEF p
    <3>2. ASSUME NEW g \in Measurable(window)
          PROVE  \E k \in {k \in DOMAIN gauges : k[1] = "base_rate"} : g = k[2]
      <4>1. <<"base_rate", g>> \in DOMAIN gauges
            BY <2>1, <3>1
      <4> QED BY <4>1
    <3>3. \A k \in DOMAIN gauges : k[1] = "base_rate" => k[2] \in Measurable(window)
          BY <2>1, <3>1
    <3> QED BY <3>2, <3>3
  <2>3. \A g \in DOMAIN window : gauges[<<"sample_size", g>>] = Size(window[g])
    <3>1. \A g \in DOMAIN window :
            <<"sample_size", g>> \in DOMAIN p /\ p[<<"sample_size", g>>] = Size(window[g])
          BY PublishedFacts
    <3> HIDE DEF p
    <3> QED BY <2>1, <3>1
  <2>4. <<"equalized_odds_gap", "">> \in DOMAIN gauges <=>
          report.tpr_gap # -1 /\ report.fpr_gap # -1
    <3>1. <<"equalized_odds_gap", "">> \in DOMAIN p <=> EqualizedOddsGap(window) # -1
          BY PublishedFacts
    <3>2. EqualizedOddsGap(window) = -1 <=> TprGap(window) = -1 \/ FprGap(window) = -1
          BY <2>1, GapsOf
    <3>3. <<"equalized_odds_gap", "">> \in DOMAIN gauges <=> <<"equalized_odds_gap", "">> \in DOMAIN p
          BY <2>1
    <3> QED BY <2>1, <3>1, <3>2, <3>3
  <2>5. GapGauges(window) = GapGauges(Without(window, DOMAIN window \ Measurable(window)))
        BY <2>1, SmallGroupsDoNotCount
  <2>6. /\ report.tpr_gap
             = TprGap(Without(window, {g \in DOMAIN window : ActualPositives(window[g]) < MinN}))
        /\ report.fpr_gap
             = FprGap(Without(window, {g \in DOMAIN window : ActualNegatives(window[g]) < MinN}))
        BY <2>1, UnsupportedGroupsDoNotCount
  <2> QED BY <2>2, <2>3, <2>4, <2>5, <2>6 DEF GapsAreDisclosable
<1> QED BY <1>1, <1>2, <1>3, PTL DEF FairnessSpec

-----------------------------------------------------------------------------
(* The metrics.  The edges of the bins are those of the reference, and the *)
(* bins of a value are found by the edges it lies between: one and only    *)
(* one of them.                                                            *)
Extremes(R) == /\ Max(R) \in Int /\ Max(R) \in R /\ \A r \in R : Max(R) >= r
               /\ Min(R) \in Int /\ Min(R) \in R /\ \A r \in R : Min(R) =< r

LEMMA ImageExtremes ==
  ASSUME NEW S, IsFiniteSet(S), S # {}, NEW f, \A x \in S : f[x] \in Int,
         NEW R, R = {f[x] : x \in S}
  PROVE  Extremes(R)
<1>1. PICK m \in S : \A x \in S : f[m] >= f[x]
      BY LargestOf
<1>2. PICK l \in S : \A x \in S : f[l] =< f[x]
  <2> DEFINE g == [x \in S |-> -f[x]]
  <2>1. \A x \in S : g[x] \in Int
        OBVIOUS
  <2>2. \E k \in S : \A x \in S : g[k] >= g[x]
    <3> HIDE DEF g
    <3> QED BY <2>1, LargestOf
  <2>3. PICK k \in S : \A x \in S : g[k] >= g[x]
        BY <2>2
  <2>4. \A x \in S : f[k] =< f[x]
        BY <2>3
  <2> QED BY <2>4
<1>3. /\ \E r \in R : \A q \in R : r >= q
      /\ \E r \in R : \A q \in R : r =< q
      BY <1>1, <1>2
<1>4. \A r \in R : r \in Int
      OBVIOUS
<1>5. Max(R) \in R /\ \A r \in R : Max(R) >= r
      BY <1>3 DEF Max
<1>6. Min(R) \in R /\ \A r \in R : Min(R) =< r
      BY <1>3 DEF Min
<1> QED BY <1>4, <1>5, <1>6 DEF Extremes

(* A window: a sequence of one of the sizes.                               *)
LEMMA WindowIs ==
  ASSUME NEW v \in WindowsOf
  PROVE  /\ Len(v) \in WindowSizes /\ Len(v) \in Nat /\ Len(v) >= 2
         /\ v \in [1..Len(v) -> Int] /\ DOMAIN v = 1..Len(v)
         /\ IsFiniteSet(1..Len(v)) /\ Cardinality(1..Len(v)) = Len(v)
<1>1. PICK n \in WindowSizes : v \in [1..n -> Int]
  <2>1. PICK n \in WindowSizes : v \in [1..n -> Observations]
        BY DEF WindowsOf
  <2>2. Observations \subseteq Int
        BY DriftOK
  <2>3. v \in [1..n -> Int]
        BY ONLY <2>1, <2>2
  <2> QED BY <2>3
<1>2. n \in Nat /\ n >= 2
      BY DriftOK
<1>3. v \in Seq(Int)
      BY <1>1, <1>2
<1>4. Len(v) = n
      BY <1>1, <1>2, <1>3
<1>5. IsFiniteSet(1..n) /\ Cardinality(1..n) = n
  <2>1. 1 \in Int /\ n \in Int
        BY <1>2
  <2>2. IsFiniteSet(1..n) /\ Cardinality(1..n) = IF 1 > n THEN 0 ELSE n - 1 + 1
        BY ONLY <2>1, FS_Interval
  <2> QED BY <1>2, <2>2
<1> QED BY <1>1, <1>2, <1>4, <1>5

LEMMA EdgesAre ==
  ASSUME NEW w \in References
  PROVE  /\ w \in WindowsOf /\ IsFiniteSet(Range(w)) /\ Range(w) # {} /\ Range(w) \subseteq Int
         /\ Max(Range(w)) \in Int /\ Min(Range(w)) \in Int /\ Min(Range(w)) < Max(Range(w))
         /\ Min(Range(w)) \in Range(w)
<1>1. PICK n \in Nat : /\ n >= 2 /\ w \in [1..n -> Int] /\ IsFiniteSet(1..n)
                       /\ Cardinality(Range(w)) > 1
      BY DriftOK, WindowIs
<1>2. PICK S : S = 1..n /\ IsFiniteSet(S) /\ 1 \in S
      BY <1>1
<1>3. PICK R : R = Range(w) /\ R = {w[x] : x \in S}
      BY <1>1, <1>2 DEF Range
<1>4. \A x \in S : w[x] \in Int
      BY <1>1, <1>2
<1>5. /\ Max(R) \in Int /\ Max(R) \in R /\ \A r \in R : Max(R) >= r
      /\ Min(R) \in Int /\ Min(R) \in R /\ \A r \in R : Min(R) =< r
  <2>1. S # {}
        BY <1>2
  <2>2. IsFiniteSet(S) /\ R = {w[x] : x \in S}
        BY <1>2, <1>3
  <2>3. Extremes(R)
        BY ONLY <1>4, <2>1, <2>2, ImageExtremes, Zenon
  <2> QED BY <2>3 DEF Extremes
<1>6. R \subseteq Int /\ R # {}
      BY <1>2, <1>3, <1>4
<1>7. IsFiniteSet(R)
  <2>1. w \in Surjection(S, R)
        BY <1>1, <1>2, <1>3 DEF Surjection
  <2> QED BY <1>2, <2>1, FS_Surjection
<1>8. Min(R) # Max(R)
  <2> SUFFICES ASSUME Min(R) = Max(R) PROVE FALSE
      OBVIOUS
  <2>1. \A r \in R : r = Min(R)
        BY <1>5, <1>6
  <2>2. R = {Min(R)}
        BY <1>5, <2>1
  <2>3. Cardinality(R) = 1
        BY <2>2, FS_Singleton
  <2> QED BY <1>1, <1>3, <2>3
<1>9. Min(R) < Max(R)
      BY <1>5, <1>8
<1>10. w \in WindowsOf
       BY DriftOK
<1> QED BY <1>3, <1>5, <1>6, <1>7, <1>9, <1>10

LEMMA ProductGrows ==
  ASSUME NEW a \in Int, NEW b \in Int, a =< b, NEW c \in Nat
  PROVE  a * c \in Int /\ b * c \in Int /\ a * c =< b * c
<1>1. PICK d \in Nat : b = a + d
  <2>1. b - a \in Nat /\ b = a + (b - a)
        OBVIOUS
  <2> QED BY <2>1
<1>2. b * c = a * c + d * c /\ d * c \in Nat /\ a * c \in Int
      BY <1>1
<1> QED BY <1>2

LEMMA BinIs ==
  ASSUME NEW w, NEW v, NEW lo, lo = Min(Range(w)), NEW hi, hi = Max(Range(w)),
         NEW y, y = (v - lo) * Bins, NEW r, r = hi - lo, NEW i
  PROVE  InBin(w, v, i) <=> (i = 1 \/ (i - 1) * r =< y) /\ (i = Bins \/ y < i * r)
BY DEF InBin

LEMMA OneBin ==
  ASSUME NEW w \in References, NEW v \in Int
  PROVE  /\ \E i \in 1..Bins : InBin(w, v, i)
         /\ \A i, j \in 1..Bins : InBin(w, v, i) /\ InBin(w, v, j) => i = j
<1>1. PICK lo, hi : lo = Min(Range(w)) /\ hi = Max(Range(w))
      OBVIOUS
<1>2. lo \in Int /\ hi \in Int /\ lo < hi /\ Bins \in Nat /\ Bins >= 2
      BY <1>1, EdgesAre, DriftOK
<1>3. PICK y \in Int, r \in Nat : y = (v - lo) * Bins /\ r = hi - lo
  <2>1. hi - lo \in Nat /\ v - lo \in Int /\ Bins \in Int
        BY <1>2
  <2>2. (v - lo) * Bins \in Int
        BY ONLY <2>1
  <2> QED BY <2>1, <2>2
<1>4. \A i : InBin(w, v, i) <=> (i = 1 \/ (i - 1) * r =< y) /\ (i = Bins \/ y < i * r)
      BY <1>1, <1>3, BinIs
<1>5. \E i \in 1..Bins : InBin(w, v, i)
  <2> DEFINE T == {i \in 1..Bins : i = Bins \/ y < i * r}
  <2>1. Bins \in T /\ T \subseteq Nat
        BY <1>2
  <2>2. PICK i \in T : \A m \in T : i =< m
    <3>1. T # {}
          BY <2>1
    <3> HIDE DEF T
    <3> QED BY <2>1, <3>1, SmallestOf
  <2>3. i \in 1..Bins /\ (i = Bins \/ y < i * r)
        BY <2>2
  <2>4. i = 1 \/ (i - 1) * r =< y
    <3> SUFFICES ASSUME i # 1 PROVE (i - 1) * r =< y
        OBVIOUS
    <3>1. PICK m \in 1..Bins : m = i - 1 /\ m # Bins /\ ~(i =< m)
          BY <1>2, <2>3
    <3>2. m \notin T
          BY <2>2, <3>1
    <3>3. ~(y < m * r)
          BY <3>1, <3>2
    <3>4. m * r \in Int
          BY <3>1
    <3> QED BY <3>1, <3>3, <3>4
  <2> QED BY <1>4, <2>3, <2>4
<1>6. ASSUME NEW i \in 1..Bins, NEW j \in 1..Bins, i < j, InBin(w, v, i), InBin(w, v, j)
      PROVE  FALSE
  <2>1. i # Bins /\ j # 1
        BY <1>2, <1>6
  <2>2. y < i * r /\ (j - 1) * r =< y
        BY <1>4, <1>6, <2>1
  <2>3. i \in Int /\ j - 1 \in Int /\ i =< j - 1
        BY <1>2, <1>6
  <2>4. i * r \in Int /\ (j - 1) * r \in Int /\ i * r =< (j - 1) * r
        BY <2>3, ProductGrows
  <2> QED BY <2>2, <2>4
<1>7. ASSUME NEW i \in 1..Bins, NEW j \in 1..Bins, InBin(w, v, i), InBin(w, v, j)
      PROVE  i = j
  <2>1. i < j \/ j < i \/ i = j
        BY <1>2
  <2> QED BY <1>6, <1>7, <2>1
<1> QED BY <1>5, <1>7

LEMMA EverythingCounted ==
  ASSUME NEW w \in References, NEW v \in WindowsOf
  PROVE  SumFunctionOnSet(Histogram(w, v), 1..Bins) = Len(v)
<1>1. PICK size \in Nat : /\ size = Len(v) /\ v \in [1..size -> Int] /\ IsFiniteSet(1..size)
                          /\ Cardinality(1..size) = size
      BY WindowIs
<1>2. PICK S, V : S = 1..size /\ V = 1..Bins
      OBVIOUS
<1>3. IsFiniteSet(S) /\ IsFiniteSet(V) /\ Cardinality(S) = size
  <2>1. 1 \in Int /\ Bins \in Int
        BY DriftOK
  <2>2. IsFiniteSet(1..Bins)
        BY ONLY <2>1, FS_Interval
  <2> QED BY <1>1, <1>2, <2>2
<1>4. PICK f : f = [j \in S |-> 1]
      OBVIOUS
<1>5. PICK k : k = [j \in S |-> CHOOSE i \in V : InBin(w, v[j], i)]
      OBVIOUS
<1>6. ASSUME NEW j \in S
      PROVE  k[j] \in V /\ \A i \in V : k[j] = i <=> InBin(w, v[j], i)
  <2>1. v[j] \in Int
        BY <1>1, <1>2
  <2>2. /\ \E i \in V : InBin(w, v[j], i)
        /\ \A i, l \in V : InBin(w, v[j], i) /\ InBin(w, v[j], l) => i = l
        BY <1>2, <2>1, OneBin
  <2>3. k[j] \in V /\ InBin(w, v[j], k[j])
        BY <1>5, <2>2
  <2> QED BY <2>2, <2>3
<1>7. IntOn(f, S)
      BY <1>4 DEF IntOn
<1>8. SumFunctionOnSet(PartSums(f, k, S, V), V) = SumFunctionOnSet(f, S)
      BY <1>3, <1>6, <1>7, PartsAddUp
<1>9. SumFunctionOnSet(f, S) = size
  <2>1. 1 \in Int /\ \A x \in S : f[x] = 1
        BY <1>4
  <2>2. Cardinality(S) \in Nat /\ SumFunctionOnSet(f, S) = Cardinality(S) * 1
        BY <1>3, <2>1, SumOfSteady
  <2> QED BY <1>3, <2>2
<1>10. PICK h : h = Histogram(w, v)
       OBVIOUS
<1>11. \A i \in V : PartSums(f, k, S, V)[i] = h[i]
  <2> TAKE i \in V
  <2>1. PICK A : A = {x \in S : k[x] = i}
        OBVIOUS
  <2>2. A = {j \in DOMAIN v : InBin(w, v[j], i)}
        BY <1>1, <1>2, <1>6, <2>1
  <2>3. h[i] = Cardinality(A)
        BY <1>2, <1>10, <2>2 DEF Histogram
  <2>4. IsFiniteSet(A) /\ \A x \in A : f[x] = 1
    <3>1. A \in SUBSET S
          BY <2>1
    <3> QED BY <1>3, <1>4, <3>1, FS_Subset
  <2>5. 1 \in Int
        OBVIOUS
  <2>6. Cardinality(A) \in Nat /\ SumFunctionOnSet(f, A) = Cardinality(A) * 1
        BY <2>4, <2>5, SumOfSteady
  <2>7. PartSums(f, k, S, V)[i] = SumFunctionOnSet(f, A)
        BY <2>1 DEF PartSums
  <2> QED BY <2>3, <2>6, <2>7
<1>12. Agree(PartSums(f, k, S, V), h, V)
       BY <1>11 DEF Agree
<1>13. SumFunctionOnSet(h, V) = SumFunctionOnSet(PartSums(f, k, S, V), V)
       BY <1>3, <1>12, SumSame
<1> QED BY <1>1, <1>2, <1>8, <1>9, <1>10, <1>13

(* The index: a sum of terms none of which is negative, and which are 0    *)
(* where the shares agree.                                                 *)
LEMMA TallyIs ==
  ASSUME NEW w, NEW v \in WindowsOf, NEW i \in 1..Bins, NEW A,
         A = {j \in 1..Len(v) : InBin(w, v[j], i)}
  PROVE  /\ Histogram(w, v)[i] = Cardinality(A) /\ IsFiniteSet(A)
         /\ Histogram(w, v)[i] \in BinCounts /\ Histogram(w, v)[i] \in Nat
<1>1. PICK S, n :
        /\ n \in WindowSizes /\ n = Len(v) /\ n \in Nat /\ DOMAIN v = 1..n
        /\ S = 1..n /\ IsFiniteSet(S) /\ Cardinality(S) = n
      BY WindowIs
<1>2. Histogram(w, v)[i] = Cardinality(A)
      BY <1>1 DEF Histogram
<1>3. A \in SUBSET S
      BY <1>1
<1>4. IsFiniteSet(A) /\ Cardinality(A) =< Cardinality(S) /\ Cardinality(A) \in Nat
  <2>1. IsFiniteSet(A) /\ Cardinality(A) =< Cardinality(S)
        BY <1>1, <1>3, FS_Subset
  <2> QED BY <2>1, FS_CardinalityType
<1>5. Cardinality(A) \in 0..n
      BY <1>1, <1>4
<1>6. 0..n \subseteq BinCounts
      BY <1>1 DEF BinCounts
<1>7. Cardinality(A) \in BinCounts
      BY <1>5, <1>6
<1> QED BY <1>2, <1>4, <1>7

LEMMA ProductIsPositive ==
  ASSUME NEW a \in Int, NEW b \in Int, a > 0, b > 0
  PROVE  a * b \in Int /\ a * b > 0
<1>1. 1 \in Int /\ 1 =< a /\ b \in Nat
      OBVIOUS
<1>2. a * b \in Int /\ 1 * b =< a * b
      BY <1>1, ProductGrows
<1> QED BY <1>2

LEMMA TermIs ==
  ASSUME NEW p \in Int, NEW q \in Int, NEW x \in Int, NEW y \in Int,
         p < q => x < y, q < p => y < x, p = q => x = y,
         NEW t, t = (p - q) * (x - y)
  PROVE  t \in Nat /\ (t = 0 <=> p = q)
<1>1. CASE p = q
  <2>1. x - y = 0 /\ p - q = 0
        BY <1>1
  <2> QED BY <1>1, <2>1
<1>2. CASE p > q
  <2>1. PICK a \in Int, b \in Int : a = p - q /\ b = x - y /\ a > 0 /\ b > 0
        BY <1>2
  <2>2. a * b \in Int /\ a * b > 0
        BY <2>1, ProductIsPositive
  <2> QED BY <1>2, <2>1, <2>2
<1>3. CASE q > p
  <2>1. PICK a \in Int, b \in Int : a = q - p /\ b = y - x /\ a > 0 /\ b > 0
        BY <1>3
  <2>2. a * b \in Int /\ a * b > 0
        BY <2>1, ProductIsPositive
  <2>3. t = (-a) * (-b)
        BY <2>1
  <2>4. (-a) * (-b) = a * b
        BY ONLY <2>1, Z3
  <2> QED BY <1>3, <2>2, <2>3, <2>4
<1> QED BY <1>1, <1>2, <1>3

LEMMA NothingAddsToNothing ==
  ASSUME NEW S, IsFiniteSet(S), NEW f, \A x \in S : f[x] \in Nat
  PROVE  /\ SumFunctionOnSet(f, S) \in Nat
         /\ SumFunctionOnSet(f, S) = 0 <=> \A x \in S : f[x] = 0
<1>1. SumFunctionOnSet(f, S) \in Nat
      BY SumOfNat
<1>2. ASSUME \A x \in S : f[x] = 0 PROVE SumFunctionOnSet(f, S) = 0
  <2>1. 0 \in Int
        OBVIOUS
  <2>2. Cardinality(S) \in Nat /\ SumFunctionOnSet(f, S) = Cardinality(S) * 0
        BY <1>2, <2>1, SumOfSteady
  <2> QED BY <2>2
<1>3. ASSUME NEW x \in S, f[x] # 0 PROVE SumFunctionOnSet(f, S) # 0
  <2>1. IntOn(f, S)
        BY DEF IntOn
  <2>2. SumFunctionOnSet(f, S) = f[x] + SumFunctionOnSet(f, S \ {x})
        BY <2>1, SumRemove
  <2>3. SumFunctionOnSet(f, S \ {x}) \in Nat
    <3>1. IsFiniteSet(S \ {x}) /\ \A y \in S \ {x} : f[y] \in Nat
          BY FS_Subset
    <3> QED BY <3>1, SumOfNat
  <2> QED BY <1>3, <2>2, <2>3
<1> QED BY <1>1, <1>2, <1>3

(* A bin's weight against a window of n observations.                      *)
LEMMA WeightIs ==
  ASSUME NEW c \in BinCounts, NEW n \in WindowSizes
  PROVE  /\ (2 * c + 1) * Shares(n) \in Products /\ (2 * c + 1) * Shares(n) \in Int
         /\ Shares(n) \in Nat /\ Shares(n) > 0
<1>1. c \in Nat /\ n \in Nat
      BY DriftOK DEF BinCounts
<1>2. Shares(n) \in Nat /\ Shares(n) > 0
      BY <1>1, DriftOK DEF Shares
<1>3. (2 * c + 1) * Shares(n) \in Int
      BY <1>1, <1>2
<1> QED BY <1>2, <1>3 DEF Products

LEMMA IndexIs ==
  ASSUME NEW w \in References, NEW v \in WindowsOf
  PROVE  /\ Psi(w, v) \in Nat
         /\ Psi(w, v) = 0 <=> SameShares(w, v)
<1>1. PICK r, c : r = Histogram(w, w) /\ c = Histogram(w, v)
      OBVIOUS
<1>2. PICK V : V = 1..Bins /\ IsFiniteSet(V)
  <2>1. 1 \in Int /\ Bins \in Int
        BY DriftOK
  <2>2. IsFiniteSet(1..Bins)
        BY ONLY <2>1, FS_Interval
  <2> QED BY <2>2
<1>3. w \in WindowsOf
      BY DriftOK
<1>4. \A i \in V : r[i] \in BinCounts /\ c[i] \in BinCounts
      BY <1>1, <1>2, <1>3, TallyIs
<1>5. PICK m, n : m = Len(w) /\ n = Len(v)
      OBVIOUS
<1>6. m \in WindowSizes /\ n \in WindowSizes
      BY <1>3, <1>5, WindowIs
<1>7. PICK p, q : /\ p = [i \in V |-> (2 * c[i] + 1) * Shares(m)]
                  /\ q = [i \in V |-> (2 * r[i] + 1) * Shares(n)]
      OBVIOUS
<1>8. PICK term : term = [i \in V |-> (p[i] - q[i]) * (Ln[p[i]] - Ln[q[i]])]
      OBVIOUS
<1>9. Psi(w, v) = SumFunctionOnSet(term, V)
  <2>1. PICK f : f = [i \in V |->
                       ((2 * c[i] + 1) * Shares(m) - (2 * r[i] + 1) * Shares(n))
                         * (Ln[(2 * c[i] + 1) * Shares(m)] - Ln[(2 * r[i] + 1) * Shares(n)])]
        OBVIOUS
  <2>2. term = f
        BY <1>7, <1>8, <2>1
  <2>3. Psi(w, v) = SumFunctionOnSet(f, V)
        BY <1>1, <1>2, <1>5, <2>1 DEF Psi
  <2> QED BY <2>2, <2>3
<1>10. \A i \in V : term[i] \in Nat /\ (term[i] = 0 <=> p[i] = q[i])
  <2> TAKE i \in V
  <2>1. p[i] \in Products /\ q[i] \in Products /\ p[i] \in Int /\ q[i] \in Int
        BY <1>4, <1>6, <1>7, WeightIs
  <2>2. PICK x \in Int, y \in Int : x = Ln[p[i]] /\ y = Ln[q[i]]
        BY <2>1, DriftOK
  <2>3. /\ p[i] < q[i] => x < y
        /\ q[i] < p[i] => y < x
        /\ p[i] = q[i] => x = y
        BY <2>1, <2>2, DriftOK
  <2>4. PICK a \in Int, b \in Int : a = p[i] /\ b = q[i]
        BY <2>1
  <2>5. term[i] = (a - b) * (x - y)
        BY <1>8, <2>2, <2>4
  <2> QED BY <2>3, <2>4, <2>5, TermIs
<1>11. Psi(w, v) \in Nat /\ (Psi(w, v) = 0 <=> \A i \in V : p[i] = q[i])
  <2>1. /\ SumFunctionOnSet(term, V) \in Nat
        /\ SumFunctionOnSet(term, V) = 0 <=> \A i \in V : term[i] = 0
        BY <1>2, <1>10, NothingAddsToNothing
  <2> QED BY <1>9, <1>10, <2>1
<1>12. (\A i \in V : p[i] = q[i]) <=> SameShares(w, v)
       BY <1>1, <1>2, <1>5, <1>7 DEF SameShares
<1> QED BY <1>11, <1>12

LEMMA LeftTheRange ==
  ASSUME NEW w \in References, NEW v \in WindowsOf, Len(v) >= Len(w),
         \A j \in DOMAIN v : v[j] > Max(Range(w))
  PROVE  ~SameShares(w, v)
<1>1. PICK lo, hi : lo = Min(Range(w)) /\ hi = Max(Range(w))
      OBVIOUS
<1>2. lo \in Int /\ hi \in Int /\ lo < hi /\ Bins \in Nat /\ Bins >= 2
      BY <1>1, EdgesAre, DriftOK
<1>3. w \in WindowsOf
      BY DriftOK
<1>4. PICK m \in WindowSizes, n \in WindowSizes :
        /\ m = Len(w) /\ n = Len(v) /\ m \in Nat /\ n \in Nat /\ n >= m
        /\ v \in [1..n -> Int] /\ w \in [1..m -> Int]
        /\ DOMAIN v = 1..n /\ DOMAIN w = 1..m
      BY <1>3, WindowIs
<1>5. ASSUME NEW j \in 1..n PROVE ~InBin(w, v[j], 1)
  <2>1. PICK y \in Int, r \in Int : y = (v[j] - lo) * Bins /\ r = hi - lo /\ r < y
    <3>1. PICK a \in Nat, b \in Int, e \in Int : a = v[j] - lo /\ b = Bins /\ e = hi - lo /\ e < a
          BY <1>1, <1>2, <1>4
    <3>2. 1 \in Int /\ 1 =< b
          BY <1>2, <3>1
    <3>3. b * a \in Int /\ 1 * a =< b * a
          BY <3>1, <3>2, ProductGrows
    <3>4. a * b = b * a
          BY ONLY a \in Nat, b \in Int, Z3
    <3> QED BY <3>1, <3>3, <3>4
  <2>2. InBin(w, v[j], 1) <=> (1 = 1 \/ (1 - 1) * r =< y) /\ (1 = Bins \/ y < 1 * r)
        BY <1>1, <2>1, BinIs
  <2> QED BY <1>2, <2>1, <2>2
<1>6. PICK k \in 1..m : w[k] = lo
  <2>1. lo \in Range(w)
        BY <1>1, EdgesAre
  <2> QED BY <1>4, <2>1 DEF Range
<1>7. InBin(w, w[k], 1)
  <2>1. PICK y, r : y = (w[k] - lo) * Bins /\ r = hi - lo
        OBVIOUS
  <2>2. y = 0 /\ r \in Int /\ r > 0
        BY <1>2, <1>6, <2>1
  <2>3. InBin(w, w[k], 1) <=> (1 = 1 \/ (1 - 1) * r =< y) /\ (1 = Bins \/ y < 1 * r)
        BY <1>1, <2>1, BinIs
  <2> QED BY <2>2, <2>3
<1>8. PICK i \in 1..Bins : i = 1
      BY <1>2
<1>9. PICK A, B : A = {j \in 1..n : InBin(w, v[j], i)} /\ B = {j \in 1..m : InBin(w, w[j], i)}
      OBVIOUS
<1>10. Histogram(w, v)[i] = Cardinality(A)
       BY <1>4, <1>9, TallyIs
<1>11. Histogram(w, w)[i] = Cardinality(B) /\ IsFiniteSet(B) /\ Histogram(w, w)[i] \in Nat
  <2>1. PICK x \in WindowsOf : x = w
        BY <1>3
  <2>2. B = {j \in 1..Len(x) : InBin(w, x[j], i)}
        BY <1>4, <1>9, <2>1
  <2>3. Histogram(w, x)[i] = Cardinality(B) /\ IsFiniteSet(B) /\ Histogram(w, x)[i] \in Nat
        BY <2>2, TallyIs
  <2> QED BY <2>1, <2>3
<1>12. A = {} /\ k \in B
       BY <1>5, <1>6, <1>7, <1>8, <1>9
<1>13. Cardinality(A) = 0
       BY <1>12, FS_EmptySet
<1>14. Cardinality(B) # 0
       BY <1>11, <1>12, FS_EmptySet
<1>15. PICK c \in Nat : c = Histogram(w, w)[i] /\ c >= 1 /\ Histogram(w, v)[i] = 0
       BY <1>10, <1>11, <1>13, <1>14
<1>16. PICK s, t \in Nat : s = Shares(m) /\ t = Shares(n) /\ s > 0 /\ t >= s
       BY <1>2, <1>4 DEF Shares
<1>17. (2 * c + 1) * t > s
  <2>1. 2 * c + 1 \in Int /\ 3 =< 2 * c + 1 /\ 3 \in Int
        BY <1>15
  <2>2. (2 * c + 1) * t \in Int /\ 3 * t =< (2 * c + 1) * t
        BY <2>1, ProductGrows
  <2> QED BY <1>16, <2>2
<1>18. (2 * 0 + 1) * s # (2 * c + 1) * t
       BY <1>15, <1>16, <1>17
<1> QED BY <1>4, <1>15, <1>16, <1>18 DEF SameShares

LEMMA DistancesAre ==
  ASSUME NEW w \in References, NEW v \in WindowsOf, NEW d, d = Distance(w, v)
  PROVE  DOMAIN d = 1..Len(v) /\ DOMAIN v = 1..Len(v)
         /\ \A j \in 1..Len(v) : d[j] \in Int
<1>1. PICK n : n = Len(v) /\ v \in [1..n -> Int] /\ DOMAIN v = 1..n
      BY WindowIs
<1>2. PICK S : S = Range(w) /\ IsFiniteSet(S) /\ S # {} /\ S \subseteq Int
      BY EdgesAre
<1>3. ASSUME NEW j \in 1..n PROVE d[j] \in Int
  <2>1. PICK x \in Int : x = v[j]
        BY <1>1
  <2>2. PICK f : f = [u \in S |-> IF x > u THEN x - u ELSE u - x]
        OBVIOUS
  <2>3. \A u \in S : f[u] \in Int
        BY <1>2, <2>2
  <2> DEFINE Q == {f[u] : u \in S}
  <2>4. Min(Q) \in Int
        BY <1>2, <2>3, ExtremesOf
  <2>5. Q = {IF x > u THEN x - u ELSE u - x : u \in S}
        BY <2>2
  <2>6. d[j] = Min({IF x > u THEN x - u ELSE u - x : u \in S})
        BY <1>1, <1>2, <2>1 DEF Distance
  <2> HIDE DEF Q
  <2> QED BY <2>4, <2>5, <2>6
<1>4. DOMAIN d = 1..n
      BY <1>1 DEF Distance
<1> QED BY <1>1, <1>3, <1>4

LEMMA FarthestFirst ==
  ASSUME NEW w \in References, NEW v \in WindowsOf,
         NEW d, d = Distance(w, v), NEW top, top = TopDrifting(w, v, 2)
  PROVE  /\ top[1] \in 1..Len(v)
         /\ \A j \in 1..Len(v) : d[j] =< d[top[1]]
         /\ \A j \in 1..Len(v) \ Range(top) : d[j] =< d[top[2]]
<1>1. PICK J, n : n \in Nat /\ J = 1..n /\ n = Len(v) /\ n >= 2
      BY WindowIs
<1>2. DOMAIN d = J /\ DOMAIN v = J /\ \A j \in J : d[j] \in Int
      BY <1>1, DistancesAre
<1>3. PICK less : less = {p \in J \X J : d[p[1]] > d[p[2]]}
      OBVIOUS
<1>4. \A i, j \in J : <<i, j>> \in less <=> d[i] > d[j]
      BY <1>3
<1>5. J \subseteq Int /\ IsFiniteSet(J) /\ n = Cardinality(J) /\ WeakOrder(J, less)
  <2>1. 1 \in Int /\ n \in Int
        BY <1>1
  <2>2. IsFiniteSet(1..n) /\ Cardinality(1..n) = IF 1 > n THEN 0 ELSE n - 1 + 1
        BY ONLY <2>1, FS_Interval
  <2>3. WeakOrder(J, less)
        BY <1>2, <1>4 DEF WeakOrder
  <2> QED BY <1>1, <2>2, <2>3
<1>6. PICK order : order = Ordered(J, less)
      OBVIOUS
<1>7. Sorted(J, less, n, order)
      BY ONLY <1>5, <1>6, OrderedIs
<1>8. /\ \A k \in 1..n : order[k] \in J
      /\ \A i \in J : \E k \in 1..n : order[k] = i
      /\ \A k, l \in 1..n : k < l => <<order[l], order[k]>> \notin less
      BY <1>7 DEF Sorted
<1>9. top = [i \in 1..2 |-> order[i]]
  <2>1. Min({2, n}) = 2
    <3>1. \E x \in {2, n} : \A y \in {2, n} : x =< y
          BY <1>1
    <3>2. Min({2, n}) \in {2, n} /\ Min({2, n}) =< 2 /\ Min({2, n}) =< n
          BY <3>1 DEF Min
    <3> QED BY <1>1, <3>2
  <2>2. TopDrifting(w, v, 2) = [i \in 1..Min({2, n}) |-> order[i]]
        BY <1>2, <1>3, <1>5, <1>6 DEF TopDrifting
  <2> QED BY <2>1, <2>2
<1>10. /\ 1 \in 1..n /\ 2 \in 1..n /\ top[1] = order[1] /\ top[2] = order[2]
       /\ order[1] \in Range(top) /\ order[2] \in Range(top)
  <2>1. 1 \in 1..n /\ 2 \in 1..n /\ top[1] = order[1] /\ top[2] = order[2]
        BY <1>1, <1>9
  <2>2. 1 \in DOMAIN top /\ 2 \in DOMAIN top
        BY <1>9
  <2> QED BY <2>1, <2>2 DEF Range
<1>11. ASSUME NEW k \in 1..n, NEW l \in 1..n, k =< l PROVE d[order[l]] =< d[order[k]]
  <2>1. CASE k = l
        BY <1>2, <1>8, <2>1
  <2>2. CASE k # l
    <3>1. k < l
          BY <1>11, <2>2
    <3>2. ~(d[order[l]] > d[order[k]])
          BY <1>4, <1>8, <3>1
    <3>3. d[order[l]] \in Int /\ d[order[k]] \in Int
          BY <1>2, <1>8
    <3> QED BY <3>2, <3>3
  <2> QED BY <2>1, <2>2
<1>12. ASSUME NEW j \in J PROVE d[j] =< d[top[1]]
  <2>1. PICK k \in 1..n : order[k] = j
        BY <1>8
  <2>2. 1 =< k
        OBVIOUS
  <2> QED BY <1>10, <1>11, <2>1, <2>2
<1>13. ASSUME NEW j \in J \ Range(top) PROVE d[j] =< d[top[2]]
  <2>1. PICK k \in 1..n : order[k] = j
        BY <1>8
  <2>2. k # 1 /\ k # 2
        BY <1>10, <1>13, <2>1
  <2>3. 2 =< k
        BY <2>2
  <2> QED BY <1>10, <1>11, <2>1, <2>3
<1> QED BY <1>1, <1>8, <1>10, <1>12, <1>13

(* A number rounded to the nearest integer is within a half of it, and     *)
(* rounding keeps the order of two quotients.                              *)
LEMMA NearestIs ==
  ASSUME NEW x \in Int, NEW y \in Nat, y > 0, NEW q, q = Nearest(x, y)
  PROVE  /\ q \in Int /\ q * y \in Int
         /\ 2 * (q * y - x) =< y /\ 2 * (x - q * y) < y
         /\ x >= 0 => q >= 0
<1>1. PICK z \in Int, m \in Nat : z = 2 * x + y /\ m = 2 * y /\ m > 0
      OBVIOUS
<1>2. q = z \div m
      BY <1>1 DEF Nearest
<1>3. q \in Int /\ z \div m \in Int
      BY <1>1, <1>2
<1>4. m * (z \div m) =< z /\ z < m * (z \div m) + m
      BY ONLY <1>1, Z3
<1>5. m * q =< z /\ z < m * q + m
      BY <1>2, <1>4
<1>6. PICK p \in Int : p = q * y
      BY <1>3
<1>7. m * q = 2 * p
      BY <1>1, <1>3, <1>6
<1>8. 2 * p =< 2 * x + y /\ 2 * x + y < 2 * p + 2 * y
      BY <1>1, <1>5, <1>7
<1>9. 2 * (p - x) =< y /\ 2 * (x - p) < y
      BY <1>6, <1>8
<1>10. ASSUME x >= 0 PROVE q >= 0
  <2> SUFFICES ASSUME q < 0 PROVE FALSE
      BY <1>3
  <2>1. q =< -1 /\ -1 \in Int
        BY <1>3
  <2>2. q * y =< (-1) * y
        BY <1>3, <2>1, ProductGrows
  <2>3. (-1) * y = -y
        OBVIOUS
  <2> QED BY <1>6, <1>8, <1>10, <2>2, <2>3
<1> QED BY <1>3, <1>6, <1>9, <1>10

LEMMA NearestKeepsOrder ==
  ASSUME NEW x \in Int, NEW y \in Nat, y > 0, NEW z \in Int, NEW m \in Nat, m > 0,
         x * m =< z * y
  PROVE  Nearest(x, y) =< Nearest(z, m)
<1>1. PICK q, r : q = Nearest(x, y) /\ r = Nearest(z, m)
      OBVIOUS
<1>2. /\ q \in Int /\ q * y \in Int /\ 2 * (q * y - x) =< y
      /\ r \in Int /\ r * m \in Int /\ 2 * (z - r * m) < m
      BY <1>1, NearestIs
<1>3. SUFFICES ASSUME r < q PROVE FALSE
      BY <1>1, <1>2
<1>4. PICK k \in Int : k = 2 * r + 1
      BY <1>2
<1>5. k * y =< 2 * x /\ k * y \in Int
  <2>1. (r + 1) * y =< q * y /\ r + 1 \in Int
        BY <1>2, <1>3, ProductGrows
  <2>2. (r + 1) * y = r * y + y /\ k * y = 2 * (r * y) + y /\ r * y \in Int /\ k * y \in Int
        BY <1>2, <1>4
  <2> QED BY <1>2, <2>1, <2>2
<1>6. 2 * z + 1 =< k * m /\ k * m \in Int
  <2>1. k * m = 2 * (r * m) + m /\ k * m \in Int
        BY <1>2, <1>4
  <2> QED BY <1>2, <2>1
<1>7. (k * y) * m =< (2 * x) * m
      BY <1>5, ProductGrows
<1>8. (2 * z + 1) * y =< (k * m) * y
      BY <1>6, ProductGrows
<1>9. (k * y) * m = (k * m) * y
      BY ONLY k \in Int, y \in Nat, m \in Nat, Z3
<1>10. (2 * x) * m = 2 * (x * m) /\ x * m \in Int
       OBVIOUS
<1>11. (2 * z + 1) * y = 2 * (z * y) + y /\ z * y \in Int
       OBVIOUS
<1>12. (k * y) * m \in Int
       BY <1>5
<1> QED BY <1>7, <1>8, <1>9, <1>10, <1>11, <1>12

LEMMA ScoreAtMost ==
  ASSUME NEW w \in References, NEW v \in WindowsOf, NEW d, d = Distance(w, v),
         NEW u \in Int, \A j \in 1..Len(v) : d[j] =< u
  PROVE  /\ EmbeddingDrift(w, v) \in Int /\ Nearest(Unit * u, 10) \in Int
         /\ EmbeddingDrift(w, v) =< Nearest(Unit * u, 10)
<1>1. PICK S, n : /\ n \in Nat /\ S = 1..n /\ n = Len(v) /\ n > 0
                  /\ IsFiniteSet(S) /\ Cardinality(S) = n
      BY WindowIs
<1>2. DOMAIN v = S /\ \A j \in S : d[j] \in Int /\ d[j] =< u
      BY <1>1, DistancesAre
<1>3. PICK total \in Int : total = SumFunctionOnSet(d, S)
  <2>1. IntOn(d, S)
        BY <1>2 DEF IntOn
  <2> QED BY <1>1, <2>1, SumInt
<1>4. total =< n * u
      BY <1>1, <1>2, <1>3, SumAtMost
<1>5. PICK unit \in Nat : unit = Unit
      BY DriftOK
<1>6. PICK x, z \in Int : x = Unit * total /\ z = Unit * u
      BY <1>5
<1>7. PICK m \in Nat : m = 10 * n /\ m > 0
      BY <1>1
<1>8. x * 10 =< z * m
  <2>1. PICK k \in Nat, p \in Int : k = n /\ p = n * u
        BY <1>1
  <2>2. total * unit =< p * unit /\ total * unit \in Int /\ p * unit \in Int
        BY <1>3, <1>4, <1>5, <2>1, ProductGrows
  <2>3. PICK g, h \in Int : g = total * unit /\ h = p * unit /\ g =< h
        BY <2>2
  <2>4. x = g
        BY <1>3, <1>5, <1>6, <2>3
  <2>5. (unit * u) * (10 * k) = 10 * ((k * u) * unit)
        BY ONLY unit \in Nat, u \in Int, k \in Nat, Z3
  <2>6. z * m = 10 * h
        BY <1>5, <1>6, <1>7, <2>1, <2>3, <2>5
  <2>7. x * 10 =< 10 * h
        BY <2>3, <2>4
  <2> QED BY <2>6, <2>7
<1>9. EmbeddingDrift(w, v) = Nearest(x, m)
      BY <1>1, <1>2, <1>3, <1>6, <1>7 DEF EmbeddingDrift
<1>10. 10 \in Nat /\ 10 > 0
       OBVIOUS
<1>11. Nearest(x, m) =< Nearest(z, 10)
       BY <1>6, <1>7, <1>8, <1>10, NearestKeepsOrder
<1>12. Nearest(x, m) \in Int /\ Nearest(z, 10) \in Int
       BY <1>6, <1>7, <1>10, NearestIs
<1> QED BY <1>6, <1>9, <1>11, <1>12

(* The index as it is reported.                                            *)
LEMMA ScoreIs ==
  ASSUME NEW w \in References, NEW v \in WindowsOf, NEW units, units = PsiUnits(w, v),
         NEW s, s = PsiScore(w, v)
  PROVE  LET gap == s * units - Unit * Psi(w, v)
         IN  s >= 0 /\ 2 * gap <= units /\ -(2 * gap) <= units
<1>1. PICK a, b \in Nat : a = Shares(Len(w)) /\ b = Shares(Len(v)) /\ a > 0 /\ b > 0
  <2>1. w \in WindowsOf
        BY DriftOK
  <2>2. ASSUME NEW n \in WindowSizes PROVE Shares(n) \in Nat /\ Shares(n) > 0
    <3>1. n \in Nat /\ Bins \in Nat /\ Bins >= 2
          BY DriftOK
    <3> QED BY <3>1 DEF Shares
  <2> QED BY <2>1, <2>2, WindowIs
<1>2. PICK l \in Nat : l = LnScale /\ l > 0
      BY DriftOK
<1>3. PICK m \in Nat : m = l * (a * b) /\ m > 0
  <2>1. a * b \in Int /\ a * b > 0
        BY <1>1, ProductIsPositive
  <2>2. l * (a * b) \in Int /\ l * (a * b) > 0
        BY <1>2, <2>1, ProductIsPositive
  <2> QED BY <2>2
<1>4. units = m
      BY <1>1, <1>2, <1>3 DEF PsiUnits
<1>5. PICK x \in Nat : x = Unit * Psi(w, v)
  <2>1. Unit \in Nat /\ Psi(w, v) \in Nat
        BY IndexIs, DriftOK
  <2>2. PICK c, e \in Nat : c = Unit /\ e = Psi(w, v)
        BY <2>1
  <2>3. c * e \in Nat
        BY <2>2
  <2> QED BY <2>2, <2>3
<1>6. s = Nearest(x, m)
      BY <1>4, <1>5 DEF PsiScore
<1>7. /\ s \in Int /\ s * m \in Int /\ s >= 0
      /\ 2 * (s * m - x) =< m /\ 2 * (x - s * m) < m
      BY <1>3, <1>5, <1>6, NearestIs
<1>8. PICK p \in Int : p = s * m
      BY <1>7
<1>9. 2 * (p - x) =< m /\ -(2 * (p - x)) =< m
      BY <1>3, <1>5, <1>7, <1>8
<1> QED BY <1>4, <1>5, <1>7, <1>8, <1>9

MeasuredInv ==
  /\ reference \in References
  /\ \E S : days \in Seq(S)
  /\ \A i \in DOMAIN days : /\ days[i].values \in WindowsOf
                            /\ days[i].embedding = EmbeddingDrift(reference, days[i].values)
                            /\ days[i].psi = PsiScore(reference, days[i].values)

LEMMA MeasuredStep ==
  ASSUME MeasuredInv, NEW values \in WindowsOf, NEW low_p \in BOOLEAN, NEW regression \in BOOLEAN,
         NEW seasonal \in BOOLEAN, NEW confirmed \in BOOLEAN,
         Day(values, low_p, regression, seasonal, confirmed)
  PROVE  MeasuredInv'
<1> DEFINE yesterday == IF days = << >> THEN 0 ELSE days[Len(days)].embedding
           x == PsiScore(reference, values)
           e == EmbeddingDrift(reference, values)
           m == [values |-> values, psi |-> x, embedding |-> e, previous |-> yesterday,
                 low_p |-> low_p, regression |-> regression, seasonal |-> seasonal,
                 confirmed |-> confirmed, tier |-> 1]
           d == [m EXCEPT !.tier = Tier(m)]
<1>1. days' = Append(days, d) /\ reference' = reference
      BY DEF Day
<1>2. PICK S : days \in Seq(S)
      BY DEF MeasuredInv
<1>3. d.values = values /\ d.embedding = e /\ d.psi = x
  <2> HIDE DEF x, e, yesterday
  <2> QED OBVIOUS
<1>4. e = EmbeddingDrift(reference, values) /\ x = PsiScore(reference, values)
      OBVIOUS
<1> HIDE DEF d, e, x
<1>5. days' \in Seq(S \cup {d})
  <2>1. days \in Seq(S \cup {d})
        BY <1>2
  <2> QED BY <1>1, <2>1
<1>6. /\ Len(days) \in Nat /\ DOMAIN days = 1..Len(days)
      /\ DOMAIN days' = 1..(Len(days) + 1) /\ days'[Len(days) + 1] = d
      /\ \A i \in 1..Len(days) : days'[i] = days[i]
      BY <1>1, <1>2
<1>7. ASSUME NEW i \in DOMAIN days'
      PROVE  /\ days'[i].values \in WindowsOf
             /\ days'[i].embedding = EmbeddingDrift(reference, days'[i].values)
             /\ days'[i].psi = PsiScore(reference, days'[i].values)
  <2>1. CASE i \in 1..Len(days)
        BY <1>6, <2>1 DEF MeasuredInv
  <2>2. CASE i = Len(days) + 1
        BY <1>3, <1>4, <1>6, <2>2
  <2> QED BY <1>6, <2>1, <2>2
<1>8. reference' \in References
      BY <1>1 DEF MeasuredInv
<1> QED BY <1>1, <1>5, <1>7, <1>8 DEF MeasuredInv

(* src/aiobs/drift.py: whatever the reference and the window, each of any  *)
(* of the sizes, every observation is counted in one bin,                  *)
(* top_drifting_items reports those that moved farthest, the first of them *)
(* at least as far as the score; the index is never negative, is 0 exactly *)
(* where the smoothed shares agree, and is reported to within half of its  *)
(* last digit.                                                             *)
THEOREM DriftIsMeasured == DriftSpec => []DriftMeasured
<1>1. DriftInit => MeasuredInv
  <2>1. << >> \in Seq({})
        OBVIOUS
  <2> QED BY <2>1 DEF DriftInit, MeasuredInv
<1>2. MeasuredInv /\ [DriftNext]_driftVars => MeasuredInv'
  <2>1. ASSUME MeasuredInv, DriftNext PROVE MeasuredInv'
        BY <2>1, MeasuredStep DEF DriftNext
  <2>2. CASE UNCHANGED driftVars /\ MeasuredInv
        BY <2>2 DEF driftVars, MeasuredInv
  <2> QED BY <2>1, <2>2
<1>3. ASSUME MeasuredInv, days # << >>
      PROVE  \E w \in References, v \in WindowsOf :
               /\ w = reference /\ v = Newest.values
               /\ Newest.embedding = EmbeddingDrift(w, v) /\ Newest.psi = PsiScore(w, v)
  <2>1. Len(days) \in DOMAIN days
    <3>1. PICK S : days \in Seq(S)
          BY <1>3 DEF MeasuredInv
    <3> QED BY <1>3, <3>1
  <2> QED BY <1>3, <2>1 DEF MeasuredInv, Newest
<1>4. ASSUME MeasuredInv, days # << >>
      PROVE  LET v == Newest.values
                 d == Distance(reference, v)
                 top == TopDrifting(reference, v, 2)
             IN  /\ SumFunctionOnSet(Histogram(reference, v), 1..Bins) = Len(v)
                 /\ \A j \in DOMAIN v \ Range(top) : d[j] <= d[top[2]]
                 /\ Nearest(Unit * d[top[1]], 10) >= Newest.embedding
  <2>1. PICK w \in References, v \in WindowsOf :
          w = reference /\ v = Newest.values /\ Newest.embedding = EmbeddingDrift(w, v)
        BY <1>3, <1>4
  <2>2. PICK d, top : d = Distance(w, v) /\ top = TopDrifting(w, v, 2)
        OBVIOUS
  <2>3. DOMAIN v = 1..Len(v) /\ \A j \in 1..Len(v) : d[j] \in Int
        BY <2>2, DistancesAre
  <2>4. /\ top[1] \in 1..Len(v)
        /\ \A j \in 1..Len(v) : d[j] =< d[top[1]]
        /\ \A j \in 1..Len(v) \ Range(top) : d[j] =< d[top[2]]
        BY <2>2, FarthestFirst
  <2>5. PICK u \in Int : u = d[top[1]]
        BY <2>3, <2>4
  <2>6. PICK e, f \in Int : e = EmbeddingDrift(w, v) /\ f = Nearest(Unit * u, 10) /\ e =< f
        BY <2>2, <2>4, <2>5, ScoreAtMost
  <2>7. Nearest(Unit * d[top[1]], 10) >= Newest.embedding
        BY <2>1, <2>5, <2>6
  <2>8. SumFunctionOnSet(Histogram(w, v), 1..Bins) = Len(v)
        BY EverythingCounted
  <2> QED BY <2>1, <2>2, <2>3, <2>4, <2>7, <2>8
<1>5. ASSUME MeasuredInv, days # << >>
      PROVE  LET v == Newest.values
                 exact == Psi(reference, v)
                 units == PsiUnits(reference, v)
                 gap == Newest.psi * units - Unit * exact
             IN  /\ exact >= 0 /\ Newest.psi >= 0
                 /\ exact = 0 <=> SameShares(reference, v)
                 /\ /\ Len(v) >= Len(reference)
                    /\ \A j \in DOMAIN v : v[j] > Max(Range(reference))
                    => exact > 0
                 /\ 2 * gap <= units /\ -(2 * gap) <= units
  <2>1. PICK w \in References, v \in WindowsOf :
          w = reference /\ v = Newest.values /\ Newest.psi = PsiScore(w, v)
        BY <1>3, <1>5
  <2>2. PICK x \in Nat : x = Psi(w, v) /\ (x = 0 <=> SameShares(w, v))
        BY IndexIs
  <2>3. Len(v) >= Len(w) /\ (\A j \in DOMAIN v : v[j] > Max(Range(w))) => x > 0
        BY <2>2, LeftTheRange
  <2>4. LET gap == Newest.psi * PsiUnits(w, v) - Unit * Psi(w, v)
        IN  Newest.psi >= 0 /\ 2 * gap <= PsiUnits(w, v) /\ -(2 * gap) <= PsiUnits(w, v)
        BY <2>1, ScoreIs
  <2>5. x >= 0
        OBVIOUS
  <2> QED BY <2>1, <2>2, <2>3, <2>4, <2>5
<1>6. MeasuredInv => DriftIsCounted
      BY <1>4 DEF DriftIsCounted
<1>7. MeasuredInv => IndexMeasures
      BY <1>5 DEF IndexMeasures
<1> QED BY <1>1, <1>2, <1>6, <1>7, PTL DEF DriftSpec, DriftMeasured

-----------------------------------------------------------------------------
(* Alert tiers.                                                            *)
IsDay(m) ==
  /\ m = [values |-> m.values, psi |-> m.psi, embedding |-> m.embedding,
          previous |-> m.previous, low_p |-> m.low_p, regression |-> m.regression,
          seasonal |-> m.seasonal, confirmed |-> m.confirmed, tier |-> m.tier]
  /\ m.low_p \in BOOLEAN /\ m.regression \in BOOLEAN /\ m.confirmed \in BOOLEAN
  /\ m.tier = Tier(m)

DaysInv ==
  /\ \E S : days \in Seq(S)
  /\ \A i \in DOMAIN days :
       /\ IsDay(days[i])
       /\ days[i].previous = IF i = 1 THEN 0 ELSE days[i - 1].embedding

LEMMA DayInv ==
  ASSUME DaysInv, NEW values, NEW low_p \in BOOLEAN, NEW regression \in BOOLEAN,
         NEW seasonal \in BOOLEAN, NEW confirmed \in BOOLEAN,
         Day(values, low_p, regression, seasonal, confirmed)
  PROVE  DaysInv'
<1> DEFINE yesterday == IF days = << >> THEN 0 ELSE days[Len(days)].embedding
           x == PsiScore(reference, values)
           e == EmbeddingDrift(reference, values)
           m == [values |-> values, psi |-> x, embedding |-> e, previous |-> yesterday,
                 low_p |-> low_p, regression |-> regression, seasonal |-> seasonal,
                 confirmed |-> confirmed, tier |-> 1]
           d == [m EXCEPT !.tier = Tier(m)]
<1>1. days' = Append(days, d)
      BY DEF Day
<1>2. PICK S : days \in Seq(S)
      BY DEF DaysInv
<1>3. IsDay(d) /\ d.previous = yesterday
  <2> HIDE DEF x, e, yesterday
  <2> QED BY DEF IsDay, Tier, Warning, Above
<1> HIDE DEF d
<1>4. days' \in Seq(S \cup {d})
  <2>1. days \in Seq(S \cup {d})
        BY <1>2
  <2> QED BY <1>1, <2>1
<1>5. /\ Len(days) \in Nat /\ DOMAIN days = 1..Len(days)
      /\ DOMAIN days' = 1..(Len(days) + 1) /\ days'[Len(days) + 1] = d
      /\ \A i \in 1..Len(days) : days'[i] = days[i]
      BY <1>1, <1>2
<1>6. ASSUME NEW i \in DOMAIN days'
      PROVE  /\ IsDay(days'[i])
             /\ days'[i].previous = IF i = 1 THEN 0 ELSE days'[i - 1].embedding
  <2>1. CASE i \in 1..Len(days)
    <3>1. i = 1 \/ i - 1 \in 1..Len(days)
          BY <1>5, <2>1
    <3> QED BY <1>5, <2>1, <3>1 DEF DaysInv
  <2>2. CASE i = Len(days) + 1
    <3>1. CASE days = << >>
      <4>1. Len(days) = 0 /\ yesterday = 0
            BY <3>1
      <4> QED BY <1>3, <1>5, <2>2, <4>1
    <3>2. CASE days # << >>
      <4>1. Len(days) \in 1..Len(days) /\ yesterday = days[Len(days)].embedding
            BY <1>2, <1>5, <3>2
      <4>2. i - 1 = Len(days) /\ i # 1
            BY <1>5, <2>2, <4>1
      <4> QED BY <1>3, <1>5, <2>2, <4>1, <4>2
    <3> QED BY <3>1, <3>2
  <2> QED BY <1>5, <2>1, <2>2
<1> QED BY <1>4, <1>6 DEF DaysInv, IsDay

(* More drift, a failed regression test or a low p-value never lower the   *)
(* tier of a day.                                                          *)
LEMMA TierGrows ==
  ASSUME NEW m, IsDay(m),
         NEW psi, psi = m.psi \/ psi = Unit, NEW emb, emb = m.embedding \/ emb = Unit,
         NEW reg \in BOOLEAN, m.regression => reg, NEW low \in BOOLEAN, m.low_p => low
  PROVE  Tier(Graver(m, psi, emb, reg, low)) >= m.tier
<1> DEFINE n == Graver(m, psi, emb, reg, low)
<1>1. /\ n.low_p = low /\ n.psi = psi /\ n.embedding = emb /\ n.regression = reg
      /\ n.confirmed = m.confirmed /\ n.seasonal = m.seasonal /\ n.previous = m.previous
      BY DEF Graver
<1> HIDE DEF n
<1>2. ASSUME NEW k \in 0..999
      PROVE  /\ Above(m.psi, k) => Above(psi, k)
             /\ Above(m.embedding, k) => Above(emb, k)
  <2>1. Above(Unit, k)
    <3>1. PICK unit \in Nat : unit = Unit /\ unit > 0
          BY DriftOK
    <3>2. k * unit =< 999 * unit /\ k * unit \in Int
          BY <3>1, ProductGrows
    <3> QED BY <3>1, <3>2 DEF Above
  <2> QED BY <2>1
<1>3. /\ Above(m.psi, 250) => Above(psi, 250)
      /\ Above(m.psi, 100) => Above(psi, 100)
      /\ Above(m.embedding, 150) => Above(emb, 150)
      /\ Above(m.embedding, 100) => Above(emb, 100)
      BY <1>2
<1>4. (m.regression => reg) /\ (m.low_p => low)
      OBVIOUS
<1>5. m.tier = Tier(m) /\ m.regression \in BOOLEAN /\ m.confirmed \in BOOLEAN
      BY DEF IsDay
<1>6. Warning(m) => Warning(n)
      BY <1>1, <1>3 DEF Warning
<1>7. CASE Warning(m)
  <2>1. Tier(n) = IF ~reg THEN 3 ELSE IF ~m.confirmed THEN 4 ELSE 5
        BY <1>1, <1>6, <1>7 DEF Tier
  <2>2. m.tier = IF ~m.regression THEN 3 ELSE IF ~m.confirmed THEN 4 ELSE 5
        BY <1>5, <1>7 DEF Tier
  <2>3. Tier(n) >= m.tier
        BY <1>4, <1>5, <2>1, <2>2
  <2> QED BY <2>3 DEF n
<1>8. CASE ~Warning(m)
  <2>1. m.tier = IF m.low_p \/ Above(m.psi, 100) \/ Above(m.embedding, 100) THEN 2 ELSE 1
        BY <1>5, <1>8 DEF Tier
  <2>2. Tier(n) \in 1..5 /\ (low \/ Above(psi, 100) \/ Above(emb, 100) => Tier(n) \in 2..5)
        BY <1>1 DEF Tier
  <2>3. (m.low_p \/ Above(m.psi, 100) \/ Above(m.embedding, 100)) => (low \/ Above(psi, 100) \/ Above(emb, 100))
        BY <1>3, <1>4
  <2>4. CASE m.low_p \/ Above(m.psi, 100) \/ Above(m.embedding, 100)
    <3>1. Tier(n) \in 2..5 /\ m.tier = 2
          BY <2>1, <2>2, <2>3, <2>4
    <3>2. Tier(n) >= m.tier
          BY <3>1
    <3> QED BY <3>2 DEF n
  <2>5. CASE ~(m.low_p \/ Above(m.psi, 100) \/ Above(m.embedding, 100))
    <3>1. Tier(n) \in 1..5 /\ m.tier = 1
          BY <2>1, <2>2, <2>5
    <3>2. Tier(n) >= m.tier
          BY <3>1
    <3> QED BY <3>2 DEF n
  <2> QED BY <2>4, <2>5
<1> QED BY <1>7, <1>8

LEMMA NeverLowered ==
  ASSUME NEW m, IsDay(m)
  PROVE  NeverCalledOff(m)
<1>1. SUFFICES ASSUME NEW psi \in {m.psi, Unit}, NEW emb \in {m.embedding, Unit},
                      NEW reg \in BOOLEAN, NEW low \in BOOLEAN,
                      m.regression => reg, m.low_p => low
               PROVE  Tier(Graver(m, psi, emb, reg, low)) >= m.tier
      BY DEF NeverCalledOff
<1>2. (psi = m.psi \/ psi = Unit) /\ (emb = m.embedding \/ emb = Unit)
      OBVIOUS
<1> QED BY ONLY IsDay(m), <1>1, <1>2, TierGrows

(* chapters/ch06/alerting.py evaluate_alert_tier: on any windows and over  *)
(* any number of days, an alert of a tier somebody has to act on comes of  *)
(* drift that is significant or lasts, never under a seasonal baseline,    *)
(* and no metric that is worse lowers a tier.                              *)
THEOREM AlertsAreEarned == DriftSpec => []AlertsEarned
<1>1. DriftInit => DaysInv
  <2>1. << >> \in Seq({})
        OBVIOUS
  <2> QED BY <2>1 DEF DriftInit, DaysInv
<1>2. DaysInv /\ [DriftNext]_driftVars => DaysInv'
  <2>1. ASSUME DaysInv, DriftNext PROVE DaysInv'
        BY <2>1, DayInv DEF DriftNext
  <2>2. CASE UNCHANGED driftVars /\ DaysInv
        BY <2>2 DEF driftVars, DaysInv
  <2> QED BY <2>1, <2>2
<1>3. ASSUME DaysInv, NEW i \in DOMAIN days
      PROVE  ActedOnDrift(i) /\ NeverCalledOff(days[i])
  <2>1. PICK m : m = days[i]
        OBVIOUS
  <2>2. IsDay(m) /\ m.previous = IF i = 1 THEN 0 ELSE days[i - 1].embedding
        BY <1>3, <2>1 DEF DaysInv
  <2>3. i \in Nat /\ i >= 1
    <3>1. PICK S : days \in Seq(S)
          BY <1>3 DEF DaysInv
    <3> QED BY <3>1
  <2>4. m.tier = Tier(m) /\ m.regression \in BOOLEAN /\ m.confirmed \in BOOLEAN
        BY <2>2 DEF IsDay
  <2>5. ASSUME m.tier >= 3
        PROVE  /\ ~m.seasonal
               /\ \/ Above(m.psi, 250)
                  \/ i > 1 /\ Above(m.embedding, 150) /\ Above(days[i - 1].embedding, 150)
    <3>1. Warning(m)
          BY <2>4, <2>5 DEF Tier
    <3>2. ~Above(0, 150)
          BY DriftOK DEF Above
    <3>3. m.previous = IF i > 1 THEN days[i - 1].embedding ELSE 0
          BY <2>2, <2>3
    <3> QED BY <3>1, <3>2, <3>3 DEF Warning
  <2>6. m.tier = 5 => m.confirmed /\ m.regression
        BY <2>4 DEF Tier
  <2>7. NeverCalledOff(m)
        BY <2>2, NeverLowered
  <2>8. ActedOnDrift(i)
        BY <2>1, <2>5, <2>6 DEF ActedOnDrift
  <2> QED BY <2>1, <2>7, <2>8
<1>4. DaysInv => AlertsEarned
      BY <1>3 DEF AlertsEarned
<1> QED BY <1>1, <1>2, <1>4, PTL DEF DriftSpec

(* Both: what raises an alert is drift, and the metrics measure it.        *)
THEOREM AlertsFollowDrift == DriftSpec => []DriftEarnsAlerts
BY AlertsAreEarned, DriftIsMeasured, PTL DEF DriftEarnsAlerts

-----------------------------------------------------------------------------
(* The runs                                                                *)
Modes == {"FM-1.1", "FM-1.3", "FM-1.5", "FM-3.2"}

StepRecords ==
  AgentSteps \cup {AgentStep("researcher", 0, 4200)}
    \cup {AgentStep("summarizer", i, 800) : i \in 1..25}
    \cup {AgentStep("planner", 0, 500), AgentStep("executor", 1, 700)}

RunRecords == [scenario : Scenarios, steps : Seq(StepRecords),
               terminated : BOOLEAN, verified : BOOLEAN]

Trips == [Budgets -> SUBSET Modes]

(* What is left of the scenario a run began as.                            *)
Began(run) ==
  /\ run.scenario = "silent_retry_loop" =>
       Len(run.steps) >= 12 /\ \A i \in 1..12 : SameStep(run, 1, i)
  /\ run.scenario = "no_termination" => Len(run.steps) >= 25
  /\ run.scenario = "unverified_output" => run.terminated

(* What was found stays found.                                             *)
Found(run, trips) == \A b \in Budgets :
  /\ "FM-1.1" \in trips[b] => DetectUnboundedConsumption(run, b)
  /\ "FM-1.3" \in trips[b] => DetectStepRepetition(run)
  /\ "FM-1.5" \in trips[b] => Len(run.steps) >= StepCeiling

RunHolds(run, trips) == Began(run) /\ Found(run, trips)

AgentInv ==
  /\ runs \in Seq(RunRecords) /\ tripped \in Seq(Trips) /\ Len(tripped) = Len(runs)
  /\ \A i \in DOMAIN runs : RunHolds(runs[i], tripped[i])

LEMMA ClassifyIs ==
  ASSUME NEW run, NEW b
  PROVE  /\ Classify(run, b) \in SUBSET Modes
         /\ "FM-1.1" \in Classify(run, b) <=> DetectUnboundedConsumption(run, b)
         /\ "FM-1.3" \in Classify(run, b) <=> DetectStepRepetition(run)
         /\ "FM-1.5" \in Classify(run, b) <=> DetectMissingTermination(run)
         /\ "FM-3.2" \in Classify(run, b) <=> DetectMissingVerification(run)
<1>1. \A m : m \in Classify(run, b) <=>
        /\ m \in Modes
        /\ m = "FM-1.1" => DetectUnboundedConsumption(run, b)
        /\ m = "FM-1.3" => DetectStepRepetition(run)
        /\ m = "FM-1.5" => DetectMissingTermination(run)
        /\ m = "FM-3.2" => DetectMissingVerification(run)
      BY DEF Classify, Modes
<1> QED BY <1>1 DEF Modes

LEMMA StepTokens == \A s \in StepRecords : s.tokens \in Nat
<1>1. \A a, c, n : AgentStep(a, c, n).tokens = n
      BY DEF AgentStep
<1> QED BY <1>1, AgentRunsOK DEF StepRecords

(* A step more.  The tokens are no less and a repetition stays one.        *)
LEMMA RunGrows ==
  ASSUME NEW run, run.steps \in Seq(StepRecords), NEW s \in StepRecords,
         NEW longer, longer.steps = Append(run.steps, s)
  PROVE  /\ longer.steps \in Seq(StepRecords) /\ Len(longer.steps) = Len(run.steps) + 1
         /\ \A i \in 1..Len(run.steps) : longer.steps[i] = run.steps[i]
         /\ TotalOf(run) \in Int /\ TotalOf(longer) \in Int /\ TotalOf(longer) >= TotalOf(run)
         /\ DetectStepRepetition(run) => DetectStepRepetition(longer)
<1>1. PICK q, p, n : q = run.steps /\ p = longer.steps /\ n = Len(q)
      OBVIOUS
<1>2. /\ q \in Seq(StepRecords) /\ p \in Seq(StepRecords) /\ n \in Nat /\ Len(p) = n + 1
      /\ DOMAIN q = 1..n /\ DOMAIN p = 1..(n + 1)
      /\ p[n + 1] = s /\ \A i \in 1..n : p[i] = q[i]
      BY <1>1
<1>3. /\ IsFiniteSet(1..n) /\ IsFiniteSet(1..(n + 1))
      /\ 1..(n + 1) = 1..n \cup {n + 1} /\ n + 1 \notin 1..n
  <2>1. n \in Int /\ n + 1 \in Int /\ 1 \in Int
        BY <1>2
  <2>2. IsFiniteSet(1..n) /\ IsFiniteSet(1..(n + 1))
        BY <2>1, FS_Interval
  <2> QED BY <1>2, <2>2
<1>4. PICK f, g : f = [i \in 1..n |-> q[i].tokens] /\ g = [i \in 1..(n + 1) |-> p[i].tokens]
      OBVIOUS
<1>5. /\ \A i \in 1..n : f[i] = q[i].tokens /\ q[i].tokens \in Nat
      /\ \A i \in 1..n : g[i] = f[i]
      /\ g[n + 1] = s.tokens /\ s.tokens \in Nat
      BY <1>2, <1>4, StepTokens
<1>6. /\ TotalOf(run) = SumFunctionOnSet(f, 1..n)
      /\ TotalOf(longer) = SumFunctionOnSet(g, 1..(n + 1))
  <2>1. TotalOf(run) = SumFunction(f)
        BY <1>1, <1>2, <1>4 DEF TotalOf
  <2>2. TotalOf(longer) = SumFunction(g)
        BY <1>1, <1>2, <1>4 DEF TotalOf
  <2>3. DOMAIN f = 1..n /\ DOMAIN g = 1..(n + 1)
        BY <1>4
  <2> QED BY <2>1, <2>2, <2>3 DEF SumFunction
<1>7. IntOn(f, 1..n) /\ IntOn(g, 1..n \cup {n + 1})
      BY <1>3, <1>5 DEF IntOn
<1>8. SumFunctionOnSet(g, 1..(n + 1)) = g[n + 1] + SumFunctionOnSet(g, 1..n)
      BY <1>3, <1>7, SumAdd
<1>9. SumFunctionOnSet(g, 1..n) = SumFunctionOnSet(f, 1..n)
  <2>1. Agree(g, f, 1..n)
        BY <1>5 DEF Agree
  <2> QED BY <1>3, <2>1, SumSame
<1>10. SumFunctionOnSet(f, 1..n) \in Int
       BY <1>3, <1>7, SumInt
<1>11. TotalOf(run) \in Int /\ TotalOf(longer) \in Int /\ TotalOf(longer) >= TotalOf(run)
       BY <1>5, <1>6, <1>8, <1>9, <1>10
<1>12. ASSUME DetectStepRepetition(run) PROVE DetectStepRepetition(longer)
  <2>1. PICK i \in DOMAIN q : Cardinality({j \in DOMAIN q : SameStep(run, i, j)}) >= Repeats
        BY <1>1, <1>12 DEF DetectStepRepetition
  <2>2. PICK A, B : /\ A = {j \in DOMAIN q : SameStep(run, i, j)}
                    /\ B = {j \in DOMAIN p : SameStep(longer, i, j)}
        OBVIOUS
  <2>3. A \in SUBSET B
    <3>1. \A j \in DOMAIN q : SameStep(run, i, j) => SameStep(longer, i, j)
          BY <1>1, <1>2 DEF SameStep
    <3> QED BY <1>2, <2>2, <3>1
  <2>4. IsFiniteSet(B)
        BY <1>2, <1>3, <2>2, FS_Subset
  <2>5. /\ Cardinality(A) \in Nat /\ Cardinality(B) \in Nat
        /\ Cardinality(A) <= Cardinality(B)
        BY <2>3, <2>4, FS_Subset, FS_CardinalityType
  <2>6. Cardinality(B) >= Repeats
        BY <2>1, <2>2, <2>5, AgentRunsOK
  <2>7. i \in DOMAIN p
        BY <1>2, <2>1
  <2>8. \E k \in DOMAIN p : Cardinality({j \in DOMAIN p : SameStep(longer, k, j)}) >= Repeats
        BY <2>2, <2>6, <2>7
  <2> QED BY <1>1, <2>8 DEF DetectStepRepetition
<1> QED BY <1>1, <1>2, <1>11, <1>12

(* Only the steps decide what a run repeats and consumes.                  *)
LEMMA SameSteps ==
  ASSUME NEW run, NEW other, other.steps = run.steps
  PROVE  /\ TotalOf(other) = TotalOf(run)
         /\ DetectStepRepetition(other) <=> DetectStepRepetition(run)
         /\ \A i, j : SameStep(other, i, j) <=> SameStep(run, i, j)
<1>1. \A i, j : SameStep(other, i, j) <=> SameStep(run, i, j)
      BY DEF SameStep
<1>2. TotalOf(other) = TotalOf(run)
      BY DEF TotalOf
<1>3. \A i : {j \in DOMAIN other.steps : SameStep(other, i, j)}
               = {j \in DOMAIN run.steps : SameStep(run, i, j)}
      BY <1>1
<1>4. DetectStepRepetition(other) <=> DetectStepRepetition(run)
      BY <1>3 DEF DetectStepRepetition
<1> QED BY <1>1, <1>2, <1>4

LEMMA ThresholdsAre == Budgets \subseteq Int /\ StepCeiling \in Int /\ Repeats \in Int
<1>1. TokenBudget \in Int /\ TightBudget \in Int
      BY AgentRunsOK
<1>2. StepCeiling \in Int /\ Repeats \in Int
      BY AgentRunsOK
<1> QED BY <1>1, <1>2 DEF Budgets

LEMMA AddStepHolds ==
  ASSUME NEW run \in RunRecords, NEW trips \in Trips, RunHolds(run, trips),
         NEW s \in StepRecords, NEW longer, longer = [run EXCEPT !.steps = Append(@, s)]
  PROVE  longer \in RunRecords /\ RunHolds(longer, trips)
<1>1. /\ run.steps \in Seq(StepRecords) /\ longer.steps = Append(run.steps, s)
      /\ longer.scenario = run.scenario /\ longer.terminated = run.terminated
      /\ longer.verified = run.verified
      BY DEF RunRecords
<1>2. PICK q, p, n : q = run.steps /\ p = longer.steps /\ n = Len(q)
      OBVIOUS
<1>3. /\ p \in Seq(StepRecords) /\ n \in Nat /\ Len(p) = n + 1
      /\ \A i \in 1..n : p[i] = q[i]
      /\ TotalOf(run) \in Int /\ TotalOf(longer) \in Int /\ TotalOf(longer) >= TotalOf(run)
      /\ DetectStepRepetition(run) => DetectStepRepetition(longer)
  <2>1. /\ longer.steps \in Seq(StepRecords) /\ Len(longer.steps) = Len(run.steps) + 1
        /\ \A i \in 1..Len(run.steps) : longer.steps[i] = run.steps[i]
        /\ TotalOf(run) \in Int /\ TotalOf(longer) \in Int /\ TotalOf(longer) >= TotalOf(run)
        /\ DetectStepRepetition(run) => DetectStepRepetition(longer)
        BY ONLY <1>1, s \in StepRecords, RunGrows
  <2>2. Len(run.steps) \in Nat
        BY <1>1
  <2> QED BY <1>2, <2>1, <2>2
<1>4. longer \in RunRecords
  <2>1. longer = [run EXCEPT !.steps = p]
        BY <1>1, <1>2
  <2> QED BY <1>3, <2>1 DEF RunRecords
<1>5. Began(longer)
  <2>1. ASSUME run.scenario = "silent_retry_loop", NEW i \in 1..12
        PROVE  SameStep(longer, 1, i)
    <3>1. n >= 12 /\ SameStep(run, 1, i)
          BY <1>2, <2>1 DEF RunHolds, Began
    <3>2. p[1] = q[1] /\ p[i] = q[i]
          BY <1>3, <3>1
    <3> QED BY <1>2, <3>1, <3>2 DEF SameStep
  <2>2. run.scenario = "silent_retry_loop" => n >= 12
        BY <1>2 DEF RunHolds, Began
  <2>3. run.scenario = "no_termination" => n >= 25
        BY <1>2 DEF RunHolds, Began
  <2>4. run.scenario = "unverified_output" => run.terminated
        BY DEF RunHolds, Began
  <2> QED BY <1>1, <1>2, <1>3, <2>1, <2>2, <2>3, <2>4 DEF Began
<1>6. Found(longer, trips)
  <2> SUFFICES ASSUME NEW b \in Budgets
               PROVE  /\ "FM-1.1" \in trips[b] => DetectUnboundedConsumption(longer, b)
                      /\ "FM-1.3" \in trips[b] => DetectStepRepetition(longer)
                      /\ "FM-1.5" \in trips[b] => Len(longer.steps) >= StepCeiling
      BY DEF Found
  <2>1. /\ "FM-1.1" \in trips[b] => TotalOf(run) > b
        /\ "FM-1.3" \in trips[b] => DetectStepRepetition(run)
        /\ "FM-1.5" \in trips[b] => n >= StepCeiling
        BY <1>2 DEF RunHolds, Found, DetectUnboundedConsumption
  <2>2. b \in Int /\ StepCeiling \in Int
        BY ThresholdsAre
  <2>3. "FM-1.1" \in trips[b] => TotalOf(longer) > b
        BY <1>3, <2>1, <2>2
  <2> QED BY <1>2, <1>3, <2>1, <2>2, <2>3 DEF DetectUnboundedConsumption
<1> QED BY <1>4, <1>5, <1>6 DEF RunHolds

LEMMA MarkHolds ==
  ASSUME NEW run \in RunRecords, NEW trips \in Trips, RunHolds(run, trips), NEW other,
         other \in {[run EXCEPT !.terminated = TRUE], [run EXCEPT !.verified = TRUE]}
  PROVE  other \in RunRecords /\ RunHolds(other, trips)
<1>1. /\ other \in RunRecords /\ other.steps = run.steps /\ other.scenario = run.scenario
      /\ run.terminated => other.terminated
      BY DEF RunRecords
<1>2. Began(other)
      BY <1>1, SameSteps DEF RunHolds, Began
<1>3. Found(other, trips)
      BY <1>1, SameSteps DEF RunHolds, Found, DetectUnboundedConsumption
<1> QED BY <1>1, <1>2, <1>3 DEF RunHolds

LEMMA ClassifyHolds ==
  ASSUME NEW run \in RunRecords, NEW trips \in Trips, RunHolds(run, trips),
         NEW b \in Budgets, NEW more, more = [trips EXCEPT ![b] = @ \cup Classify(run, b)]
  PROVE  more \in Trips /\ RunHolds(run, more)
<1>1. PICK C : C = Classify(run, b)
      OBVIOUS
<1>2. /\ C \in SUBSET Modes
      /\ "FM-1.1" \in C => DetectUnboundedConsumption(run, b)
      /\ "FM-1.3" \in C => DetectStepRepetition(run)
      /\ "FM-1.5" \in C => Len(run.steps) >= StepCeiling
      BY <1>1, ClassifyIs DEF DetectMissingTermination
<1>3. /\ more \in Trips /\ more[b] = trips[b] \cup C
      /\ \A d \in Budgets \ {b} : more[d] = trips[d]
      BY <1>1, <1>2 DEF Trips
<1>4. Found(run, more)
      BY <1>2, <1>3 DEF RunHolds, Found
<1> QED BY <1>3, <1>4 DEF RunHolds

(* What each scenario begins as.                                           *)
LEMMA ScenarioHolds ==
  ASSUME NEW key \in Scenarios, NEW run,
         run = [scenario |-> key, steps |-> ScenarioSteps(key),
                terminated |-> key = "unverified_output", verified |-> FALSE],
         NEW trips, trips = [b \in Budgets |-> {}]
  PROVE  run \in RunRecords /\ trips \in Trips /\ RunHolds(run, trips)
<1>1. PICK q : q = ScenarioSteps(key)
      OBVIOUS
<1>2. /\ run.scenario = key /\ run.steps = q
      /\ key = "unverified_output" => run.terminated
      BY <1>1
<1>3. ASSUME key = "silent_retry_loop"
      PROVE  q \in Seq(StepRecords) /\ Len(q) = 12 /\ \A i \in 1..12 : SameStep(run, 1, i)
  <2>1. q = [i \in 1..12 |-> AgentStep("researcher", 0, 4200)]
        BY <1>1, <1>3 DEF ScenarioSteps
  <2>2. AgentStep("researcher", 0, 4200) \in StepRecords
        BY DEF StepRecords
  <2>3. q \in Seq(StepRecords) /\ Len(q) = 12
        BY <2>1, <2>2
  <2>4. \A i \in 1..12 : q[i] = q[1]
        BY <2>1
  <2> QED BY <1>2, <2>3, <2>4 DEF SameStep
<1>4. ASSUME key = "no_termination"
      PROVE  q \in Seq(StepRecords) /\ Len(q) = 25
  <2>1. q = [i \in 1..25 |-> AgentStep("summarizer", i, 800)]
        BY <1>1, <1>4 DEF ScenarioSteps
  <2>2. \A i \in 1..25 : AgentStep("summarizer", i, 800) \in StepRecords
        BY DEF StepRecords
  <2> QED BY <2>1, <2>2
<1>5. ASSUME key = "unverified_output" PROVE q \in Seq(StepRecords)
  <2>1. q = <<AgentStep("planner", 0, 500), AgentStep("executor", 1, 700)>>
        BY <1>1, <1>5 DEF ScenarioSteps
  <2>2. AgentStep("planner", 0, 500) \in StepRecords /\ AgentStep("executor", 1, 700) \in StepRecords
        BY DEF StepRecords
  <2> QED BY <2>1, <2>2
<1>6. ASSUME key = "none" PROVE q \in Seq(StepRecords)
  <2>1. q = << >>
        BY <1>1, <1>6 DEF ScenarioSteps
  <2> QED BY <2>1
<1>7. q \in Seq(StepRecords)
      BY <1>3, <1>4, <1>5, <1>6 DEF Scenarios
<1>8. run \in RunRecords
  <2>1. (key = "unverified_output") \in BOOLEAN
        OBVIOUS
  <2> QED BY <1>1, <1>7, <2>1 DEF RunRecords
<1>9. trips \in Trips /\ Found(run, trips)
      BY DEF Trips, Found
<1>10. Began(run)
  <2>1. ASSUME key = "silent_retry_loop"
        PROVE  Len(q) >= 12 /\ \A i \in 1..12 : SameStep(run, 1, i)
    <3>1. Len(q) = 12 /\ \A i \in 1..12 : SameStep(run, 1, i)
          BY <1>3, <2>1
    <3> QED BY <3>1
  <2>2. ASSUME key = "no_termination" PROVE Len(q) >= 25
    <3>1. Len(q) = 25
          BY <1>4, <2>2
    <3> QED BY <3>1
  <2>3. run.steps = q /\ run.scenario = key
        BY <1>2
  <2> QED BY <1>2, <2>1, <2>2, <2>3, Zenon DEF Began
<1> QED BY <1>8, <1>9, <1>10 DEF RunHolds

LEMMA ReplacedIn ==
  ASSUME NEW S, NEW q \in Seq(S), NEW i \in DOMAIN q, NEW e \in S, NEW p, p = [q EXCEPT ![i] = e]
  PROVE  /\ p \in Seq(S) /\ Len(p) = Len(q) /\ p[i] = e
         /\ \A j \in DOMAIN q \ {i} : p[j] = q[j]
OBVIOUS

LEMMA OneRunChanges ==
  ASSUME AgentInv, NEW i \in DOMAIN runs,
         runs' \in Seq(RunRecords), Len(runs') = Len(runs),
         tripped' \in Seq(Trips), Len(tripped') = Len(tripped),
         \A j \in DOMAIN runs \ {i} : runs'[j] = runs[j] /\ tripped'[j] = tripped[j],
         RunHolds(runs'[i], tripped'[i])
  PROVE  AgentInv'
<1>1. DOMAIN runs' = DOMAIN runs
  <2>1. runs \in Seq(RunRecords)
        BY DEF AgentInv
  <2> QED BY <2>1
<1>2. ASSUME NEW j \in DOMAIN runs' PROVE RunHolds(runs'[j], tripped'[j])
  <2>1. CASE j = i
        BY <2>1
  <2>2. CASE j # i
    <3>1. RunHolds(runs[j], tripped[j]) /\ runs'[j] = runs[j] /\ tripped'[j] = tripped[j]
          BY <1>1, <2>2 DEF AgentInv
    <3> QED BY <3>1
  <2> QED BY <2>1, <2>2
<1>3. Len(tripped') = Len(runs')
      BY DEF AgentInv
<1> QED BY <1>2, <1>3 DEF AgentInv

LEMMA RunAt ==
  ASSUME AgentInv, NEW i \in DOMAIN runs
  PROVE  /\ i \in DOMAIN tripped /\ runs[i] \in RunRecords /\ tripped[i] \in Trips
         /\ RunHolds(runs[i], tripped[i])
<1>1. /\ runs \in Seq(RunRecords) /\ tripped \in Seq(Trips) /\ Len(tripped) = Len(runs)
      /\ RunHolds(runs[i], tripped[i])
      BY DEF AgentInv
<1> QED BY <1>1

LEMMA BeginRunInv ==
  ASSUME AgentInv, NEW key \in Scenarios, BeginRun(key)
  PROVE  AgentInv'
<1>1. PICK r, t : /\ r = [scenario |-> key, steps |-> ScenarioSteps(key),
                          terminated |-> key = "unverified_output", verified |-> FALSE]
                  /\ t = [b \in Budgets |-> {}]
      OBVIOUS
<1>2. r \in RunRecords /\ t \in Trips /\ RunHolds(r, t)
      BY <1>1, ScenarioHolds
<1>3. runs' = Append(runs, r) /\ tripped' = Append(tripped, t)
      BY <1>1 DEF BeginRun
<1>4. runs \in Seq(RunRecords) /\ tripped \in Seq(Trips) /\ Len(tripped) = Len(runs)
      BY DEF AgentInv
<1>5. PICK n \in Nat : n = Len(runs) /\ DOMAIN runs = 1..n
      BY <1>4
<1>6. /\ runs' \in Seq(RunRecords) /\ Len(runs') = n + 1 /\ runs'[n + 1] = r
      /\ \A i \in 1..n : runs'[i] = runs[i]
      BY <1>2, <1>3, <1>4, <1>5
<1>7. /\ tripped' \in Seq(Trips) /\ Len(tripped') = n + 1 /\ tripped'[n + 1] = t
      /\ \A i \in 1..n : tripped'[i] = tripped[i]
      BY <1>2, <1>3, <1>4, <1>5
<1>8. ASSUME NEW i \in DOMAIN runs' PROVE RunHolds(runs'[i], tripped'[i])
  <2>1. i \in 1..n \/ i = n + 1
        BY <1>5, <1>6
  <2>2. CASE i \in 1..n
    <3>1. RunHolds(runs[i], tripped[i])
          BY <1>5, <2>2 DEF AgentInv
    <3> QED BY <1>6, <1>7, <2>2, <3>1
  <2>3. CASE i = n + 1
        BY <1>2, <1>6, <1>7, <2>3
  <2> QED BY <2>1, <2>2, <2>3
<1> QED BY <1>6, <1>7, <1>8 DEF AgentInv

LEMMA ChangeRunInv ==
  ASSUME AgentInv, NEW i \in DOMAIN runs, NEW r \in RunRecords, RunHolds(r, tripped[i]),
         runs' = [runs EXCEPT ![i] = r], UNCHANGED tripped
  PROVE  AgentInv'
<1>1. runs \in Seq(RunRecords) /\ tripped \in Seq(Trips)
      BY DEF AgentInv
<1>2. /\ runs' \in Seq(RunRecords) /\ Len(runs') = Len(runs) /\ runs'[i] = r
      /\ \A j \in DOMAIN runs \ {i} : runs'[j] = runs[j]
      BY <1>1, ReplacedIn
<1> QED BY <1>1, <1>2, OneRunChanges

LEMMA ClassifyRunInv ==
  ASSUME AgentInv, NEW i \in DOMAIN runs, NEW b \in Budgets, ClassifyRun(i, b)
  PROVE  AgentInv'
<1>1. PICK t : t = [tripped[i] EXCEPT ![b] = @ \cup Classify(runs[i], b)]
      OBVIOUS
<1>2. t \in Trips /\ RunHolds(runs[i], t)
      BY <1>1, RunAt, ClassifyHolds
<1>3. runs \in Seq(RunRecords) /\ tripped \in Seq(Trips)
      BY DEF AgentInv
<1>4. runs' = runs /\ tripped' = [tripped EXCEPT ![i] = t]
      BY <1>1 DEF ClassifyRun
<1>5. /\ tripped' \in Seq(Trips) /\ Len(tripped') = Len(tripped) /\ tripped'[i] = t
      /\ \A j \in DOMAIN tripped \ {i} : tripped'[j] = tripped[j]
      BY <1>2, <1>3, <1>4, RunAt, ReplacedIn
<1>6. \A j \in DOMAIN runs \ {i} : tripped'[j] = tripped[j]
      BY <1>5, RunAt
<1> QED BY <1>2, <1>3, <1>4, <1>5, <1>6, OneRunChanges

LEMMA AgentInitInv == AgentInit => AgentInv
<1> SUFFICES ASSUME AgentInit PROVE AgentInv
    OBVIOUS
<1>1. runs = << >> /\ tripped = << >>
      BY DEF AgentInit
<1>2. << >> \in Seq(RunRecords) /\ << >> \in Seq(Trips)
      OBVIOUS
<1> QED BY <1>1, <1>2 DEF AgentInv

LEMMA AgentStepInv == AgentInv /\ [AgentNext]_agentVars => AgentInv'
<1> SUFFICES ASSUME AgentInv, [AgentNext]_agentVars PROVE AgentInv'
    OBVIOUS
<1>1. CASE UNCHANGED agentVars
      BY <1>1 DEF agentVars, AgentInv
<1>2. CASE \E key \in Scenarios : BeginRun(key)
      BY <1>2, BeginRunInv
<1>3. ASSUME NEW i \in DOMAIN runs, NEW s \in AgentSteps, AddStep(i, s) PROVE AgentInv'
  <2>1. PICK r : r = [runs[i] EXCEPT !.steps = Append(@, s)]
        OBVIOUS
  <2>2. s \in StepRecords
        BY DEF StepRecords
  <2>3. r \in RunRecords /\ RunHolds(r, tripped[i])
        BY <2>1, <2>2, RunAt, AddStepHolds
  <2>4. runs' = [runs EXCEPT ![i] = r] /\ UNCHANGED tripped
        BY <1>3, <2>1 DEF AddStep
  <2> QED BY <2>3, <2>4, ChangeRunInv
<1>4. ASSUME NEW i \in DOMAIN runs, MarkTerminated(i) PROVE AgentInv'
  <2>1. PICK r : r = [runs[i] EXCEPT !.terminated = TRUE]
        OBVIOUS
  <2>2. r \in RunRecords /\ RunHolds(r, tripped[i])
        BY <2>1, RunAt, MarkHolds
  <2>3. runs' = [runs EXCEPT ![i] = r] /\ UNCHANGED tripped
        BY <1>4, <2>1 DEF MarkTerminated
  <2> QED BY <2>2, <2>3, ChangeRunInv
<1>5. ASSUME NEW i \in DOMAIN runs, MarkVerified(i) PROVE AgentInv'
  <2>1. PICK r : r = [runs[i] EXCEPT !.verified = TRUE]
        OBVIOUS
  <2>2. r \in RunRecords /\ RunHolds(r, tripped[i])
        BY <2>1, RunAt, MarkHolds
  <2>3. runs' = [runs EXCEPT ![i] = r] /\ UNCHANGED tripped
        BY <1>5, <2>1 DEF MarkVerified
  <2> QED BY <2>2, <2>3, ChangeRunInv
<1> QED BY <1>1, <1>2, <1>3, <1>4, <1>5, ClassifyRunInv DEF AgentNext

(* More steps than Repeats - 1 of each kind.                               *)
LEMMA RepetitionShows ==
  ASSUME NEW run \in RunRecords,
         Len(run.steps) > (Repeats - 1) * Cardinality(KindsOf(run))
  PROVE  DetectStepRepetition(run)
<1>1. PICK q, n : q = run.steps /\ n = Len(q)
      OBVIOUS
<1>2. n \in Nat /\ DOMAIN q = 1..n
  <2>1. run.steps \in Seq(StepRecords)
        BY DEF RunRecords
  <2> QED BY <1>1, <2>1
<1>3. IsFiniteSet(1..n) /\ Cardinality(1..n) = n
  <2>1. IsFiniteSet(1..n) /\ Cardinality(1..n) = IF 1 > n THEN 0 ELSE n - 1 + 1
        BY <1>2, FS_Interval
  <2> QED BY <1>2, <2>1
<1>4. PICK k, V : /\ k = [i \in 1..n |-> <<q[i].agent, q[i].action>>]
                  /\ V = KindsOf(run)
      OBVIOUS
<1>5. /\ \A i \in 1..n : k[i] = <<q[i].agent, q[i].action>> /\ k[i] \in V
      /\ \A v \in V : \E i \in 1..n : k[i] = v
      BY <1>1, <1>2, <1>4 DEF KindsOf
<1>6. IsFiniteSet(V)
  <2>1. k \in Surjection(1..n, V)
        BY <1>4, <1>5 DEF Surjection
  <2> QED BY <1>3, <2>1, FS_Surjection
<1>7. PICK u \in Int : u = Repeats - 1
      BY ThresholdsAre
<1>8. PICK v \in V : Cardinality(OfKind(k, 1..n, v)) > u
  <2>1. Cardinality(1..n) > u * Cardinality(V)
        BY <1>1, <1>3, <1>4, <1>7
  <2>2. \A i \in 1..n : k[i] \in V
        BY <1>5
  <2>3. PICK S : S = 1..n
        OBVIOUS
  <2>4. /\ IsFiniteSet(S) /\ Cardinality(S) > u * Cardinality(V)
        /\ \A x \in S : k[x] \in V
        /\ u \in Int /\ IsFiniteSet(V)
        BY <1>3, <1>6, <2>1, <2>2, <2>3
  <2>5. \E v \in V : Cardinality(OfKind(k, S, v)) > u
        BY <2>4, Pigeonhole
  <2> QED BY <2>3, <2>5
<1>9. PICK i \in 1..n : k[i] = v
      BY <1>5
<1>10. {j \in DOMAIN q : SameStep(run, i, j)} = OfKind(k, 1..n, v)
  <2>1. ASSUME NEW j \in 1..n PROVE SameStep(run, i, j) <=> k[j] = v
    <3>1. k[i] = <<q[i].agent, q[i].action>> /\ k[j] = <<q[j].agent, q[j].action>>
          BY <1>5
    <3>2. SameStep(run, i, j) <=> q[i].agent = q[j].agent /\ q[i].action = q[j].action
          BY <1>1 DEF SameStep
    <3> QED BY <1>9, <3>1, <3>2
  <2> QED BY <1>2, <2>1 DEF OfKind
<1>11. PICK c \in Int : c = Cardinality(OfKind(k, 1..n, v))
  <2>1. PICK S : S = OfKind(k, 1..n, v)
        OBVIOUS
  <2>2. IsFiniteSet(S)
        BY <1>3, <2>1, FS_Subset DEF OfKind
  <2>3. Cardinality(S) \in Int
        BY <2>2, FS_CardinalityType
  <2> QED BY <2>1, <2>3
<1>12. c >= Repeats
       BY <1>7, <1>8, <1>11, ThresholdsAre
<1>13. Cardinality({j \in DOMAIN q : SameStep(run, i, j)}) >= Repeats
       BY <1>10, <1>11, <1>12
<1>14. i \in DOMAIN q
       BY <1>2
<1> QED BY <1>1, <1>13, <1>14 DEF DetectStepRepetition

(* Every agent but the first takes over at its first step.                 *)
LEMMA HandoffsAre ==
  ASSUME NEW run \in RunRecords, run.steps # << >>
  PROVE  HandoffDepth(run) \in (Cardinality(AgentsOf(run)) - 1)..(Len(run.steps) - 1)
<1>1. PICK q, n : q = run.steps /\ n = Len(q)
      OBVIOUS
<1>2. n \in Nat \ {0} /\ DOMAIN q = 1..n
  <2>1. run.steps \in Seq(StepRecords)
        BY DEF RunRecords
  <2> QED BY <1>1, <2>1
<1>3. PICK H, A : H = {i \in 2..n : q[i].agent # q[i - 1].agent} /\ A = AgentsOf(run)
      OBVIOUS
<1>4. A = {q[i].agent : i \in 1..n}
      BY <1>1, <1>2, <1>3 DEF AgentsOf
<1>5. HandoffDepth(run) = Cardinality(H)
      BY <1>1, <1>3 DEF HandoffDepth
<1>6. H \in SUBSET (2..n)
      BY <1>3
<1>7. /\ IsFiniteSet(H) /\ Cardinality(H) \in Nat /\ Cardinality(H) <= n - 1
  <2>1. IsFiniteSet(2..n) /\ Cardinality(2..n) = IF 2 > n THEN 0 ELSE n - 2 + 1
    <3>1. 2 \in Int /\ n \in Int
          BY <1>2
    <3> QED BY <3>1, FS_Interval
  <2>2. Cardinality(2..n) = n - 1
        BY <1>2, <2>1
  <2> QED BY <1>6, <2>1, <2>2, FS_Subset, FS_CardinalityType
<1>8. PICK T : T = {q[i].agent : i \in H}
      OBVIOUS
<1>9. IsFiniteSet(T) /\ Cardinality(T) <= Cardinality(H) /\ Cardinality(T) \in Nat
  <2>1. PICK f : f = [i \in H |-> q[i].agent]
        OBVIOUS
  <2>2. f \in Surjection(H, T)
        BY <1>8, <2>1 DEF Surjection
  <2> QED BY <1>7, <2>2, FS_Surjection, FS_CardinalityType
<1>10. ASSUME NEW a \in A, a # q[1].agent PROVE a \in T
  <2>1. PICK S : S = {i \in 1..n : q[i].agent = a}
        OBVIOUS
  <2>2. S \subseteq Nat /\ S # {}
        BY <1>2, <1>4, <2>1
  <2>3. PICK i \in S : \A j \in S : i =< j
        BY <2>2, SmallestOf
  <2>4. i \in 2..n /\ q[i].agent = a /\ i - 1 \in 1..n
        BY <1>2, <1>10, <2>1
  <2>5. i - 1 \notin S
        BY <2>3, <2>4
  <2>6. q[i - 1].agent # a
        BY <2>1, <2>4, <2>5
  <2> QED BY <1>3, <1>8, <2>4, <2>6
<1>11. /\ IsFiniteSet(T \cup {q[1].agent})
       /\ Cardinality(T \cup {q[1].agent}) \in Nat
       /\ Cardinality(T \cup {q[1].agent}) <= Cardinality(T) + 1
  <2>1. /\ IsFiniteSet(T \cup {q[1].agent})
        /\ Cardinality(T \cup {q[1].agent})
             = IF q[1].agent \in T THEN Cardinality(T) ELSE Cardinality(T) + 1
        BY <1>9, FS_AddElement
  <2> QED BY <1>9, <2>1
<1>12. A \in SUBSET (T \cup {q[1].agent})
       BY <1>10
<1>13. Cardinality(A) \in Nat /\ Cardinality(A) <= Cardinality(T) + 1
  <2>1. IsFiniteSet(A) /\ Cardinality(A) <= Cardinality(T \cup {q[1].agent})
        BY <1>11, <1>12, FS_Subset
  <2>2. Cardinality(A) \in Nat
        BY <2>1, FS_CardinalityType
  <2> QED BY <1>9, <1>11, <2>1, <2>2
<1>14. Cardinality(H) \in (Cardinality(A) - 1)..(n - 1)
       BY <1>2, <1>7, <1>9, <1>13
<1> QED BY <1>1, <1>3, <1>5, <1>14

LEMMA ScenarioCaught ==
  ASSUME NEW run \in RunRecords, NEW trips \in Trips, RunHolds(run, trips), NEW b \in Budgets
  PROVE  /\ run.scenario = "silent_retry_loop" => "FM-1.3" \in Classify(run, b)
         /\ run.scenario = "no_termination" => run.terminated \/ "FM-1.5" \in Classify(run, b)
         /\ run.scenario = "unverified_output" => run.verified \/ "FM-3.2" \in Classify(run, b)
<1>1. ASSUME run.scenario = "silent_retry_loop" PROVE DetectStepRepetition(run)
  <2>1. Len(run.steps) >= 12 /\ \A i \in 1..12 : SameStep(run, 1, i)
        BY <1>1 DEF RunHolds, Began
  <2>2. PICK n \in Nat : n = Len(run.steps) /\ DOMAIN run.steps = 1..n
    <3>1. run.steps \in Seq(StepRecords)
          BY DEF RunRecords
    <3> QED BY <3>1
  <2>3. PICK S : S = {j \in DOMAIN run.steps : SameStep(run, 1, j)}
        OBVIOUS
  <2>4. 1..12 \in SUBSET S /\ S \in SUBSET (1..n) /\ 1 \in DOMAIN run.steps
        BY <2>1, <2>2, <2>3
  <2>5. /\ IsFiniteSet(1..n)
        /\ Cardinality(1..12) = 12
    <3>1. IsFiniteSet(1..n)
          BY FS_Interval
    <3>2. PICK m \in Int : m = 12
          OBVIOUS
    <3>3. Cardinality(1..m) = IF 1 > m THEN 0 ELSE m - 1 + 1
          BY FS_Interval
    <3> QED BY <3>1, <3>2, <3>3
  <2>6. IsFiniteSet(S)
        BY <2>4, <2>5, FS_Subset
  <2>7. Cardinality(S) \in Nat /\ 12 <= Cardinality(S)
        BY <2>4, <2>5, <2>6, FS_Subset, FS_CardinalityType
  <2>8. Repeats <= 12 /\ Repeats \in Int
        BY AgentRunsOK
  <2>9. Cardinality({j \in DOMAIN run.steps : SameStep(run, 1, j)}) >= Repeats
        BY <2>3, <2>7, <2>8
  <2> QED BY <2>4, <2>9 DEF DetectStepRepetition
<1>2. ASSUME run.scenario = "no_termination", ~run.terminated
      PROVE  DetectMissingTermination(run)
  <2>1. Len(run.steps) >= 25
        BY <1>2 DEF RunHolds, Began
  <2>2. StepCeiling <= 25 /\ StepCeiling \in Int
        BY AgentRunsOK
  <2>3. Len(run.steps) \in Nat
    <3>1. run.steps \in Seq(StepRecords)
          BY DEF RunRecords
    <3> QED BY <3>1
  <2>4. Len(run.steps) >= StepCeiling
        BY <2>1, <2>2, <2>3
  <2> QED BY <1>2, <2>4 DEF DetectMissingTermination
<1>3. ASSUME run.scenario = "unverified_output", ~run.verified
      PROVE  DetectMissingVerification(run)
      BY <1>3 DEF RunHolds, Began, DetectMissingVerification
<1> QED BY <1>1, <1>2, <1>3, ClassifyIs

(* What is on record as found is still found.                              *)
LEMMA FoundIsClassified ==
  ASSUME NEW run \in RunRecords, NEW trips \in Trips, RunHolds(run, trips), NEW b \in Budgets
  PROVE  /\ trips[b] \cap {"FM-1.1", "FM-1.3"} \subseteq Classify(run, b)
         /\ "FM-1.5" \in trips[b] => run.terminated \/ "FM-1.5" \in Classify(run, b)
<1>1. /\ "FM-1.1" \in trips[b] => DetectUnboundedConsumption(run, b)
      /\ "FM-1.3" \in trips[b] => DetectStepRepetition(run)
      /\ "FM-1.5" \in trips[b] => Len(run.steps) >= StepCeiling
      BY DEF RunHolds, Found
<1>2. "FM-1.5" \in trips[b] /\ ~run.terminated => DetectMissingTermination(run)
      BY <1>1 DEF DetectMissingTermination
<1> QED BY <1>1, <1>2, ClassifyIs

LEMMA VectorCounts ==
  ASSUME AgentInv, NEW m \in {"FM-1.1", "FM-1.3"}
  PROVE  Cardinality({i \in DOMAIN runs : m \in tripped[i][TokenBudget]}) <= FailureVector(m)
<1>1. PICK A, B : /\ A = {i \in DOMAIN runs : m \in tripped[i][TokenBudget]}
                  /\ B = {i \in DOMAIN runs : m \in Classify(runs[i], TokenBudget)}
      OBVIOUS
<1>2. A \in SUBSET B
  <2>1. ASSUME NEW i \in DOMAIN runs, m \in tripped[i][TokenBudget]
        PROVE  m \in Classify(runs[i], TokenBudget)
    <3>1. TokenBudget \in Budgets
          BY DEF Budgets
    <3>2. tripped[i][TokenBudget] \cap {"FM-1.1", "FM-1.3"} \subseteq Classify(runs[i], TokenBudget)
          BY <3>1, RunAt, FoundIsClassified
    <3> QED BY <2>1, <3>2
  <2> QED BY <1>1, <2>1
<1>3. IsFiniteSet(B)
  <2>1. runs \in Seq(RunRecords)
        BY DEF AgentInv
  <2>2. PICK n \in Nat : DOMAIN runs = 1..n
        BY <2>1
  <2>3. IsFiniteSet(1..n) /\ B \in SUBSET (1..n)
        BY <1>1, <2>2, FS_Interval
  <2> QED BY <2>3, FS_Subset
<1>4. Cardinality(A) <= Cardinality(B)
      BY <1>2, <1>3, FS_Subset
<1> QED BY <1>1, <1>4 DEF FailureVector

LEMMA FailuresAre == AgentInv => FailuresClassified
<1> SUFFICES ASSUME AgentInv PROVE FailuresClassified
    OBVIOUS
<1>1. ASSUME NEW i \in DOMAIN runs, NEW run, run = runs[i]
      PROVE  /\ Len(run.steps) > (Repeats - 1) * Cardinality(KindsOf(run)) =>
                  "FM-1.3" \in Classify(run, TokenBudget)
             /\ \A b \in Budgets :
                  (tripped[i][b] \cap {"FM-1.1", "FM-1.3"}) \subseteq Classify(run, b)
             /\ "FM-1.5" \in tripped[i][TokenBudget] =>
                  run.terminated \/ "FM-1.5" \in Classify(run, TokenBudget)
             /\ Len(run.steps) >= StepCeiling /\ Classify(run, TokenBudget) = {} =>
                  run.terminated /\ run.verified
             /\ CASE run.scenario = "silent_retry_loop" -> "FM-1.3" \in Classify(run, TightBudget)
                  [] run.scenario = "no_termination" ->
                       run.terminated \/ "FM-1.5" \in Classify(run, TightBudget)
                  [] run.scenario = "unverified_output" ->
                       run.verified \/ "FM-3.2" \in Classify(run, TightBudget)
                  [] OTHER -> TRUE
             /\ run.steps # << >> =>
                  HandoffDepth(run) \in (Cardinality(AgentsOf(run)) - 1)..(Len(run.steps) - 1)
  <2>1. run \in RunRecords /\ tripped[i] \in Trips /\ RunHolds(run, tripped[i])
        BY <1>1, RunAt
  <2>2. TokenBudget \in Budgets /\ TightBudget \in Budgets
        BY DEF Budgets
  <2>3. Len(run.steps) > (Repeats - 1) * Cardinality(KindsOf(run)) =>
          "FM-1.3" \in Classify(run, TokenBudget)
        BY <2>1, RepetitionShows, ClassifyIs
  <2>4. \A b \in Budgets : (tripped[i][b] \cap {"FM-1.1", "FM-1.3"}) \subseteq Classify(run, b)
        BY <2>1, FoundIsClassified
  <2>5. "FM-1.5" \in tripped[i][TokenBudget] =>
          run.terminated \/ "FM-1.5" \in Classify(run, TokenBudget)
        BY <2>1, <2>2, FoundIsClassified
  <2>6. ASSUME Len(run.steps) >= StepCeiling, Classify(run, TokenBudget) = {}
        PROVE  run.terminated /\ run.verified
    <3>1. ~DetectMissingTermination(run) /\ ~DetectMissingVerification(run)
          BY <2>6, ClassifyIs
    <3>2. run.terminated
          BY <2>6, <3>1 DEF DetectMissingTermination
    <3> QED BY <3>1, <3>2 DEF DetectMissingVerification
  <2>7. (CASE run.scenario = "silent_retry_loop" -> "FM-1.3" \in Classify(run, TightBudget)
          [] run.scenario = "no_termination" ->
               run.terminated \/ "FM-1.5" \in Classify(run, TightBudget)
          [] run.scenario = "unverified_output" ->
               run.verified \/ "FM-3.2" \in Classify(run, TightBudget)
          [] OTHER -> TRUE)
        BY <2>1, <2>2, ScenarioCaught
  <2>8. run.steps # << >> =>
          HandoffDepth(run) \in (Cardinality(AgentsOf(run)) - 1)..(Len(run.steps) - 1)
        BY <2>1, HandoffsAre
  <2> QED BY <2>3, <2>4, <2>5, <2>6, <2>7, <2>8
<1> QED BY <1>1, VectorCounts DEF FailuresClassified

(* agents.py: among any number of runs, of any steps, a run that repeats   *)
(* itself or overruns is found, and for good; agents that take turns hide  *)
(* neither; and a scenario stays on its list until it is answered.         *)
THEOREM AgentsAreCaught == AgentSpec => []FailuresClassified
BY AgentInitInv, AgentStepInv, FailuresAre, PTL DEF AgentSpec

-----------------------------------------------------------------------------
(* The meters of memory.  The cut at top_k keeps the nearest item, so that *)
(* the best of the results is the best of the store; and the store only    *)
(* grows, so that what a retrieval was told stays true of the items there  *)
(* were by then.                                                           *)
Outcomes == {"empty", "miss", "hit"}

RetrievalRecords == [query : Queries, top_k : TopK, known : Nat, outcome : Outcomes]

(* What a retrieval was told, of the items held.                           *)
Told(r, held) ==
  /\ r.known =< Len(held)
  /\ r.top_k > 0 =>
       /\ r.outcome = "empty" <=> r.known = 0
       /\ r.outcome = "hit" <=> \E j \in 1..r.known : held[j][r.query] >= Relevance

KindCounts == [DroppableKinds -> Int]

(* Calls that returned counted all they dropped, those that raised some.   *)
Between(counts, lower, upper) ==
  \A k \in DroppableKinds : lower[k] =< counts[k] /\ counts[k] =< lower[k] + upper[k]

MemoryInv ==
  /\ store \in Seq(Memories) /\ retrievals \in Seq(RetrievalRecords)
  /\ \A i \in DOMAIN retrievals : Told(retrievals[i], store)
  /\ retrieved \in [Outcomes -> Nat]
  /\ retrieved["empty"] + retrieved["miss"] + retrieved["hit"] = Len(retrievals)
  /\ utilizations \in Nat /\ truncations \in KindCounts
  /\ offered \in [{"returned", "raised"} -> [calls : Nat, drops : KindCounts]]
  /\ utilizations = offered["returned"].calls + offered["raised"].calls
  /\ Between(truncations, offered["returned"].drops, offered["raised"].drops)

LEMMA MemoriesAre == Memories \subseteq [Queries -> 0..100] /\ TopK \subseteq Nat
BY MemoryOK

Best(found, q) == Max({found[i][q] : i \in DOMAIN found})

LEMMA NearestFirst ==
  ASSUME NEW held \in Seq(Memories), NEW q \in Queries,
         NEW I, I = DOMAIN held,
         NEW less, less = {p \in I \X I : held[p[1]][q] > held[p[2]][q]}
  PROVE  I \subseteq Int /\ IsFiniteSet(I) /\ Cardinality(I) = Len(held) /\ WeakOrder(I, less)
<1>1. Len(held) \in Nat /\ I = 1..Len(held)
      OBVIOUS
<1>2. IsFiniteSet(I) /\ Cardinality(I) = Len(held)
  <2>1. PICK n \in Nat : n = Len(held)
        BY <1>1
  <2>2. 1 \in Int /\ n \in Int
        BY <2>1
  <2>3. IsFiniteSet(1..n) /\ Cardinality(1..n) = IF 1 > n THEN 0 ELSE n - 1 + 1
        BY ONLY <2>2, FS_Interval
  <2> QED BY <1>1, <2>1, <2>3
<1>3. ASSUME NEW i \in I PROVE held[i][q] \in Int
  <2>1. PICK item \in Memories : item = held[i]
        BY <1>1
  <2>2. item \in [Queries -> 0..100]
        BY MemoriesAre
  <2>3. item[q] \in 0..100
        BY <2>2
  <2>4. 0..100 \subseteq Int
        OBVIOUS
  <2> QED BY <2>1, <2>3, <2>4
<1>4. \A i, j \in I : <<i, j>> \in less <=> held[i][q] > held[j][q]
      OBVIOUS
<1>5. WeakOrder(I, less)
      BY <1>3, <1>4 DEF WeakOrder
<1> QED BY <1>1, <1>2, <1>5

LEMMA SearchIs ==
  ASSUME MemoryInv, NEW q \in Queries, NEW k \in TopK,
         NEW found, found = Search(q, k)
  PROVE  k > 0 =>
           /\ found = << >> <=> Len(store) = 0
           /\ found # << >> =>
                (Best(found, q) >= Relevance
                   <=> \E j \in 1..Len(store) : store[j][q] >= Relevance)
<1> SUFFICES ASSUME k > 0
             PROVE  /\ found = << >> <=> Len(store) = 0
                    /\ found # << >> =>
                         (Best(found, q) >= Relevance
                            <=> \E j \in 1..Len(store) : store[j][q] >= Relevance)
    OBVIOUS
<1>1. PICK held \in Seq(Memories) : held = store
      BY DEF MemoryInv
<1>2. PICK I, less : I = DOMAIN held /\ less = {p \in I \X I : held[p[1]][q] > held[p[2]][q]}
      OBVIOUS
<1>3. PICK n \in Nat : n = Len(held) /\ I = 1..n
      BY <1>2
<1>4. I \subseteq Int /\ IsFiniteSet(I) /\ n = Cardinality(I) /\ WeakOrder(I, less)
      BY <1>2, <1>3, NearestFirst
<1>5. PICK order : order = Ordered(I, less)
      OBVIOUS
<1>5a. Sorted(I, less, n, order)
      BY ONLY <1>4, <1>5, OrderedIs
<1>6. /\ \A l \in 1..n : order[l] \in I
      /\ \A i \in I : \E l \in 1..n : order[l] = i
      /\ \A l, m \in 1..n : l < m => <<order[m], order[l]>> \notin less
      BY <1>5a DEF Sorted
<1>7. PICK m : m = Min({k, n})
      OBVIOUS
<1>8. m \in Nat /\ m =< n /\ (m = 0 <=> n = 0)
  <2>1. k \in Nat
        BY MemoriesAre
  <2>2. \E x \in {k, n} : \A y \in {k, n} : x =< y
        BY <2>1
  <2>3. m \in {k, n} /\ \A y \in {k, n} : m =< y
        BY <1>7, <2>2 DEF Min
  <2> QED BY <2>1, <2>3
<1>9. found = [i \in 1..m |-> held[order[i]]]
      BY <1>1, <1>2, <1>3, <1>5, <1>7 DEF Search
<1>10. ASSUME NEW i \in I PROVE held[i] \in Memories /\ held[i][q] \in Int
  <2>1. PICK item \in Memories : item = held[i]
        BY <1>2
  <2>2. item \in [Queries -> 0..100]
        BY MemoriesAre
  <2>3. item[q] \in 0..100
        BY <2>2
  <2>4. 0..100 \subseteq Int
        OBVIOUS
  <2> QED BY <2>1, <2>3, <2>4
<1>11. CASE n = 0
  <2>1. found = << >>
        BY <1>8, <1>9, <1>11
  <2> QED BY <1>1, <1>3, <1>11, <2>1
<1>12. CASE n # 0
  <2>1. 1 \in 1..m /\ DOMAIN found = 1..m /\ 1..m \subseteq 1..n
        BY <1>3, <1>8, <1>9, <1>12
  <2>2. found # << >>
    <3>1. 1 \in DOMAIN found /\ DOMAIN << >> = {}
          BY <2>1
    <3> QED BY <3>1
  <2>3. PICK f : f = [i \in 1..m |-> found[i][q]]
        OBVIOUS
  <2>4. \A i \in 1..m : f[i] = held[order[i]][q] /\ f[i] \in Int
        BY <1>6, <1>9, <1>10, <2>1, <2>3
  <2>5. IsFiniteSet(1..m)
    <3>1. 1 \in Int /\ m \in Int
          BY <1>8
    <3> QED BY ONLY <3>1, FS_Interval
  <2>6. PICK R : R = {f[i] : i \in 1..m}
        OBVIOUS
  <2>7. Max(R) \in R /\ \A r \in R : Max(R) >= r
    <3>1. \E i \in 1..m : \A j \in 1..m : f[i] >= f[j]
          BY <2>1, <2>4, <2>5, LargestOf
    <3>2. \E r \in R : \A s \in R : r >= s
          BY <2>6, <3>1
    <3> QED BY <3>2 DEF Max
  <2>8. Best(found, q) = Max(R)
    <3>1. {found[i][q] : i \in DOMAIN found} = R
          BY <2>1, <2>3, <2>6
    <3> QED BY <3>1 DEF Best
  <2>9. ASSUME Max(R) >= Relevance
        PROVE  \E j \in 1..Len(store) : store[j][q] >= Relevance
    <3>1. PICK i \in 1..m : Max(R) = f[i]
          BY <2>6, <2>7
    <3>2. held[order[i]][q] >= Relevance /\ order[i] \in 1..n
          BY <1>3, <1>6, <2>1, <2>4, <2>9, <3>1
    <3> QED BY <1>1, <1>3, <3>2
  <2>10. ASSUME NEW j \in 1..Len(store), store[j][q] >= Relevance
         PROVE  Max(R) >= Relevance
    <3>1. j \in I /\ held[j][q] >= Relevance
          BY <1>1, <1>3, <2>10
    <3>2. PICK l \in 1..n : order[l] = j
          BY <1>6, <3>1
    <3>3. 1 \in 1..n /\ order[1] \in I /\ held[order[1]][q] \in Int /\ held[j][q] \in Int
          BY <1>3, <1>6, <1>10, <2>1, <3>1
    <3>4. held[order[1]][q] >= held[j][q]
      <4>1. CASE l = 1
            BY <3>2, <3>3, <4>1
      <4>2. CASE l # 1
        <5>1. <<j, order[1]>> \notin less
              BY <1>6, <3>2, <3>3, <4>2
        <5>2. ~(held[j][q] > held[order[1]][q])
              BY <1>2, <3>1, <3>3, <5>1
        <5> QED BY <3>3, <5>2
      <4> QED BY <4>1, <4>2
    <3>5. f[1] >= held[j][q] /\ f[1] \in R /\ f[1] \in Int
          BY <2>1, <2>4, <2>6, <3>4
    <3>6. Max(R) >= f[1] /\ Max(R) \in Int
          BY <2>4, <2>6, <2>7, <3>5
    <3>7. \A a, b, c, d \in Int : a >= b /\ b >= c /\ c >= d => a >= d
          OBVIOUS
    <3>8. Relevance \in Int
          BY DEF Relevance
    <3> QED BY <3>1, <3>3, <3>5, <3>6, <3>7, <3>8
  <2> QED BY <1>1, <1>3, <1>12, <2>2, <2>8, <2>9, <2>10
<1> QED BY <1>11, <1>12

LEMMA ToldLater ==
  ASSUME NEW r \in RetrievalRecords, NEW held \in Seq(Memories), NEW item \in Memories,
         Told(r, held)
  PROVE  Told(r, Append(held, item))
<1>1. r.known \in Nat /\ r.known =< Len(held) /\ Len(held) \in Nat
      BY DEF RetrievalRecords, Told
<1>2. PICK more : more = Append(held, item)
      OBVIOUS
<1>3. Len(more) = Len(held) + 1 /\ \A j \in 1..Len(held) : more[j] = held[j]
      BY <1>2
<1>4. r.known =< Len(more) /\ \A j \in 1..r.known : more[j] = held[j]
      BY <1>1, <1>3
<1>5. Told(r, more)
      BY <1>4 DEF Told
<1> QED BY <1>2, <1>5

LEMMA OutcomeTold ==
  ASSUME MemoryInv, NEW q \in Queries, NEW k \in TopK,
         NEW outcome, outcome = OutcomeOf(q, Search(q, k)),
         NEW r, r = [query |-> q, top_k |-> k, known |-> Len(store), outcome |-> outcome]
  PROVE  outcome \in Outcomes /\ r \in RetrievalRecords /\ Told(r, store)
<1>1. PICK found : found = Search(q, k)
      OBVIOUS
<1>2. outcome = OutcomeOf(q, found)
      BY <1>1
<1>3. Len(store) \in Nat
      BY DEF MemoryInv
<1>4. outcome \in Outcomes /\ r \in RetrievalRecords
      BY <1>2, <1>3 DEF OutcomeOf, Outcomes, RetrievalRecords
<1>5. r.query = q /\ r.top_k = k /\ r.known = Len(store) /\ r.outcome = outcome
      OBVIOUS
<1>6. Told(r, store)
  <2>1. ASSUME k > 0
        PROVE  /\ outcome = "empty" <=> Len(store) = 0
               /\ outcome = "hit" <=> \E j \in 1..Len(store) : store[j][q] >= Relevance
    <3>1. /\ found = << >> <=> Len(store) = 0
          /\ found # << >> =>
                (Best(found, q) >= Relevance
                   <=> \E j \in 1..Len(store) : store[j][q] >= Relevance)
          BY <1>1, <2>1, SearchIs
    <3>2. CASE found = << >>
      <4>1. outcome = "empty"
            BY <1>2, <3>2 DEF OutcomeOf
      <4>2. ~ \E j \in 1..Len(store) : TRUE
            BY <3>1, <3>2
      <4> QED BY <3>1, <3>2, <4>1, <4>2
    <3>3. CASE found # << >>
      <4>1. outcome = IF Best(found, q) >= Relevance
                      THEN "hit" ELSE "miss"
            BY <1>2, <3>3 DEF OutcomeOf, Best
      <4> QED BY <3>1, <3>3, <4>1
    <3> QED BY <3>2, <3>3
  <2> QED BY <1>3, <1>5, <2>1 DEF Told
<1> QED BY <1>4, <1>6

(* What is dropped, by kind; of the first calls no more than of all.       *)
DropRecords == [kind : STRING, count : Nat]

LEMMA DropsAre == Drops \subseteq Seq(DropRecords)
BY MemoryOK DEF DropRecords

CountsIn(d) == [i \in DOMAIN d |-> d[i].count]
PlacesOf(d, k) == {i \in DOMAIN d : d[i].kind = k}

LEMMA PlacesFacts ==
  ASSUME NEW d \in Seq(DropRecords), NEW k
  PROVE  /\ IsFiniteSet(PlacesOf(d, k)) /\ PlacesOf(d, k) \subseteq 1..Len(d)
         /\ \A i \in PlacesOf(d, k) : CountsIn(d)[i] = d[i].count /\ d[i].count \in Nat
         /\ DroppedOf(d, k) = SumFunctionOnSet(CountsIn(d), PlacesOf(d, k))
         /\ DroppedOf(d, k) \in Nat
<1>1. PICK n \in Nat : n = Len(d) /\ DOMAIN d = 1..n
      OBVIOUS
<1>2. IsFiniteSet(1..n)
  <2>1. 1 \in Int /\ n \in Int
        BY <1>1
  <2> QED BY ONLY <2>1, FS_Interval
<1>3. PlacesOf(d, k) \in SUBSET (1..n)
      BY <1>1 DEF PlacesOf
<1>4. IsFiniteSet(PlacesOf(d, k))
      BY <1>2, <1>3, FS_Subset
<1>5. ASSUME NEW i \in PlacesOf(d, k)
      PROVE  CountsIn(d)[i] = d[i].count /\ d[i].count \in Nat
  <2>1. i \in DOMAIN d
        BY DEF PlacesOf
  <2>2. PICK r \in DropRecords : r = d[i]
        BY <2>1
  <2>3. r.count \in Nat
        BY DEF DropRecords
  <2> QED BY <2>1, <2>2, <2>3 DEF CountsIn
<1>6. DroppedOf(d, k) = SumFunctionOnSet(CountsIn(d), PlacesOf(d, k))
      BY DEF DroppedOf, CountsIn, PlacesOf
<1>7. PICK f, T : f = CountsIn(d) /\ T = PlacesOf(d, k)
      OBVIOUS
<1>8. SumFunctionOnSet(f, T) \in Nat
      BY <1>4, <1>5, <1>7, SumOfNat
<1> QED BY <1>1, <1>3, <1>4, <1>5, <1>6, <1>7, <1>8

LEMMA FirstDrops ==
  ASSUME NEW d \in Seq(DropRecords), NEW m \in 0..Len(d), NEW c, c = SubSeq(d, 1, m), NEW k
  PROVE  /\ c \in Seq(DropRecords)
         /\ DroppedOf(c, k) =< DroppedOf(d, k)
<1>1. Len(d) \in Nat /\ m \in Nat /\ m =< Len(d) /\ DOMAIN d = 1..Len(d)
      OBVIOUS
<1>2. c \in Seq(DropRecords) /\ DOMAIN c = 1..m /\ \A i \in 1..m : c[i] = d[i] /\ i \in DOMAIN d
      BY <1>1
<1>3. PICK S, T, f, g : /\ S = PlacesOf(c, k) /\ T = PlacesOf(d, k)
                        /\ f = CountsIn(c) /\ g = CountsIn(d)
      OBVIOUS
<1>4. S \subseteq T
      BY <1>2, <1>3 DEF PlacesOf
<1>5. PICK R : R = T \ S
      OBVIOUS
<1>6. /\ IsFiniteSet(T) /\ IsFiniteSet(S) /\ IsFiniteSet(R)
      /\ \A i \in T : g[i] \in Nat
      /\ DroppedOf(c, k) = SumFunctionOnSet(f, S)
      /\ DroppedOf(d, k) = SumFunctionOnSet(g, T)
  <2>1. /\ IsFiniteSet(T) /\ \A i \in T : g[i] \in Nat
        /\ DroppedOf(d, k) = SumFunctionOnSet(g, T)
        BY <1>3, PlacesFacts
  <2>2. IsFiniteSet(S) /\ DroppedOf(c, k) = SumFunctionOnSet(f, S)
        BY <1>2, <1>3, PlacesFacts
  <2> QED BY <1>5, <2>1, <2>2, FS_Difference
<1>7. SumFunctionOnSet(f, S) = SumFunctionOnSet(g, S)
  <2>1. Agree(f, g, S)
        BY <1>2, <1>3 DEF Agree, CountsIn, PlacesOf
  <2> QED BY <1>6, <2>1, SumSame
<1>8. SumFunctionOnSet(g, S \cup R) = SumFunctionOnSet(g, S) + SumFunctionOnSet(g, R)
  <2>1. S \cap R = {} /\ IntOn(g, S \cup R)
        BY <1>4, <1>5, <1>6 DEF IntOn
  <2> QED BY <1>6, <2>1, SumOfUnion
<1>9. SumFunctionOnSet(g, R) \in Nat /\ SumFunctionOnSet(g, S) \in Nat
      BY <1>4, <1>5, <1>6, SumOfNat
<1>10. S \cup R = T
       BY <1>4, <1>5
<1>11. PICK a, b \in Nat : a = SumFunctionOnSet(g, S) /\ b = SumFunctionOnSet(g, R)
       BY <1>9
<1>12. SumFunctionOnSet(g, T) = a + b
       BY <1>8, <1>10, <1>11
<1>13. a =< a + b
       OBVIOUS
<1> QED BY <1>2, <1>6, <1>7, <1>11, <1>12, <1>13

LEMMA AddDropsIs ==
  ASSUME NEW counts \in KindCounts, NEW d \in Seq(DropRecords)
  PROVE  /\ AddDrops(counts, d) \in KindCounts
         /\ \A k \in DroppableKinds : AddDrops(counts, d)[k] = counts[k] + DroppedOf(d, k)
<1>1. \A k \in DroppableKinds : counts[k] \in Int /\ DroppedOf(d, k) \in Nat
      BY PlacesFacts DEF KindCounts
<1>2. \A k \in DroppableKinds : counts[k] + DroppedOf(d, k) \in Int
      BY <1>1
<1> QED BY <1>2 DEF AddDrops, KindCounts

-----------------------------------------------------------------------------
LEMMA MemoryInitInv == MemoryInit => MemoryInv
<1> SUFFICES ASSUME MemoryInit PROVE MemoryInv
    OBVIOUS
<1>1. NoDrops \in KindCounts /\ Between(NoDrops, NoDrops, NoDrops)
      BY DEF NoDrops, KindCounts, Between
<1>2. store = << >> /\ retrievals = << >> /\ Len(retrievals) = 0
      BY DEF MemoryInit
<1>3. store \in Seq(Memories) /\ retrievals \in Seq(RetrievalRecords) /\ DOMAIN retrievals = {}
      BY <1>2
<1>4. /\ retrieved \in [Outcomes -> Nat]
      /\ retrieved["empty"] + retrieved["miss"] + retrieved["hit"] = 0
      BY DEF MemoryInit, Outcomes
<1>5. /\ offered \in [{"returned", "raised"} -> [calls : Nat, drops : KindCounts]]
      /\ offered["returned"].calls = 0 /\ offered["raised"].calls = 0
      /\ offered["returned"].drops = NoDrops /\ offered["raised"].drops = NoDrops
      BY <1>1 DEF MemoryInit
<1>6. utilizations = 0 /\ truncations = NoDrops
      BY DEF MemoryInit
<1> QED BY <1>1, <1>2, <1>3, <1>4, <1>5, <1>6 DEF MemoryInv

LEMMA AddItemInv ==
  ASSUME MemoryInv, NEW item \in Memories, AddItem(item)
  PROVE  MemoryInv'
<1>1. /\ store' = Append(store, item)
      /\ UNCHANGED <<retrieved, retrievals, utilizations, truncations, offered>>
      BY DEF AddItem
<1>2. store' \in Seq(Memories)
      BY <1>1 DEF MemoryInv
<1>3. \A i \in DOMAIN retrievals' : Told(retrievals'[i], store')
  <2> SUFFICES ASSUME NEW i \in DOMAIN retrievals PROVE Told(retrievals[i], Append(store, item))
      BY <1>1
  <2>1. PICK r \in RetrievalRecords : r = retrievals[i] /\ Told(r, store)
        BY DEF MemoryInv
  <2>2. PICK held \in Seq(Memories) : held = store
        BY DEF MemoryInv
  <2>3. Told(r, Append(held, item))
        BY <2>1, <2>2, ToldLater
  <2> QED BY <2>1, <2>2, <2>3
<1> QED BY <1>1, <1>2, <1>3 DEF MemoryInv

LEMMA RetrievalInv ==
  ASSUME MemoryInv, NEW q \in Queries, NEW k \in TopK, RecordMemoryRetrieval(q, k)
  PROVE  MemoryInv'
<1>1. PICK outcome : outcome = OutcomeOf(q, Search(q, k))
      OBVIOUS
<1>2. PICK r : r = [query |-> q, top_k |-> k, known |-> Len(store), outcome |-> outcome]
      OBVIOUS
<1>3. /\ retrieved' = [retrieved EXCEPT ![outcome] = @ + 1]
      /\ retrievals' = Append(retrievals, r)
      /\ UNCHANGED <<store, utilizations, truncations, offered>>
      BY <1>1, <1>2 DEF RecordMemoryRetrieval
<1>4. outcome \in Outcomes /\ r \in RetrievalRecords /\ Told(r, store)
      BY <1>1, <1>2, OutcomeTold
<1>5. /\ retrievals' \in Seq(RetrievalRecords)
      /\ Len(retrievals') = Len(retrievals) + 1
      /\ \A i \in DOMAIN retrievals' : Told(retrievals'[i], store')
  <2>1. PICK told \in Seq(RetrievalRecords) :
          told = retrievals /\ \A i \in DOMAIN told : Told(told[i], store)
        BY DEF MemoryInv
  <2>2. PICK more : more = Append(told, r)
        OBVIOUS
  <2>3. more \in Seq(RetrievalRecords) /\ Len(more) = Len(told) + 1
        BY <1>4, <2>2
  <2>4. \A i \in DOMAIN more : (i \in DOMAIN told /\ more[i] = told[i]) \/ more[i] = r
        BY <1>4, <2>2
  <2>5. \A i \in DOMAIN more : Told(more[i], store)
        BY <1>4, <2>1, <2>4
  <2> QED BY <1>3, <2>1, <2>2, <2>3, <2>5
<1>6. /\ retrieved' \in [Outcomes -> Nat]
      /\ retrieved'["empty"] + retrieved'["miss"] + retrieved'["hit"]
           = retrieved["empty"] + retrieved["miss"] + retrieved["hit"] + 1
  <2>1. PICK f \in [Outcomes -> Nat] : f = retrieved
        BY DEF MemoryInv
  <2>2. PICK g : g = [f EXCEPT ![outcome] = @ + 1]
        OBVIOUS
  <2>3. /\ f["empty"] \in Nat /\ f["miss"] \in Nat /\ f["hit"] \in Nat
        /\ f[outcome] + 1 \in Nat
        BY <1>4 DEF Outcomes
  <2>4. g \in [Outcomes -> Nat]
        BY <1>4, <2>2, <2>3
  <2>5. g["empty"] + g["miss"] + g["hit"] = f["empty"] + f["miss"] + f["hit"] + 1
    <3>1. CASE outcome = "empty"
          BY <2>2, <2>3, <3>1 DEF Outcomes
    <3>2. CASE outcome = "miss"
          BY <2>2, <2>3, <3>2 DEF Outcomes
    <3>3. CASE outcome = "hit"
          BY <2>2, <2>3, <3>3 DEF Outcomes
    <3> QED BY <1>4, <3>1, <3>2, <3>3 DEF Outcomes
  <2> QED BY <1>3, <2>1, <2>2, <2>4, <2>5
<1>7. /\ retrieved["empty"] + retrieved["miss"] + retrieved["hit"] = Len(retrievals)
      /\ Len(retrievals) \in Nat
      BY DEF MemoryInv
<1>8. retrieved'["empty"] + retrieved'["miss"] + retrieved'["hit"] = Len(retrievals')
      BY <1>5, <1>6, <1>7
<1> QED BY <1>3, <1>5, <1>6, <1>8 DEF MemoryInv

(* Once more: a call that returned, or one that raised.                    *)
LEMMA ContextInv ==
  ASSUME MemoryInv, NEW d \in Drops, RecordContext(d)
  PROVE  MemoryInv'
<1>1. PICK unknown : unknown = {i \in DOMAIN d : d[i].kind \notin DroppableKinds}
      OBVIOUS
<1>2. PICK c : c = IF unknown = {} THEN d ELSE SubSeq(d, 1, Min(unknown) - 1)
      OBVIOUS
<1>3. PICK end : end = IF unknown = {} THEN "returned" ELSE "raised"
      OBVIOUS
<1>4. /\ utilizations' = utilizations + 1
      /\ truncations' = AddDrops(truncations, c)
      /\ offered' = [offered EXCEPT ![end] = [calls |-> @.calls + 1, drops |-> AddDrops(@.drops, d)]]
      /\ UNCHANGED <<store, retrieved, retrievals>>
      BY <1>1, <1>2, <1>3 DEF RecordContext
<1>5. d \in Seq(DropRecords)
      BY DropsAre
<1>6. /\ c \in Seq(DropRecords)
      /\ \A k : DroppedOf(c, k) =< DroppedOf(d, k) /\ DroppedOf(c, k) \in Nat
                /\ DroppedOf(d, k) \in Nat
      /\ end = "returned" => c = d
      /\ end \in {"returned", "raised"}
  <2>1. CASE unknown = {}
    <3>1. c = d
          BY <1>2, <2>1
    <3>2. \A k : DroppedOf(d, k) \in Nat
          BY <1>5, PlacesFacts
    <3>3. \A k : DroppedOf(d, k) =< DroppedOf(d, k)
          BY <3>2
    <3> QED BY <1>3, <1>5, <3>1, <3>2, <3>3
  <2>2. CASE unknown # {}
    <3>1. unknown \subseteq 1..Len(d) /\ Len(d) \in Nat
          BY <1>1, <1>5
    <3>2. unknown \subseteq Nat
          BY <3>1
    <3>3. \E n \in unknown : \A m \in unknown : n =< m
          BY <2>2, <3>2, SmallestOf
    <3>4. Min(unknown) \in unknown
          BY <3>3 DEF Min
    <3>5. PICK m : m = Min(unknown) - 1
          OBVIOUS
    <3>6. m \in 0..Len(d)
      <4>1. PICK u \in 1..Len(d) : u = Min(unknown)
            BY <3>1, <3>4
      <4> QED BY <3>1, <3>5, <4>1
    <3>7. c = SubSeq(d, 1, m)
          BY <1>2, <2>2, <3>5
    <3>8. c \in Seq(DropRecords) /\ \A k : DroppedOf(c, k) =< DroppedOf(d, k)
          BY <1>5, <3>6, <3>7, FirstDrops
    <3>9. \A k : DroppedOf(c, k) \in Nat /\ DroppedOf(d, k) \in Nat
          BY <1>5, <3>8, PlacesFacts
    <3>10. end = "raised"
          BY <1>3, <2>2
    <3> QED BY <3>8, <3>9, <3>10
  <2> QED BY <2>1, <2>2
<1> DEFINE Records == [calls : Nat, drops : KindCounts]
<1>7. PICK a, b \in Records : a = offered["returned"] /\ b = offered["raised"]
      BY DEF MemoryInv
<1>8. /\ a.calls \in Nat /\ b.calls \in Nat /\ a.drops \in KindCounts /\ b.drops \in KindCounts
      /\ truncations \in KindCounts
      /\ utilizations = a.calls + b.calls /\ utilizations \in Nat
      /\ Between(truncations, a.drops, b.drops)
      BY <1>7 DEF MemoryInv
<1>9. PICK x \in KindCounts : x = truncations
      BY <1>8
<1>10. /\ AddDrops(x, c) \in KindCounts
       /\ \A k \in DroppableKinds : AddDrops(x, c)[k] = x[k] + DroppedOf(c, k)
       BY <1>6, AddDropsIs
<1>11. PICK y : y = AddDrops(x, c)
       OBVIOUS
<1>12. \A k \in DroppableKinds : x[k] \in Int /\ a.drops[k] \in Int /\ b.drops[k] \in Int
       BY <1>8 DEF KindCounts
<1>13. CASE end = "returned"
  <2>1. PICK z : z = AddDrops(a.drops, d)
        OBVIOUS
  <2>2. z \in KindCounts /\ \A k \in DroppableKinds : z[k] = a.drops[k] + DroppedOf(d, k)
        BY <1>5, <1>8, <2>1, AddDropsIs
  <2>3. PICK e : e = [calls |-> a.calls + 1, drops |-> z]
        OBVIOUS
  <2>4. /\ offered' \in [{"returned", "raised"} -> Records]
        /\ offered'["returned"] = e /\ offered'["raised"] = b
    <3>1. offered \in [{"returned", "raised"} -> Records]
          BY DEF MemoryInv
    <3>3. offered' = [offered EXCEPT !["returned"] = e]
          BY <1>4, <1>7, <1>13, <2>1, <2>3, <3>1
    <3>4. e \in Records
          BY <1>8, <2>2, <2>3
    <3> QED BY <1>7, <3>1, <3>3, <3>4
  <2>5. Between(y, z, b.drops)
    <3> SUFFICES ASSUME NEW k \in DroppableKinds
                 PROVE  z[k] =< y[k] /\ y[k] =< z[k] + b.drops[k]
        BY DEF Between
    <3>1. PICK n \in Nat : n = DroppedOf(d, k)
          BY <1>6
    <3>2. y[k] = x[k] + n /\ z[k] = a.drops[k] + n
          BY <1>6, <1>10, <1>11, <1>13, <2>2, <3>1
    <3>3. a.drops[k] =< x[k] /\ x[k] =< a.drops[k] + b.drops[k]
          BY <1>8, <1>9 DEF Between
    <3> QED BY <1>12, <3>2, <3>3
  <2>6. e.calls = a.calls + 1 /\ e.drops = z
        BY <2>3
  <2>7. utilizations' = e.calls + b.calls /\ utilizations' \in Nat
        BY <1>4, <1>8, <2>6
  <2>8. truncations' = y /\ y \in KindCounts
        BY <1>4, <1>9, <1>10, <1>11
  <2> QED BY <1>4, <2>4, <2>5, <2>6, <2>7, <2>8 DEF MemoryInv
<1>14. CASE end = "raised"
  <2>1. PICK z : z = AddDrops(b.drops, d)
        OBVIOUS
  <2>2. z \in KindCounts /\ \A k \in DroppableKinds : z[k] = b.drops[k] + DroppedOf(d, k)
        BY <1>5, <1>8, <2>1, AddDropsIs
  <2>3. PICK e : e = [calls |-> b.calls + 1, drops |-> z]
        OBVIOUS
  <2>4. /\ offered' \in [{"returned", "raised"} -> Records]
        /\ offered'["raised"] = e /\ offered'["returned"] = a
    <3>1. offered \in [{"returned", "raised"} -> Records]
          BY DEF MemoryInv
    <3>3. offered' = [offered EXCEPT !["raised"] = e]
          BY <1>4, <1>7, <1>14, <2>1, <2>3, <3>1
    <3>4. e \in Records
          BY <1>8, <2>2, <2>3
    <3> QED BY <1>7, <3>1, <3>3, <3>4
  <2>5. Between(y, a.drops, z)
    <3> SUFFICES ASSUME NEW k \in DroppableKinds
                 PROVE  a.drops[k] =< y[k] /\ y[k] =< a.drops[k] + z[k]
        BY DEF Between
    <3>1. PICK n, m \in Nat : n = DroppedOf(d, k) /\ m = DroppedOf(c, k) /\ m =< n
          BY <1>6
    <3>2. y[k] = x[k] + m /\ z[k] = b.drops[k] + n
          BY <1>10, <1>11, <2>2, <3>1
    <3>3. a.drops[k] =< x[k] /\ x[k] =< a.drops[k] + b.drops[k]
          BY <1>8, <1>9 DEF Between
    <3> QED BY <1>12, <3>1, <3>2, <3>3
  <2>6. e.calls = b.calls + 1 /\ e.drops = z
        BY <2>3
  <2>7. utilizations' = a.calls + e.calls /\ utilizations' \in Nat
        BY <1>4, <1>8, <2>6
  <2>8. truncations' = y /\ y \in KindCounts
        BY <1>4, <1>9, <1>10, <1>11
  <2> QED BY <1>4, <2>4, <2>5, <2>6, <2>7, <2>8 DEF MemoryInv
<1> QED BY <1>6, <1>13, <1>14

LEMMA MemoryStepInv == MemoryInv /\ [MemoryNext]_memoryVars => MemoryInv'
<1> SUFFICES ASSUME MemoryInv, [MemoryNext]_memoryVars PROVE MemoryInv'
    OBVIOUS
<1>1. CASE UNCHANGED memoryVars
      BY <1>1 DEF memoryVars, MemoryInv
<1>2. ASSUME NEW item \in Memories, AddItem(item) PROVE MemoryInv'
      BY <1>2, AddItemInv
<1>3. ASSUME NEW q \in Queries, NEW k \in TopK, RecordMemoryRetrieval(q, k) PROVE MemoryInv'
      BY <1>3, RetrievalInv
<1>4. ASSUME NEW d \in Drops, RecordContext(d) PROVE MemoryInv'
      BY <1>4, ContextInv
<1> QED BY <1>1, <1>2, <1>3, <1>4 DEF MemoryNext

LEMMA RetrievalsAre == MemoryInv => RetrievalsTold
<1> SUFFICES ASSUME MemoryInv PROVE RetrievalsTold
    OBVIOUS
<1>1. \A i \in DOMAIN retrievals : retrievals[i].top_k > 0 =>
        /\ retrievals[i].outcome = "empty" <=> retrievals[i].known = 0
        /\ retrievals[i].outcome = "hit" <=>
             \E j \in 1..retrievals[i].known : store[j][retrievals[i].query] >= Relevance
      BY DEF MemoryInv, Told
<1>2. ASSUME NEW k \in DroppableKinds
      PROVE  truncations[k] - offered["returned"].drops[k] \in 0..offered["raised"].drops[k]
  <2>1. PICK a, b \in [calls : Nat, drops : KindCounts] :
          a = offered["returned"] /\ b = offered["raised"]
        BY DEF MemoryInv
  <2>2. a.drops[k] \in Int /\ b.drops[k] \in Int /\ truncations[k] \in Int
        BY <2>1 DEF MemoryInv, KindCounts
  <2>3. a.drops[k] =< truncations[k] /\ truncations[k] =< a.drops[k] + b.drops[k]
        BY <2>1 DEF MemoryInv, Between
  <2>4. truncations[k] - a.drops[k] \in 0..b.drops[k]
        BY <2>2, <2>3
  <2> QED BY <2>1, <2>4
<1>3. /\ retrieved["empty"] + retrieved["miss"] + retrieved["hit"] = Len(retrievals)
      /\ utilizations = offered["returned"].calls + offered["raised"].calls
      BY DEF MemoryInv
<1> QED BY <1>1, <1>2, <1>3 DEF RetrievalsTold

(* Whatever is stored, asked and dropped, in whatever order.               *)
THEOREM RetrievalsAreTold == MemorySpec => []RetrievalsTold
BY MemoryInitInv, MemoryStepInv, RetrievalsAre, PTL DEF MemorySpec

(* With any runs of agents beside them.                                    *)
THEOREM MetersAreTold == MetersSpec => []MetersTell
BY AgentsAreCaught, RetrievalsAreTold, PTL DEF MetersSpec, MetersTell

-----------------------------------------------------------------------------
(* The ends of the parts of a text, and what a reader makes of them.       *)
EndAfter(start, length, left) == start + Most(1, (length - start) \div left)

SplitsUpto(f, m, length, n) ==
  f = [i \in 0..m |-> IF i = 0 THEN 0 ELSE EndAfter(f[i - 1], length, n - i + 1)]

Splits(e, length, n) ==
  e = [i \in 0..n |->
         IF i = 0 THEN 0 ELSE IF i = n THEN length
         ELSE LET start == e[i - 1] IN start + Most(1, (length - start) \div (n - i + 1))]

LEMMA SplitsExist ==
  ASSUME NEW length, NEW n \in Nat \ {0}
  PROVE  \E e : Splits(e, length, n)
<1> DEFINE P == {m \in Nat : \E f : SplitsUpto(f, m, length, n)}
<1>1. 0 \in P
  <2>1. SplitsUpto([i \in 0..0 |-> 0], 0, length, n)
        BY DEF SplitsUpto
  <2> QED BY <2>1
<1>2. ASSUME NEW m \in Nat, m \in P PROVE m + 1 \in P
  <2>1. PICK f : SplitsUpto(f, m, length, n)
        BY <1>2
  <2>2. PICK last : last = EndAfter(f[m], length, n - (m + 1) + 1)
        OBVIOUS
  <2>3. PICK g : g = [i \in 0..(m + 1) |-> IF i = m + 1 THEN last ELSE f[i]]
        OBVIOUS
  <2>4. f[0] = 0 /\ \A i \in 1..m : f[i] = EndAfter(f[i - 1], length, n - i + 1)
    <3>1. \A i \in 0..m : f[i] = IF i = 0 THEN 0 ELSE EndAfter(f[i - 1], length, n - i + 1)
          BY <2>1 DEF SplitsUpto
    <3> QED BY <3>1
  <2>5. g[0] = 0 /\ \A i \in 1..(m + 1) : g[i] = EndAfter(g[i - 1], length, n - i + 1)
    <3>1. \A i \in 0..m : g[i] = f[i]
          BY <2>3
    <3>2. g[m + 1] = last /\ g[m] = f[m]
          BY <2>3
    <3>3. ASSUME NEW i \in 1..(m + 1) PROVE g[i] = EndAfter(g[i - 1], length, n - i + 1)
      <4>1. CASE i = m + 1
        <5>1. i - 1 = m
              BY <4>1
        <5> QED BY <2>2, <3>2, <4>1, <5>1
      <4>2. CASE i # m + 1
        <5>1. i \in 1..m /\ i \in 0..m /\ i - 1 \in 0..m
              BY <4>2
        <5> QED BY <2>4, <3>1, <5>1
      <4> QED BY <4>1, <4>2
    <3>4. 0 \in 0..m
          OBVIOUS
    <3> QED BY <2>4, <3>1, <3>3, <3>4
  <2>6. SplitsUpto(g, m + 1, length, n)
    <3>1. \A i \in 0..(m + 1) :
            g[i] = IF i = 0 THEN 0 ELSE EndAfter(g[i - 1], length, n - i + 1)
          BY <2>5
    <3>2. g = [i \in 0..(m + 1) |-> g[i]]
          BY <2>3
    <3> QED BY <3>1, <3>2 DEF SplitsUpto
  <2> QED BY <2>6
<1>3. \A m \in Nat : m \in P
  <2> HIDE DEF P
  <2> QED BY <1>1, <1>2, NatSteps
<1>4. PICK f : SplitsUpto(f, n - 1, length, n)
  <2>1. n - 1 \in P
        BY <1>3
  <2> QED BY <2>1
<1>5. PICK e : e = [i \in 0..n |-> IF i = n THEN length ELSE f[i]]
      OBVIOUS
<1>6. \A i \in 0..(n - 1) : e[i] = f[i]
      BY <1>5
<1>7. \A i \in 0..(n - 1) : f[i] = IF i = 0 THEN 0 ELSE EndAfter(f[i - 1], length, n - i + 1)
      BY <1>4 DEF SplitsUpto
<1>8. ASSUME NEW i \in 0..n
      PROVE  e[i] = IF i = 0 THEN 0 ELSE IF i = n THEN length
                    ELSE EndAfter(e[i - 1], length, n - i + 1)
  <2>1. CASE i = n
        BY <1>5, <2>1
  <2>2. CASE i # n
    <3>1. i \in 0..(n - 1) /\ (i # 0 => i - 1 \in 0..(n - 1))
          BY <2>2
    <3> QED BY <1>6, <1>7, <2>2, <3>1
  <2> QED BY <2>1, <2>2
<1>9. e = [i \in 0..n |-> e[i]]
      BY <1>5
<1>10. Splits(e, length, n)
       BY <1>8, <1>9 DEF Splits, EndAfter
<1> QED BY <1>10

(* A part is not empty, as long as there is a character for each.          *)
LEMMA WidthIs ==
  ASSUME NEW r \in Nat, NEW m \in Nat, m >= 2, r >= m
  PROVE  r \div m >= 1 /\ r \div m \in Nat /\ r - (r \div m) >= m - 1
<1>1. PICK q, s \in Nat : q = r \div m /\ s = r % m
      OBVIOUS
<1>2. r = m * q + s /\ s < m
      BY <1>1
<1>3. q >= 1
  <2>1. q = 0 => r < m
        BY <1>2
  <2> QED BY <2>1
<1>4. (m - 1) * q >= m - 1
  <2>1. \A a, b \in Nat : b >= 1 => a * b >= a
        OBVIOUS
  <2> QED BY <1>3, <2>1
<1>5. m * q - q = (m - 1) * q
      OBVIOUS
<1> QED BY <1>1, <1>2, <1>3, <1>4, <1>5

LEMMA EndsAre ==
  ASSUME NEW length \in Nat \ {0}, NEW n \in 1..length
  PROVE  /\ \A i \in 0..n : Ends(length, n)[i] \in Nat
         /\ Ends(length, n)[0] = 0 /\ Ends(length, n)[n] = length
         /\ \A i \in 1..n : Ends(length, n)[i] > Ends(length, n)[i - 1]
<1>1. PICK e : e = Ends(length, n)
      OBVIOUS
<1>2. Parts(length, n) = n
      BY DEF Parts, Most, Least
<1>3. Splits(e, length, n)
  <2>1. e = CHOOSE f : Splits(f, length, n)
        BY <1>1, <1>2 DEF Ends, Splits
  <2>2. \E f : Splits(f, length, n)
        BY SplitsExist
  <2> QED BY <2>1, <2>2
<1>4. \A i \in 0..n : e[i] = IF i = 0 THEN 0 ELSE IF i = n THEN length
                             ELSE e[i - 1] + Most(1, (length - e[i - 1]) \div (n - i + 1))
      BY <1>3 DEF Splits
<1>5. e[0] = 0 /\ e[n] = length
      BY <1>4
<1>6. ASSUME NEW i \in 1..(n - 1), e[i - 1] \in Nat, length - e[i - 1] >= n - (i - 1)
      PROVE  e[i] \in Nat /\ e[i] > e[i - 1] /\ length - e[i] >= n - i
  <2>1. PICK s, r, m \in Nat : s = e[i - 1] /\ r = length - s /\ m = n - i + 1
    <3>1. length - e[i - 1] \in Nat /\ n - i + 1 \in Nat
          BY <1>6
    <3> QED BY <1>6, <3>1
  <2>2. m >= 2 /\ r >= m
        BY <1>6, <2>1
  <2>3. PICK w \in Nat : w = r \div m /\ w >= 1 /\ r - w >= m - 1
        BY <2>2, WidthIs
  <2>4. e[i] = s + w
    <3>1. e[i] = e[i - 1] + Most(1, (length - e[i - 1]) \div (n - i + 1))
          BY <1>4
    <3>2. Most(1, w) = w
          BY <2>3 DEF Most
    <3> QED BY <2>1, <2>3, <3>1, <3>2
  <2> QED BY <2>1, <2>3, <2>4
<1> DEFINE P == {i \in Nat : i < n => e[i] \in Nat /\ length - e[i] >= n - i}
<1>7. \A i \in Nat : i \in P
  <2>1. 0 \in P
        BY <1>5
  <2>2. ASSUME NEW i \in Nat, i \in P PROVE i + 1 \in P
    <3> SUFFICES ASSUME i + 1 < n PROVE e[i + 1] \in Nat /\ length - e[i + 1] >= n - (i + 1)
        OBVIOUS
    <3>1. i + 1 \in 1..(n - 1) /\ (i + 1) - 1 = i /\ i < n
          OBVIOUS
    <3>2. e[i] \in Nat /\ length - e[i] >= n - i
          BY <2>2, <3>1
    <3> QED BY <1>6, <3>1, <3>2
  <2> HIDE DEF P
  <2> QED BY <2>1, <2>2, NatSteps
<1>8. \A i \in 0..(n - 1) : e[i] \in Nat /\ length - e[i] >= n - i
      BY <1>7
<1>9. ASSUME NEW i \in 1..n PROVE e[i] > e[i - 1]
  <2>1. i - 1 \in 0..(n - 1) /\ e[i - 1] \in Nat /\ length - e[i - 1] >= n - (i - 1)
        BY <1>8
  <2>2. CASE i = n
    <3>1. length - e[n - 1] >= 1
          BY <2>1, <2>2
    <3> QED BY <1>5, <2>1, <2>2, <3>1
  <2>3. CASE i # n
    <3>1. i \in 1..(n - 1)
          BY <2>3
    <3> QED BY <1>6, <2>1, <3>1
  <2> QED BY <2>2, <2>3
<1>10. \A i \in 0..n : e[i] \in Nat
  <2>1. \A i \in 0..n : i \in 0..(n - 1) \/ i = n
        OBVIOUS
  <2> QED BY <1>5, <1>8, <2>1
<1> QED BY <1>1, <1>5, <1>9, <1>10

(* The contents read, joined, are the text up to the last end.             *)
LEMMA JoinedIs ==
  ASSUME NEW k \in Nat, NEW e, e[0] = 0, \A i \in 0..k : e[i] \in Nat,
         NEW c, Len(c) = k, \A i \in 1..k : c[i] = e[i] - e[i - 1]
  PROVE  Joined(c) = e[k]
<1> DEFINE Adds(a) == a = [i \in 0..k |-> IF i = 0 THEN 0 ELSE a[i - 1] + c[i]]
<1>1. \E a : Adds(a)
  <2>1. PICK a : a = [i \in 0..k |-> e[i]]
        OBVIOUS
  <2>2. ASSUME NEW i \in 0..k PROVE e[i] = IF i = 0 THEN 0 ELSE a[i - 1] + c[i]
    <3>1. CASE i = 0
          BY <3>1
    <3>2. CASE i # 0
      <4>1. i \in 1..k /\ i - 1 \in 0..k
            BY <3>2
      <4>2. a[i - 1] = e[i - 1] /\ c[i] = e[i] - e[i - 1] /\ e[i] \in Nat /\ e[i - 1] \in Nat
            BY <2>1, <4>1
      <4> QED BY <3>2, <4>2
    <3> QED BY <3>1, <3>2
  <2>3. Adds(a)
        BY <2>1, <2>2
  <2> QED BY <2>3
<1>2. PICK a : a = CHOOSE b : Adds(b)
      OBVIOUS
<1>3. Adds(a)
      BY <1>1, <1>2
<1>4. Joined(c) = a[k]
      BY <1>2 DEF Joined
<1>5. \A i \in 0..k : a[i] = IF i = 0 THEN 0 ELSE a[i - 1] + c[i]
      BY <1>3
<1> DEFINE P == {i \in Nat : i <= k => a[i] = e[i]}
<1>6. \A i \in Nat : i \in P
  <2> HIDE DEF Adds
  <2>1. 0 \in P
        BY <1>5
  <2>2. ASSUME NEW i \in Nat, i \in P PROVE i + 1 \in P
    <3> SUFFICES ASSUME i + 1 <= k PROVE a[i + 1] = e[i + 1]
        OBVIOUS
    <3>1. i + 1 \in 1..k /\ i + 1 \in 0..k /\ i \in 0..k /\ (i + 1) - 1 = i
          OBVIOUS
    <3>2. a[i + 1] = a[i] + c[i + 1] /\ a[i] = e[i]
          BY <1>5, <2>2, <3>1
    <3>3. c[i + 1] = e[i + 1] - e[i] /\ e[i] \in Nat /\ e[i + 1] \in Nat
          BY <3>1
    <3> QED BY <3>2, <3>3
  <2> HIDE DEF P
  <2> QED BY <2>1, <2>2, NatSteps
<1>7. k \in P
      BY <1>6
<1> QED BY <1>4, <1>7

(* The state                                                               *)
LEMMA TextIs ==
  ASSUME failure_mode \in FailureModes, NEW given \in Contexts
  PROVE  TextLength(given) \in Nat \ {0}
<1>1. \A m \in DOMAIN ScriptedLength : ScriptedLength[m] \in Nat \ {0}
      BY DEF ScriptedLength
<1>2. given \in Nat
      BY ProviderOK
<1> QED BY <1>1, <1>2 DEF TextLength

StreamRecords == [text : Nat, next : Nat, prompt : Prompts, parts : Nat, clock : Nat]

ReaderRecords == [first : Nat, now : Nat, contents : Seq(Nat), usage : Nat]

(* What a reader holds who has read so much of a stream.                   *)
StreamHolds(st, rd) ==
  /\ st \in StreamRecords /\ rd \in ReaderRecords
  /\ st.text > 0 /\ st.parts \in 1..st.text /\ st.next \in 0..(st.parts + 1)
  /\ Len(rd.contents) = (IF st.next = 0 THEN 0 ELSE st.next - 1)
  /\ \A i \in 1..Len(rd.contents) :
       rd.contents[i] = Ends(st.text, st.parts)[i] - Ends(st.text, st.parts)[i - 1]
  /\ st.next >= 2 => rd.first >= Latency /\ st.clock = rd.first + (st.next - 2) * Latency

MeasuredHolds(m) ==
  /\ m.answer = m.text
  /\ m.output_tokens = m.received
  /\ m.window = m.output_tokens * Latency
  /\ m.total = m.ttft + m.window
  /\ m.ttft >= Latency

Answered(r) ==
  \E prompt \in Prompts, given \in Contexts, max_tokens \in MaxTokens :
    r = [prompt |-> prompt, context |-> given, max_tokens |-> max_tokens,
         reply |-> Reply(prompt, given, max_tokens)]

ProviderInv ==
  /\ failure_mode \in FailureModes
  /\ DOMAIN replies = 1..Len(replies) /\ Len(replies) \in Nat
  /\ \A i \in DOMAIN replies : Answered(replies[i])
  /\ stream # << >> => StreamHolds(stream, reader)
  /\ measured # << >> => MeasuredHolds(measured)

LEMMA AnswersStay ==
  ASSUME UNCHANGED failure_mode, NEW r
  PROVE  Answered(r)' <=> Answered(r)
<1>1. \A p, c, m : Reply(p, c, m)' = Reply(p, c, m)
      BY DEF Reply, ResponseId, DrawsOfText, TextLength
<1> QED BY <1>1 DEF Answered

LEMMA ProviderInitInv == ProviderInit => ProviderInv
BY DEF ProviderInit, ProviderInv

LEMMA ChatInv ==
  ASSUME ProviderInv, NEW prompt \in Prompts, NEW given \in Contexts,
         NEW max_tokens \in MaxTokens, Chat(prompt, given, max_tokens)
  PROVE  ProviderInv'
<1>1. UNCHANGED <<failure_mode, stream, reader, measured>>
      BY DEF Chat
<1>2. PICK r : r = [prompt |-> prompt, context |-> given, max_tokens |-> max_tokens,
                    reply |-> Reply(prompt, given, max_tokens)]
      OBVIOUS
<1>3. Answered(r)
      BY <1>2 DEF Answered
<1>4. replies' = replies \/ replies' = Append(replies, r)
      BY <1>2 DEF Chat
<1>5. PICK n \in Nat : n = Len(replies) /\ DOMAIN replies = 1..n
      BY DEF ProviderInv
<1>6. ASSUME replies' = Append(replies, r)
      PROVE  /\ DOMAIN replies' = 1..Len(replies') /\ Len(replies') = n + 1
             /\ replies'[n + 1] = r /\ \A i \in 1..n : replies'[i] = replies[i]
      BY <1>5, <1>6
<1>7. DOMAIN replies' = 1..Len(replies') /\ Len(replies') \in Nat
      BY <1>4, <1>5, <1>6
<1>8. ASSUME NEW i \in DOMAIN replies' PROVE Answered(replies'[i])
  <2>1. CASE replies' = replies
        BY <2>1 DEF ProviderInv
  <2>2. CASE replies' = Append(replies, r)
    <3>1. i \in 1..n \/ i = n + 1
          BY <1>6, <2>2
    <3> QED BY <1>3, <1>5, <1>6, <2>2, <3>1 DEF ProviderInv
  <2> QED BY <1>4, <2>1, <2>2
<1>9. ASSUME NEW i \in DOMAIN replies' PROVE Answered(replies[i])'
  <2>1. PICK a : a = replies'[i]
        OBVIOUS
  <2>2. Answered(a)
        BY <1>8, <2>1
  <2>3. Answered(a)'
        BY <1>1, <2>2, AnswersStay
  <2> QED BY <2>1, <2>3
<1> QED BY <1>1, <1>7, <1>9 DEF ProviderInv

(* A step that leaves the replies alone.                                   *)
LEMMA ProviderInvNext ==
  ASSUME ProviderInv, UNCHANGED <<failure_mode, replies>>,
         stream' # << >> => StreamHolds(stream', reader'),
         measured' # << >> => MeasuredHolds(measured')
  PROVE  ProviderInv'
<1>1. ASSUME NEW i \in DOMAIN replies' PROVE Answered(replies[i])'
  <2>1. PICK a : a = replies[i]
        OBVIOUS
  <2>2. Answered(a)
        BY <2>1 DEF ProviderInv
  <2>3. Answered(a)'
        BY <2>2, AnswersStay
  <2> QED BY <2>1, <2>3
<1>2. failure_mode' \in FailureModes /\ DOMAIN replies' = 1..Len(replies') /\ Len(replies') \in Nat
      BY DEF ProviderInv
<1> QED BY <1>1, <1>2 DEF ProviderInv

LEMMA OpenStreamInv ==
  ASSUME ProviderInv, NEW prompt \in Prompts, NEW given \in Contexts,
         NEW max_tokens \in MaxTokens, NEW parts \in StreamTokens,
         OpenStream(prompt, given, max_tokens, parts)
  PROVE  ProviderInv'
<1>1. PICK length, n : /\ length = TextLength(given)
                       /\ n = Parts(length, Most(1, Least(max_tokens, parts)))
      OBVIOUS
<1>2. length \in Nat \ {0}
      BY <1>1, TextIs DEF ProviderInv
<1>3. n \in 1..length
  <2>1. PICK p \in Nat : p = Most(1, Least(max_tokens, parts))
    <3>1. max_tokens \in Nat /\ parts \in Nat
          BY ProviderOK
    <3> QED BY <3>1 DEF Most, Least
  <2>2. n = Most(1, Least(p, length))
        BY <1>1, <2>1 DEF Parts
  <2> QED BY <1>2, <2>2 DEF Most, Least
<1>4. PICK clock \in Nat : clock = IF failure_mode = "slow" THEN 50 ELSE 0
      OBVIOUS
<1>5. PICK st : st = [text |-> length, next |-> 0, prompt |-> prompt, parts |-> n, clock |-> clock]
      OBVIOUS
<1>6. /\ stream' = st /\ reader' = NoReader
      /\ UNCHANGED <<failure_mode, replies, measured>>
      BY <1>1, <1>4, <1>5 DEF OpenStream
<1>7. StreamHolds(st, NoReader)
  <2>1. st \in StreamRecords
        BY <1>2, <1>3, <1>5 DEF StreamRecords
  <2>2. << >> \in Seq(Nat) /\ Len(<< >>) = 0
        OBVIOUS
  <2>3. NoReader \in ReaderRecords /\ NoReader.contents = << >>
        BY <2>2 DEF NoReader, ReaderRecords
  <2>4. st.text = length /\ st.parts = n /\ st.next = 0
        BY <1>5
  <2>5. Len(NoReader.contents) = 0
        BY <2>2, <2>3
  <2>6. \A i \in 1..Len(NoReader.contents) :
          NoReader.contents[i] = Ends(st.text, st.parts)[i] - Ends(st.text, st.parts)[i - 1]
        BY <2>5
  <2> QED BY <1>2, <1>3, <2>1, <2>3, <2>4, <2>5, <2>6 DEF StreamHolds
<1> QED BY <1>6, <1>7, ProviderInvNext DEF ProviderInv

LEMMA ReadRoleInv ==
  ASSUME ProviderInv, ReadRole
  PROVE  ProviderInv'
<1>1. PICK st, rd : st = stream /\ rd = reader
      OBVIOUS
<1>2. StreamHolds(st, rd) /\ st.next = 0
      BY <1>1 DEF ReadRole, ProviderInv
<1>3. PICK st2, rd2 : st2 = [st EXCEPT !.next = 1] /\ rd2 = [rd EXCEPT !.now = st.clock]
      OBVIOUS
<1>4. /\ stream' = st2 /\ reader' = rd2 /\ UNCHANGED <<failure_mode, replies, measured>>
      BY <1>1, <1>3 DEF ReadRole
<1>5. /\ st \in StreamRecords /\ rd \in ReaderRecords
      BY <1>2 DEF StreamHolds
<1>6. /\ st2 \in StreamRecords /\ st2.next = 1 /\ st2.text = st.text /\ st2.parts = st.parts
      /\ st2.clock = st.clock
      BY <1>3, <1>5 DEF StreamRecords
<1>7. /\ rd2 \in ReaderRecords /\ rd2.contents = rd.contents
      BY <1>3, <1>5, <1>6 DEF ReaderRecords, StreamRecords
<1>8. StreamHolds(st2, rd2)
      BY <1>2, <1>6, <1>7 DEF StreamHolds
<1> QED BY <1>4, <1>8, ProviderInvNext DEF ProviderInv

LEMMA ReadContentInv ==
  ASSUME ProviderInv, ReadContent
  PROVE  ProviderInv'
<1>1. PICK st, rd : st = stream /\ rd = reader
      OBVIOUS
<1>2. PICK n, x, length : n = st.parts /\ x = st.next /\ length = st.text
      OBVIOUS
<1>3. StreamHolds(st, rd) /\ x \in 1..n
      BY <1>1, <1>2 DEF ReadContent, ProviderInv
<1>4. /\ st \in StreamRecords /\ rd \in ReaderRecords
      /\ length \in Nat \ {0} /\ n \in 1..length
      /\ Len(rd.contents) = x - 1
      BY <1>2, <1>3 DEF StreamHolds, StreamRecords
<1>5. PICK e : e = Ends(length, n)
      OBVIOUS
<1>6. /\ \A i \in 0..n : e[i] \in Nat
      /\ e[0] = 0 /\ e[n] = length /\ \A i \in 1..n : e[i] > e[i - 1]
      BY <1>4, <1>5, EndsAre
<1>7. PICK now, content \in Nat :
        now = st.clock + Latency /\ content = e[x] - e[x - 1] /\ content > 0
  <2>1. st.clock + Latency \in Nat
        BY <1>4, ProviderOK DEF StreamRecords
  <2>2. n \in Nat /\ x \in 0..n /\ x - 1 \in 0..n
        BY <1>3, <1>4
  <2>3. e[x] \in Nat /\ e[x - 1] \in Nat /\ e[x] > e[x - 1]
        BY <1>3, <1>6, <2>2
  <2>4. e[x] - e[x - 1] \in Nat /\ e[x] - e[x - 1] > 0
        BY <2>3
  <2> QED BY <2>1, <2>4
<1>8. content > 0
      BY <1>7
<1>9. PICK st2, rd2 :
        /\ st2 = [st EXCEPT !.next = @ + 1, !.clock = now]
        /\ rd2 = [rd EXCEPT !.now = now,
                    !.first = IF content > 0 /\ rd.contents = << >> THEN now ELSE @,
                    !.contents = IF content > 0 THEN Append(@, content) ELSE @]
      OBVIOUS
<1>10. /\ stream' = st2 /\ reader' = rd2 /\ UNCHANGED <<failure_mode, replies, measured>>
  <2>1. stream' = st2 /\ UNCHANGED <<failure_mode, replies, measured>>
        BY <1>1, <1>7, <1>9 DEF ReadContent
  <2>2. reader' = rd2
        BY <1>1, <1>2, <1>5, <1>7, <1>9 DEF ReadContent, FirstTokenAt
  <2> QED BY <2>1, <2>2
<1>11. /\ st2 \in StreamRecords /\ st2.next = x + 1 /\ st2.clock = now
       /\ st2.text = length /\ st2.parts = n
  <2>1. st.next + 1 = x + 1 /\ x + 1 \in Nat
        BY <1>2, <1>3, <1>4
  <2>2. st2 = [st EXCEPT !.next = x + 1, !.clock = now]
        BY <1>9, <2>1
  <2>3. st2 \in StreamRecords /\ st2.next = x + 1 /\ st2.clock = now
        BY <1>4, <2>1, <2>2 DEF StreamRecords
  <2>4. st2.text = st.text /\ st2.parts = st.parts
        BY <1>4, <2>2 DEF StreamRecords
  <2> QED BY <1>2, <2>3, <2>4
<1>12. PICK c : c = rd.contents
       OBVIOUS
<1>13. c \in Seq(Nat) /\ Len(c) = x - 1 /\ x \in Nat
       BY <1>3, <1>4, <1>12 DEF ReaderRecords
<1>14. /\ Append(c, content) \in Seq(Nat) /\ Len(Append(c, content)) = x
       /\ \A i \in 1..(x - 1) : Append(c, content)[i] = c[i]
       /\ Append(c, content)[x] = content
       BY <1>13
<1>15. c = << >> <=> x = 1
       BY <1>3, <1>13
<1>16. PICK first \in Nat : first = IF x = 1 THEN now ELSE rd.first
       BY <1>4, <1>7 DEF ReaderRecords
<1>17. rd2 = [rd EXCEPT !.now = now, !.first = first, !.contents = Append(c, content)]
       BY <1>8, <1>9, <1>12, <1>15, <1>16
<1>18. rd2 \in ReaderRecords /\ rd2.contents = Append(c, content) /\ rd2.first = first
       BY <1>4, <1>14, <1>17 DEF ReaderRecords
<1>19. ASSUME NEW i \in 1..x PROVE Append(c, content)[i] = e[i] - e[i - 1]
  <2>1. CASE i = x
        BY <1>7, <1>14, <2>1
  <2>2. CASE i # x
    <3>1. i \in 1..(x - 1)
          BY <1>13, <2>2
    <3>2. c[i] = e[i] - e[i - 1]
          BY <1>2, <1>3, <1>4, <1>5, <1>12, <3>1 DEF StreamHolds
    <3> QED BY <1>14, <3>1, <3>2
  <2> QED BY <2>1, <2>2
<1>20. first >= Latency /\ now = first + ((x + 1) - 2) * Latency
  <2>1. PICK L \in Nat : L = Latency
        BY ProviderOK
  <2>2. CASE x = 1
    <3>1. now >= L /\ first = now
          BY <1>4, <1>7, <1>16, <2>1, <2>2 DEF StreamRecords
    <3>2. ((x + 1) - 2) * L = 0
          BY <2>2
    <3> QED BY <2>1, <3>1, <3>2
  <2>3. CASE x # 1
    <3>1. x >= 2
          BY <1>3, <2>3
    <3>2. rd.first >= L /\ st.clock = rd.first + (x - 2) * L
          BY <1>2, <1>3, <2>1, <3>1 DEF StreamHolds
    <3>3. ((x + 1) - 2) * L = (x - 2) * L + L
          BY <1>13
    <3>4. PICK m \in Int : m = (x - 2) * L
          BY <1>13
    <3>5. first = rd.first /\ now = st.clock + L
          BY <1>7, <1>16, <2>1, <2>3
    <3>6. now = first + (m + L)
          BY <3>2, <3>4, <3>5
    <3> QED BY <2>1, <3>2, <3>3, <3>4, <3>5, <3>6
  <2> QED BY <2>2, <2>3
<1>21. StreamHolds(st2, rd2)
  <2>1. st2.text > 0 /\ st2.parts \in 1..st2.text /\ st2.next \in 0..(st2.parts + 1)
        BY <1>3, <1>4, <1>11
  <2>2. Len(rd2.contents) = x /\ st2.next - 1 = x /\ st2.next # 0
        BY <1>11, <1>13, <1>14, <1>18
  <2>3. \A i \in 1..Len(rd2.contents) :
          rd2.contents[i] = Ends(st2.text, st2.parts)[i] - Ends(st2.text, st2.parts)[i - 1]
        BY <1>5, <1>11, <1>18, <1>19, <2>2
  <2>4. rd2.first >= Latency /\ st2.clock = rd2.first + (st2.next - 2) * Latency
        BY <1>11, <1>18, <1>20
  <2> QED BY <1>11, <1>18, <2>1, <2>2, <2>3, <2>4 DEF StreamHolds
<1> QED BY <1>10, <1>21, ProviderInvNext DEF ProviderInv

LEMMA ReadUsageInv ==
  ASSUME ProviderInv, ReadUsage
  PROVE  ProviderInv'
<1>1. PICK st, rd : st = stream /\ rd = reader
      OBVIOUS
<1>2. PICK n, length, k, e : /\ n = st.parts /\ length = st.text /\ k = Len(rd.contents)
                             /\ e = Ends(length, n)
      OBVIOUS
<1>3. StreamHolds(st, rd) /\ st.next = n + 1
      BY <1>1, <1>2 DEF ReadUsage, ProviderInv
<1>4. /\ st \in StreamRecords /\ rd \in ReaderRecords
      /\ length \in Nat \ {0} /\ n \in 1..length /\ n \in Nat /\ n >= 1
      BY <1>2, <1>3 DEF StreamHolds, StreamRecords
<1>5. k = n
  <2>1. Len(rd.contents) = st.next - 1
        BY <1>3, <1>4 DEF StreamHolds
  <2> QED BY <1>2, <1>3, <1>4, <2>1
<1>6. Joined(rd.contents) = length
  <2>1. e[0] = 0 /\ e[n] = length /\ \A i \in 0..n : e[i] \in Nat
        BY <1>2, <1>4, EndsAre
  <2>2. \A i \in 1..n : rd.contents[i] = e[i] - e[i - 1]
        BY <1>2, <1>3, <1>5 DEF StreamHolds
  <2>3. PICK c : c = rd.contents
        OBVIOUS
  <2>4. Len(c) = n /\ \A i \in 1..n : c[i] = e[i] - e[i - 1]
        BY <1>2, <1>5, <2>2, <2>3
  <2>5. Joined(c) = e[n]
        BY <1>4, <2>1, <2>4, JoinedIs
  <2> QED BY <2>1, <2>3, <2>5
<1>7. PICK now, first, clock, L \in Nat :
        /\ L = Latency /\ clock = st.clock /\ first = rd.first /\ now = clock + L
  <2>1. Latency \in Nat /\ st.clock \in Nat /\ rd.first \in Nat
        BY <1>4, ProviderOK DEF StreamRecords, ReaderRecords
  <2> QED BY <2>1
<1>8. PICK read : read = [rd EXCEPT !.now = now, !.usage = n]
      OBVIOUS
<1>9. /\ read.contents = rd.contents /\ read.first = first /\ read.usage = n
      /\ read.now = now
      BY <1>4, <1>7, <1>8 DEF ReaderRecords
<1>10. read = [reader EXCEPT !.now = stream.clock + Latency, !.usage = stream.parts]
       BY <1>1, <1>2, <1>7, <1>8
<1>11. PICK m : m = Measurement(read, length)
       OBVIOUS
<1>12. measured' = m
  <2>1. measured' = Measurement([reader EXCEPT !.now = stream.clock + Latency,
                                              !.usage = stream.parts], stream.text)
        BY DEF ReadUsage
  <2>2. stream.text = length
        BY <1>1, <1>2
  <2> QED BY <1>10, <1>11, <2>1, <2>2
<1>13. /\ m.answer = length /\ m.text = length /\ m.ttft = first /\ m.total = now
       /\ m.output_tokens = n /\ m.window = now - first /\ m.received = n
  <2>1. /\ m.answer = Joined(read.contents) /\ m.text = length
        /\ m.ttft = read.first /\ m.total = read.now
        /\ m.output_tokens = read.usage /\ m.window = read.now - read.first
        /\ m.received = Len(read.contents)
        BY <1>11, Zenon DEF Measurement
  <2> QED BY <1>2, <1>5, <1>6, <1>9, <2>1
<1>14. first >= L /\ now - first = n * L
  <2>1. st.next >= 2
        BY <1>3, <1>4
  <2>2. first >= L /\ clock = first + (st.next - 2) * L
        BY <1>3, <1>7, <2>1 DEF StreamHolds
  <2>3. st.next - 2 = n - 1
        BY <1>3, <1>4
  <2>4. (n - 1) * L + L = n * L
        BY <1>4
  <2>5. PICK p \in Int : p = (n - 1) * L
        BY <1>4
  <2>6. clock = first + p /\ p + L = n * L
        BY <2>2, <2>3, <2>4, <2>5
  <2> QED BY <1>7, <2>2, <2>5, <2>6
<1>15. MeasuredHolds(m)
  <2>1. PICK w \in Int : w = now - first
        OBVIOUS
  <2>2. now = first + w /\ w = n * L
        BY <1>14, <2>1
  <2> QED BY <1>7, <1>13, <1>14, <2>1, <2>2 DEF MeasuredHolds
<1>16. stream' = << >> /\ UNCHANGED <<failure_mode, replies>>
       BY DEF ReadUsage
<1> QED BY <1>12, <1>15, <1>16, ProviderInvNext

LEMMA StreamFailsInv ==
  ASSUME ProviderInv, StreamFails
  PROVE  ProviderInv'
<1>1. stream' = << >> /\ UNCHANGED <<failure_mode, replies, measured>>
      BY DEF StreamFails
<1> QED BY <1>1, ProviderInvNext DEF ProviderInv

LEMMA ProviderStep == ProviderInv /\ [ProviderNext]_providerStateVars => ProviderInv'
<1> SUFFICES ASSUME ProviderInv, [ProviderNext]_providerStateVars PROVE ProviderInv'
    OBVIOUS
<1>1. CASE UNCHANGED providerStateVars
  <2>1. /\ UNCHANGED <<failure_mode, replies>>
        /\ stream' = stream /\ reader' = reader /\ measured' = measured
        BY <1>1 DEF providerStateVars
  <2> QED BY <2>1, ProviderInvNext DEF ProviderInv
<1>2. CASE ProviderNext
  <2>1. CASE StreamStep
        BY <2>1, StreamFailsInv, ReadRoleInv, ReadContentInv, ReadUsageInv DEF StreamStep
  <2>2. ASSUME NEW prompt \in Prompts, NEW given \in Contexts, NEW max_tokens \in MaxTokens,
               Chat(prompt, given, max_tokens)
                 \/ \E parts \in StreamTokens : OpenStream(prompt, given, max_tokens, parts)
        PROVE  ProviderInv'
        BY <2>2, ChatInv, OpenStreamInv
  <2> QED BY <1>2, <2>1, <2>2 DEF ProviderNext
<1> QED BY <1>1, <1>2

(* A reply that says "stop" has the tokens of the whole text.              *)
LEMMA ReplyIs ==
  ASSUME failure_mode \in FailureModes, NEW prompt \in Prompts, NEW given \in Contexts,
         NEW max_tokens \in MaxTokens, NEW r, r = Reply(prompt, given, max_tokens)
  PROVE  /\ r.finish_reason = "stop" => r.output_tokens = r.attempts * count_tokens(r.text)
         /\ r.attempts = 1 /\ r.finish_reason = "length" => count_tokens(r.text) >= max_tokens
<1>1. PICK length \in Nat \ {0} : length = TextLength(given)
      BY TextIs
<1>2. PICK c \in Nat : c = count_tokens(length)
  <2>1. (length + 3) \div 4 \in Nat
        OBVIOUS
  <2> QED BY <2>1 DEF count_tokens, Most
<1>3. PICK a \in {1, 2} : a = Attempts(prompt)
      BY DEF Attempts
<1>4. PICK m \in Nat : m = max_tokens
      BY ProviderOK
<1>5. PICK once, out \in Nat : once = Least(m, c) /\ out = once * a
      BY <1>2, <1>3, <1>4 DEF Least
<1>6. /\ r.output_tokens = out /\ r.attempts = a /\ r.text = length
      /\ r.finish_reason = IF out >= m THEN "length" ELSE "stop"
      BY <1>1, <1>2, <1>3, <1>4, <1>5 DEF Reply
<1>7. ASSUME r.finish_reason = "stop" PROVE out = a * c
  <2>1. ~(out >= m)
        BY <1>6, <1>7
  <2>2. once < m
    <3>1. out >= once
          BY <1>3, <1>5
    <3> QED BY <2>1, <3>1
  <2>3. once = c
        BY <1>5, <2>2 DEF Least
  <2> QED BY <1>3, <1>5, <2>3
<1>8. ASSUME a = 1, r.finish_reason = "length" PROVE c >= m
  <2>1. out >= m /\ out = once
        BY <1>5, <1>6, <1>8
  <2> QED BY <1>5, <2>1 DEF Least
<1> QED BY <1>2, <1>4, <1>6, <1>7, <1>8

LEMMA RepliesAreReplayed == ProviderInv => RepliesReplay
<1> SUFFICES ASSUME ProviderInv PROVE RepliesReplay
    OBVIOUS
<1>1. ASSUME NEW i \in DOMAIN replies, NEW j \in DOMAIN replies,
             [replies[i] EXCEPT !.reply = 0] = [replies[j] EXCEPT !.reply = 0]
      PROVE  replies[i].reply = replies[j].reply
  <2>1. PICK r, s : r = replies[i] /\ s = replies[j]
        OBVIOUS
  <2>2. Answered(r) /\ Answered(s)
        BY <2>1 DEF ProviderInv
  <2>3. PICK p1, c1, m1 : r = [prompt |-> p1, context |-> c1, max_tokens |-> m1,
                               reply |-> Reply(p1, c1, m1)]
        BY <2>2 DEF Answered
  <2>4. PICK p2, c2, m2 : s = [prompt |-> p2, context |-> c2, max_tokens |-> m2,
                               reply |-> Reply(p2, c2, m2)]
        BY <2>2 DEF Answered
  <2>5. PICK a, b : a = [r EXCEPT !.reply = 0] /\ b = [s EXCEPT !.reply = 0]
        OBVIOUS
  <2>6. a.prompt = p1 /\ a.context = c1 /\ a.max_tokens = m1
        BY <2>3, <2>5
  <2>7. b.prompt = p2 /\ b.context = c2 /\ b.max_tokens = m2
        BY <2>4, <2>5
  <2>8. p1 = p2 /\ c1 = c2 /\ m1 = m2
        BY <1>1, <2>1, <2>5, <2>6, <2>7
  <2> QED BY <2>1, <2>3, <2>4, <2>8
<1>2. ASSUME NEW i \in DOMAIN replies, NEW r, r = replies[i].reply
      PROVE  /\ r.finish_reason = "stop" => r.output_tokens = r.attempts * count_tokens(r.text)
             /\ r.attempts = 1 /\ r.finish_reason = "length" =>
                  count_tokens(r.text) >= replies[i].max_tokens
  <2>1. PICK p \in Prompts, c \in Contexts, m \in MaxTokens :
          replies[i] = [prompt |-> p, context |-> c, max_tokens |-> m, reply |-> Reply(p, c, m)]
        BY DEF ProviderInv, Answered
  <2>2. r = Reply(p, c, m) /\ replies[i].max_tokens = m
        BY <1>2, <2>1
  <2>3. failure_mode \in FailureModes
        BY DEF ProviderInv
  <2> QED BY <2>2, <2>3, ReplyIs
<1> QED BY <1>1, <1>2 DEF RepliesReplay

(* mock.py: for any prompts, contexts and limits the same call gets the    *)
(* same reply, with the tokens of the text it stands for; and for any      *)
(* split, latency and order of calls measure_ttft reads the text of the    *)
(* stream and the time of its tokens.                                      *)
THEOREM ProviderIsReplayed == ProviderSpec => []ProviderReplays
<1>1. ProviderInv => StreamMeasured
      BY DEF ProviderInv, MeasuredHolds, StreamMeasured
<1>2. ProviderInv => ProviderReplays
      BY <1>1, RepliesAreReplayed DEF ProviderReplays
<1> QED BY <1>2, ProviderInitInv, ProviderStep, PTL DEF ProviderSpec
=============================================================================
