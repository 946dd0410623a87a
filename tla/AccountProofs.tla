--------------------------- MODULE AccountProofs ----------------------------
(***************************************************************************)
(* Proofs about what is counted and added up: the join of any export of    *)
(* sessions and changes (FleetJoin), the trimming of any context           *)
(* (ContextBudget), the roll-ups of any ledger (CostLedgers) and the page  *)
(* about any two of them (ValueLedger).                                    *)
(***************************************************************************)
EXTENDS FleetJoin, ContextBudget, CostLedgers, ValueLedger, CollectionProofs

(* The join.  What it has gone over so far is in per_team, each change     *)
(* once for each of its teams, each session once for its own.              *)
ChangesSeen == {j \in DOMAIN changes : j =< joined}
SessionsSeen == {i \in DOMAIN sessions : i + Len(changes) =< joined}

Worked(t) == {j \in ChangesSeen : changes[j].merged /\ t \in TeamsOf(changes[j])}
Own(t) == {i \in SessionsSeen : sessions[i].team = t}

MetricRecords ==
  [sessions : Int, cost : Int, merged : Int, reverted : Int, lost : Int, lost_cost : Int]

FleetTypeOK ==
  /\ sessions \in Seq(CodingSessions)
  /\ changes \in Seq(MergedChanges)
  /\ joined \in Int /\ joined >= -1 /\ joined =< Len(changes) + Len(sessions)
  /\ joined = -1 => per_team = << >> /\ merged_sessions = {}
  /\ per_team \in [DOMAIN per_team -> MetricRecords]

(* What a team was charged is what was gone over for it.                   *)
Charged(t) ==
  LET m == TeamMetrics(t) IN
    /\ m.merged = Cardinality(Worked(t))
    /\ m.reverted = Cardinality({j \in Worked(t) : changes[j].reverted})
    /\ m.cost = CostOf(Own(t))
    /\ m.lost_cost = CostOf({i \in Own(t) : ~Attributed(sessions[i])})

NamedSoFar ==
  \A id : id \in merged_sessions <=>
    \E j \in ChangesSeen : changes[j].merged /\ id \in Range(changes[j].session_ids)

FleetInv ==
  /\ FleetTypeOK
  /\ joined >= 0 =>
       /\ NamedSoFar
       /\ \A t : Charged(t)
       /\ \A t : t \in DOMAIN per_team <=> Worked(t) # {} \/ Own(t) # {}

LEMMA FleetFacts ==
  ASSUME FleetTypeOK
  PROVE  /\ Len(changes) \in Nat /\ DOMAIN changes = 1..Len(changes)
         /\ Len(sessions) \in Nat /\ DOMAIN sessions = 1..Len(sessions)
         /\ IsFiniteSet(DOMAIN changes) /\ IsFiniteSet(DOMAIN sessions)
         /\ \A i \in DOMAIN sessions : sessions[i].cost \in Int
<1>1. /\ Len(changes) \in Nat /\ DOMAIN changes = 1..Len(changes)
      /\ Len(sessions) \in Nat /\ DOMAIN sessions = 1..Len(sessions)
      BY DEF FleetTypeOK
<1>2. IsFiniteSet(DOMAIN changes) /\ IsFiniteSet(DOMAIN sessions)
      BY <1>1, FS_Interval
<1>3. ASSUME NEW i \in DOMAIN sessions PROVE sessions[i].cost \in Int
  <2>1. PICK S : S = CodingSessions
        OBVIOUS
  <2>2. sessions[i] \in S
        BY <1>1, <1>3, <2>1 DEF FleetTypeOK
  <2>3. sessions[i].cost \in SessionCosts
        BY <2>1, <2>2 DEF CodingSessions
  <2>4. SessionCosts \subseteq Nat
        BY FleetOK
  <2>5. \A c \in SessionCosts : c \in Int
        BY <2>4
  <2> QED BY <2>3, <2>5, Zenon
<1> QED BY <1>1, <1>2, <1>3

LEMMA TeamMetricsTyped ==
  ASSUME FleetTypeOK, NEW t
  PROVE  TeamMetrics(t) \in MetricRecords
BY DEF FleetTypeOK, TeamMetrics, NoMetrics, MetricRecords

(* Sums and counts over what was seen.                                     *)
LEMMA CostAdds ==
  ASSUME FleetTypeOK, NEW S \in SUBSET (DOMAIN sessions), NEW i \in DOMAIN sessions, i \notin S
  PROVE  CostOf(S \cup {i}) = CostOf(S) + sessions[i].cost
<1>1. PICK f : f = [k \in DOMAIN sessions |-> sessions[k].cost]
      OBVIOUS
<1>2. IsFiniteSet(S) /\ IntOn(f, S) /\ IntOn(f, S \cup {i}) /\ f[i] = sessions[i].cost
      BY <1>1, FleetFacts, FS_Subset DEF IntOn
<1>3. SumFunctionOnSet(f, S \cup {i}) = f[i] + SumFunctionOnSet(f, S)
      BY <1>2, SumAdd
<1>4. SumFunctionOnSet(f, S) \in Int /\ f[i] \in Int
      BY <1>2, SumInt, FleetFacts
<1> QED BY <1>1, <1>2, <1>3, <1>4 DEF CostOf, Over

LEMMA CostEmpty == CostOf({}) = 0
BY SumEmpty DEF CostOf, Over

LEMMA CostInt ==
  ASSUME FleetTypeOK, NEW S \in SUBSET (DOMAIN sessions)
  PROVE  CostOf(S) \in Int
<1>1. PICK f : f = [k \in DOMAIN sessions |-> sessions[k].cost]
      OBVIOUS
<1>2. IsFiniteSet(S) /\ IntOn(f, S)
      BY <1>1, FleetFacts, FS_Subset DEF IntOn
<1> QED BY <1>1, <1>2, SumInt DEF CostOf, Over

(* Before the join there is nothing to show.                               *)
LEMMA FleetInitInv == FleetInit => FleetInv
<1> SUFFICES ASSUME FleetInit PROVE FleetInv
    OBVIOUS
<1>1. sessions = << >> /\ changes = << >> /\ joined = -1 /\ merged_sessions = {} /\ per_team = << >>
      BY DEF FleetInit
<1>2. /\ sessions \in Seq(CodingSessions) /\ changes \in Seq(MergedChanges)
      /\ Len(sessions) = 0 /\ Len(changes) = 0
      BY <1>1
<1>3. per_team \in [DOMAIN per_team -> MetricRecords]
      BY <1>1
<1> QED BY <1>1, <1>2, <1>3 DEF FleetInv, FleetTypeOK

LEMMA ExportInv ==
  ASSUME FleetInv, NEW s \in CodingSessions, Export(s)
  PROVE  FleetInv'
<1>1. /\ joined = -1 /\ joined' = -1 /\ UNCHANGED <<changes, per_team, merged_sessions>>
      /\ sessions' = Append(sessions, s) /\ FleetTypeOK
      BY DEF Export, FleetInv
<1>2. sessions \in Seq(CodingSessions) /\ changes \in Seq(MergedChanges)
      BY <1>1 DEF FleetTypeOK
<1>3. sessions' \in Seq(CodingSessions) /\ Len(sessions') \in Nat
      BY ONLY <1>1, <1>2, s \in CodingSessions
<1>4. Len(changes) \in Nat
      BY <1>2
<1> QED BY <1>1, <1>2, <1>3, <1>4 DEF FleetInv, FleetTypeOK

LEMMA LandInv ==
  ASSUME FleetInv, NEW c \in MergedChanges, Land(c)
  PROVE  FleetInv'
<1>1. /\ joined = -1 /\ joined' = -1 /\ UNCHANGED <<sessions, per_team, merged_sessions>>
      /\ changes' = Append(changes, c) /\ FleetTypeOK
      BY DEF Land, FleetInv
<1>2. sessions \in Seq(CodingSessions) /\ changes \in Seq(MergedChanges)
      BY <1>1 DEF FleetTypeOK
<1>3. changes' \in Seq(MergedChanges) /\ Len(changes') \in Nat
      BY ONLY <1>1, <1>2, c \in MergedChanges
<1>4. Len(sessions) \in Nat
      BY <1>2
<1> QED BY <1>1, <1>2, <1>3, <1>4 DEF FleetInv, FleetTypeOK

LEMMA BeginJoinInv ==
  ASSUME FleetInv, BeginJoin
  PROVE  FleetInv'
<1>1. /\ joined = -1 /\ joined' = 0 /\ UNCHANGED <<sessions, changes, merged_sessions, per_team>>
      /\ FleetTypeOK /\ per_team = << >> /\ merged_sessions = {}
      BY DEF BeginJoin, FleetInv, FleetTypeOK
<1>2. FleetTypeOK'
      BY <1>1, FleetFacts DEF FleetTypeOK
<1>3. ChangesSeen' = {} /\ SessionsSeen' = {}
      BY <1>1, FleetFacts DEF ChangesSeen, SessionsSeen
<1>4. ASSUME NEW t
      PROVE  Charged(t)' /\ (t \in DOMAIN per_team' <=> Worked(t)' # {} \/ Own(t)' # {})
  <2>1. /\ Worked(t)' = {} /\ Own(t)' = {}
        /\ {j \in Worked(t)' : changes'[j].reverted} = {}
        /\ {i \in Own(t)' : ~Attributed(sessions[i])'} = {}
        BY <1>3 DEF Worked, Own
  <2>2. DOMAIN per_team' = {}
        BY <1>1
  <2>3. TeamMetrics(t)' = NoMetrics
        BY <2>2 DEF TeamMetrics
  <2>4. CostOf({})' = 0
        BY <1>1, CostEmpty DEF CostOf, Over
  <2>5. Charged(t)'
        BY <2>1, <2>3, <2>4, FS_EmptySet DEF Charged, NoMetrics
  <2> QED BY <2>1, <2>2, <2>5
<1>5. NamedSoFar'
      BY <1>1, <1>3 DEF NamedSoFar
<1> QED BY <1>2, <1>4, <1>5 DEF FleetInv

(* While the join runs nobody changes its arguments, and what is derived   *)
(* from them alone stays.                                                  *)
LEMMA ArgumentsStay ==
  ASSUME UNCHANGED <<sessions, changes>>
  PROVE  /\ \A c : TeamsOf(c)' = TeamsOf(c)
         /\ \A s : Attributed(s)' = Attributed(s)
         /\ \A S : CostOf(S)' = CostOf(S)
<1>1. \A id : Exported(id)' = Exported(id) /\ TeamOf(id)' = TeamOf(id)
      BY DEF Exported, TeamOf, SelectLastInSeq
<1>2. \A c : TeamsOf(c)' = TeamsOf(c)
      BY <1>1 DEF TeamsOf
<1>3. \A s : Attributed(s)' = Attributed(s)
      BY DEF Attributed
<1>4. \A S : CostOf(S)' = CostOf(S)
      BY DEF CostOf, Over
<1> QED BY <1>2, <1>3, <1>4

(* What one change adds to a team, and one session.                        *)
LEMMA CountedFacts ==
  ASSUME NEW m \in MetricRecords, NEW c
  PROVE  /\ Counted(m, c, 1) \in MetricRecords
         /\ Counted(m, c, 1).merged = m.merged + 1
         /\ Counted(m, c, 1).reverted = IF c.reverted THEN m.reverted + 1 ELSE m.reverted
         /\ Counted(m, c, 1).cost = m.cost
         /\ Counted(m, c, 1).lost_cost = m.lost_cost
BY DEF Counted, MetricRecords

LEMMA SpentFacts ==
  ASSUME NEW m \in MetricRecords, NEW s, s.cost \in Int
  PROVE  /\ Spent(m, s) \in MetricRecords
         /\ Spent(m, s).merged = m.merged
         /\ Spent(m, s).reverted = m.reverted
         /\ Spent(m, s).cost = m.cost + s.cost
         /\ Spent(m, s).lost_cost = IF Unattributed(s) THEN m.lost_cost + s.cost ELSE m.lost_cost
BY DEF Spent, MetricRecords

LEMMA JoinChangeInv ==
  ASSUME FleetInv, JoinChange
  PROVE  FleetInv'
<1>1. PICK n : n = joined + 1
      OBVIOUS
<1>2. /\ FleetTypeOK /\ joined >= 0 /\ joined \in Int /\ joined' = n
      /\ n \in DOMAIN changes /\ n =< Len(changes)
      /\ UNCHANGED <<sessions, changes>>
  <2>1. FleetTypeOK /\ joined \in 0..(Len(changes) - 1) /\ joined' = joined + 1
        BY DEF JoinChange, FleetInv
  <2>2. Len(changes) \in Nat /\ DOMAIN changes = 1..Len(changes)
        BY <2>1, FleetFacts
  <2>3. UNCHANGED <<sessions, changes>>
        BY DEF JoinChange
  <2>4. n \in 1..Len(changes)
        BY <1>1, <2>1, <2>2
  <2> QED BY <1>1, <2>1, <2>2, <2>3, <2>4
<1>3. PICK c : c = changes[n]
      OBVIOUS
<1>4. /\ ChangesSeen' = ChangesSeen \cup {n} /\ n \notin ChangesSeen
      /\ SessionsSeen' = {} /\ SessionsSeen = {}
      BY <1>1, <1>2, FleetFacts DEF ChangesSeen, SessionsSeen
<1>5. IsFiniteSet(ChangesSeen)
      BY <1>2, FleetFacts, FS_Subset DEF ChangesSeen
<1>6. CASE ~c.merged
  <2>1. UNCHANGED <<merged_sessions, per_team>>
        BY <1>1, <1>3, <1>6 DEF JoinChange
  <2>2. ASSUME NEW t
        PROVE  Charged(t)' /\ (t \in DOMAIN per_team' <=> Worked(t)' # {} \/ Own(t)' # {})
    <3>1. Worked(t)' = Worked(t)
          BY <1>2, <1>3, <1>4, <1>6, ArgumentsStay DEF Worked
    <3>2. Own(t)' = {} /\ Own(t) = {}
          BY <1>4 DEF Own
    <3>3. TeamMetrics(t)' = TeamMetrics(t)
          BY <2>1 DEF TeamMetrics
    <3>4. {i \in Own(t) : ~Attributed(sessions[i])}' = {i \in Own(t) : ~Attributed(sessions[i])}
          BY <3>2
    <3>5. CostOf(Own(t))' = CostOf(Own(t))
          BY <1>2, <3>2 DEF CostOf, Over
    <3>6. CostOf({i \in Own(t) : ~Attributed(sessions[i])})'
            = CostOf({i \in Own(t) : ~Attributed(sessions[i])})
          BY <1>2, <3>4 DEF CostOf, Over
    <3>7. {j \in Worked(t) : changes[j].reverted}' = {j \in Worked(t) : changes[j].reverted}
          BY <1>2, <3>1
    <3>8. Charged(t) /\ (t \in DOMAIN per_team <=> Worked(t) # {} \/ Own(t) # {})
          BY <1>2 DEF FleetInv
    <3>9. Charged(t)'
          BY <3>1, <3>3, <3>5, <3>6, <3>7, <3>8 DEF Charged
    <3> QED BY <2>1, <3>1, <3>2, <3>8, <3>9
  <2>3. FleetTypeOK'
        BY <1>1, <1>2, <2>1, FleetFacts DEF FleetTypeOK
  <2>4. NamedSoFar'
        BY <1>2, <1>3, <1>4, <1>6, <2>1 DEF FleetInv, NamedSoFar
  <2> QED BY <2>2, <2>3, <2>4 DEF FleetInv
<1>7. CASE c.merged
  <2>2. PICK T : T = TeamsOf(c)
        OBVIOUS
  <2>3. /\ per_team' = [t \in DOMAIN per_team \cup T |->
             IF t \notin T THEN per_team[t] ELSE Counted(TeamMetrics(t), c, 1)]
        /\ merged_sessions' = merged_sessions \cup Range(c.session_ids)
    <3>1. /\ per_team' = [t \in DOMAIN per_team \cup TeamsOf(c) |->
               IF t \notin TeamsOf(c) THEN per_team[t]
               ELSE Counted(TeamMetrics(t), c, Credit(c)[t])]
          /\ merged_sessions' = merged_sessions \cup Range(c.session_ids)
          BY <1>1, <1>3, <1>7 DEF JoinChange
    <3>2. \A t \in TeamsOf(c) : Credit(c)[t] = 1
          BY DEF Credit
    <3> QED BY <2>2, <3>1, <3>2
  <2>4. \A t : TeamMetrics(t) \in MetricRecords
        BY <1>2, TeamMetricsTyped
  <2>5. FleetTypeOK'
    <3>1. per_team' \in [DOMAIN per_team' -> MetricRecords]
          BY <1>2, <2>3, <2>4, CountedFacts DEF FleetTypeOK
    <3> QED BY <1>1, <1>2, <3>1, FleetFacts DEF FleetTypeOK
  <2>6. NamedSoFar'
    <3>1. NamedSoFar
          BY <1>2 DEF FleetInv
    <3> QED BY <1>2, <1>3, <1>4, <1>7, <2>3, <3>1 DEF NamedSoFar
  <2>7. ASSUME NEW t
        PROVE  Charged(t)' /\ (t \in DOMAIN per_team' <=> Worked(t)' # {} \/ Own(t)' # {})
    <3>0. Charged(t) /\ (t \in DOMAIN per_team <=> Worked(t) # {} \/ Own(t) # {})
          BY <1>2 DEF FleetInv
    <3>1. PICK m \in MetricRecords : m = TeamMetrics(t)
          BY <2>4
    <3>2. Own(t)' = {} /\ Own(t) = {}
          BY <1>4 DEF Own
    <3>3. CostOf(Own(t))' = CostOf(Own(t))
          BY <1>2, <3>2 DEF CostOf, Over
    <3>4. CostOf({i \in Own(t) : ~Attributed(sessions[i])})'
            = CostOf({i \in Own(t) : ~Attributed(sessions[i])})
      <4>1. {i \in Own(t) : ~Attributed(sessions[i])}' = {i \in Own(t) : ~Attributed(sessions[i])}
            BY <3>2
      <4> QED BY <1>2, <4>1 DEF CostOf, Over
    <3>5. PICK W : W = Worked(t)
          OBVIOUS
    <3>6. PICK R : R = {j \in W : changes[j].reverted}
          OBVIOUS
    <3>7. W \subseteq ChangesSeen /\ R \subseteq ChangesSeen /\ IsFiniteSet(W) /\ IsFiniteSet(R)
          /\ n \notin W /\ n \notin R
          BY <1>4, <1>5, <3>5, <3>6, FS_Subset DEF Worked
    <3>8. m.merged = Cardinality(W) /\ m.reverted = Cardinality(R)
          BY <3>0, <3>1, <3>5, <3>6 DEF Charged
    <3>9. CASE t \in T
      <4>1. Worked(t)' = W \cup {n}
            BY <1>2, <1>3, <1>4, <1>7, <2>2, <3>5, <3>9, ArgumentsStay DEF Worked
      <4>2. {j \in Worked(t) : changes[j].reverted}' = IF c.reverted THEN R \cup {n} ELSE R
            BY <1>2, <1>3, <3>6, <4>1
      <4>3. PICK k : k = Counted(m, c, 1)
            OBVIOUS
      <4>4. TeamMetrics(t)' = k /\ t \in DOMAIN per_team'
            BY <2>3, <3>1, <3>9, <4>3 DEF TeamMetrics
      <4>5. /\ k.merged = m.merged + 1 /\ k.reverted = IF c.reverted THEN m.reverted + 1 ELSE m.reverted
            /\ k.cost = m.cost /\ k.lost_cost = m.lost_cost
            BY <4>3, CountedFacts
      <4>6. Cardinality(W \cup {n}) = m.merged + 1
            BY <3>7, <3>8, FS_AddElement
      <4>7. Cardinality(IF c.reverted THEN R \cup {n} ELSE R)
              = IF c.reverted THEN m.reverted + 1 ELSE m.reverted
            BY <3>7, <3>8, FS_AddElement, ZenonT(30)
      <4>8. Charged(t)'
            BY <3>0, <3>1, <3>3, <3>4, <4>1, <4>2, <4>4, <4>5, <4>6, <4>7 DEF Charged
      <4> QED BY <4>1, <4>4, <4>8
    <3>10. CASE t \notin T
      <4>1. Worked(t)' = W
            BY <1>2, <1>3, <1>4, <2>2, <3>5, <3>10, ArgumentsStay DEF Worked
      <4>2. {j \in Worked(t) : changes[j].reverted}' = R
            BY <1>2, <3>6, <4>1
      <4>3. TeamMetrics(t)' = m /\ (t \in DOMAIN per_team' <=> t \in DOMAIN per_team)
            BY <2>3, <3>1, <3>10 DEF TeamMetrics
      <4>4. Charged(t)'
            BY <3>0, <3>1, <3>3, <3>4, <3>8, <4>1, <4>2, <4>3 DEF Charged
      <4> QED BY <3>0, <3>2, <3>5, <4>1, <4>3, <4>4
    <3> QED BY <3>9, <3>10
  <2> QED BY <2>5, <2>6, <2>7 DEF FleetInv
<1> QED BY <1>6, <1>7

LEMMA JoinSessionInv ==
  ASSUME FleetInv, JoinSession
  PROVE  FleetInv'
<1>1. PICK k : k = joined - Len(changes) + 1
      OBVIOUS
<1>2. /\ FleetTypeOK /\ joined >= Len(changes) /\ joined >= 0 /\ joined \in Int
      /\ joined' = joined + 1 /\ joined' =< Len(changes) + Len(sessions)
      /\ k \in DOMAIN sessions /\ k + Len(changes) = joined'
      /\ UNCHANGED <<sessions, changes, merged_sessions>>
  <2>1. /\ FleetTypeOK /\ joined \in Len(changes)..(Len(changes) + Len(sessions) - 1)
        /\ joined' = joined + 1 /\ UNCHANGED <<sessions, changes, merged_sessions>>
        BY DEF JoinSession, FleetInv
  <2>2. /\ Len(changes) \in Nat /\ Len(sessions) \in Nat
        /\ DOMAIN sessions = 1..Len(sessions)
        BY <2>1, FleetFacts
  <2> QED BY <1>1, <2>1, <2>2
<1>3. PICK s : s = sessions[k]
      OBVIOUS
<1>4. s.cost \in Int
      BY <1>2, <1>3, FleetFacts
<1>5. ChangesSeen' = DOMAIN changes /\ ChangesSeen = DOMAIN changes
      BY <1>2, FleetFacts DEF ChangesSeen
<1>6. SessionsSeen' = SessionsSeen \cup {k} /\ k \notin SessionsSeen
      BY <1>2, FleetFacts DEF SessionsSeen
<1>7. Unattributed(s) <=> ~Attributed(s)
      BY <1>2, <1>5 DEF FleetInv, NamedSoFar, Unattributed, Attributed
<1>8. per_team' = [t \in DOMAIN per_team \cup {s.team} |->
        IF t # s.team THEN per_team[t] ELSE Spent(TeamMetrics(t), s)]
      BY <1>1, <1>3 DEF JoinSession
<1>9. \A t : TeamMetrics(t) \in MetricRecords
      BY <1>2, TeamMetricsTyped
<1>10. FleetTypeOK'
  <2>1. per_team' \in [DOMAIN per_team' -> MetricRecords]
        BY <1>2, <1>4, <1>8, <1>9, SpentFacts DEF FleetTypeOK
  <2>2. Len(changes) \in Nat /\ Len(sessions) \in Nat
        BY <1>2, FleetFacts
  <2> QED BY <1>2, <2>1, <2>2 DEF FleetTypeOK
<1>11. NamedSoFar'
      BY <1>2, <1>5 DEF FleetInv, NamedSoFar
<1>12. ASSUME NEW t
       PROVE  Charged(t)' /\ (t \in DOMAIN per_team' <=> Worked(t)' # {} \/ Own(t)' # {})
  <2>0. Charged(t) /\ (t \in DOMAIN per_team <=> Worked(t) # {} \/ Own(t) # {})
        BY <1>2 DEF FleetInv
  <2>1. PICK m \in MetricRecords : m = TeamMetrics(t)
        BY <1>9
  <2>2. Worked(t)' = Worked(t)
        BY <1>2, <1>5, ArgumentsStay DEF Worked
  <2>3. {j \in Worked(t) : changes[j].reverted}' = {j \in Worked(t) : changes[j].reverted}
        BY <1>2, <2>2
  <2>4. PICK O : O = Own(t)
        OBVIOUS
  <2>5. PICK L : L = {i \in O : ~Attributed(sessions[i])}
        OBVIOUS
  <2>6. /\ O \in SUBSET (DOMAIN sessions) /\ L \in SUBSET (DOMAIN sessions)
        /\ k \notin O /\ k \notin L
        BY <1>6, <2>4, <2>5 DEF Own, SessionsSeen
  <2>7. m.cost = CostOf(O) /\ m.lost_cost = CostOf(L)
        BY <2>0, <2>1, <2>4, <2>5 DEF Charged
  <2>8. CASE t = s.team
    <3>1. Own(t)' = O \cup {k}
          BY <1>2, <1>3, <1>6, <2>4, <2>8 DEF Own
    <3>2. {i \in Own(t) : ~Attributed(sessions[i])}' = IF Attributed(s) THEN L ELSE L \cup {k}
          BY <1>2, <1>3, <2>5, <3>1, ArgumentsStay
    <3>3. PICK r : r = Spent(m, s)
          OBVIOUS
    <3>4. TeamMetrics(t)' = r /\ t \in DOMAIN per_team'
          BY <1>8, <2>1, <2>8, <3>3 DEF TeamMetrics
    <3>5. /\ r.merged = m.merged /\ r.reverted = m.reverted
          /\ r.cost = m.cost + s.cost
          /\ r.lost_cost = IF Unattributed(s) THEN m.lost_cost + s.cost ELSE m.lost_cost
          BY <1>4, <3>3, SpentFacts
    <3>6. CostOf(O \cup {k}) = CostOf(O) + s.cost /\ CostOf(L \cup {k}) = CostOf(L) + s.cost
          BY <1>2, <1>3, <2>6, CostAdds
    <3>7. CostOf(Own(t))' = r.cost
      <4>1. CostOf(Own(t))' = CostOf(O \cup {k})
            BY <1>2, <3>1 DEF CostOf, Over
      <4> QED BY <2>7, <3>5, <3>6, <4>1
    <3>8. CostOf({i \in Own(t) : ~Attributed(sessions[i])})' = r.lost_cost
      <4>1. CostOf({i \in Own(t) : ~Attributed(sessions[i])})'
              = CostOf(IF Attributed(s) THEN L ELSE L \cup {k})
            BY <1>2, <3>2 DEF CostOf, Over
      <4> QED BY <1>7, <2>7, <3>5, <3>6, <4>1
    <3>9. Charged(t)'
          BY <2>0, <2>1, <2>2, <2>3, <3>4, <3>5, <3>7, <3>8 DEF Charged
    <3> QED BY <3>1, <3>4, <3>9
  <2>9. CASE t # s.team
    <3>1. Own(t)' = O
          BY <1>2, <1>3, <1>6, <2>4, <2>9 DEF Own
    <3>2. {i \in Own(t) : ~Attributed(sessions[i])}' = L
          BY <1>2, <2>5, <3>1, ArgumentsStay
    <3>3. TeamMetrics(t)' = m /\ (t \in DOMAIN per_team' <=> t \in DOMAIN per_team)
          BY <1>8, <2>1, <2>9 DEF TeamMetrics
    <3>4. CostOf(Own(t))' = CostOf(O)
          BY <1>2, <3>1 DEF CostOf, Over
    <3>5. CostOf({i \in Own(t) : ~Attributed(sessions[i])})' = CostOf(L)
          BY <1>2, <3>2 DEF CostOf, Over
    <3>6. Charged(t)'
          BY <2>0, <2>1, <2>2, <2>3, <2>7, <3>3, <3>4, <3>5 DEF Charged
    <3> QED BY <2>0, <2>2, <2>4, <3>1, <3>3, <3>6
  <2> QED BY <2>8, <2>9
<1> QED BY <1>10, <1>11, <1>12 DEF FleetInv

LEMMA FleetStep == FleetInv /\ [FleetNext]_fleetVars => FleetInv'
<1> SUFFICES ASSUME FleetInv, [FleetNext]_fleetVars PROVE FleetInv'
    OBVIOUS
<1>1. ASSUME NEW s \in CodingSessions, Export(s) PROVE FleetInv'
      BY <1>1, ExportInv
<1>2. ASSUME NEW c \in MergedChanges, Land(c) PROVE FleetInv'
      BY <1>2, LandInv
<1>3. CASE UNCHANGED fleetVars
  <2>1. UNCHANGED <<sessions, changes, joined, merged_sessions, per_team>>
        BY <1>3 DEF fleetVars
  <2>2. ChangesSeen' = ChangesSeen /\ SessionsSeen' = SessionsSeen
        BY <2>1 DEF ChangesSeen, SessionsSeen
  <2>3. \A t : Worked(t)' = Worked(t) /\ Own(t)' = Own(t)
        BY <2>1, <2>2, ArgumentsStay DEF Worked, Own
  <2>4. \A t : {i \in Own(t) : ~Attributed(sessions[i])}' = {i \in Own(t) : ~Attributed(sessions[i])}
        BY <2>1, <2>3, ArgumentsStay
  <2>5. \A t : CostOf(Own(t))' = CostOf(Own(t))
        BY <2>1, <2>3 DEF CostOf, Over
  <2>6. \A t : CostOf({i \in Own(t) : ~Attributed(sessions[i])})'
                = CostOf({i \in Own(t) : ~Attributed(sessions[i])})
        BY <2>1, <2>4 DEF CostOf, Over
  <2>7. \A t : {j \in Worked(t) : changes[j].reverted}' = {j \in Worked(t) : changes[j].reverted}
        BY <2>1, <2>3
  <2>8. \A t : TeamMetrics(t)' = TeamMetrics(t)
        BY <2>1 DEF TeamMetrics
  <2>9. \A t : Charged(t)' <=> Charged(t)
        BY <2>3, <2>5, <2>6, <2>7, <2>8 DEF Charged
  <2>10. FleetTypeOK' <=> FleetTypeOK
        BY <2>1 DEF FleetTypeOK
  <2>11. NamedSoFar' <=> NamedSoFar
        BY <2>1, <2>2 DEF NamedSoFar
  <2> QED BY <2>1, <2>3, <2>9, <2>10, <2>11 DEF FleetInv
<1> QED BY <1>1, <1>2, <1>3, BeginJoinInv, JoinChangeInv, JoinSessionInv DEF FleetNext

(* A team that worked on a change has a session of its own.                *)
LEMMA TeamOfHasSession ==
  ASSUME FleetTypeOK, NEW id, Exported(id)
  PROVE  \E i \in DOMAIN sessions : sessions[i].team = TeamOf(id)
<1> DEFINE I == {i \in 1..Len(sessions) : sessions[i].id = id}
<1>1. /\ DOMAIN sessions = 1..Len(sessions) /\ IsFiniteSet(DOMAIN sessions)
      BY FleetFacts
<1>2. I # {} /\ IsFiniteSet(I)
      BY <1>1, FS_Subset DEF Exported
<1>3. PICK f : f = [i \in I |-> i]
      OBVIOUS
<1>4. {f[i] : i \in I} = I /\ \A i \in I : f[i] \in Int
      BY <1>1, <1>3
<1>5. Max(I) \in I
  <2>1. Max({f[i] : i \in I}) \in {f[i] : i \in I}
    <3>1. IsFiniteSet(I) /\ I # {} /\ \A i \in I : f[i] \in Int
          BY <1>2, <1>4
    <3> HIDE DEF I
    <3> QED BY ONLY <3>1, ExtremesOf
  <2> QED BY <1>4, <2>1
<1>6. TeamOf(id) = sessions[Max(I)].team
      BY <1>2 DEF TeamOf, SelectLastInSeq
<1> QED BY <1>1, <1>5, <1>6

LEMMA FleetDone ==
  ASSUME FleetInv, Finished
  PROVE  FleetReconciles
<1>1. /\ FleetTypeOK /\ joined >= 0
      /\ Len(changes) \in Nat /\ DOMAIN changes = 1..Len(changes)
      /\ Len(sessions) \in Nat /\ DOMAIN sessions = 1..Len(sessions)
      BY FleetFacts DEF FleetInv, Finished
<1>2. ChangesSeen = DOMAIN changes /\ SessionsSeen = DOMAIN sessions
      BY <1>1 DEF ChangesSeen, SessionsSeen, Finished
<1>3. ASSUME NEW t
      PROVE  /\ Own(t) = {i \in DOMAIN sessions : sessions[i].team = t}
             /\ Worked(t) = {j \in DOMAIN changes : changes[j].merged /\ t \in TeamsOf(changes[j])}
             /\ Charged(t) /\ (t \in DOMAIN per_team <=> Worked(t) # {} \/ Own(t) # {})
             /\ t \in DOMAIN per_team => TeamMetrics(t) = per_team[t]
  <2>1. Charged(t) /\ (t \in DOMAIN per_team <=> Worked(t) # {} \/ Own(t) # {})
        BY <1>1 DEF FleetInv
  <2> QED BY <1>2, <2>1 DEF Own, Worked, TeamMetrics
<1>4. ASSUME NEW t, Worked(t) # {} PROVE Own(t) # {}
  <2>1. PICK id : Exported(id) /\ t = TeamOf(id)
        BY <1>4 DEF Worked, TeamsOf
  <2> QED BY <1>1, <1>3, <2>1, TeamOfHasSession
<1>5. \A t : t \in DOMAIN per_team <=> t \in {sessions[i].team : i \in DOMAIN sessions}
      BY <1>3, <1>4
<1>6. NoSpendLost
  <2>1. ASSUME NEW t \in DOMAIN per_team
        PROVE  LET own == {i \in DOMAIN sessions : sessions[i].team = t} IN
                 /\ per_team[t].cost = CostOf(own)
                 /\ per_team[t].lost_cost = CostOf({i \in own : ~Attributed(sessions[i])})
    <3>1. TeamMetrics(t) = per_team[t] /\ Own(t) = {i \in DOMAIN sessions : sessions[i].team = t}
          BY <1>3
    <3>2. /\ per_team[t].cost = CostOf(Own(t))
          /\ per_team[t].lost_cost = CostOf({i \in Own(t) : ~Attributed(sessions[i])})
          BY <1>3, <3>1 DEF Charged
    <3> QED BY <3>1, <3>2
  <2> QED BY <1>5, <2>1 DEF NoSpendLost
<1>7. ChangesCountOncePerTeam
      BY <1>3 DEF ChangesCountOncePerTeam, Charged
<1> QED BY <1>6, <1>7 DEF FleetReconciles

(* After a join no dollar of the export is lost or counted twice and no    *)
(* change is counted twice for a team, whatever ids the export repeats,    *)
(* whichever teams a change names and however many sessions and changes    *)
(* there are (join_fleet).                                                 *)
THEOREM FleetsReconcile == FleetSpec => []FleetReconciles
<1>1. FleetInv => FleetReconciles
  <2>1. ~Finished => FleetReconciles
        BY DEF FleetReconciles, NoSpendLost, ChangesCountOncePerTeam
  <2> QED BY <2>1, FleetDone
<1> QED BY <1>1, FleetInitInv, FleetStep, PTL DEF FleetSpec

-----------------------------------------------------------------------------
(* A context.  The API counts at least a token for a word, so a count is   *)
(* never below the number of words, whoever made it.                       *)
WordSeqs == Seq(Nat \ {0})

LEMMA SumIsLarge ==
  ASSUME NEW t \in WordSeqs
  PROVE  SumFunction(t) \in Int /\ SumFunction(t) >= Len(t)
<1> DEFINE P == {T \in SUBSET (DOMAIN t) : SumFunctionOnSet(t, T) >= Cardinality(T)}
<1>1. /\ DOMAIN t = 1..Len(t) /\ Len(t) \in Nat
      /\ IsFiniteSet(DOMAIN t) /\ Cardinality(DOMAIN t) = Len(t)
  <2>1. DOMAIN t = 1..Len(t) /\ Len(t) \in Nat
        BY DEF WordSeqs
  <2>2. IsFiniteSet(1..Len(t)) /\ Cardinality(1..Len(t)) = IF 1 > Len(t) THEN 0 ELSE Len(t) - 1 + 1
        BY <2>1, FS_Interval
  <2>3. Cardinality(1..Len(t)) = Len(t)
        BY <2>1, <2>2
  <2> QED BY <2>1, <2>2, <2>3
<1>2. \A i \in DOMAIN t : t[i] \in Int /\ t[i] >= 1
      BY DEF WordSeqs
<1>3. ASSUME NEW T \in SUBSET (DOMAIN t)
      PROVE  IsFiniteSet(T) /\ Cardinality(T) \in Nat /\ IntOn(t, T)
  <2>1. IsFiniteSet(T)
        BY <1>1, FS_Subset
  <2> QED BY <1>2, <2>1, FS_CardinalityType DEF IntOn
<1>4. ASSUME NEW T \in SUBSET (DOMAIN t), \A x \in T : T \ {x} \in P
      PROVE  T \in P
  <2>1. CASE T = {}
        BY <2>1, SumEmpty, FS_EmptySet
  <2>2. CASE T # {}
    <3>1. PICK x \in T : TRUE
          BY <2>2
    <3>2. SumFunctionOnSet(t, T) = t[x] + SumFunctionOnSet(t, T \ {x})
          BY <1>3, SumRemove
    <3>3. Cardinality(T \ {x}) = Cardinality(T) - 1
          BY <1>3, FS_RemoveElement
    <3>4. SumFunctionOnSet(t, T \ {x}) >= Cardinality(T \ {x})
          BY <1>4
    <3>5. SumFunctionOnSet(t, T \ {x}) \in Int
          BY <1>3, SumInt
    <3>6. Cardinality(T) \in Nat /\ t[x] \in Int /\ t[x] >= 1
          BY <1>2, <1>3
    <3>7. SumFunctionOnSet(t, T) >= Cardinality(T)
          BY <3>2, <3>3, <3>4, <3>5, <3>6
    <3> QED BY <3>7
  <2> QED BY <2>1, <2>2
<1>5. \A T \in SUBSET (DOMAIN t) : T \in P
  <2>1. \A T \in SUBSET (DOMAIN t) : (\A x \in T : T \ {x} \in P) => T \in P
        BY <1>4
  <2> HIDE DEF P
  <2> QED BY <1>1, <2>1, SmallerFirst
<1>6. SumFunctionOnSet(t, DOMAIN t) >= Len(t)
      BY <1>1, <1>5
<1>7. SumFunctionOnSet(t, DOMAIN t) \in Int
      BY <1>1, <1>3, SumInt
<1> QED BY <1>6, <1>7 DEF SumFunction

LEMMA CountIsLarge ==
  ASSUME NEW t \in WordSeqs, NEW x \in BOOLEAN
  PROVE  CountTokens(t, x) \in Int /\ CountTokens(t, x) >= Len(t)
<1>1. Len(t) \in Nat
      BY DEF WordSeqs
<1>2. CASE x
      BY <1>2, SumIsLarge DEF CountTokens
<1>3. CASE ~x
      BY <1>1, <1>3 DEF CountTokens
<1> QED BY <1>2, <1>3

LEMMA CountOfNothing ==
  ASSUME NEW x \in BOOLEAN
  PROVE  << >> \in WordSeqs /\ CountTokens(<< >>, x) = 0
<1>1. << >> \in WordSeqs /\ Len(<< >>) = 0 /\ DOMAIN << >> = {}
      BY DEF WordSeqs
<1>2. SumFunction(<< >>) = 0
      BY <1>1, SumEmpty DEF SumFunction
<1> QED BY <1>1, <1>2 DEF CountTokens

(* Prefixes.                                                               *)
LEMMA PrefixIs ==
  ASSUME NEW s \in WordSeqs, NEW t \in WordSeqs, IsPrefix(s, t)
  PROVE  Len(s) <= Len(t) /\ s = SubSeq(t, 1, Len(s))
<1>1. SubSeq(s, 1, Len(s)) = s
      BY DEF WordSeqs
<1> QED BY <1>1 DEF IsPrefix

LEMMA PrefixItself ==
  ASSUME NEW t \in WordSeqs
  PROVE  IsPrefix(t, t) /\ IsPrefix(<< >>, t)
<1>1. Len(t) \in Nat /\ Len(<< >>) = 0 /\ SubSeq(t, 1, 0) = << >> /\ SubSeq(<< >>, 1, 0) = << >>
      BY DEF WordSeqs
<1> QED BY <1>1 DEF IsPrefix

LEMMA FrontIs ==
  ASSUME NEW s \in WordSeqs, NEW t \in WordSeqs, IsPrefix(s, t), s # << >>
  PROVE  /\ Front(s) \in WordSeqs
         /\ IsPrefix(Front(s), t)
         /\ SubSeq(t, 1, Len(Front(s)) + 1) = s
<1>1. Len(s) \in Nat /\ Len(s) >= 1 /\ Len(t) \in Nat
      BY DEF WordSeqs
<1>2. PICK n \in Nat : Len(s) = n + 1
  <2>1. Len(s) - 1 \in Nat /\ Len(s) = (Len(s) - 1) + 1
        BY <1>1
  <2> QED BY <2>1
<1>3. Front(s) = SubSeq(s, 1, n) /\ Front(s) \in WordSeqs /\ Len(Front(s)) = n
      BY <1>1, <1>2 DEF Front, WordSeqs
<1>4. Len(s) <= Len(t) /\ s = SubSeq(t, 1, Len(s))
      BY PrefixIs
<1>5. SubSeq(Front(s), 1, n) = SubSeq(t, 1, n)
  <2>1. t \in Seq(Nat \ {0}) /\ n + 1 \in 0..Len(t) /\ s = SubSeq(t, 1, n + 1)
        BY <1>1, <1>2, <1>4 DEF WordSeqs
  <2>2. SubSeq(SubSeq(t, 1, n + 1), 1, n) = SubSeq(t, 1, n)
        BY <2>1
  <2>3. SubSeq(SubSeq(s, 1, n), 1, n) = SubSeq(s, 1, n)
        BY <1>1, <1>2 DEF WordSeqs
  <2> QED BY <1>3, <2>1, <2>2, <2>3
<1> QED BY <1>1, <1>2, <1>3, <1>4, <1>5 DEF IsPrefix

(* The count a steady counter makes of a text, whenever it is asked.       *)
SteadyCount(t) == CountTokens(t, counter = "provider")

FixedCount == SteadyCount(context.system) + SteadyCount(context.question)

ContextTypeOK ==
  /\ counter \in {"local", "provider", "failing"}
  /\ context.system \in WordSeqs /\ context.question \in WordSeqs
  /\ context.history \in WordSeqs /\ context.retrieval \in WordSeqs
  /\ context.budget \in Nat

(* The invariant, of a call that is at `at' with w words left of a text    *)
(* and limit l, h and r the parts, and that reported n.                    *)
Typed(w, l, h, r) == w \in WordSeqs /\ l \in Int /\ h \in WordSeqs /\ r \in WordSeqs

TrimParts(at, w, h, r) ==
  /\ IsPrefix(r, context.retrieval)
  /\ at \in {"start", "retrieval", "trimmed", "summary", "history", "summarized"} =>
       h = context.history
  /\ at \in {"start", "retrieval"} => r = context.retrieval
  /\ at = "retrieval" => IsPrefix(w, context.retrieval)

(* With one word more of the retrieval it does not fit.                    *)
OneMore(h, r) == ~Fits(h, SubSeq(context.retrieval, 1, Len(r) + 1))

(* Why a steady counter went as far as it did.                             *)
Reasons(at, w, l, h, r) ==
  counter # "failing" =>
    /\ at = "retrieval" =>
         /\ l = context.budget - FixedCount - SteadyCount(context.history)
         /\ w # context.retrieval => OneMore(context.history, w)
    /\ at = "trimmed" =>
         /\ r # context.retrieval => OneMore(context.history, r)
         /\ r # << >> => Fits(context.history, r)
    /\ at \in {"summary", "history", "summarized", "last", "raised"} =>
         r = << >> /\ ~Fits(context.history, << >>)
    /\ at = "last" => h # context.history
    /\ at = "raised" => ~Fits(h, << >>)

Promised(at, h, r, n) ==
  at = "returned" =>
    /\ Len(context.system) + Len(context.question) + Len(h) + Len(r) <= context.budget
    /\ counter # "failing" =>
         /\ Fits(h, r) /\ n <= context.budget
         /\ r # context.retrieval /\ h = context.history => OneMore(h, r)
         /\ h # context.history => r = << >> /\ ~Fits(context.history, << >>)

Routed(m) == m = "small" => Len(context.question) < Longest

Holds(at, w, l, h, r, n, m) ==
  /\ at \in {"start", "retrieval", "trimmed", "summary", "history", "summarized", "last",
             "returned", "raised"}
  /\ Typed(w, l, h, r)
  /\ TrimParts(at, w, h, r)
  /\ Reasons(at, w, l, h, r)
  /\ Promised(at, h, r, n)
  /\ Routed(m)

ContextInv ==
  ContextTypeOK /\ Holds(callAt, words, limit, history, retrieval, reported, route)

LEMMA SteadyIs ==
  ASSUME ContextTypeOK, counter # "failing"
  PROVE  /\ \A x \in Answers : x = (counter = "provider")
         /\ \A a \in FourAnswers : a = Steady
<1>1. \A x \in Answers : x = (counter = "provider")
      BY DEF ContextTypeOK, Answers
<1>2. ASSUME NEW a \in FourAnswers PROVE a = Steady
  <2>1. \A p \in {"system", "question", "history", "retrieval"} : a[p] = (counter = "provider")
        BY <1>1 DEF FourAnswers
  <2> QED BY <2>1 DEF FourAnswers, Steady
<1> QED BY <1>1, <1>2

LEMMA SteadyTotals ==
  ASSUME NEW h, NEW r
  PROVE  /\ FixedTokens(Steady) = FixedCount
         /\ TotalTokens(h, r, Steady) = FixedCount + SteadyCount(h) + SteadyCount(r)
         /\ Fits(h, r) <=> FixedCount + SteadyCount(h) + SteadyCount(r) <= context.budget
         /\ \A p \in {"system", "question", "history", "retrieval"} :
              Steady[p] = (counter = "provider")
<1>1. \A p \in {"system", "question", "history", "retrieval"} :
        Steady[p] = (counter = "provider")
      BY DEF Steady
<1>2. /\ Steady["system"] = (counter = "provider") /\ Steady["question"] = (counter = "provider")
      /\ Steady["history"] = (counter = "provider") /\ Steady["retrieval"] = (counter = "provider")
      BY <1>1
<1>3. FixedTokens(Steady) = FixedCount
      BY <1>2 DEF FixedTokens, FixedCount, SteadyCount
<1>4. TotalTokens(h, r, Steady) = FixedCount + SteadyCount(h) + SteadyCount(r)
      BY <1>2, <1>3 DEF TotalTokens, SteadyCount
<1> QED BY <1>1, <1>3, <1>4 DEF Fits

LEMMA CountsAre ==
  ASSUME ContextTypeOK, NEW t \in WordSeqs
  PROVE  /\ SteadyCount(t) \in Int /\ SteadyCount(t) >= Len(t) /\ Len(t) \in Nat
         /\ FixedCount \in Int /\ FixedCount >= 0
<1>1. (counter = "provider") \in BOOLEAN
      OBVIOUS
<1>2. \A s \in WordSeqs : SteadyCount(s) \in Int /\ SteadyCount(s) >= Len(s) /\ Len(s) \in Nat
  <2>1. \A s \in WordSeqs : Len(s) \in Nat
        BY DEF WordSeqs
  <2> QED BY <1>1, <2>1, CountIsLarge DEF SteadyCount
<1>3. /\ SteadyCount(context.system) \in Int /\ SteadyCount(context.system) >= 0
      /\ SteadyCount(context.question) \in Int /\ SteadyCount(context.question) >= 0
  <2>1. context.system \in WordSeqs /\ context.question \in WordSeqs
        BY DEF ContextTypeOK
  <2> QED BY <1>2, <2>1
<1>4. FixedCount \in Int /\ FixedCount >= 0
      BY <1>3 DEF FixedCount
<1> QED BY <1>2, <1>4

LEMMA FourAnswersAre ==
  ASSUME ContextTypeOK, NEW a \in FourAnswers
  PROVE  \A p \in {"system", "question", "history", "retrieval"} : a[p] \in BOOLEAN
<1>1. Answers \subseteq BOOLEAN
      BY DEF Answers, ContextTypeOK
<1> QED BY <1>1 DEF FourAnswers

(* Whoever counted, a total is an integer and at least all the words.      *)
LEMMA TotalIsLarge ==
  ASSUME ContextTypeOK, NEW a \in FourAnswers, NEW h \in WordSeqs, NEW r \in WordSeqs
  PROVE  /\ TotalTokens(h, r, a) \in Int /\ FixedTokens(a) \in Int
         /\ CountTokens(h, a["history"]) \in Int /\ CountTokens(r, a["retrieval"]) \in Int
         /\ TotalTokens(h, r, a) >=
              Len(context.system) + Len(context.question) + Len(h) + Len(r)
<1>1. /\ a["system"] \in BOOLEAN /\ a["question"] \in BOOLEAN
      /\ a["history"] \in BOOLEAN /\ a["retrieval"] \in BOOLEAN
      BY FourAnswersAre
<1>2. /\ CountTokens(context.system, a["system"]) \in Int
      /\ CountTokens(context.system, a["system"]) >= Len(context.system)
      /\ CountTokens(context.question, a["question"]) \in Int
      /\ CountTokens(context.question, a["question"]) >= Len(context.question)
      BY <1>1, CountIsLarge DEF ContextTypeOK
<1>3. /\ CountTokens(h, a["history"]) \in Int
      /\ CountTokens(h, a["history"]) >= Len(h)
      /\ CountTokens(r, a["retrieval"]) \in Int
      /\ CountTokens(r, a["retrieval"]) >= Len(r)
      BY <1>1, CountIsLarge
<1>4. Len(context.system) \in Nat /\ Len(context.question) \in Nat /\ Len(h) \in Nat /\ Len(r) \in Nat
      BY DEF ContextTypeOK, WordSeqs
<1>5. PICK s, q, u, v \in Int :
        /\ s = CountTokens(context.system, a["system"])
        /\ q = CountTokens(context.question, a["question"])
        /\ u = CountTokens(h, a["history"]) /\ v = CountTokens(r, a["retrieval"])
      BY <1>2, <1>3
<1>6. FixedTokens(a) = s + q /\ TotalTokens(h, r, a) = s + q + u + v
      BY <1>5 DEF TotalTokens, FixedTokens
<1>7. /\ s >= Len(context.system) /\ q >= Len(context.question)
      /\ u >= Len(h) /\ v >= Len(r)
      BY <1>2, <1>3, <1>5
<1>8. \A a1, a2, a3, a4 \in Nat : s >= a1 /\ q >= a2 /\ u >= a3 /\ v >= a4
        => s + q + u + v >= a1 + a2 + a3 + a4
      OBVIOUS
<1>9. s + q + u + v >= Len(context.system) + Len(context.question) + Len(h) + Len(r)
      BY <1>4, <1>7, <1>8
<1>10. s + q \in Int /\ s + q + u + v \in Int
      OBVIOUS
<1> QED BY ONLY <1>3, <1>6, <1>9, <1>10

LEMMA InvImplies == ContextInv => ContextFits
<1> SUFFICES ASSUME ContextInv PROVE ContextFits
    OBVIOUS
<1>1. ReturnedFitsInWords
      BY DEF ContextInv, Holds, TrimParts, Promised, Routed, ReturnedFitsInWords
<1>2. TrimsThenSummarizes
      BY DEF ContextInv, Holds, TrimParts, Promised, Reasons, OneMore, TrimsThenSummarizes
<1> QED BY <1>1, <1>2 DEF ContextFits

(* What was asked for stays, so that an invariant of the next state is one *)
(* of the next values.                                                     *)
LEMMA HoldsNext ==
  ASSUME UNCHANGED <<counter, context>>, ContextTypeOK,
         NEW at, at = callAt', NEW w, w = words', NEW l, l = limit', NEW h, h = history',
         NEW r, r = retrieval', NEW n, n = reported', NEW m, m = route',
         Holds(at, w, l, h, r, n, m)
  PROVE  ContextInv'
<1>1. ContextTypeOK'
      BY DEF ContextTypeOK
<1>2. Typed(words, limit, history, retrieval)' /\ TrimParts(callAt, words, history, retrieval)'
      BY DEF Holds, Typed, TrimParts, IsPrefix
<1>3. Reasons(callAt, words, limit, history, retrieval)'
      BY DEF Holds, Reasons, OneMore, Fits, TotalTokens, FixedTokens, CountTokens, Steady,
             SteadyCount, FixedCount
<1>4. Promised(callAt, history, retrieval, reported)'
      BY DEF Holds, Promised, OneMore, Fits, TotalTokens, FixedTokens, CountTokens, Steady
<1>5. Routed(route)'
      BY DEF Holds, Routed
<1> QED BY <1>1, <1>2, <1>3, <1>4, <1>5 DEF ContextInv, Holds

LEMMA ContextInitInv == ContextInit => ContextInv
<1> SUFFICES ASSUME ContextInit PROVE ContextInv
    OBVIOUS
<1>1. Texts \subseteq WordSeqs
      BY ContextOK DEF WordSeqs
<1>2. /\ context.system \in WordSeqs /\ context.question \in WordSeqs
      /\ context.history \in WordSeqs /\ context.retrieval \in WordSeqs
  <2>1. PICK S : S = [system : Texts, question : Texts, history : Texts, retrieval : Texts,
                      budget : BudgetTokens]
        OBVIOUS
  <2>2. context \in S
        BY <2>1 DEF ContextInit
  <2> QED BY <1>1, <2>1, <2>2
<1>3. context.budget \in Nat
      BY ContextOK DEF ContextInit
<1>4. /\ callAt = "start" /\ words = << >> /\ limit = 0 /\ route = "none"
      /\ history = context.history /\ retrieval = context.retrieval
      /\ counter \in {"local", "provider", "failing"}
      BY DEF ContextInit
<1>5. IsPrefix(retrieval, context.retrieval)
      BY <1>2, <1>4, PrefixItself
<1>6. << >> \in WordSeqs
      BY DEF WordSeqs
<1>7. ContextTypeOK
      BY <1>2, <1>3, <1>4 DEF ContextTypeOK
<1>8. Holds(callAt, words, limit, history, retrieval, reported, route)
      BY <1>2, <1>4, <1>5, <1>6 DEF Holds, Typed, TrimParts, Reasons, Promised, Routed
<1> QED BY <1>7, <1>8 DEF ContextInv

LEMMA ReturnInv ==
  ASSUME ContextInv, NEW a \in FourAnswers, Return(a), callAt \in {"start", "trimmed", "last"}
  PROVE  ContextInv'
<1>1. PICK h, r : h = history /\ r = retrieval
      OBVIOUS
<1>2. PICK again \in FourAnswers : reported' = TotalTokens(h, r, again)
      BY <1>1 DEF Return
<1>3. PICK n : n = TotalTokens(h, r, again)
      OBVIOUS
<1>4. /\ TotalTokens(h, r, a) <= context.budget /\ callAt' = "returned" /\ reported' = n
      /\ UNCHANGED <<counter, context, words, limit, history, retrieval, route>>
      BY <1>1, <1>2, <1>3 DEF Return, fitted, trimming
<1>5. /\ ContextTypeOK /\ Holds(callAt, words, limit, h, r, reported, route)
      /\ h \in WordSeqs /\ r \in WordSeqs
      BY <1>1 DEF ContextInv, Holds, Typed
<1>6. Len(context.system) + Len(context.question) + Len(h) + Len(r) <= context.budget
  <2>1. PICK t \in Int : t = TotalTokens(h, r, a)
        BY <1>5, TotalIsLarge
  <2>2. t >= Len(context.system) + Len(context.question) + Len(h) + Len(r)
        BY <1>5, <2>1, TotalIsLarge
  <2>3. Len(context.system) \in Nat /\ Len(context.question) \in Nat /\ Len(h) \in Nat /\ Len(r) \in Nat
        BY <1>5 DEF ContextTypeOK, WordSeqs
  <2>4. context.budget \in Nat
        BY <1>5 DEF ContextTypeOK
  <2>5. \A i, j, k, m, b \in Nat : t >= i + j + k + m /\ t <= b => i + j + k + m <= b
        OBVIOUS
  <2>6. t <= context.budget
        BY <1>4, <2>1
  <2> QED BY ONLY <2>2, <2>3, <2>4, <2>5, <2>6
<1>7. ASSUME counter # "failing"
      PROVE  /\ Fits(h, r) /\ n <= context.budget
             /\ r # context.retrieval /\ h = context.history => OneMore(h, r)
             /\ h # context.history => r = << >> /\ ~Fits(context.history, << >>)
  <2>1. a = Steady /\ again = Steady
        BY <1>5, <1>7, SteadyIs
  <2>2. Fits(h, r) /\ n <= context.budget
        BY <1>3, <1>4, <2>1 DEF Fits
  <2>3. CASE callAt = "start"
        BY <1>5, <2>2, <2>3 DEF Holds, TrimParts
  <2>4. CASE callAt = "trimmed"
        BY <1>5, <1>7, <2>2, <2>4 DEF Holds, TrimParts, Reasons
  <2>5. CASE callAt = "last"
        BY <1>5, <1>7, <2>2, <2>5 DEF Holds, Reasons
  <2> QED BY <2>3, <2>4, <2>5
<1>8. Promised("returned", h, r, n)
      BY <1>6, <1>7 DEF Promised
<1>9. Holds("returned", words, limit, h, r, n, route)
      BY <1>5, <1>8 DEF Holds, TrimParts, Reasons
<1>10. PICK w, l, m : w = words /\ l = limit /\ m = route
       OBVIOUS
<1>11. Holds("returned", w, l, h, r, n, m)
       BY <1>9, <1>10
<1> QED BY <1>1, <1>4, <1>5, <1>10, <1>11, HoldsNext

LEMMA TrimRetrievalInv ==
  ASSUME ContextInv, NEW a \in FourAnswers, NEW b \in FourAnswers, callAt = "start",
         BeginTrim(retrieval, context.budget - FixedTokens(b) - CountTokens(history, b["history"]),
                   "retrieval"),
         UNCHANGED <<counter, context, fitted, reported, route>>
  PROVE  ContextInv'
<1>1. PICK h, r : h = context.history /\ r = context.retrieval
      OBVIOUS
<1>2. /\ ContextTypeOK /\ Holds("start", words, limit, history, retrieval, reported, route)
      /\ h = history /\ r = retrieval /\ h \in WordSeqs /\ r \in WordSeqs
      BY <1>1 DEF ContextInv, Holds, TrimParts, Typed
<1>3. PICK l \in Int : l = context.budget - FixedTokens(b) - CountTokens(h, b["history"])
  <2>1. FixedTokens(b) \in Int /\ CountTokens(h, b["history"]) \in Int
        BY <1>2, TotalIsLarge
  <2>2. context.budget \in Int
        BY <1>2 DEF ContextTypeOK
  <2> QED BY <2>1, <2>2
<1>4. PICK w : w = IF l <= 0 THEN << >> ELSE r
      OBVIOUS
<1>5. /\ callAt' = "retrieval" /\ limit' = l /\ words' = w
      /\ UNCHANGED <<counter, context, history, retrieval, reported, route>>
      BY <1>2, <1>3, <1>4 DEF BeginTrim, fitted
<1>6. w \in WordSeqs /\ IsPrefix(w, r) /\ IsPrefix(r, r)
      BY <1>2, <1>4, PrefixItself DEF WordSeqs
<1>7. ASSUME counter # "failing"
      PROVE  l = context.budget - FixedCount - SteadyCount(h)
  <2>1. b = Steady
        BY <1>2, <1>7, SteadyIs
  <2>2. FixedTokens(b) = FixedCount /\ b["history"] = (counter = "provider")
        BY <2>1, SteadyTotals
  <2>3. CountTokens(h, b["history"]) = SteadyCount(h)
        BY <2>2 DEF SteadyCount
  <2> QED BY <1>3, <2>2, <2>3
<1>8. ASSUME counter # "failing", w # r
      PROVE  OneMore(h, w)
  <2>1. l <= 0 /\ w = << >> /\ r # << >>
        BY <1>4, <1>8
  <2>2. PICK t : t = SubSeq(r, 1, Len(w) + 1)
        OBVIOUS
  <2>3. t \in WordSeqs /\ Len(t) >= 1
    <3>1. Len(w) = 0 /\ Len(r) \in Nat /\ Len(r) >= 1
          BY <1>2, <2>1 DEF WordSeqs
    <3>2. t = SubSeq(r, 1, 1)
          BY <2>2, <3>1
    <3> QED BY <1>2, <3>1, <3>2 DEF WordSeqs
  <2>4. /\ SteadyCount(t) \in Int /\ SteadyCount(t) >= 1
        /\ SteadyCount(h) \in Int /\ FixedCount \in Int
        BY <1>2, <2>3, CountsAre
  <2>5. context.budget \in Nat
        BY <1>2 DEF ContextTypeOK
  <2>6. FixedCount + SteadyCount(h) + SteadyCount(t) > context.budget
        BY <1>7, <1>8, <2>1, <2>4, <2>5
  <2>7. ~Fits(h, t)
        BY <2>4, <2>5, <2>6, SteadyTotals
  <2> QED BY <1>1, <2>2, <2>7 DEF OneMore
<1>9. Reasons("retrieval", w, l, h, r)
      BY <1>1, <1>7, <1>8 DEF Reasons
<1>10. PICK n, m : n = reported /\ m = route
       OBVIOUS
<1>11. Holds("retrieval", w, l, h, r, n, m)
       BY <1>1, <1>2, <1>6, <1>9, <1>10 DEF Holds, Typed, TrimParts, Promised
<1> QED BY <1>2, <1>5, <1>10, <1>11, HoldsNext

LEMMA PopWordInv ==
  ASSUME ContextInv, NEW x \in Answers, PopWord(x)
  PROVE  ContextInv'
<1>1. PICK at, w, l, h, r, n, m : /\ at = callAt /\ w = words /\ l = limit /\ h = history
                                  /\ r = retrieval /\ n = reported /\ m = route
      OBVIOUS
<1>2. /\ ContextTypeOK /\ Holds(at, w, l, h, r, n, m) /\ w \in WordSeqs
      /\ h \in WordSeqs /\ l \in Int
      BY <1>1 DEF ContextInv, Holds, Typed
<1>3. PICK v : v = Front(w)
      OBVIOUS
<1>4. /\ at \in {"retrieval", "summary", "history"}
      /\ w # << >> /\ ~(CountTokens(w, x) <= l)
      /\ words' = v
      /\ UNCHANGED <<counter, context, callAt, limit, history, retrieval, reported, route>>
      BY <1>1, <1>3 DEF PopWord, Trimmed, fitted
<1>5. v \in WordSeqs
  <2>1. IsPrefix(w, w)
        BY <1>2, PrefixItself
  <2> QED BY <1>2, <1>3, <1>4, <2>1, FrontIs
<1>6. CASE at # "retrieval"
  <2>1. Holds(at, v, l, h, r, n, m)
        BY <1>2, <1>4, <1>5, <1>6 DEF Holds, Typed, TrimParts, Reasons, Promised
  <2> QED BY <1>1, <1>2, <1>4, <2>1, HoldsNext
<1>7. CASE at = "retrieval"
  <2>1. PICK R : R = context.retrieval
        OBVIOUS
  <2>2. R \in WordSeqs /\ IsPrefix(w, R)
        BY <1>2, <1>7, <2>1 DEF Holds, TrimParts, ContextTypeOK
  <2>3. IsPrefix(v, R) /\ SubSeq(R, 1, Len(v) + 1) = w
        BY <1>2, <1>3, <1>4, <2>2, FrontIs
  <2>4. ASSUME counter # "failing" PROVE OneMore(context.history, v)
    <3>1. x = (counter = "provider")
          BY <1>2, <2>4, SteadyIs
    <3>2. l = context.budget - FixedCount - SteadyCount(context.history)
          BY <1>2, <1>7, <2>4 DEF Holds, Reasons
    <3>3. context.history \in WordSeqs /\ context.budget \in Nat
          BY <1>2 DEF ContextTypeOK
    <3>4. /\ SteadyCount(w) \in Int /\ SteadyCount(context.history) \in Int /\ FixedCount \in Int
          BY <1>2, <3>3, CountsAre
    <3>5. SteadyCount(w) > l
          BY <1>2, <1>4, <3>1, <3>4 DEF SteadyCount
    <3>6. PICK f, g, s, b \in Int : /\ f = FixedCount /\ g = SteadyCount(context.history)
                                    /\ s = SteadyCount(w) /\ b = context.budget
          BY <3>3, <3>4
    <3>7. ~(f + g + s <= b)
          BY <3>2, <3>5, <3>6
    <3>8. ~Fits(context.history, w)
          BY <3>6, <3>7, SteadyTotals
    <3> QED BY <2>1, <2>3, <3>8 DEF OneMore
  <2>5. Reasons("retrieval", v, l, h, r)
        BY <1>2, <1>7, <2>4 DEF Holds, Reasons
  <2>6. Holds(at, v, l, h, r, n, m)
        BY <1>2, <1>5, <1>7, <2>1, <2>3, <2>5 DEF Holds, Typed, TrimParts, Promised
  <2> QED BY <1>1, <1>2, <1>4, <2>6, HoldsNext
<1> QED BY <1>6, <1>7

LEMMA RetrievalTrimmedInv ==
  ASSUME ContextInv, NEW x \in Answers, RetrievalTrimmed(x)
  PROVE  ContextInv'
<1>1. PICK w, l, h, r, n, m : /\ w = words /\ l = limit /\ h = history
                              /\ r = retrieval /\ n = reported /\ m = route
      OBVIOUS
<1>2. /\ callAt = "retrieval" /\ callAt' = "trimmed" /\ retrieval' = w
      /\ w = << >> \/ CountTokens(w, x) <= l
      /\ UNCHANGED <<counter, context, words, limit, history, reported, route>>
      BY <1>1 DEF RetrievalTrimmed, Trimmed, trimming
<1>3. /\ ContextTypeOK /\ Holds("retrieval", w, l, h, r, n, m) /\ w \in WordSeqs /\ l \in Int
      /\ h = context.history
      BY <1>1, <1>2 DEF ContextInv, Holds, Typed, TrimParts
<1>4. ASSUME counter # "failing", w # << >> PROVE Fits(context.history, w)
  <2>1. x = (counter = "provider")
        BY <1>3, <1>4, SteadyIs
  <2>2. l = context.budget - FixedCount - SteadyCount(context.history)
        BY <1>3, <1>4 DEF Holds, Reasons
  <2>3. context.history \in WordSeqs /\ context.budget \in Nat
        BY <1>3 DEF ContextTypeOK
  <2>4. SteadyCount(w) \in Int /\ SteadyCount(context.history) \in Int /\ FixedCount \in Int
        BY <1>3, <2>3, CountsAre
  <2>5. SteadyCount(w) <= l
        BY <1>2, <1>4, <2>1 DEF SteadyCount
  <2>6. PICK f, g, s, b \in Int : /\ f = FixedCount /\ g = SteadyCount(context.history)
                                  /\ s = SteadyCount(w) /\ b = context.budget
        BY <2>3, <2>4
  <2>7. f + g + s <= b
        BY <2>2, <2>5, <2>6
  <2> QED BY <2>6, <2>7, SteadyTotals
<1>5. Reasons("trimmed", w, l, h, w)
      BY <1>3, <1>4 DEF Holds, Reasons
<1>6. Holds("trimmed", w, l, h, w, n, m)
      BY <1>3, <1>5 DEF Holds, Typed, TrimParts, Promised
<1> QED BY <1>1, <1>2, <1>3, <1>6, HoldsNext

LEMMA SummarizeInv ==
  ASSUME ContextInv, NEW a \in FourAnswers, NEW tokens \in Int, callAt = "trimmed",
         TotalTokens(history, retrieval, a) > context.budget, Summarize(tokens),
         UNCHANGED <<counter, context, fitted, reported, route>>
  PROVE  ContextInv'
<1>1. PICK h, r, n, m : h = history /\ r = retrieval /\ n = reported /\ m = route
      OBVIOUS
<1>2. /\ ContextTypeOK /\ Holds("trimmed", words, limit, h, r, n, m)
      /\ h \in WordSeqs /\ r \in WordSeqs /\ h = context.history
      BY <1>1 DEF ContextInv, Holds, Typed, TrimParts
<1>3. PICK text \in Texts :
        BeginTrim(IF h = << >> THEN << >> ELSE text, tokens,
                  IF h = << >> \/ tokens = 0 THEN "summarized" ELSE "summary")
      BY <1>1 DEF Summarize
<1>4. text \in WordSeqs /\ << >> \in WordSeqs
      BY ContextOK DEF WordSeqs
<1>5. PICK w : w = IF tokens <= 0 THEN << >> ELSE IF h = << >> THEN << >> ELSE text
      OBVIOUS
<1>6. PICK at : at = IF h = << >> \/ tokens = 0 THEN "summarized" ELSE "summary"
      OBVIOUS
<1>7. /\ words' = w /\ limit' = tokens /\ callAt' = at
      /\ UNCHANGED <<counter, context, history, retrieval, reported, route>>
      BY <1>3, <1>5, <1>6 DEF BeginTrim, fitted
<1>8. w \in WordSeqs /\ at \in {"summary", "summarized"}
      BY <1>4, <1>5, <1>6
<1>9. ASSUME counter # "failing" PROVE r = << >> /\ ~Fits(context.history, << >>)
  <2>1. a = Steady
        BY <1>2, <1>9, SteadyIs
  <2>2. TotalTokens(h, r, a) \in Int /\ context.budget \in Nat
        BY <1>2, TotalIsLarge DEF ContextTypeOK
  <2>3. ~Fits(h, r)
        BY <1>1, <2>1, <2>2 DEF Fits
  <2>4. r = << >>
        BY <1>2, <1>9, <2>3 DEF Holds, Reasons
  <2> QED BY <1>2, <2>3, <2>4
<1>10. Reasons(at, w, tokens, h, r)
       BY <1>8, <1>9 DEF Reasons
<1>11. Holds(at, w, tokens, h, r, n, m)
       BY <1>2, <1>8, <1>10 DEF Holds, Typed, TrimParts, Promised
<1> QED BY <1>1, <1>2, <1>7, <1>11, HoldsNext

LEMMA SummaryTrimmedInv ==
  ASSUME ContextInv, NEW x, NEW y, NEW z, SummaryTrimmed(x, y, z)
  PROVE  ContextInv'
<1>1. PICK l, h, r, n, m : l = limit /\ h = history /\ r = retrieval /\ n = reported /\ m = route
      OBVIOUS
<1>2. PICK w, at : w = words' /\ at = callAt'
      OBVIOUS
<1>3. /\ callAt = "summary" /\ UNCHANGED <<counter, context, history, retrieval, reported, route>>
      /\ limit' = limit
      /\ \/ at = "summarized" /\ w = words
         \/ at = "history" /\ (w = << >> \/ w = h)
      BY <1>1, <1>2 DEF SummaryTrimmed, BeginTrim, fitted, trimming
<1>4. /\ ContextTypeOK /\ Holds("summary", words, l, h, r, n, m)
      /\ h \in WordSeqs /\ words \in WordSeqs /\ << >> \in WordSeqs
      BY <1>1, <1>3 DEF ContextInv, Holds, Typed, WordSeqs
<1>5. w \in WordSeqs /\ at \in {"summarized", "history"}
      BY <1>3, <1>4
<1>6. Reasons(at, w, l, h, r)
      BY <1>4, <1>5 DEF Holds, Reasons
<1>7. Holds(at, w, l, h, r, n, m)
      BY <1>4, <1>5, <1>6 DEF Holds, Typed, TrimParts, Promised
<1> QED BY <1>1, <1>2, <1>3, <1>4, <1>7, HoldsNext

LEMMA HistoryTrimmedInv ==
  ASSUME ContextInv, NEW x, HistoryTrimmed(x)
  PROVE  ContextInv'
<1>1. PICK w, l, h, r, n, m : /\ w = words /\ l = limit /\ h = history
                              /\ r = retrieval /\ n = reported /\ m = route
      OBVIOUS
<1>2. /\ callAt = "history" /\ callAt' = "summarized"
      /\ UNCHANGED <<counter, context, words, limit, history, retrieval, reported, route>>
      BY DEF HistoryTrimmed, fitted, trimming
<1>3. ContextTypeOK /\ Holds("history", w, l, h, r, n, m)
      BY <1>1, <1>2 DEF ContextInv
<1>4. Holds("summarized", w, l, h, r, n, m)
      BY <1>3 DEF Holds, Typed, TrimParts, Reasons, Promised
<1> QED BY <1>1, <1>2, <1>3, <1>4, HoldsNext

LEMMA SummarizedInv ==
  ASSUME ContextInv, Summarized
  PROVE  ContextInv'
<1>1. PICK w, l, h, r, n, m : /\ w = words /\ l = limit /\ h = history
                              /\ r = retrieval /\ n = reported /\ m = route
      OBVIOUS
<1>2. PICK at : at = IF w # h THEN "last" ELSE "raised"
      OBVIOUS
<1>3. /\ callAt = "summarized" /\ callAt' = at /\ history' = w
      /\ UNCHANGED <<counter, context, words, limit, retrieval, reported, route>>
      BY <1>1, <1>2 DEF Summarized, trimming
<1>4. ContextTypeOK /\ Holds("summarized", w, l, h, r, n, m) /\ h = context.history
      BY <1>1, <1>3 DEF ContextInv, Holds, TrimParts
<1>5. Reasons(at, w, l, w, r)
      BY <1>2, <1>4 DEF Holds, Reasons
<1>6. Holds(at, w, l, w, r, n, m)
      BY <1>2, <1>4, <1>5 DEF Holds, Typed, TrimParts, Promised
<1> QED BY <1>1, <1>3, <1>4, <1>6, HoldsNext

LEMMA LastRaisesInv ==
  ASSUME ContextInv, NEW a \in FourAnswers, callAt = "last",
         TotalTokens(history, retrieval, a) > context.budget, callAt' = "raised",
         UNCHANGED <<counter, context, trimming, fitted, reported, route>>
  PROVE  ContextInv'
<1>1. PICK w, l, h, r, n, m : /\ w = words /\ l = limit /\ h = history
                              /\ r = retrieval /\ n = reported /\ m = route
      OBVIOUS
<1>2. UNCHANGED <<counter, context, words, limit, history, retrieval, reported, route>>
      BY DEF fitted, trimming
<1>3. /\ ContextTypeOK /\ Holds("last", w, l, h, r, n, m)
      /\ h \in WordSeqs /\ r \in WordSeqs
      BY <1>1 DEF ContextInv, Holds, Typed
<1>4. ASSUME counter # "failing" PROVE ~Fits(h, << >>)
  <2>1. a = Steady
        BY <1>3, <1>4, SteadyIs
  <2>2. TotalTokens(h, r, a) \in Int /\ context.budget \in Nat
        BY <1>3, TotalIsLarge DEF ContextTypeOK
  <2>3. ~Fits(h, r)
        BY <1>1, <2>1, <2>2 DEF Fits
  <2>4. r = << >>
        BY <1>3, <1>4 DEF Holds, Reasons
  <2> QED BY <2>3, <2>4
<1>5. Reasons("raised", w, l, h, r)
      BY <1>3, <1>4 DEF Holds, Reasons
<1>6. Holds("raised", w, l, h, r, n, m)
      BY <1>3, <1>5 DEF Holds, Typed, TrimParts, Promised
<1> QED BY <1>1, <1>2, <1>3, <1>6, HoldsNext

LEMMA RouteModelInv ==
  ASSUME ContextInv, NEW x \in Answers, NEW force, RouteModel(x, force)
  PROVE  ContextInv'
<1>1. PICK w, l, h, r, n : /\ w = words /\ l = limit /\ h = history
                           /\ r = retrieval /\ n = reported
      OBVIOUS
<1>2. PICK m : m = route'
      OBVIOUS
<1>3. /\ callAt = "returned" /\ callAt' = "returned"
      /\ m = "small" => CountTokens(context.question, x) < Longest
      /\ UNCHANGED <<counter, context, words, limit, history, retrieval, reported>>
      BY <1>2 DEF RouteModel, fitted, trimming
<1>4. ContextTypeOK /\ Holds("returned", w, l, h, r, n, route)
      BY <1>1, <1>3 DEF ContextInv
<1>5. Routed(m)
  <2>1. x \in BOOLEAN /\ context.question \in WordSeqs /\ Longest \in Nat
        BY <1>4, ContextOK DEF Answers, ContextTypeOK
  <2>2. PICK c \in Int : c = CountTokens(context.question, x)
        BY <2>1, CountIsLarge
  <2>3. c >= Len(context.question)
        BY <2>1, <2>2, CountIsLarge
  <2>4. Len(context.question) \in Nat
        BY <2>1 DEF WordSeqs
  <2>5. m = "small" => c < Longest
        BY <1>3, <2>2
  <2> QED BY <2>1, <2>3, <2>4, <2>5 DEF Routed
<1>6. Holds("returned", w, l, h, r, n, m)
      BY <1>4, <1>5 DEF Holds
<1> QED BY <1>1, <1>2, <1>3, <1>4, <1>6, HoldsNext

LEMMA ContextStep == ContextInv /\ [ContextNext]_contextVars => ContextInv'
<1> SUFFICES ASSUME ContextInv, [ContextNext]_contextVars PROVE ContextInv'
    OBVIOUS
<1>1. ASSUME NEW a \in FourAnswers, FirstCheck(a) PROVE ContextInv'
  <2>1. CASE Return(a)
        BY <1>1, <2>1, ReturnInv DEF FirstCheck
  <2>2. CASE ~Return(a)
    <3>1. /\ callAt = "start"
          /\ UNCHANGED <<counter, context, fitted, reported, route>>
          BY <1>1, <2>2 DEF FirstCheck
    <3>2. PICK b \in FourAnswers :
            BeginTrim(retrieval,
              context.budget - FixedTokens(b) - CountTokens(history, b["history"]), "retrieval")
          BY <1>1, <2>2 DEF FirstCheck
    <3> QED BY <3>1, <3>2, TrimRetrievalInv
  <2> QED BY <2>1, <2>2
<1>2. ASSUME NEW a \in FourAnswers, SecondCheck(a) PROVE ContextInv'
  <2>1. CASE Return(a)
        BY <1>2, <2>1, ReturnInv DEF SecondCheck
  <2>2. CASE ~Return(a)
    <3>1. /\ callAt = "trimmed" /\ TotalTokens(history, retrieval, a) > context.budget
          /\ UNCHANGED <<counter, context, fitted, reported, route>>
          BY <1>2, <2>2 DEF SecondCheck
    <3>2. PICK b \in FourAnswers :
            Summarize(Max({0, context.budget - FixedTokens(b)
                                - CountTokens(retrieval, b["retrieval"])}))
          BY <1>2, <2>2 DEF SecondCheck
    <3>3. PICK left \in Int :
            left = context.budget - FixedTokens(b) - CountTokens(retrieval, b["retrieval"])
      <4>1. /\ ContextTypeOK /\ retrieval \in WordSeqs /\ history \in WordSeqs
            /\ context.budget \in Int
            BY DEF ContextInv, ContextTypeOK, Holds, Typed
      <4>2. FixedTokens(b) \in Int /\ CountTokens(retrieval, b["retrieval"]) \in Int
            BY <4>1, TotalIsLarge
      <4> QED BY <4>1, <4>2
    <3>4. Max({0, left}) \in Int
      <4>1. \E x \in {0, left} : \A y \in {0, left} : x >= y
        <5>1. CASE left < 0
              BY <5>1
        <5>2. CASE ~(left < 0)
              BY <5>2
        <5> QED BY <5>1, <5>2
      <4>2. Max({0, left}) \in {0, left}
            BY <4>1 DEF Max
      <4> QED BY <4>2
    <3>5. PICK tokens \in Int : tokens = Max({0, left})
          BY <3>4
    <3>6. Summarize(tokens)
          BY <3>2, <3>3, <3>5
    <3> QED BY <3>1, <3>6, SummarizeInv
  <2> QED BY <2>1, <2>2
<1>3. ASSUME NEW a \in FourAnswers, LastCheck(a) PROVE ContextInv'
  <2>1. CASE Return(a)
        BY <1>3, <2>1, ReturnInv DEF LastCheck
  <2>2. CASE ~Return(a)
    <3>1. /\ callAt = "last" /\ TotalTokens(history, retrieval, a) > context.budget
          /\ callAt' = "raised"
          /\ UNCHANGED <<counter, context, trimming, fitted, reported, route>>
          BY <1>3, <2>2 DEF LastCheck
    <3> QED BY <3>1, LastRaisesInv
  <2> QED BY <2>1, <2>2
<1>4. CASE UNCHANGED contextVars
  <2>1. PICK at, w, l, h, r, n, m : /\ at = callAt /\ w = words /\ l = limit /\ h = history
                                    /\ r = retrieval /\ n = reported /\ m = route
        OBVIOUS
  <2>2. UNCHANGED <<counter, context, callAt, words, limit, history, retrieval, reported, route>>
        BY <1>4 DEF contextVars
  <2>3. ContextTypeOK /\ Holds(at, w, l, h, r, n, m)
        BY <2>1 DEF ContextInv
  <2> QED BY <2>1, <2>2, <2>3, HoldsNext
<1>5. CASE ContextNext
  <2>1. CASE \E a \in FourAnswers : FirstCheck(a) \/ SecondCheck(a) \/ LastCheck(a)
        BY <1>1, <1>2, <1>3, <2>1
  <2>2. CASE \E x \in Answers : PopWord(x) \/ RetrievalTrimmed(x) \/ HistoryTrimmed(x)
        BY <2>2, PopWordInv, RetrievalTrimmedInv, HistoryTrimmedInv
  <2>3. CASE \E x, y, z \in Answers : SummaryTrimmed(x, y, z)
        BY <2>3, SummaryTrimmedInv
  <2>4. CASE Summarized
        BY <2>4, SummarizedInv
  <2>5. CASE \E x \in Answers, force \in BOOLEAN : RouteModel(x, force)
        BY <2>5, RouteModelInv
  <2> QED BY <1>5, <2>1, <2>2, <2>3, <2>4, <2>5 DEF ContextNext
<1> QED BY <1>4, <1>5

(* fit_context_to_budget (token_budget.py) and route_model                 *)
(* (model_router.py): a context that is returned is within its budget, in  *)
(* words however often the counter's API fails between two counts and in   *)
(* tokens when it never changes its mind, and it gives up no more of the   *)
(* retrieval, or of the history, than it has to; a question of Longest     *)
(* words or more never goes to the small model.                            *)
THEOREM ContextsFit == ContextSpec => []ContextFits
<1>1. ContextInit => ContextInv
      BY ContextInitInv
<1>2. ContextInv /\ [ContextNext]_contextVars => ContextInv'
      BY ContextStep
<1>3. ContextInv => ContextFits
      BY InvImplies
<1> QED BY <1>1, <1>2, <1>3, PTL DEF ContextSpec

-----------------------------------------------------------------------------
(* Rounding moves an amount by half a millionth at most.                   *)
LEMMA RoundedIs ==
  ASSUME NEW x \in Int
  PROVE  Rounded(x) \in Int /\ Rounded(x) - x <= 5 /\ x - Rounded(x) <= 5
<1>1. PICK q \in Int : q = (2 * x + 10) \div 20
      OBVIOUS
<1>2. 20 * q <= 2 * x + 10 /\ 2 * x + 10 < 20 * q + 20
      BY <1>1
<1>3. Rounded(x) = q * 10
      BY <1>1 DEF Rounded, Nearest
<1> QED BY <1>2, <1>3

LEMMA RoundedGrows ==
  ASSUME NEW x \in Int, NEW y \in Int, x <= y
  PROVE  Rounded(x) <= Rounded(y)
<1>1. PICK q, r \in Int : q = (2 * x + 10) \div 20 /\ r = (2 * y + 10) \div 20
      OBVIOUS
<1>2. 20 * q <= 2 * x + 10 /\ 2 * y + 10 < 20 * r + 20
      BY <1>1
<1>3. q <= r
      BY <1>2
<1> QED BY <1>1, <1>3 DEF Rounded, Nearest

LEMMA RoundedTens ==
  ASSUME NEW k \in Int
  PROVE  Rounded(10 * k) = 10 * k
<1>1. (2 * (10 * k) + 10) \div 20 = k
      OBVIOUS
<1> QED BY <1>1 DEF Rounded, Nearest

(* A ledger: what it holds, and what one record more adds.                 *)
Tenants == {"acme", "globex", "initech", "unattributed"}
UseCases == {"support", "research", "unattributed"}

LedgerRecords == [model : {"sonnet", "haiku", "opus"}, tenant : Tenants, use_case : UseCases,
                  tokens : Int, usd : Nat]

ChatSpans == [usd : Nat, hit : BOOLEAN, question : Nat]

Amount(q) == UsdOf(q, DOMAIN q)

UsdFunction(q) == [i \in DOMAIN q |-> q[i].usd]

LEMMA AmountIs ==
  ASSUME NEW D, \A d \in D : d.usd \in Nat, NEW q \in Seq(D)
  PROVE  /\ DOMAIN q = 1..Len(q) /\ Len(q) \in Nat
         /\ IsFiniteSet(DOMAIN q) /\ Cardinality(DOMAIN q) = Len(q)
         /\ IntOn(UsdFunction(q), DOMAIN q)
         /\ \A i \in DOMAIN q : UsdFunction(q)[i] = q[i].usd /\ q[i].usd \in Nat
         /\ Amount(q) = SumFunctionOnSet(UsdFunction(q), DOMAIN q)
         /\ Amount(q) \in Int
<1>1. DOMAIN q = 1..Len(q) /\ Len(q) \in Nat
      OBVIOUS
<1>2. IsFiniteSet(1..Len(q)) /\ Cardinality(1..Len(q)) = IF 1 > Len(q) THEN 0 ELSE Len(q) - 1 + 1
      BY <1>1, FS_Interval
<1>3. IsFiniteSet(DOMAIN q) /\ Cardinality(DOMAIN q) = Len(q)
      BY <1>1, <1>2
<1>4. \A i \in DOMAIN q : UsdFunction(q)[i] = q[i].usd /\ q[i].usd \in Nat
  <2>1. \A i \in DOMAIN q : q[i] \in D
        OBVIOUS
  <2> QED BY <2>1 DEF UsdFunction
<1>5. IntOn(UsdFunction(q), DOMAIN q)
      BY <1>4 DEF IntOn
<1>6. Amount(q) = SumFunctionOnSet(UsdFunction(q), DOMAIN q)
      BY DEF Amount, UsdOf, UsdFunction
<1>7. Amount(q) \in Int
      BY <1>3, <1>5, <1>6, SumInt
<1> QED BY <1>1, <1>3, <1>4, <1>5, <1>6, <1>7

LEMMA AmountOfNothing == Amount(<< >>) = 0
<1>1. DOMAIN << >> = {}
      OBVIOUS
<1> QED BY <1>1, SumEmpty DEF Amount, UsdOf

LEMMA AmountAdds ==
  ASSUME NEW D, \A d \in D : d.usd \in Nat, NEW q \in Seq(D), NEW e \in D
  PROVE  /\ Append(q, e) \in Seq(D) /\ Len(Append(q, e)) = Len(q) + 1
         /\ \A i \in 1..Len(q) : Append(q, e)[i] = q[i]
         /\ Append(q, e)[Len(q) + 1] = e
         /\ Amount(Append(q, e)) = Amount(q) + e.usd
<1>1. PICK p, n : p = Append(q, e) /\ n = Len(q)
      OBVIOUS
<1>2. /\ p \in Seq(D) /\ Len(p) = n + 1 /\ n \in Nat
      /\ \A i \in 1..n : p[i] = q[i]
      /\ p[n + 1] = e
      BY <1>1
<1>3. /\ DOMAIN p = 1..(n + 1) /\ DOMAIN q = 1..n
      /\ n + 1 \notin 1..n /\ 1..(n + 1) = 1..n \cup {n + 1}
      BY <1>1, <1>2
<1>4. /\ IsFiniteSet(1..n) /\ IntOn(UsdFunction(q), 1..n)
      /\ Amount(q) = SumFunctionOnSet(UsdFunction(q), 1..n) /\ Amount(q) \in Int
      BY <1>3, AmountIs
<1>5. /\ IntOn(UsdFunction(p), 1..n \cup {n + 1})
      /\ \A i \in 1..(n + 1) : UsdFunction(p)[i] = p[i].usd
      /\ Amount(p) = SumFunctionOnSet(UsdFunction(p), 1..n \cup {n + 1})
      BY <1>2, <1>3, AmountIs
<1>6. SumFunctionOnSet(UsdFunction(p), 1..n \cup {n + 1})
        = UsdFunction(p)[n + 1] + SumFunctionOnSet(UsdFunction(p), 1..n)
      BY <1>3, <1>4, <1>5, SumAdd
<1>7. SumFunctionOnSet(UsdFunction(p), 1..n) = SumFunctionOnSet(UsdFunction(q), 1..n)
  <2>1. \A i \in 1..n : UsdFunction(q)[i] = q[i].usd
        BY <1>3, AmountIs
  <2>2. \A i \in 1..n : UsdFunction(p)[i] = p[i].usd
        BY <1>3, <1>5
  <2>3. \A i \in 1..n : UsdFunction(p)[i] = UsdFunction(q)[i]
        BY <1>2, <2>1, <2>2
  <2> QED BY <1>4, <2>3, SumSame DEF Agree
<1>8. UsdFunction(p)[n + 1] = e.usd /\ e.usd \in Nat
      BY <1>2, <1>3, <1>5
<1>9. Amount(p) = Amount(q) + e.usd
      BY <1>4, <1>5, <1>6, <1>7, <1>8
<1> QED BY <1>1, <1>2, <1>9

LEMMA RecordsHaveUsd ==
  (\A d \in LedgerRecords : d.usd \in Nat) /\ (\A d \in ChatSpans : d.usd \in Nat)
BY DEF LedgerRecords, ChatSpans

(* The roll-ups                                                            *)
LEMMA RollUpsAre == records \in Seq(LedgerRecords) => RollUpsReconcile
<1> SUFFICES ASSUME records \in Seq(LedgerRecords), NEW d \in Dimensions
             PROVE  Apart(SumFunction(By(d)), TotalUsd(records)) <= 5 * (1 + Cardinality(DOMAIN By(d)))
    BY DEF RollUpsReconcile
<1>1. PICK S, f, k : /\ S = DOMAIN records /\ f = UsdFunction(records)
                     /\ k = [i \in S |-> records[i][d]]
      OBVIOUS
<1>2. PICK V : V = {records[i][d] : i \in DOMAIN records}
      OBVIOUS
<1>3. IsFiniteSet(S) /\ IntOn(f, S) /\ Amount(records) = SumFunctionOnSet(f, S)
      BY <1>1, AmountIs, RecordsHaveUsd
<1>4. /\ \A i \in S : k[i] = records[i][d] /\ k[i] \in V
      /\ \A v \in V : \E i \in S : k[i] = v
      BY <1>1, <1>2
<1>5. IsFiniteSet(V)
  <2>1. k \in Surjection(S, V)
        BY <1>1, <1>4 DEF Surjection
  <2> QED BY <1>3, <2>1, FS_Surjection
<1>6. PICK g : g = PartSums(f, k, S, V)
      OBVIOUS
<1>7. IntOn(g, V) /\ SumFunctionOnSet(g, V) = Amount(records)
      BY <1>3, <1>4, <1>5, <1>6, PartsAddUp
<1>8. PICK b : b = By(d)
      OBVIOUS
<1>9. DOMAIN b = V /\ \A v \in V : b[v] = Rounded(g[v])
  <2>1. \A v \in V : g[v] = UsdOf(records, {i \in DOMAIN records : records[i][d] = v})
    <3>1. \A v \in V : {i \in S : k[i] = v} = {i \in DOMAIN records : records[i][d] = v}
          BY <1>1, <1>4
    <3> QED BY <1>1, <1>6, <3>1 DEF PartSums, UsdOf, UsdFunction
  <2> QED BY <1>2, <1>8, <2>1 DEF By
<1>10. IntOn(b, V) /\ \A v \in V : b[v] - g[v] <= 5 /\ g[v] - b[v] <= 5
  <2>1. \A v \in V : g[v] \in Int
        BY <1>7 DEF IntOn
  <2> QED BY <1>9, <2>1, RoundedIs DEF IntOn
<1>11. PICK x, y, t, c \in Int : /\ x = SumFunctionOnSet(b, V) /\ y = Amount(records)
                                 /\ t = Rounded(y) /\ c = Cardinality(V)
  <2>1. SumFunctionOnSet(b, V) \in Int /\ Amount(records) \in Int
        BY <1>3, <1>5, <1>10, SumInt
  <2>2. Cardinality(V) \in Int
        BY <1>5, FS_CardinalityType
  <2> QED BY <2>1, <2>2, RoundedIs
<1>12. x - y <= 5 * c /\ y - x <= 5 * c
       BY <1>5, <1>7, <1>10, <1>11, SumOfNear
<1>13. t - y <= 5 /\ y - t <= 5
       BY <1>11, RoundedIs
<1>14. x - t <= 5 * (1 + c) /\ t - x <= 5 * (1 + c)
       BY <1>12, <1>13
<1>15. SumFunction(By(d)) = x /\ TotalUsd(records) = t /\ Cardinality(DOMAIN By(d)) = c
       BY <1>8, <1>9, <1>11 DEF SumFunction, TotalUsd, Amount
<1>16. Apart(x, t) <= 5 * (1 + c)
       BY <1>14 DEF Apart
<1> QED BY <1>15, <1>16

(* The loops.  What a ledger in a given loop holds after c iterations, as  *)
(* a predicate of values.                                                  *)
TokenCounts == [input : Nat, output : Nat]

Sampled(c, rs, bs) ==
  /\ Len(rs) = c
  /\ SampleEvery * (Len(bs) - 1) < c /\ c <= SampleEvery * Len(bs)
  /\ Amount(bs) <= Amount(rs)
  /\ \A i \in DOMAIN bs : \E j \in DOMAIN rs : bs[i].usd = rs[j].usd

PaidOnce(ch, keys) ==
  /\ \A i \in DOMAIN ch : ~ch[i].hit => ch[i].question \in keys
  /\ \A i, j \in DOMAIN ch :
       ch[i].question = ch[j].question /\ ~ch[i].hit /\ ~ch[j].hit => i = j

Retried(c, rs) == Len(rs) = c /\ (c = 2 => rs[2].usd - rs[1].usd = rs[1].usd)

LedgerHolds(name, c, rs, bs, ch, keys) ==
  /\ name \in Loops /\ c \in Nat /\ keys \subseteq Nat
  /\ rs \in Seq(LedgerRecords) /\ bs \in Seq(LedgerRecords) /\ ch \in Seq(ChatSpans)
  /\ name = "sampling" => Sampled(c, rs, bs)
  /\ name \in {"billing", "routing", "cache", "retry"} => Len(ch) = c
  /\ name \in {"billing", "cache", "retry"} => Amount(ch) = Amount(rs)
  /\ name = "routing" => Amount(rs) <= Amount(bs) /\ Apart(Amount(ch), Amount(rs)) <= 5 * c
  /\ name = "cache" => PaidOnce(ch, keys)
  /\ name = "retry" => Retried(c, rs)

LedgersInv == LedgerHolds(loop, calls, records, baseline, chats, answered)

LEMMA SampleTurn ==
  ASSUME NEW S \in Nat \ {0}, NEW k \in Nat, NEW c \in Nat, S * (k - 1) < c, c <= S * k
  PROVE  c % S = 0 <=> c = S * k
<1>1. PICK q, r \in Int : q = c \div S /\ r = c % S
      OBVIOUS
<1>2. c = S * q + r /\ 0 <= r /\ r < S
      BY <1>1
<1>3. \A x \in Int : x >= 1 => S * x >= S
      OBVIOUS
<1>4. \A x \in Int : x <= -1 => S * x <= -S
      OBVIOUS
<1>5. S * q \in Int /\ S * k \in Int /\ S * (k - q) = S * k - S * q /\ S * (k - 1) = S * k - S
      OBVIOUS
<1>6. ASSUME r = 0 PROVE q = k
  <2>1. S * (k - q) < S /\ S * (k - q) >= 0
        BY <1>2, <1>5, <1>6
  <2>2. ~(k - q >= 1)
        BY <1>3, <2>1
  <2>3. ~(k - q <= -1)
        BY <1>4, <2>1
  <2> QED BY <2>2, <2>3
<1>7. ASSUME c = S * k PROVE r = 0
  <2>1. S * (k - q) = r
        BY <1>2, <1>5, <1>7
  <2>2. ~(k - q >= 1)
        BY <1>2, <1>3, <2>1
  <2>3. ~(k - q <= -1)
        BY <1>2, <1>4, <2>1
  <2>4. k = q
        BY <2>2, <2>3
  <2> QED BY <1>2, <1>7, <2>4
<1>8. r = 0 => c = S * k
      BY <1>2, <1>5, <1>6
<1> QED BY <1>1, <1>7, <1>8

LEMMA PricesAre ==
  ASSUME NEW m \in {"sonnet", "haiku", "opus"}, NEW u \in TokenCounts
  PROVE  /\ PriceCall(m, u) \in Nat
         /\ PriceCall(m, u) <= PriceCall("opus", u)
         /\ m \in DOMAIN PriceBook /\ u.input \in Nat /\ u.output \in Nat
         /\ PriceCall("sonnet", u) = u.input * 30 + u.output * 150
         /\ Rounded(PriceCall("sonnet", u)) = PriceCall("sonnet", u)
         /\ Rounded(PriceCall(m, u)) \in Nat
<1>1. u.input \in Nat /\ u.output \in Nat
      BY DEF TokenCounts
<1>2. DOMAIN PriceBook = {"sonnet", "haiku", "opus"}
      BY DEF PriceBook
<1>3. PriceCall("sonnet", u) = u.input * 30 + u.output * 150
  <2>1. PriceBook["sonnet"] = <<30, 150>>
        BY DEF PriceBook
  <2> QED BY <2>1 DEF PriceCall
<1>4. PriceCall("haiku", u) = u.input * 8 + u.output * 40
  <2>1. PriceBook["haiku"] = <<8, 40>>
        BY DEF PriceBook
  <2> QED BY <2>1 DEF PriceCall
<1>5. PriceCall("opus", u) = u.input * 150 + u.output * 750
  <2>1. PriceBook["opus"] = <<150, 750>>
        BY DEF PriceBook
  <2> QED BY <2>1 DEF PriceCall
<1>6. PriceCall(m, u) \in Nat /\ PriceCall(m, u) <= PriceCall("opus", u)
  <2>1. CASE m = "sonnet"
        BY <1>1, <1>3, <1>5, <2>1
  <2>2. CASE m = "haiku"
        BY <1>1, <1>4, <1>5, <2>2
  <2>3. CASE m = "opus"
        BY <1>1, <1>5, <2>3
  <2> QED BY <2>1, <2>2, <2>3
<1>7. Rounded(PriceCall("sonnet", u)) = PriceCall("sonnet", u)
  <2>1. PICK k \in Nat : k = u.input * 3 + u.output * 15
        BY <1>1
  <2>2. PriceCall("sonnet", u) = 10 * k
        BY <1>1, <1>3, <2>1
  <2> QED BY <2>1, <2>2, RoundedTens
<1>8. Rounded(PriceCall(m, u)) \in Nat
  <2>1. PICK x \in Nat : x = PriceCall(m, u)
        BY <1>6
  <2>2. (2 * x + 10) \div 20 \in Nat
        BY <2>1
  <2> QED BY <2>1, <2>2 DEF Rounded, Nearest
<1> QED BY <1>1, <1>2, <1>3, <1>6, <1>7, <1>8

LEMMA RecordIs ==
  ASSUME NEW m \in {"sonnet", "haiku", "opus"}, NEW u \in TokenCounts, NEW t \in Tenants,
         NEW c \in UseCases
  PROVE  /\ CostRecord(m, u, t, c) \in LedgerRecords
         /\ CostRecord(m, u, t, c).usd = PriceCall(m, u)
         /\ Record(m, u, t, c) => records' = Append(records, CostRecord(m, u, t, c))
<1>1. PriceCall(m, u) \in Nat /\ m \in DOMAIN PriceBook /\ u.input \in Nat /\ u.output \in Nat
      BY PricesAre
<1>2. CostRecord(m, u, t, c) \in LedgerRecords
      BY <1>1 DEF CostRecord, LedgerRecords
<1>3. CostRecord(m, u, t, c).usd = PriceCall(m, u)
      BY DEF CostRecord
<1>4. Record(m, u, t, c) => records' = Append(records, CostRecord(m, u, t, c))
      BY <1>1 DEF Record
<1> QED BY <1>2, <1>3, <1>4

(* A call that is billed and shown.                                        *)
LEMMA ShownAndBilled ==
  ASSUME NEW rs \in Seq(LedgerRecords), NEW ch \in Seq(ChatSpans), NEW c \in Nat,
         Len(ch) = c, Amount(ch) = Amount(rs),
         NEW e \in LedgerRecords, NEW s \in ChatSpans, s.usd = e.usd
  PROVE  /\ Append(rs, e) \in Seq(LedgerRecords) /\ Append(ch, s) \in Seq(ChatSpans)
         /\ Len(Append(ch, s)) = c + 1
         /\ Amount(Append(ch, s)) = Amount(Append(rs, e))
<1>1. /\ Append(rs, e) \in Seq(LedgerRecords)
      /\ Amount(Append(rs, e)) = Amount(rs) + e.usd
      BY RecordsHaveUsd, AmountAdds
<1>2. /\ Append(ch, s) \in Seq(ChatSpans) /\ Len(Append(ch, s)) = Len(ch) + 1
      /\ Amount(Append(ch, s)) = Amount(ch) + s.usd
      BY RecordsHaveUsd, AmountAdds
<1> QED BY <1>1, <1>2

LEMMA RepliesAre == Replies \subseteq TokenCounts
BY LedgersOK DEF Replies, TokenCounts

LEMMA LedgersInitInv == LedgersInit => LedgersInv
<1> SUFFICES ASSUME LedgersInit PROVE LedgersInv
    OBVIOUS
<1>1. /\ << >> \in Seq(LedgerRecords) /\ << >> \in Seq(ChatSpans)
      /\ Len(<< >>) = 0 /\ DOMAIN << >> = {} /\ Amount(<< >>) = 0
      BY AmountOfNothing
<1>2. /\ loop \in Loops /\ calls = 0 /\ records = << >> /\ baseline = << >> /\ chats = << >>
      /\ answered = {}
      BY DEF LedgersInit
<1>3. Sampled(0, << >>, << >>)
  <2>1. SampleEvery * (0 - 1) < 0 /\ 0 <= SampleEvery * 0
        BY LedgersOK
  <2> QED BY <1>1, <2>1 DEF Sampled
<1>4. PaidOnce(<< >>, {}) /\ Retried(0, << >>)
      BY <1>1 DEF PaidOnce, Retried
<1>5. Apart(0, 0) <= 5 * 0
      BY DEF Apart
<1> QED BY <1>1, <1>2, <1>3, <1>4, <1>5 DEF LedgersInv, LedgerHolds

LEMMA BillingInv ==
  ASSUME LedgersInv, NEW u \in Replies, BillingCall(u)
  PROVE  LedgersInv'
<1>1. /\ loop = "billing" /\ loop' = "billing" /\ calls' = calls + 1
      /\ UNCHANGED <<baseline, answered>>
      BY DEF BillingCall, Iteration
<1>2. /\ calls \in Nat /\ answered \subseteq Nat /\ records \in Seq(LedgerRecords)
      /\ baseline \in Seq(LedgerRecords) /\ chats \in Seq(ChatSpans)
      /\ Len(chats) = calls /\ Amount(chats) = Amount(records)
      BY <1>1 DEF LedgersInv, LedgerHolds
<1>3. PICK t \in Tenants, c \in UseCases : Record("sonnet", u, t, c)
  <2>1. PICK t, c : /\ t = <<"acme", "globex", "initech">>[1 + (calls % 3)]
                    /\ c = <<"support", "research">>[1 + (calls % 2)]
                    /\ Record("sonnet", u, t, c)
        BY DEF BillingCall
  <2>2. calls % 3 \in 0..2 /\ calls % 2 \in 0..1
        BY <1>2
  <2>3. t \in {"acme", "globex", "initech"} /\ c \in {"support", "research"}
        BY <2>1, <2>2
  <2>4. t \in Tenants /\ c \in UseCases
        BY <2>3 DEF Tenants, UseCases
  <2> QED BY <2>1, <2>4
<1>4. PICK e, s : /\ e = CostRecord("sonnet", u, t, c)
                  /\ s = [usd |-> Rounded(PriceCall("sonnet", u)), hit |-> FALSE, question |-> calls]
      OBVIOUS
<1>5. e \in LedgerRecords /\ records' = Append(records, e) /\ e.usd = PriceCall("sonnet", u)
      BY <1>3, <1>4, RepliesAre, RecordIs
<1>6. s \in ChatSpans /\ s.usd = e.usd
      BY <1>2, <1>4, <1>5, RepliesAre, PricesAre DEF ChatSpans
<1>7. chats' = Append(chats, s)
      BY <1>4 DEF BillingCall, ChatSpan
<1>8. /\ records' \in Seq(LedgerRecords) /\ chats' \in Seq(ChatSpans)
      /\ Len(chats') = calls' /\ Amount(chats') = Amount(records')
      BY <1>1, <1>2, <1>5, <1>6, <1>7, ShownAndBilled
<1> QED BY <1>1, <1>2, <1>8 DEF LedgersInv, LedgerHolds, Loops

LEMMA UnshownInv ==
  ASSUME LedgersInv, NEW u \in Replies, QuarterCall(u) \/ AuditCall(u)
  PROVE  LedgersInv'
<1>1. /\ loop \in {"quarter", "audit"} /\ loop' = loop /\ calls' = calls + 1
      /\ UNCHANGED <<baseline, chats, answered>>
      BY DEF QuarterCall, AuditCall, Iteration
<1>2. /\ calls \in Nat /\ answered \subseteq Nat /\ records \in Seq(LedgerRecords)
      /\ baseline \in Seq(LedgerRecords) /\ chats \in Seq(ChatSpans)
      BY DEF LedgersInv, LedgerHolds
<1>3. PICK t \in Tenants, c \in UseCases : Record("sonnet", u, t, c)
      BY DEF QuarterCall, AuditCall, Tenants, UseCases
<1>4. PICK e \in LedgerRecords : records' = Append(records, e)
      BY <1>3, RepliesAre, RecordIs
<1>5. records' \in Seq(LedgerRecords)
      BY <1>2, <1>4, RecordsHaveUsd, AmountAdds
<1> QED BY <1>1, <1>2, <1>5 DEF LedgersInv, LedgerHolds, Loops

LEMMA OtherInv ==
  ASSUME LedgersInv, NEW u \in Usages, NEW m \in DOMAIN PriceBook \cup {"unpriced"},
         NEW t \in {"acme", "unattributed"}, NEW c \in {"support", "unattributed"},
         OtherCall(m, u, t, c)
  PROVE  LedgersInv'
<1>1. /\ loop = "other" /\ loop' = "other" /\ calls' = calls + 1
      /\ UNCHANGED <<baseline, chats, answered>> /\ Record(m, u, t, c)
      BY DEF OtherCall, Iteration
<1>2. /\ calls \in Nat /\ answered \subseteq Nat /\ records \in Seq(LedgerRecords)
      /\ baseline \in Seq(LedgerRecords) /\ chats \in Seq(ChatSpans)
      BY DEF LedgersInv, LedgerHolds
<1>3. records' \in Seq(LedgerRecords)
  <2>1. CASE m \in DOMAIN PriceBook /\ u.input >= 0 /\ u.output >= 0
    <3>1. u \in TokenCounts
          BY <2>1, LedgersOK DEF TokenCounts
    <3>2. m \in {"sonnet", "haiku", "opus"} /\ t \in Tenants /\ c \in UseCases
          BY <2>1 DEF PriceBook, Tenants, UseCases
    <3>3. PICK e \in LedgerRecords : records' = Append(records, e)
          BY <1>1, <3>1, <3>2, RecordIs
    <3> QED BY <1>2, <3>3, RecordsHaveUsd, AmountAdds
  <2>2. CASE ~(m \in DOMAIN PriceBook /\ u.input >= 0 /\ u.output >= 0)
        BY <1>1, <1>2, <2>2 DEF Record
  <2> QED BY <2>1, <2>2
<1> QED BY <1>1, <1>2, <1>3 DEF LedgersInv, LedgerHolds, Loops

LEMMA RoutingInv ==
  ASSUME LedgersInv, NEW u \in Replies, NEW simple, RoutedCall(u, simple)
  PROVE  LedgersInv'
<1>1. PICK m \in {"haiku", "opus"} : /\ Record(m, u, "acme", "unattributed")
                                      /\ ChatSpan(PriceCall(m, u), FALSE, calls)
      BY DEF RoutedCall
<1>2. /\ loop = "routing" /\ loop' = "routing" /\ calls' = calls + 1
      /\ UNCHANGED answered
      BY DEF RoutedCall, Iteration
<1>3. /\ calls \in Nat /\ answered \subseteq Nat /\ records \in Seq(LedgerRecords)
      /\ baseline \in Seq(LedgerRecords) /\ chats \in Seq(ChatSpans)
      /\ Len(chats) = calls /\ Apart(Amount(chats), Amount(records)) <= 5 * calls
      /\ Amount(records) <= Amount(baseline)
      BY <1>2 DEF LedgersInv, LedgerHolds
<1>4. PICK e, d, s : /\ e = CostRecord(m, u, "acme", "unattributed")
                     /\ d = CostRecord("opus", u, "acme", "unattributed")
                     /\ s = [usd |-> Rounded(PriceCall(m, u)), hit |-> FALSE, question |-> calls]
      OBVIOUS
<1>5. /\ u \in TokenCounts /\ "acme" \in Tenants /\ "unattributed" \in UseCases
      BY RepliesAre DEF Tenants, UseCases
<1>6. e \in LedgerRecords /\ records' = Append(records, e) /\ e.usd = PriceCall(m, u)
      BY <1>1, <1>4, <1>5, RecordIs
<1>7. d \in LedgerRecords /\ d.usd = PriceCall("opus", u)
      BY <1>4, <1>5, RecordIs
<1>8. baseline' = Append(baseline, d)
      BY <1>4 DEF RoutedCall
<1>9. PriceCall(m, u) \in Nat /\ PriceCall(m, u) <= PriceCall("opus", u)
      BY <1>5, PricesAre
<1>10. s \in ChatSpans /\ s.usd = Rounded(e.usd)
  <2>1. Rounded(PriceCall(m, u)) \in Nat
        BY <1>5, PricesAre
  <2> QED BY <1>3, <1>4, <1>6, <2>1 DEF ChatSpans
<1>11. chats' = Append(chats, s)
       BY <1>1, <1>4 DEF ChatSpan
<1>12. /\ records' \in Seq(LedgerRecords) /\ chats' \in Seq(ChatSpans)
       /\ Len(chats') = calls' /\ Apart(Amount(chats'), Amount(records')) <= 5 * calls'
  <2>1. /\ records' \in Seq(LedgerRecords) /\ Amount(records') = Amount(records) + e.usd
        BY <1>3, <1>6, RecordsHaveUsd, AmountAdds
  <2>2. /\ chats' \in Seq(ChatSpans) /\ Len(chats') = Len(chats) + 1
        /\ Amount(chats') = Amount(chats) + s.usd
        BY <1>3, <1>10, <1>11, RecordsHaveUsd, AmountAdds
  <2>3. PICK x, y, p \in Int : x = Amount(chats) /\ y = Amount(records) /\ p = e.usd
        BY <1>3, <1>6, <1>9, RecordsHaveUsd, AmountIs
  <2>4. PICK q \in Int : q = Rounded(p) /\ q - p <= 5 /\ p - q <= 5
        BY RoundedIs
  <2>5. x - y <= 5 * calls /\ y - x <= 5 * calls
        BY <1>3, <2>3 DEF Apart
  <2>6. Apart(x + q, y + p) <= 5 * (calls + 1)
        BY <1>3, <2>4, <2>5 DEF Apart
  <2> QED BY <1>2, <1>3, <1>10, <2>1, <2>2, <2>3, <2>4, <2>6
<1>13. Amount(records') = Amount(records) + e.usd
       BY <1>3, <1>6, RecordsHaveUsd, AmountAdds
<1>14. baseline' \in Seq(LedgerRecords) /\ Amount(baseline') = Amount(baseline) + d.usd
       BY <1>3, <1>7, <1>8, RecordsHaveUsd, AmountAdds
<1>15. Amount(records) \in Int /\ Amount(baseline) \in Int /\ d.usd \in Nat /\ e.usd <= d.usd
  <2>1. Amount(records) \in Int /\ Amount(baseline) \in Int
        BY <1>3, RecordsHaveUsd, AmountIs
  <2>2. d.usd \in Nat
        BY <1>7, RecordsHaveUsd
  <2> QED BY <1>6, <1>7, <1>9, <2>1, <2>2
<1>16. Amount(records') <= Amount(baseline')
  <2>1. e.usd \in Nat
        BY <1>6, RecordsHaveUsd
  <2> QED BY <1>3, <1>13, <1>14, <1>15, <2>1
<1> QED BY <1>2, <1>3, <1>12, <1>14, <1>16 DEF LedgersInv, LedgerHolds, Loops

(* A span at the end, which pays for a question no span paid for.          *)
LEMMA PaidOnceAdds ==
  ASSUME NEW ch \in Seq(ChatSpans), NEW keys, PaidOnce(ch, keys), NEW s \in ChatSpans,
         s.hit \/ s.question \notin keys
  PROVE  PaidOnce(Append(ch, s), keys \cup {s.question})
<1>1. PICK p, n : p = Append(ch, s) /\ n = Len(ch)
      OBVIOUS
<1>2. /\ n \in Nat /\ DOMAIN p = 1..(n + 1) /\ DOMAIN ch = 1..n
      /\ p[n + 1] = s /\ \A i \in 1..n : p[i] = ch[i]
      BY <1>1
<1>3. \A i \in DOMAIN p : (i \in 1..n /\ p[i] = ch[i]) \/ (i = n + 1 /\ p[i] = s)
      BY <1>2
<1>4. \A i \in DOMAIN p : ~p[i].hit => p[i].question \in keys \cup {s.question}
      BY <1>2, <1>3 DEF PaidOnce
<1>5. ASSUME NEW i \in DOMAIN p, NEW j \in DOMAIN p, p[i].question = p[j].question,
             ~p[i].hit, ~p[j].hit
      PROVE  i = j
  <2>1. CASE i \in 1..n /\ j \in 1..n
        BY <1>2, <1>5, <2>1 DEF PaidOnce
  <2>2. CASE i \in 1..n /\ j = n + 1
    <3>1. ch[i].question \in keys /\ p[i] = ch[i] /\ p[j] = s
          BY <1>2, <1>5, <2>2 DEF PaidOnce
    <3> QED BY <1>5, <3>1
  <2>3. CASE i = n + 1 /\ j \in 1..n
    <3>1. ch[j].question \in keys /\ p[j] = ch[j] /\ p[i] = s
          BY <1>2, <1>5, <2>3 DEF PaidOnce
    <3> QED BY <1>5, <3>1
  <2> QED BY <1>3, <2>1, <2>2, <2>3
<1> QED BY <1>1, <1>4, <1>5 DEF PaidOnce

LEMMA CacheHitInv ==
  ASSUME LedgersInv, NEW q \in Nat, CacheHit(q)
  PROVE  LedgersInv'
<1>1. /\ loop = "cache" /\ loop' = "cache" /\ calls' = calls + 1 /\ q \in answered
      /\ UNCHANGED <<records, baseline, answered>>
      BY DEF CacheHit, Iteration
<1>2. /\ calls \in Nat /\ answered \subseteq Nat /\ records \in Seq(LedgerRecords)
      /\ baseline \in Seq(LedgerRecords) /\ chats \in Seq(ChatSpans)
      /\ Len(chats) = calls /\ Amount(chats) = Amount(records) /\ PaidOnce(chats, answered)
      BY <1>1 DEF LedgersInv, LedgerHolds
<1>3. PICK s : s = [usd |-> Rounded(0), hit |-> TRUE, question |-> q]
      OBVIOUS
<1>4. s \in ChatSpans /\ s.usd = 0 /\ s.hit = TRUE /\ s.question = q
  <2>1. Rounded(0) = 0
    <3>1. Rounded(10 * 0) = 10 * 0
          BY RoundedTens
    <3> QED BY <3>1
  <2> QED BY <1>3, <2>1 DEF ChatSpans
<1>5. chats' = Append(chats, s)
      BY <1>3 DEF CacheHit, ChatSpan
<1>6. /\ chats' \in Seq(ChatSpans) /\ Len(chats') = calls + 1
      /\ Amount(chats') = Amount(chats) + 0
  <2>1. Amount(Append(chats, s)) = Amount(chats) + s.usd
        BY <1>2, <1>4, RecordsHaveUsd, AmountAdds
  <2>2. Append(chats, s) \in Seq(ChatSpans) /\ Len(Append(chats, s)) = calls + 1
        BY <1>2, <1>4
  <2> QED BY <1>4, <1>5, <2>1, <2>2
<1>7. Amount(chats) \in Int
      BY <1>2, RecordsHaveUsd, AmountIs
<1>8. PaidOnce(chats', answered)
  <2>1. answered \cup {s.question} = answered
        BY <1>1, <1>4
  <2>2. PaidOnce(Append(chats, s), answered \cup {s.question})
        BY <1>2, <1>4, PaidOnceAdds
  <2> QED BY <1>5, <2>1, <2>2
<1>9. Amount(chats') = Amount(records')
      BY <1>1, <1>2, <1>6, <1>7
<1> QED BY <1>1, <1>2, <1>6, <1>8, <1>9 DEF LedgersInv, LedgerHolds, Loops

LEMMA CacheMissInv ==
  ASSUME LedgersInv, NEW q \in Nat, NEW u \in Replies, CacheMiss(q, u)
  PROVE  LedgersInv'
<1>1. /\ loop = "cache" /\ loop' = "cache" /\ calls' = calls + 1 /\ q \notin answered
      /\ answered' = answered \cup {q} /\ UNCHANGED baseline
      BY DEF CacheMiss, Iteration
<1>2. /\ calls \in Nat /\ answered \subseteq Nat /\ records \in Seq(LedgerRecords)
      /\ baseline \in Seq(LedgerRecords) /\ chats \in Seq(ChatSpans)
      /\ Len(chats) = calls /\ Amount(chats) = Amount(records) /\ PaidOnce(chats, answered)
      BY <1>1 DEF LedgersInv, LedgerHolds
<1>3. PICK e, s : /\ e = CostRecord("sonnet", u, "acme", "unattributed")
                  /\ s = [usd |-> Rounded(PriceCall("sonnet", u)), hit |-> FALSE, question |-> q]
      OBVIOUS
<1>4. u \in TokenCounts /\ "acme" \in Tenants /\ "unattributed" \in UseCases
      BY RepliesAre DEF Tenants, UseCases
<1>5. e \in LedgerRecords /\ records' = Append(records, e) /\ e.usd = PriceCall("sonnet", u)
      BY <1>3, <1>4, RecordIs DEF CacheMiss
<1>6. s \in ChatSpans /\ s.usd = e.usd /\ s.question = q
      BY <1>3, <1>4, <1>5, PricesAre DEF ChatSpans
<1>7. chats' = Append(chats, s)
      BY <1>3 DEF CacheMiss, ChatSpan
<1>8. /\ records' \in Seq(LedgerRecords) /\ chats' \in Seq(ChatSpans)
      /\ Len(chats') = calls' /\ Amount(chats') = Amount(records')
      BY <1>1, <1>2, <1>5, <1>6, <1>7, ShownAndBilled
<1>9. PaidOnce(chats', answered')
  <2>1. PaidOnce(Append(chats, s), answered \cup {s.question})
        BY <1>1, <1>2, <1>6, PaidOnceAdds
  <2> QED BY <1>1, <1>6, <1>7, <2>1
<1> QED BY <1>1, <1>2, <1>8, <1>9 DEF LedgersInv, LedgerHolds, Loops

LEMMA RetryInv ==
  ASSUME LedgersInv, NEW u \in Replies, RetryCall(u)
  PROVE  LedgersInv'
<1>1. /\ loop = "retry" /\ loop' = "retry" /\ calls' = calls + 1 /\ calls < 2
      /\ calls = 1 => records[1].usd = PriceCall("sonnet", u)
      /\ UNCHANGED <<baseline, answered>>
      BY DEF RetryCall, Iteration
<1>2. /\ calls \in Nat /\ answered \subseteq Nat /\ records \in Seq(LedgerRecords)
      /\ baseline \in Seq(LedgerRecords) /\ chats \in Seq(ChatSpans)
      /\ Len(chats) = calls /\ Amount(chats) = Amount(records) /\ Len(records) = calls
      BY <1>1 DEF LedgersInv, LedgerHolds, Retried
<1>3. PICK b : b = [input |-> (calls + 1) * u.input, output |-> (calls + 1) * u.output]
      OBVIOUS
<1>4. u \in TokenCounts /\ u.input \in Nat /\ u.output \in Nat
      BY RepliesAre, PricesAre
<1>5. b.input = (calls + 1) * u.input /\ b.output = (calls + 1) * u.output
      BY <1>3
<1>6. b \in TokenCounts
  <2>1. (calls + 1) * u.input \in Nat /\ (calls + 1) * u.output \in Nat
        BY <1>2, <1>4
  <2> QED BY <1>3, <2>1 DEF TokenCounts
<1>7. PICK e, s : /\ e = CostRecord("sonnet", b, "acme", "unattributed")
                  /\ s = [usd |-> Rounded(PriceCall("sonnet", b)), hit |-> FALSE, question |-> 0]
      OBVIOUS
<1>8. "acme" \in Tenants /\ "unattributed" \in UseCases
      BY DEF Tenants, UseCases
<1>9. Record("sonnet", b, "acme", "unattributed") /\ ChatSpan(PriceCall("sonnet", b), FALSE, 0)
      BY <1>3 DEF RetryCall
<1>10. e \in LedgerRecords /\ records' = Append(records, e) /\ e.usd = PriceCall("sonnet", b)
       BY <1>6, <1>7, <1>8, <1>9, RecordIs
<1>11. s \in ChatSpans /\ s.usd = e.usd
       BY <1>6, <1>7, <1>10, PricesAre DEF ChatSpans
<1>12. chats' = Append(chats, s)
       BY <1>7, <1>9 DEF ChatSpan
<1>13. /\ records' \in Seq(LedgerRecords) /\ chats' \in Seq(ChatSpans)
       /\ Len(chats') = calls' /\ Amount(chats') = Amount(records')
  <2>1. /\ Append(records, e) \in Seq(LedgerRecords) /\ Append(chats, s) \in Seq(ChatSpans)
        /\ Len(Append(chats, s)) = calls + 1
        /\ Amount(Append(chats, s)) = Amount(Append(records, e))
        BY <1>2, <1>10, <1>11, ShownAndBilled
  <2> QED BY <1>1, <1>10, <1>12, <2>1
<1>14. Retried(calls', records')
  <2>1. Len(records') = calls' /\ \A i \in 1..calls : records'[i] = records[i]
        BY <1>1, <1>2, <1>10
  <2>2. records'[calls + 1] = e
        BY <1>2, <1>10
  <2>3. ASSUME calls' = 2 PROVE records'[2].usd - records'[1].usd = records'[1].usd
    <3>1. calls = 1
          BY <1>1, <1>2, <2>3
    <3>2. records'[1].usd = PriceCall("sonnet", u) /\ records'[2].usd = PriceCall("sonnet", b)
          BY <1>1, <1>10, <2>1, <2>2, <3>1
    <3>3. PriceCall("sonnet", u) = u.input * 30 + u.output * 150
          BY <1>4, PricesAre
    <3>4. PriceCall("sonnet", b) = b.input * 30 + b.output * 150
          BY <1>6, PricesAre
    <3>5. b.input = u.input + u.input /\ b.output = u.output + u.output
          BY <1>4, <1>5, <3>1
    <3> QED BY <1>4, <3>2, <3>3, <3>4, <3>5
  <2> QED BY <2>1, <2>3 DEF Retried
<1> QED BY <1>1, <1>2, <1>13, <1>14 DEF LedgersInv, LedgerHolds, Loops

(* A record at the end of a ledger, which keeps the ones before it.        *)
LEMMA LedgerGrows ==
  ASSUME NEW r \in Seq(LedgerRecords), NEW x \in LedgerRecords
  PROVE  /\ Append(r, x) \in Seq(LedgerRecords) /\ Len(Append(r, x)) = Len(r) + 1
         /\ \A i \in 1..Len(r) : Append(r, x)[i] = r[i]
         /\ Append(r, x)[Len(r) + 1] = x
         /\ Amount(Append(r, x)) = Amount(r) + x.usd
<1>1. Amount(Append(r, x)) = Amount(r) + x.usd
      BY RecordsHaveUsd, AmountAdds
<1> QED BY <1>1

(* A sampled call is in both ledgers, any other in one.                    *)
LEMMA SamplingInv ==
  ASSUME LedgersInv, NEW u \in Replies, SampledCall(u)
  PROVE  LedgersInv'
<1>1. /\ loop = "sampling" /\ loop' = "sampling" /\ calls' = calls + 1
      /\ UNCHANGED <<chats, answered>>
      BY DEF SampledCall, Iteration
<1>2. /\ calls \in Nat /\ answered \subseteq Nat /\ records \in Seq(LedgerRecords)
      /\ baseline \in Seq(LedgerRecords) /\ chats \in Seq(ChatSpans)
      /\ Sampled(calls, records, baseline)
      BY <1>1 DEF LedgersInv, LedgerHolds
<1>3. PICK e : e = CostRecord("sonnet", u, "acme", "unattributed")
      OBVIOUS
<1>4. u \in TokenCounts /\ "acme" \in Tenants /\ "unattributed" \in UseCases
      BY RepliesAre DEF Tenants, UseCases
<1>5. /\ e \in LedgerRecords /\ records' = Append(records, e) /\ e.usd \in Nat
      /\ baseline' = IF calls % SampleEvery = 0 THEN Append(baseline, e) ELSE baseline
      BY <1>3, <1>4, RecordIs, RecordsHaveUsd DEF SampledCall
<1>6. PICK S, k : S = SampleEvery /\ k = Len(baseline)
      OBVIOUS
<1>7. /\ S \in Nat \ {0} /\ k \in Nat
      /\ Len(records) = calls /\ S * (k - 1) < calls /\ calls <= S * k
      /\ Amount(baseline) <= Amount(records)
      /\ \A i \in DOMAIN baseline : \E j \in DOMAIN records : baseline[i].usd = records[j].usd
      BY <1>2, <1>6, LedgersOK DEF Sampled
<1>8. /\ records' \in Seq(LedgerRecords) /\ Len(records') = calls + 1
      /\ \A i \in 1..calls : records'[i] = records[i]
      /\ records'[calls + 1] = e
      /\ Amount(records') = Amount(records) + e.usd
      BY <1>2, <1>5, <1>7, LedgerGrows
<1>9. Amount(records) \in Int /\ Amount(baseline) \in Int
      BY <1>2, RecordsHaveUsd, AmountIs
<1>10. calls % S = 0 <=> calls = S * k
       BY <1>2, <1>7, SampleTurn
<1>11. S * k \in Int /\ S * ((k + 1) - 1) = S * k /\ S * (k + 1) = S * k + S
       BY <1>7
<1>12. \A i \in DOMAIN baseline : \E j \in DOMAIN records' : baseline[i].usd = records'[j].usd
  <2>1. DOMAIN records = 1..calls /\ DOMAIN records' = 1..(calls + 1)
        BY <1>2, <1>7, <1>8
  <2>2. \A j \in DOMAIN records : j \in DOMAIN records' /\ records'[j] = records[j]
        BY <1>2, <1>8, <2>1
  <2> QED BY <1>7, <2>2
<1>13. CASE calls = S * k
  <2>1. baseline' = Append(baseline, e)
        BY <1>5, <1>6, <1>10, <1>13
  <2>2. /\ baseline' \in Seq(LedgerRecords) /\ Len(baseline') = k + 1
        /\ \A i \in 1..k : baseline'[i] = baseline[i]
        /\ baseline'[k + 1] = e
        /\ Amount(baseline') = Amount(baseline) + e.usd
        BY <1>2, <1>5, <1>6, <2>1, LedgerGrows
  <2>3. S * (Len(baseline') - 1) < calls + 1 /\ calls + 1 <= S * Len(baseline')
        BY <1>2, <1>7, <1>11, <1>13, <2>2
  <2>4. Amount(baseline') <= Amount(records')
        BY <1>5, <1>7, <1>8, <1>9, <2>2
  <2>5. \A i \in DOMAIN baseline' : \E j \in DOMAIN records' : baseline'[i].usd = records'[j].usd
    <3>1. calls + 1 \in DOMAIN records' /\ records'[calls + 1].usd = e.usd
          BY <1>2, <1>8
    <3>2. ASSUME NEW i \in DOMAIN baseline'
          PROVE  (i \in DOMAIN baseline /\ baseline'[i] = baseline[i]) \/ baseline'[i] = e
          BY <1>2, <1>6, <1>7, <2>2
    <3> QED BY <1>12, <3>1, <3>2
  <2>6. Sampled(calls', records', baseline')
        BY <1>1, <1>6, <1>8, <2>3, <2>4, <2>5 DEF Sampled
  <2> QED BY <1>1, <1>2, <1>8, <2>2, <2>6 DEF LedgersInv, LedgerHolds, Loops
<1>14. CASE calls # S * k
  <2>1. baseline' = baseline
        BY <1>5, <1>6, <1>10, <1>14
  <2>2. S * (k - 1) < calls + 1 /\ calls + 1 <= S * k
    <3>1. S * (k - 1) \in Int
          BY <1>7
    <3> QED BY <1>2, <1>7, <1>11, <1>14, <3>1
  <2>3. Amount(baseline) <= Amount(records')
        BY <1>5, <1>7, <1>8, <1>9
  <2>4. Sampled(calls', records', baseline')
        BY <1>1, <1>6, <1>8, <1>12, <2>1, <2>2, <2>3 DEF Sampled
  <2> QED BY <1>1, <1>2, <1>8, <2>1, <2>4 DEF LedgersInv, LedgerHolds, Loops
<1> QED BY <1>13, <1>14

LEMMA LedgersStep == LedgersInv /\ [LedgersNext]_ledgerVars => LedgersInv'
<1> SUFFICES ASSUME LedgersInv, [LedgersNext]_ledgerVars PROVE LedgersInv'
    OBVIOUS
<1>1. CASE UNCHANGED ledgerVars
      BY <1>1 DEF ledgerVars, LedgersInv
<1>2. CASE LedgersNext
  <2>1. calls % Questions \in Nat
    <3>1. calls \in Nat /\ Questions \in Nat \ {0}
          BY LedgersOK DEF LedgersInv, LedgerHolds
    <3> QED BY <3>1
  <2>2. ASSUME NEW u \in Replies,
               \/ BillingCall(u) \/ QuarterCall(u) \/ AuditCall(u) \/ RetryCall(u) \/ SampledCall(u)
               \/ \E simple \in BOOLEAN : RoutedCall(u, simple)
               \/ CacheMiss(calls % Questions, u)
        PROVE  LedgersInv'
        BY <2>1, <2>2, BillingInv, UnshownInv, RetryInv, SamplingInv, RoutingInv, CacheMissInv
  <2>3. CASE CacheHit(calls % Questions)
        BY <2>1, <2>3, CacheHitInv
  <2>4. ASSUME NEW u \in Usages, NEW m \in DOMAIN PriceBook \cup {"unpriced"},
               NEW t \in {"acme", "unattributed"}, NEW c \in {"support", "unattributed"},
               OtherCall(m, u, t, c)
        PROVE  LedgersInv'
        BY <2>4, OtherInv
  <2> QED BY <1>2, <2>2, <2>3, <2>4 DEF LedgersNext
<1> QED BY <1>1, <1>2

(* A ledger whose entries all cost the same.                               *)
LEMMA SteadyLedger ==
  ASSUME NEW q \in Seq(LedgerRecords), NEW u \in Int, \A i \in DOMAIN q : q[i].usd = u
  PROVE  Amount(q) = Len(q) * u
<1>1. /\ IsFiniteSet(DOMAIN q) /\ Cardinality(DOMAIN q) = Len(q)
      /\ \A i \in DOMAIN q : UsdFunction(q)[i] = q[i].usd
      /\ Amount(q) = SumFunctionOnSet(UsdFunction(q), DOMAIN q)
      BY RecordsHaveUsd, AmountIs
<1>2. \A i \in DOMAIN q : UsdFunction(q)[i] = u
      BY <1>1
<1> QED BY <1>1, <1>2, SumOfSteady

(* A sample of calls that all cost the same extrapolates to what they did. *)
LEMMA SampleExtrapolates ==
  ASSUME LedgersInv, loop = "sampling", calls % SampleEvery = 0,
         \A i \in DOMAIN records : records[i].usd = records[1].usd
  PROVE  SampleEvery * Amount(baseline) = Amount(records)
<1>1. /\ calls \in Nat /\ records \in Seq(LedgerRecords) /\ baseline \in Seq(LedgerRecords)
      /\ Sampled(calls, records, baseline) /\ SampleEvery \in Nat \ {0}
      BY LedgersOK DEF LedgersInv, LedgerHolds
<1>2. PICK S, k, c : S = SampleEvery /\ k = Len(baseline) /\ c = calls
      OBVIOUS
<1>3. S \in Nat \ {0} /\ k \in Nat /\ c \in Nat /\ Len(records) = c
      BY <1>1, <1>2 DEF Sampled
<1>4. c = S * k
  <2>1. S * (k - 1) < c /\ c <= S * k /\ c % S = 0
        BY <1>1, <1>2 DEF Sampled
  <2> QED BY <1>3, <2>1, SampleTurn
<1>5. PICK u \in Int : /\ \A i \in DOMAIN records : records[i].usd = u
                       /\ \A i \in DOMAIN baseline : baseline[i].usd = u
  <2>1. \A i \in DOMAIN baseline : \E j \in DOMAIN records : baseline[i].usd = records[j].usd
        BY <1>1 DEF Sampled
  <2>2. CASE DOMAIN records = {}
    <3>1. ASSUME NEW i \in DOMAIN baseline PROVE FALSE
      <4>1. \E j \in DOMAIN records : baseline[i].usd = records[j].usd
            BY <2>1
      <4> QED BY <2>2, <4>1
    <3>2. /\ \A i \in DOMAIN records : records[i].usd = 0
          /\ \A i \in DOMAIN baseline : baseline[i].usd = 0
          BY <2>2, <3>1
    <3>3. 0 \in Int
          OBVIOUS
    <3> QED BY <3>2, <3>3
  <2>3. CASE DOMAIN records # {}
    <3>1. PICK j \in DOMAIN records : TRUE
          BY <2>3
    <3>2. records[1].usd \in Int
      <4>1. records[j].usd \in Nat
            BY <1>1, RecordsHaveUsd, AmountIs
      <4> QED BY <4>1
    <3> QED BY <2>1, <3>2
  <2> QED BY <2>2, <2>3
<1>6. Amount(records) = c * u
      BY <1>1, <1>3, <1>5, SteadyLedger
<1>7. Amount(baseline) = k * u
      BY <1>1, <1>2, <1>5, SteadyLedger
<1>8. S * (k * u) = (S * k) * u
      BY <1>3
<1> QED BY <1>2, <1>4, <1>6, <1>7, <1>8

LEMMA SpansAre == LedgersInv => SpansExplainSpend
<1> SUFFICES ASSUME LedgersInv PROVE SpansExplainSpend
    OBVIOUS
<1>1. /\ calls \in Nat /\ records \in Seq(LedgerRecords) /\ baseline \in Seq(LedgerRecords)
      /\ chats \in Seq(ChatSpans)
      BY DEF LedgersInv, LedgerHolds
<1>2. /\ Amount(records) \in Int /\ Amount(baseline) \in Int
      /\ Amount(records) = UsdOf(records, DOMAIN records)
      /\ Amount(baseline) = UsdOf(baseline, DOMAIN baseline)
      /\ TotalUsd(records) = Rounded(Amount(records))
      /\ TotalUsd(baseline) = Rounded(Amount(baseline))
      BY <1>1, RecordsHaveUsd, AmountIs DEF Amount, TotalUsd
<1>3. ChatUsd = Amount(chats)
  <2>1. PICK f : f = [i \in DOMAIN chats |-> chats[i].usd]
        OBVIOUS
  <2>2. DOMAIN f = DOMAIN chats
        BY <2>1
  <2>3. ChatUsd = SumFunctionOnSet(f, DOMAIN f)
        BY <2>1 DEF ChatUsd, SumFunction
  <2>4. Amount(chats) = SumFunctionOnSet(f, DOMAIN chats)
        BY <2>1 DEF Amount, UsdOf
  <2> QED BY <2>2, <2>3, <2>4
<1>4. ASSUME loop = "sampling"
      PROVE  /\ TotalUsd(baseline) <= TotalUsd(records)
             /\ calls % SampleEvery = 0 /\ (\A i \in DOMAIN records : records[i].usd = records[1].usd) =>
                  SampleEvery * UsdOf(baseline, DOMAIN baseline) = UsdOf(records, DOMAIN records)
  <2>1. Amount(baseline) <= Amount(records)
        BY <1>4 DEF LedgersInv, LedgerHolds, Sampled
  <2>2. TotalUsd(baseline) <= TotalUsd(records)
        BY <1>2, <2>1, RoundedGrows
  <2>3. calls % SampleEvery = 0 /\ (\A i \in DOMAIN records : records[i].usd = records[1].usd) =>
          SampleEvery * Amount(baseline) = Amount(records)
        BY <1>4, SampleExtrapolates
  <2> QED BY <1>2, <2>2, <2>3
<1>5. ASSUME loop \in {"billing", "routing", "cache", "retry"}
      PROVE  /\ Len(chats) = calls
             /\ Apart(ChatUsd, UsdOf(records, DOMAIN records))
                  <= IF loop = "routing" THEN 5 * calls ELSE 0
  <2>1. Len(chats) = calls
        BY <1>5 DEF LedgersInv, LedgerHolds
  <2>2. CASE loop = "routing"
        BY <1>2, <1>3, <2>1, <2>2 DEF LedgersInv, LedgerHolds
  <2>3. CASE loop # "routing"
    <3>1. ChatUsd = Amount(records)
          BY <1>3, <1>5, <2>3 DEF LedgersInv, LedgerHolds
    <3> QED BY <1>2, <2>1, <2>3, <3>1 DEF Apart
  <2> QED BY <2>2, <2>3
<1>6. ASSUME loop = "cache"
      PROVE  \A i, j \in DOMAIN chats :
               chats[i].question = chats[j].question /\ ~chats[i].hit /\ ~chats[j].hit => i = j
      BY <1>6 DEF LedgersInv, LedgerHolds, PaidOnce
<1>7. ASSUME loop = "routing" PROVE TotalUsd(records) <= TotalUsd(baseline)
  <2>1. Amount(records) <= Amount(baseline)
        BY <1>7 DEF LedgersInv, LedgerHolds
  <2> QED BY <1>2, <2>1, RoundedGrows
<1>8. ASSUME loop = "retry", calls = 2
      PROVE  records[2].usd - records[1].usd = records[1].usd
      BY <1>8 DEF LedgersInv, LedgerHolds, Retried
<1> QED BY <1>4, <1>5, <1>6, <1>7, <1>8 DEF SpansExplainSpend

(* cost.py, CostLedger, and the loops of chapters 7 to 9: whatever a       *)
(* ledger is rolled up by, its lines add up to the total but for half a    *)
(* millionth each, however many records there are; and the spans a loop    *)
(* shows explain its spend, call by call, hit by hit and retry by retry,   *)
(* to the millionth where the prices allow it (SpansExplainSpend).         *)
THEOREM LedgersAgree == LedgersSpec => []LedgersReconcile
<1>1. LedgersInv => LedgersReconcile
  <2>1. LedgersInv => records \in Seq(LedgerRecords)
        BY DEF LedgersInv, LedgerHolds
  <2> QED BY <2>1, RollUpsAre, SpansAre DEF LedgersReconcile
<1> QED BY <1>1, LedgersInitInv, LedgersStep, PTL DEF LedgersSpec

-----------------------------------------------------------------------------
(* Entries of a ledger, or of a part of one.                               *)
EntryRecords == [kind : {"cost", "benefit"}, usd : Nat,
                 confidence : {"direct_cost", "measured", "assumed"}]

EntriesOK(entries) ==
  /\ IsFiniteSet(DOMAIN entries)
  /\ \A i \in DOMAIN entries : entries[i] \in EntryRecords

LEMMA SequenceIsOK ==
  ASSUME NEW q \in Seq(EntryRecords)
  PROVE  EntriesOK(q)
<1>1. DOMAIN q = 1..Len(q) /\ Len(q) \in Nat
      OBVIOUS
<1>2. IsFiniteSet(1..Len(q))
      BY <1>1, FS_Interval
<1> QED BY <1>1, <1>2 DEF EntriesOK

LEMMA KeptIsOK ==
  ASSUME NEW q, EntriesOK(q), NEW blocked
  PROVE  /\ EntriesOK(WithoutConfidence(q, blocked))
         /\ DOMAIN WithoutConfidence(q, blocked) = {i \in DOMAIN q : q[i].confidence # blocked}
         /\ \A i \in DOMAIN WithoutConfidence(q, blocked) : WithoutConfidence(q, blocked)[i] = q[i]
<1>1. PICK S : S = {i \in DOMAIN q : q[i].confidence # blocked}
      OBVIOUS
<1>2. PICK k : k = [i \in S |-> q[i]]
      OBVIOUS
<1>3. WithoutConfidence(q, blocked) = k
      BY <1>1, <1>2 DEF WithoutConfidence, RestrictValues, Restrict
<1>4. DOMAIN k = S /\ \A i \in S : k[i] = q[i]
      BY <1>2
<1>5. IsFiniteSet(S)
      BY <1>1, FS_Subset DEF EntriesOK
<1>6. EntriesOK(k)
      BY <1>1, <1>4, <1>5 DEF EntriesOK
<1> QED BY <1>1, <1>3, <1>4, <1>6

(* What part of a ledger amounts to, of the entries in it.                 *)
Usds(q) == [i \in DOMAIN q |-> q[i].usd]

LEMMA AmountOfIs ==
  ASSUME NEW q, EntriesOK(q), NEW S \in SUBSET (DOMAIN q)
  PROVE  /\ AmountOf(q, S) = SumFunctionOnSet(Usds(q), S) /\ AmountOf(q, S) \in Nat
         /\ IsFiniteSet(S) /\ IntOn(Usds(q), S)
<1>1. IsFiniteSet(S)
      BY FS_Subset DEF EntriesOK
<1>2. \A i \in S : Usds(q)[i] \in Nat
      BY DEF EntriesOK, EntryRecords, Usds
<1>3. AmountOf(q, S) = SumFunctionOnSet(Usds(q), S)
      BY DEF AmountOf, Usds
<1> QED BY <1>1, <1>2, <1>3, SumOfNat DEF IntOn

LEMMA SameAmount ==
  ASSUME NEW q, EntriesOK(q), NEW k, EntriesOK(k), NEW S \in SUBSET (DOMAIN q),
         S \subseteq DOMAIN k, \A i \in S : k[i] = q[i]
  PROVE  AmountOf(k, S) = AmountOf(q, S)
<1>1. Agree(Usds(k), Usds(q), S)
  <2>1. \A i \in S : Usds(k)[i] = k[i].usd /\ Usds(q)[i] = q[i].usd
        BY DEF Usds
  <2> QED BY <2>1 DEF Agree
<1> QED BY <1>1, AmountOfIs, SumSame

(* Rounding to the nearest keeps the order.                                *)
LEMMA NearestGrows ==
  ASSUME NEW x \in Int, NEW y \in Int, NEW d \in Nat \ {0}, x >= y
  PROVE  Nearest(x, d) \in Int /\ Nearest(y, d) \in Int /\ Nearest(x, d) >= Nearest(y, d)
<1>1. PICK u, v, e \in Int : u = 2 * x + d /\ v = 2 * y + d /\ e = 2 * d
      OBVIOUS
<1>2. e > 0 /\ u >= v
      BY <1>1
<1>3. PICK p, q \in Int : p = u \div e /\ q = v \div e
      BY <1>2
<1>4. e * p <= u /\ u < e * p + e /\ e * q <= v /\ v < e * q + e
      BY <1>2, <1>3
<1>5. p >= q
  <2>1. SUFFICES ASSUME q - p >= 1 PROVE FALSE
        BY <1>3
  <2>2. \A z \in Int : z >= 1 => e * z >= e
        BY <1>2
  <2>3. e * (q - p) = e * q - e * p /\ e * p \in Int /\ e * q \in Int
        OBVIOUS
  <2> QED BY <1>2, <1>4, <2>1, <2>2, <2>3
<1> QED BY <1>1, <1>3, <1>5 DEF Nearest

LEMMA RoiIs ==
  ASSUME NEW q, EntriesOK(q)
  PROVE  /\ Costs(q) \in Nat /\ Benefits(q) \in Nat
         /\ \A c : ByConfidence(q, c) \in Nat
         /\ Roi(q)[1] = Nearest(Precision * (Benefits(q) - Costs(q)), Costs(q))
         /\ Roi(q)[2] = Precision /\ Precision \in Nat \ {0}
         /\ RoiDefined(q) => Roi(q)[1] \in Int
<1>1. \A S \in SUBSET (DOMAIN q) : AmountOf(q, S) \in Nat
      BY AmountOfIs
<1>2. /\ Costs(q) \in Nat /\ Benefits(q) \in Nat
      /\ \A c : ByConfidence(q, c) \in Nat
      BY <1>1 DEF Costs, Benefits, ByConfidence
<1>3. /\ Roi(q)[1] = Nearest(Precision * (Benefits(q) - Costs(q)), Costs(q))
      /\ Roi(q)[2] = Precision /\ Precision \in Nat \ {0}
      BY ValueOK DEF Roi
<1>4. ASSUME RoiDefined(q) PROVE Roi(q)[1] \in Int
  <2>1. PICK x \in Int : x = Precision * (Benefits(q) - Costs(q))
        BY <1>2, <1>3
  <2>2. Costs(q) \in Nat \ {0}
        BY <1>2, <1>4 DEF RoiDefined
  <2>3. Nearest(x, Costs(q)) \in Int
        BY <2>2, NearestGrows
  <2> QED BY <1>3, <2>1, <2>3
<1> QED BY <1>2, <1>3, <1>4

(* Without what is assumed, a ledger whose costs are not.                  *)
LEMMA FloorIs ==
  ASSUME NEW q, EntriesOK(q), \A i \in DOMAIN q : q[i].kind = "cost" => q[i].confidence # "assumed"
  PROVE  LET kept == WithoutConfidence(q, "assumed") IN
           /\ Costs(kept) = Costs(q)
           /\ RoiDefined(q) => AtLeast(Roi(q), Roi(kept))
           /\ Benefits(q) - Benefits(kept) = ByConfidence(q, "assumed")
<1>1. PICK k : k = WithoutConfidence(q, "assumed")
      OBVIOUS
<1>2. /\ EntriesOK(k) /\ DOMAIN k = {i \in DOMAIN q : q[i].confidence # "assumed"}
      /\ \A i \in DOMAIN k : k[i] = q[i]
  <2>1. /\ EntriesOK(WithoutConfidence(q, "assumed"))
        /\ DOMAIN WithoutConfidence(q, "assumed") = {i \in DOMAIN q : q[i].confidence # "assumed"}
        /\ \A i \in DOMAIN WithoutConfidence(q, "assumed") :
             WithoutConfidence(q, "assumed")[i] = q[i]
        BY ONLY EntriesOK(q), KeptIsOK
  <2> QED BY ONLY <1>1, <2>1
<1>3. PICK C, B, G, A : /\ C = {i \in DOMAIN q : q[i].kind = "cost"}
                        /\ B = {i \in DOMAIN q : q[i].kind = "benefit"}
                        /\ G = {i \in DOMAIN k : k[i].kind = "benefit"}
                        /\ A = {i \in DOMAIN q : q[i].confidence = "assumed"}
      OBVIOUS
<1>4. Costs(k) = Costs(q)
  <2>1. {i \in DOMAIN k : k[i].kind = "cost"} = C
        BY <1>2, <1>3
  <2>2. C \subseteq DOMAIN k /\ C \in SUBSET (DOMAIN q)
        BY <1>3, <2>1
  <2>3. AmountOf(k, C) = AmountOf(q, C)
        BY <1>2, <2>2, SameAmount
  <2> QED BY <1>3, <2>1, <2>3 DEF Costs
<1>5. B = G \cup A /\ G \cap A = {} /\ G \subseteq DOMAIN k /\ G \in SUBSET (DOMAIN q)
      /\ A \in SUBSET (DOMAIN q)
  <2>1. \A i \in DOMAIN q : q[i].kind \in {"cost", "benefit"}
        BY DEF EntriesOK, EntryRecords
  <2> QED BY <1>2, <1>3, <2>1
<1>6. AmountOf(q, B) = AmountOf(q, G) + AmountOf(q, A)
  <2>1. IsFiniteSet(G) /\ IsFiniteSet(A) /\ IntOn(Usds(q), G \cup A)
        BY <1>5, AmountOfIs DEF IntOn
  <2>2. SumFunctionOnSet(Usds(q), G \cup A)
          = SumFunctionOnSet(Usds(q), G) + SumFunctionOnSet(Usds(q), A)
        BY <1>5, <2>1, SumOfUnion
  <2>3. B \in SUBSET (DOMAIN q)
        BY <1>3
  <2> QED BY <1>5, <2>2, <2>3, AmountOfIs
<1>7. AmountOf(k, G) = AmountOf(q, G)
      BY <1>2, <1>3, <1>5, SameAmount
<1>8. PICK b, g, a, c \in Nat : b = Benefits(q) /\ g = Benefits(k) /\ a = ByConfidence(q, "assumed") /\ c = Costs(q)
      BY <1>2, RoiIs
<1>9. b = g + a
      BY <1>3, <1>6, <1>7, <1>8 DEF Benefits, ByConfidence
<1>10. Benefits(q) - Benefits(k) = ByConfidence(q, "assumed")
       BY <1>8, <1>9
<1>11. ASSUME RoiDefined(q) PROVE AtLeast(Roi(q), Roi(k))
  <2>1. PICK f \in Nat \ {0} : f = Precision
        BY RoiIs
  <2>2. f * (b - c) >= f * (g - c) /\ f * (b - c) \in Int /\ f * (g - c) \in Int
    <3>1. f * (b - c) = f * (g - c) + f * a /\ f * a \in Nat /\ f * (g - c) \in Int
          BY <1>8, <1>9, <2>1
    <3> QED BY <3>1
  <2>3. c \in Nat \ {0}
        BY <1>8, <1>11 DEF RoiDefined
  <2>4. PICK x, y \in Int : x = Nearest(f * (b - c), c) /\ y = Nearest(f * (g - c), c) /\ x >= y
        BY <2>2, <2>3, NearestGrows
  <2>5. Roi(q)[1] = x /\ Roi(q)[2] = f /\ Roi(k)[1] = y /\ Roi(k)[2] = f
        BY <1>2, <1>4, <1>8, <2>1, <2>4, RoiIs
  <2>6. (x - y) * f \in Nat /\ x * f = y * f + (x - y) * f /\ x * f \in Int /\ y * f \in Int
        BY <2>1, <2>4
  <2>7. x * f >= y * f
        BY <2>6
  <2> QED BY <2>5, <2>7 DEF AtLeast
<1> QED BY <1>1, <1>4, <1>10, <1>11

(* What a page tells of the ledgers of the two periods.                    *)
Told(page, current, prior) ==
  /\ \A m \in Metrics : m \notin page.attention /\ m = "roi_ratio" => OnTarget(m, Roi(current))
  /\ \A m \in Metrics : m \notin page.attention /\ m = "assumed_value_usd" =>
       OnTarget(m, <<ByConfidence(current, "assumed"), 1>>)
  /\ page.trend["roi_ratio"] = Trend(Roi(current), Roi(prior))
  /\ RoiDefined(current) /\ RoiDefined(prior)

ValueInv ==
  /\ ledgers \in [Periods -> Seq(EntryRecords)]
  /\ summary # << >> => Told(summary, ledgers["current"], ledgers["prior"])

LEMMA ValueInitInv == ValueInit => ValueInv
<1>1. << >> \in Seq(EntryRecords)
      OBVIOUS
<1> QED BY <1>1 DEF ValueInit, ValueInv

LEMMA EntriesHaveUsd == \A e \in EntryRecords : e.usd \in Nat
BY DEF EntryRecords

LEMMA AddInv ==
  ASSUME ValueInv, NEW p \in Periods, NEW usd \in Amounts, NEW kind \in {"cost", "benefit"},
         NEW c \in {"direct_cost", "measured", "assumed"}, Add(p, kind, usd, c)
  PROVE  ValueInv'
<1>1. PICK e : e = Entry(kind, usd, c)
      OBVIOUS
<1>2. e \in EntryRecords
      BY <1>1, ValueOK DEF Entry, EntryRecords
<1>3. ledgers[p] \in Seq(EntryRecords)
      BY DEF ValueInv
<1>4. Append(ledgers[p], e) \in Seq(EntryRecords)
      BY <1>2, <1>3, AmountAdds, EntriesHaveUsd
<1>5. ledgers' = [ledgers EXCEPT ![p] = Append(ledgers[p], e)] /\ summary' = << >>
      BY <1>1 DEF Add
<1> QED BY <1>4, <1>5 DEF ValueInv

LEMMA RenderInv ==
  ASSUME ValueInv, NEW l1, NEW l2, Render(l1, l2)
  PROVE  ValueInv'
<1>1. PICK current, prior : current = ledgers["current"] /\ prior = ledgers["prior"]
      OBVIOUS
<1>2. PICK now, before : now = Values(current, l1) /\ before = Values(prior, l2)
      OBVIOUS
<1>3. PICK page : page =
        [attention |-> {m \in Metrics : ~OnTarget(m, now[m])},
         trend |-> [m \in Metrics |->
           IF m = "assumed_value_usd" THEN "no prior period" ELSE Trend(now[m], before[m])]]
      OBVIOUS
<1>4. /\ summary' = page /\ ledgers' = ledgers
      /\ RoiDefined(current) /\ RoiDefined(prior)
      BY <1>1, <1>2, <1>3 DEF Render, Periods
<1>5. /\ now["roi_ratio"] = Roi(current) /\ before["roi_ratio"] = Roi(prior)
      /\ now["assumed_value_usd"] = <<ByConfidence(current, "assumed"), 1>>
      BY <1>2 DEF Values, Metrics
<1>6. /\ \A m \in Metrics : m \notin page.attention => OnTarget(m, now[m])
      /\ page.trend["roi_ratio"] = Trend(now["roi_ratio"], before["roi_ratio"])
      BY <1>3 DEF Metrics
<1>7. Told(page, current, prior)
      BY <1>4, <1>5, <1>6 DEF Told
<1> QED BY <1>1, <1>4, <1>7 DEF ValueInv

LEMMA ValueStep == ValueInv /\ [ValueNext]_valueVars => ValueInv'
<1> SUFFICES ASSUME ValueInv, [ValueNext]_valueVars PROVE ValueInv'
    OBVIOUS
<1>1. CASE UNCHANGED valueVars
      BY <1>1 DEF valueVars, ValueInv
<1>2. CASE ValueNext
  <2>1. ASSUME NEW p \in Periods, NEW usd \in Amounts, NEW c \in {"direct_cost", "measured", "assumed"},
               Add(p, "cost", usd, c) \/ Add(p, "benefit", usd, c)
        PROVE  ValueInv'
        BY <2>1, AddInv
  <2>2. ASSUME NEW l1 \in Latencies, NEW l2 \in Latencies, Render(l1, l2) PROVE ValueInv'
        BY <2>2, RenderInv
  <2> QED BY <1>2, <2>1, <2>2 DEF ValueNext
<1> QED BY <1>1, <1>2

LEMMA PeriodsAreOK ==
  ASSUME ValueInv, NEW p \in Periods
  PROVE  EntriesOK(ledgers[p])
<1>1. ledgers[p] \in Seq(EntryRecords)
      BY DEF ValueInv
<1> QED BY <1>1, SequenceIsOK

LEMMA FloorsAre == ValueInv => MeasuredRoiIsFloor
<1> SUFFICES ASSUME ValueInv, NEW p \in Periods,
                    \A i \in DOMAIN ledgers[p] :
                      ledgers[p][i].kind = "cost" => ledgers[p][i].confidence # "assumed"
             PROVE  /\ Costs(WithoutConfidence(ledgers[p], "assumed")) = Costs(ledgers[p])
                    /\ RoiDefined(ledgers[p]) =>
                         AtLeast(Roi(ledgers[p]), Roi(WithoutConfidence(ledgers[p], "assumed")))
                    /\ Benefits(ledgers[p]) - Benefits(WithoutConfidence(ledgers[p], "assumed"))
                         = ByConfidence(ledgers[p], "assumed")
    BY DEF MeasuredRoiIsFloor
<1>1. EntriesOK(ledgers[p])
      BY PeriodsAreOK
<1> QED BY <1>1, FloorIs

(* An arrow from r to q.                                                   *)
LEMMA ArrowsAre ==
  ASSUME NEW q, NEW r, q[1] \in Int, q[2] \in Nat \ {0}, r[1] \in Int \ {0}, r[2] \in Nat
  PROVE  /\ Trend(q, r) = "up" => ~AtLeast(r, q)
         /\ Trend(q, r) = "down" => ~AtLeast(q, r)
<1>1. PICK c, d \in Int : c = q[1] * r[2] /\ d = r[1] * q[2]
      OBVIOUS
<1>2. PICK change : change = Change(q, r)
      OBVIOUS
<1>3. change[1] = c - d
      BY <1>1, <1>2 DEF Change
<1>4. PICK s \in Int : s = change[2]
  <2>1. Magnitude(r[1]) \in Int
        BY DEF Magnitude
  <2>2. change[2] = Magnitude(r[1]) * q[2]
        BY <1>2 DEF Change
  <2>3. Magnitude(r[1]) * q[2] \in Int
        BY <2>1
  <2> QED BY <2>2, <2>3
<1>5. s > 0
  <2>1. Magnitude(r[1]) \in Nat \ {0}
        BY DEF Magnitude
  <2>2. s = Magnitude(r[1]) * q[2]
        BY <1>2, <1>4 DEF Change
  <2>3. \A x, y \in Nat \ {0} : x * y > 0
        OBVIOUS
  <2> QED BY <2>1, <2>2, <2>3
<1>6. Trend(q, r) = IF 100 * Magnitude(c - d) < 2 * s THEN "flat"
                    ELSE IF c - d > 0 THEN "up" ELSE "down"
      BY <1>2, <1>3, <1>4 DEF Trend
<1>7. Trend(q, r) = "up" => c > d
      BY <1>6
<1>8. AtLeast(r, q) <=> d >= c
      BY <1>1 DEF AtLeast
<1>9. AtLeast(q, r) <=> c >= d
      BY <1>1 DEF AtLeast
<1>10. Trend(q, r) = "down" => c < d
  <2>1. c = d => Magnitude(c - d) = 0
        BY DEF Magnitude
  <2>2. c = d => Trend(q, r) = "flat"
        BY <1>5, <1>6, <2>1
  <2> QED BY <1>6, <2>2
<1> QED BY <1>7, <1>8, <1>9, <1>10

LEMMA SummaryIs == ValueInv => SummaryIsTrue
<1> SUFFICES ASSUME ValueInv, summary # << >> PROVE SummaryIsTrue
    BY DEF SummaryIsTrue
<1>1. PICK current, prior : current = ledgers["current"] /\ prior = ledgers["prior"]
      OBVIOUS
<1>2. PICK page : page = summary
      OBVIOUS
<1>3. Told(page, current, prior) /\ EntriesOK(current) /\ EntriesOK(prior)
      BY <1>1, <1>2, PeriodsAreOK DEF ValueInv, Periods
<1>4. PICK now, before : now = Roi(current) /\ before = Roi(prior)
      OBVIOUS
<1>5. /\ now[1] \in Int /\ now[2] \in Nat \ {0} /\ before[1] \in Int /\ before[2] \in Nat \ {0}
  <2>1. RoiDefined(current) /\ RoiDefined(prior)
        BY <1>3 DEF Told
  <2> QED BY <1>3, <1>4, <2>1, RoiIs
<1>6. ASSUME page.attention = {}
      PROVE  /\ AtLeast(now, Roi(WithoutConfidence(Table, "assumed")))
             /\ ByConfidence(current, "assumed") <= ByConfidence(Table, "assumed")
  <2>1. OnTarget("roi_ratio", now)
        BY <1>3, <1>4, <1>6 DEF Told, Metrics
  <2>2. AtLeast(now, Roi(WithoutConfidence(Table, "assumed")))
    <3>1. Targets["roi_ratio"] = Roi(WithoutConfidence(Table, "assumed"))
          BY DEF Targets, Metrics
    <3>2. Goal("roi_ratio") = "at_least"
          BY DEF Goal
    <3> QED BY <2>1, <3>1, <3>2 DEF OnTarget
  <2>3. PICK a, t \in Nat : a = ByConfidence(current, "assumed") /\ t = ByConfidence(Table, "assumed")
    <3>1. EntriesOK(Table)
          BY ValueOK, SequenceIsOK DEF EntryRecords
    <3> QED BY <1>3, <3>1, RoiIs
  <2>4. OnTarget("assumed_value_usd", <<a, 1>>)
        BY <1>3, <1>6, <2>3 DEF Told, Metrics
  <2>5. AtLeast(<<t, 1>>, <<a, 1>>)
    <3>1. Targets["assumed_value_usd"] = <<t, 1>>
          BY <2>3 DEF Targets, Metrics
    <3>2. Goal("assumed_value_usd") = "at_most"
          BY DEF Goal
    <3> QED BY <2>4, <3>1, <3>2 DEF OnTarget
  <2>6. a <= t
        BY <2>5 DEF AtLeast
  <2> QED BY <2>2, <2>3, <2>6
<1>7. ASSUME before[1] # 0
      PROVE  /\ page.trend["roi_ratio"] = "up" => ~AtLeast(before, now)
             /\ page.trend["roi_ratio"] = "down" => ~AtLeast(now, before)
  <2>1. page.trend["roi_ratio"] = Trend(now, before)
        BY <1>3, <1>4 DEF Told
  <2> QED BY <1>5, <1>7, <2>1, ArrowsAre
<1>8. Roi(RestrictValues(Table, LAMBDA e : e.confidence # "assumed"))
        = Roi(WithoutConfidence(Table, "assumed"))
      BY DEF WithoutConfidence
<1> QED BY <1>1, <1>2, <1>4, <1>6, <1>7, <1>8 DEF SummaryIsTrue

(* AIValueLedger and the executive summary of chapters 7 and 9: leaving    *)
(* assumed value out never raises a return and takes away exactly what is  *)
(* labelled assumed, whatever was entered; and a page with nothing under   *)
(* "Attention" is of a ledger that meets the measured return of Table 7.3, *)
(* and its arrow points where the return went.                             *)
THEOREM ValueIsReal == ValueSpec => []ValueIsEarned
<1>1. ValueInv => ValueIsEarned
      BY FloorsAre, SummaryIs DEF ValueIsEarned
<1> QED BY <1>1, ValueInitInv, ValueStep, PTL DEF ValueSpec
=============================================================================
