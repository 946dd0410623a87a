------------------------------ MODULE FleetJoin ------------------------------
(***************************************************************************)
(* chapters/ch08/coding_agent_fleet.py: join_fleet walks over the merged   *)
(* changes, then over the sessions, and keeps running counts per team.     *)
(* Nothing makes session ids unique: a harness that exports a session once *)
(* more, or under another team, gives two sessions one id.                 *)
(***************************************************************************)
EXTENDS Integers, Sequences, FiniteSets, Functions, SequencesExt

CONSTANTS
  Teams, SessionIds, SessionCosts,
  MaxSessions, MaxChanges  \* bounds on the two lists

ASSUME FleetOK == SessionCosts \subseteq Nat /\ MaxSessions \in Nat /\ MaxChanges \in Nat

VARIABLES
  sessions, changes,  \* the arguments
  joined,        \* changes, then sessions, gone over so far; -1 before the join
  merged_sessions,
  per_team

fleetVars == <<sessions, changes, joined, merged_sessions, per_team>>

CodingSessions == [id : SessionIds, team : Teams, cost : SessionCosts]

(* A change may name sessions nobody exported, and one of them twice.      *)
MergedChanges ==
  [session_ids : SeqOf(SessionIds \cup {"unknown"}, 2), merged : BOOLEAN, reverted : BOOLEAN]

NoMetrics == [sessions |-> 0, cost |-> 0, merged |-> 0, reverted |-> 0, lost |-> 0, lost_cost |-> 0]

FleetInit ==
  /\ sessions = << >> /\ changes = << >>
  /\ joined = -1
  /\ merged_sessions = {}
  /\ per_team = << >>

Export(s) ==
  /\ joined = -1 /\ changes = << >>
  /\ Len(sessions) < MaxSessions
  /\ sessions' = Append(sessions, s)
  /\ UNCHANGED <<changes, joined, merged_sessions, per_team>>

Land(c) ==
  /\ joined = -1
  /\ Len(changes) < MaxChanges
  /\ changes' = Append(changes, c)
  /\ UNCHANGED <<sessions, joined, merged_sessions, per_team>>

BeginJoin ==
  /\ joined = -1
  /\ joined' = 0
  /\ UNCHANGED <<sessions, changes, merged_sessions, per_team>>

-----------------------------------------------------------------------------
(* join_fleet                                                              *)

\* team_of: of two sessions with one id, the later one's team.
Exported(id) == \E i \in DOMAIN sessions : sessions[i].id = id
TeamOf(id) == sessions[SelectLastInSeq(sessions, LAMBDA s : s.id = id)].team

TeamsOf(c) == {TeamOf(id) : id \in {x \in Range(c.session_ids) : Exported(x)}}

TeamMetrics(t) == IF t \in DOMAIN per_team THEN per_team[t] ELSE NoMetrics

\* Mutant: a team is credited once for every session it had in a change.
CreditPerSession(c) ==
  [t \in TeamsOf(c) |->
     Cardinality({i \in DOMAIN c.session_ids : Exported(c.session_ids[i]) /\ TeamOf(c.session_ids[i]) = t})]

Credit(c) == [t \in TeamsOf(c) |-> 1]

\* The metrics m of a team with n times change c added.
Counted(m, c, n) ==
  [sessions |-> m.sessions, cost |-> m.cost, lost |-> m.lost, lost_cost |-> m.lost_cost,
   merged |-> m.merged + n, reverted |-> IF c.reverted THEN m.reverted + n ELSE m.reverted]

JoinChange ==
  /\ joined \in 0..(Len(changes) - 1)
  /\ LET c == changes[joined + 1] IN
       IF ~c.merged THEN UNCHANGED <<merged_sessions, per_team>>
       ELSE /\ per_team' = [t \in DOMAIN per_team \cup TeamsOf(c) |->
                 IF t \notin TeamsOf(c) THEN per_team[t]
                 ELSE Counted(TeamMetrics(t), c, Credit(c)[t])]
            /\ merged_sessions' = merged_sessions \cup Range(c.session_ids)
  /\ joined' = joined + 1
  /\ UNCHANGED <<sessions, changes>>

\* Mutant: a session is attributed when its team merged anything.
TeamUnattributed(s) == TeamMetrics(s.team).merged = 0

Unattributed(s) == s.id \notin merged_sessions

Spent(m, s) ==
  [sessions |-> m.sessions + 1, cost |-> m.cost + s.cost, merged |-> m.merged, reverted |-> m.reverted,
   lost |-> IF Unattributed(s) THEN m.lost + 1 ELSE m.lost,
   lost_cost |-> IF Unattributed(s) THEN m.lost_cost + s.cost ELSE m.lost_cost]

JoinSession ==
  /\ joined \in Len(changes)..(Len(changes) + Len(sessions) - 1)
  /\ LET s == sessions[joined - Len(changes) + 1]
     IN  per_team' = [t \in DOMAIN per_team \cup {s.team} |->
           IF t # s.team THEN per_team[t] ELSE Spent(TeamMetrics(t), s)]
  /\ joined' = joined + 1
  /\ UNCHANGED <<sessions, changes, merged_sessions>>

FleetNext ==
  \/ \E s \in CodingSessions : Export(s)
  \/ \E c \in MergedChanges : Land(c)
  \/ BeginJoin \/ JoinChange \/ JoinSession

FleetSpec == FleetInit /\ [][FleetNext]_fleetVars

-----------------------------------------------------------------------------
(* Properties                                                              *)

Finished == joined = Len(changes) + Len(sessions)

Over(f, S) == SumFunctionOnSet(f, S)
CostOf(S) == Over([i \in DOMAIN sessions |-> sessions[i].cost], S)

Attributed(s) == \E j \in DOMAIN changes :
  changes[j].merged /\ s.id \in Range(changes[j].session_ids)

(* "Unattributed spend is a first-class number" (coding_agent_fleet.py:26):*)
(* whatever ids repeat, no dollar of the export is lost or counted twice,  *)
(* a team's unattributed cost is that of exactly those of its sessions     *)
(* that no merged change names, and every team that is shown had a         *)
(* session.                                                                *)
NoSpendLost ==
  Finished =>
    /\ DOMAIN per_team = {sessions[i].team : i \in DOMAIN sessions}
    /\ \A t \in DOMAIN per_team : LET own == {i \in DOMAIN sessions : sessions[i].team = t} IN
         /\ per_team[t].cost = CostOf(own)
         /\ per_team[t].lost_cost = CostOf({i \in own : ~Attributed(sessions[i])})

(* A change that several sessions of a team worked on counts once for it,  *)
(* one that several teams worked on once for each, one that was not merged *)
(* or that no known session worked on for nobody; so no team has more      *)
(* reverted changes than merged ones, nor more of either than landed.      *)
ChangesCountOncePerTeam ==
  Finished => \A t \in DOMAIN per_team :
    LET worked == {j \in DOMAIN changes : changes[j].merged /\ t \in TeamsOf(changes[j])} IN
      /\ per_team[t].merged = Cardinality(worked)
      /\ per_team[t].reverted = Cardinality({j \in worked : changes[j].reverted})

(* Both: neither spend nor a change is lost or counted twice.              *)
FleetReconciles == NoSpendLost /\ ChangesCountOncePerTeam
=============================================================================
