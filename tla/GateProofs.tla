----------------------------- MODULE GateProofs -----------------------------
(***************************************************************************)
(* What stops an agent.  The publish checkpoint (GovernanceGate), for any  *)
(* number of runs, callers, reviewers and records and under every          *)
(* combination of faults; and the four breakers of Chapter 16: for any     *)
(* tools, budgets and nesting of calls, the budget of a tool holds between *)
(* two resets, a tool that tripped stays open until the next, and every    *)
(* call made of a tool is accounted for; the loop signature breaker opens  *)
(* exactly on a loop, the streak of the code generator counts its          *)
(* verdicts, and the cost breaker bounds an overrun, for every window,     *)
(* limit and budget.                                                       *)
(***************************************************************************)
EXTENDS GovernanceGate, ToolBudget, LoopBreaker, CodegenBreaker, CostBudget,
        FiniteSetTheorems, TLAPS

-----------------------------------------------------------------------------
(* GovernanceGate.  A saved outcome says nothing about how it came about,  *)
(* so what it promises has to be carried through the node step by step:    *)
(* Progress says what each caller past the role check has already secured. *)

(* Who the last hop names, for an opener and a reviewer.                   *)
Principal(opener, reviewer) == IF reviewer = NoReviewer THEN opener ELSE reviewer

Secured(c) ==
  /\ place[c] \in Answered => call[c].response.reviewer_role \in ApproverRoles
  /\ place[c] \in {"check", "delegate"} /\ chain[c] # << >> => Len(chain[c]) = 1
  /\ place[c] \in {"append", "answer", "return"} =>
       /\ Len(chain[c]) = 2
       /\ chain[c][2].principal =
            Principal(chain[c][1].principal, call[c].response.reviewer)
  /\ place[c] \in {"answer", "return"} =>
       slot[c] \in DOMAIN oversight /\ oversight[slot[c]] = call[c]
  /\ place[c] = "return" => <<slot[c], call[c]>> \in told

Progress == \A c \in Resumers : Secured(c)

GateInv ==
  /\ GateTypeOK
  /\ Progress
  /\ NoTrailForWrongRole
  /\ OutcomeIsRecorded
  /\ ChainEndsWithReviewer

(* Appending to the abstract log adds one position and keeps the others.   *)
LEMMA RecordAdds ==
  ASSUME GateTypeOK, NEW e \in OversightActions, Audit!Record(e)
  PROVE  \E n \in Nat \ DOMAIN oversight :
           /\ DOMAIN oversight' = DOMAIN oversight \cup {n}
           /\ oversight'[n] = e
           /\ \A i \in DOMAIN oversight : oversight'[i] = oversight[i]
           /\ told' = told
<1>1. PICK n \in Audit!Ends :
        oversight' = [i \in DOMAIN oversight \cup {n} |-> IF i = n THEN e ELSE oversight[i]]
      BY DEF Audit!Record
<1>2. n \in Nat \ DOMAIN oversight
      BY <1>1 DEF Audit!Ends, GateTypeOK
<1>3. told' = told
      BY DEF Audit!Record
<1> QED BY <1>1, <1>2, <1>3

LEMMA GateInitInv == GateInit => GateInv
<1> SUFFICES ASSUME GateInit PROVE GateInv
    OBVIOUS
<1>1. GateTypeOK
      BY DEF GateInit, GateTypeOK, NewRun, Audit!Init
<1>2. Progress
      BY DEF GateInit, Progress, Secured, Answered
<1>3. NoTrailForWrongRole
      BY DEF GateInit, NoTrailForWrongRole, Audit!Init
<1>4. \A g \in Runs : ~Settled(g)
      BY DEF GateInit, NewRun, Settled
<1> QED BY <1>1, <1>2, <1>3, <1>4 DEF GateInv, OutcomeIsRecorded, ChainEndsWithReviewer

-----------------------------------------------------------------------------
(* Every variable keeps its type.                                          *)

LEMMA LeaveTyped ==
  ASSUME GateTypeOK, NEW c \in Resumers, LeaveNode(c)
  PROVE  /\ place' \in [Resumers -> {"idle", "check"} \cup Answered]
         /\ call' \in [Resumers -> OversightActions \cup {<< >>}]
         /\ slot' \in [Resumers -> Nat]
         /\ chain' \in [Resumers -> Seq(Hops)]
         /\ \A d \in Resumers : place'[d] = "idle" <=> call'[d] = << >>
BY DEF GateTypeOK, LeaveNode

LEMMA TypeStep == GateTypeOK /\ [GateNext]_gateVars => GateTypeOK'
<1> SUFFICES ASSUME GateTypeOK, [GateNext]_gateVars PROVE GateTypeOK'
    OBVIOUS
<1>1. ASSUME NEW g \in Runs, InvokeToInterrupt(g) PROVE GateTypeOK'
      BY <1>1 DEF GateTypeOK, InvokeToInterrupt
<1>2. ASSUME NEW c \in Resumers, NEW g \in Runs, NEW response \in ApprovalResponses,
             Resume(c, g, response)
      PROVE  GateTypeOK'
  <2>1. [run |-> g, by |-> c, response |-> response] \in OversightActions
        BY DEF OversightActions
  <2>2. [run |-> g, by |-> c, response |-> response] # << >>
        OBVIOUS
  <2>3. <<[actor |-> c, principal |-> c]>> \in Seq(Hops) /\ << >> \in Seq(Hops)
        BY DEF Hops
  <2> QED BY <1>2, <2>1, <2>2, <2>3 DEF GateTypeOK, Resume
<1>3. ASSUME NEW c \in Resumers, EnterScope(c) \/ ExitScope(c) PROVE GateTypeOK'
      BY <1>3 DEF GateTypeOK, EnterScope, ExitScope
<1>4. ASSUME NEW c \in Resumers, CheckRole(c) PROVE GateTypeOK'
  <2>1. CASE MayClear(c)
        BY <1>4, <2>1 DEF GateTypeOK, CheckRole, Answered
  <2>2. CASE ~MayClear(c)
        BY <1>4, <2>2, LeaveTyped DEF GateTypeOK, CheckRole
  <2> QED BY <2>1, <2>2
<1>5. ASSUME NEW c \in Resumers, Delegate(c) PROVE GateTypeOK'
  <2>1. CASE chain[c] = << >>
        BY <1>5, <2>1, LeaveTyped DEF GateTypeOK, Delegate
  <2>2. CASE chain[c] # << >>
    <3>1. HopPrincipal(c) \in Resumers \cup Reviewers \cup {NoReviewer}
      <4>1. chain[c] \in Seq(Hops)
            BY DEF GateTypeOK
      <4>2. chain[c][Len(chain[c])] \in Hops
            BY <4>1, <2>2
      <4>3. call[c].response.reviewer \in Reviewers \cup {NoReviewer}
            BY <1>5 DEF GateTypeOK, Delegate, OversightActions, ApprovalResponses
      <4> QED BY <4>2, <4>3 DEF HopPrincipal, Hops
    <3>2. [actor |-> "publish_checkpoint", principal |-> HopPrincipal(c)] \in Hops
          BY <3>1 DEF Hops
    <3>3. Append(chain[c], [actor |-> "publish_checkpoint",
                            principal |-> HopPrincipal(c)]) \in Seq(Hops)
          BY <3>2 DEF GateTypeOK
    <3> QED BY <1>5, <2>2, <3>3, ZenonT(30) DEF GateTypeOK, Delegate, Answered
  <2> QED BY <2>1, <2>2
<1>6. ASSUME NEW c \in Resumers, AppendAudit(c) \/ AppendLost(c) PROVE GateTypeOK'
  <2>1. call[c] \in OversightActions /\ Audit!Record(call[c])
        BY <1>6 DEF GateTypeOK, AppendAudit, AppendLost
  <2>2. PICK n \in Nat \ DOMAIN oversight :
          /\ DOMAIN oversight' = DOMAIN oversight \cup {n}
          /\ oversight'[n] = call[c]
          /\ \A i \in DOMAIN oversight : oversight'[i] = oversight[i]
        BY <2>1, RecordAdds
  <2>3. /\ DOMAIN oversight' \subseteq Nat
        /\ \A i \in DOMAIN oversight' : oversight'[i] \in OversightActions
        BY <2>1, <2>2 DEF GateTypeOK
  <2>4. CASE AppendAudit(c)
        BY <2>2, <2>3, <2>4 DEF GateTypeOK, AppendAudit, Answered
  <2>5. CASE AppendLost(c)
        BY <2>3, <2>5, LeaveTyped DEF GateTypeOK, AppendLost
  <2> QED BY <1>6, <2>4, <2>5
<1>7. ASSUME NEW c \in Resumers, AppendRaises(c) \/ CallerDies(c) PROVE GateTypeOK'
      BY <1>7, LeaveTyped DEF GateTypeOK, AppendRaises, CallerDies
<1>8. ASSUME NEW c \in Resumers, AppendReturns(c) PROVE GateTypeOK'
      BY <1>8 DEF GateTypeOK, AppendReturns, Audit!Answer, Answered
<1>9. ASSUME NEW c \in Resumers, SaveUpdate(c) PROVE GateTypeOK'
  <2>1. call[c] \in OversightActions /\ chain[c] \in Seq(Hops)
        BY <1>9 DEF GateTypeOK, SaveUpdate
  <2>2. Outcome(c) \in [status : {"new", "paused", "published", "halted"},
                        reviewer : Reviewers \cup {NoReviewer},
                        chain : Seq(Hops)]
        BY <2>1 DEF Outcome, OversightActions, ApprovalResponses
  <2> QED BY <1>9, <2>2, LeaveTyped DEF GateTypeOK, SaveUpdate
<1>10. CASE UNCHANGED gateVars
       BY <1>10 DEF GateTypeOK, gateVars
<1> QED BY <1>1, <1>2, <1>3, <1>4, <1>5, <1>6, <1>7, <1>8, <1>9, <1>10
        DEF GateNext, NodeStep

(* Type correctness holds in every instance.                               *)
THEOREM GateTypeCorrect == GateSpec => []GateTypeOK
<1>1. GateInit => GateTypeOK
      BY GateInitInv DEF GateInv
<1> QED BY <1>1, TypeStep, PTL DEF GateSpec

-----------------------------------------------------------------------------
(* What a caller has secured stays secured.                                *)

LogGrows ==
  /\ \A i \in DOMAIN oversight : i \in DOMAIN oversight' /\ oversight'[i] = oversight[i]
  /\ told \subseteq told'

LEMMA LogOnlyGrows == GateTypeOK /\ [GateNext]_gateVars => LogGrows
<1> SUFFICES ASSUME GateTypeOK, [GateNext]_gateVars PROVE LogGrows
    OBVIOUS
<1>1. ASSUME NEW c \in Resumers, AppendAudit(c) \/ AppendLost(c) PROVE LogGrows
  <2>1. call[c] \in OversightActions /\ Audit!Record(call[c])
        BY <1>1 DEF GateTypeOK, AppendAudit, AppendLost
  <2> QED BY <2>1, RecordAdds DEF LogGrows
<1>2. ASSUME NEW c \in Resumers, AppendReturns(c) PROVE LogGrows
      BY <1>2 DEF LogGrows, AppendReturns, Audit!Answer
<1>3. CASE UNCHANGED <<oversight, told>>
      BY <1>3 DEF LogGrows
<1> QED BY <1>1, <1>2, <1>3
        DEF GateNext, NodeStep, InvokeToInterrupt, Resume, EnterScope, ExitScope, CheckRole,
            Delegate, AppendRaises, SaveUpdate, CallerDies, gateVars

(* A step of one caller leaves every other caller as it was.               *)
Bystander(d) ==
  /\ place'[d] = place[d]
  /\ call'[d] = call[d]
  /\ slot'[d] = slot[d]
  /\ chain'[d] = chain[d]

LEMMA BystanderSecured ==
  ASSUME NEW d \in Resumers, Secured(d), Bystander(d), LogGrows
  PROVE  Secured(d)'
BY DEF Secured, Bystander, LogGrows

LEMMA LeaverSecured ==
  ASSUME GateTypeOK, Progress, NEW c \in Resumers, LeaveNode(c), LogGrows
  PROVE  Progress'
<1>1. Secured(c)'
      BY DEF GateTypeOK, LeaveNode, Secured, Answered
<1>2. ASSUME NEW d \in Resumers, d # c PROVE Secured(d)'
  <2>1. Bystander(d)
        BY <1>2 DEF GateTypeOK, LeaveNode, Bystander
  <2> QED BY <2>1, BystanderSecured DEF Progress
<1> QED BY <1>1, <1>2 DEF Progress

(* A step of caller c secures what c needs and leaves the others alone.    *)
LEMMA MoverSecured ==
  ASSUME GateTypeOK, Progress, LogGrows, NEW c \in Resumers, Secured(c)',
         \A d \in Resumers \ {c} : Bystander(d)
  PROVE  Progress'
BY BystanderSecured DEF Progress

LEMMA ProgressStep == GateTypeOK /\ Progress /\ [GateNext]_gateVars => Progress'
<1> SUFFICES ASSUME GateTypeOK, Progress, [GateNext]_gateVars PROVE Progress'
    OBVIOUS
<1>0. LogGrows
      BY LogOnlyGrows
<1>1. CASE UNCHANGED <<place, call, slot, chain>>
  <2>1. \A d \in Resumers : Bystander(d)
        BY <1>1 DEF Bystander
  <2> QED BY <1>0, <2>1, BystanderSecured DEF Progress
<1>2. ASSUME NEW c \in Resumers, NEW g \in Runs, NEW response \in ApprovalResponses,
             Resume(c, g, response)
      PROVE  Progress'
  <2>1. Secured(c)'
        BY <1>2 DEF GateTypeOK, Resume, Secured, Answered
  <2>2. \A d \in Resumers \ {c} : Bystander(d)
        BY <1>2 DEF GateTypeOK, Resume, Bystander
  <2> QED BY <1>0, <2>1, <2>2, MoverSecured
<1>3. ASSUME NEW c \in Resumers, CheckRole(c) PROVE Progress'
  <2>1. CASE MayClear(c)
    <3>1. Secured(c)'
          BY <1>3, <2>1 DEF GateTypeOK, Progress, CheckRole, MayClear, Secured, Answered
    <3>2. \A d \in Resumers \ {c} : Bystander(d)
          BY <1>3, <2>1 DEF GateTypeOK, CheckRole, Bystander
    <3> QED BY <1>0, <3>1, <3>2, MoverSecured
  <2>2. CASE ~MayClear(c)
        BY <1>0, <1>3, <2>2, LeaverSecured DEF CheckRole
  <2> QED BY <2>1, <2>2
<1>4. ASSUME NEW c \in Resumers, Delegate(c) PROVE Progress'
  <2>1. CASE chain[c] = << >>
        BY <1>0, <1>4, <2>1, LeaverSecured DEF Delegate
  <2>2. CASE chain[c] # << >>
    <3> DEFINE hop == [actor |-> "publish_checkpoint", principal |-> HopPrincipal(c)]
    <3>1. Len(chain[c]) = 1 /\ chain[c] \in Seq(Hops) /\ place[c] = "delegate"
          BY <1>4, <2>2 DEF GateTypeOK, Delegate, Progress, Secured
    <3>2. chain'[c] = Append(chain[c], hop) /\ place'[c] = "append" /\ call'[c] = call[c]
          BY <1>4, <2>2 DEF GateTypeOK, Delegate
    <3>3. HopPrincipal(c) = Principal(chain[c][1].principal, call[c].response.reviewer)
          BY <3>1 DEF HopPrincipal, Principal
    <3>4. Len(chain'[c]) = 2 /\ chain'[c][1] = chain[c][1] /\ chain'[c][2] = hop
      <4> HIDE DEF hop
      <4> QED BY <3>1, <3>2
    <3>5. chain'[c][2].principal =
            Principal(chain'[c][1].principal, call'[c].response.reviewer)
          BY <3>2, <3>3, <3>4
    <3>6. call'[c].response.reviewer_role \in ApproverRoles
          BY <3>1, <3>2 DEF Progress, Secured, Answered
    <3>7. Secured(c)'
          BY <3>2, <3>4, <3>5, <3>6 DEF Secured
    <3>8. \A d \in Resumers \ {c} : Bystander(d)
          BY <1>4, <2>2 DEF GateTypeOK, Delegate, Bystander
    <3> QED BY <1>0, <3>7, <3>8, MoverSecured
  <2> QED BY <2>1, <2>2
<1>5. ASSUME NEW c \in Resumers, AppendAudit(c) PROVE Progress'
  <2>1. call[c] \in OversightActions /\ Audit!Record(call[c])
        BY <1>5 DEF GateTypeOK, AppendAudit
  <2>2. PICK n \in Nat \ DOMAIN oversight :
          DOMAIN oversight' = DOMAIN oversight \cup {n} /\ oversight'[n] = call[c]
        BY <2>1, RecordAdds
  <2>3. place[c] = "append" /\ place'[c] = "answer" /\ slot'[c] = n
        BY <1>5, <2>2 DEF GateTypeOK, AppendAudit
  <2>4. call' = call /\ chain' = chain
        BY <1>5 DEF AppendAudit
  <2>5. Secured(c)'
        BY <2>2, <2>3, <2>4 DEF Progress, Secured, Answered
  <2>6. \A d \in Resumers \ {c} : Bystander(d)
        BY <1>5 DEF GateTypeOK, AppendAudit, Bystander
  <2> QED BY <1>0, <2>5, <2>6, MoverSecured
<1>6. ASSUME NEW c \in Resumers, AppendReturns(c) PROVE Progress'
  <2>1. Secured(c)'
        BY <1>6 DEF GateTypeOK, Progress, AppendReturns, Audit!Answer, Secured, Answered
  <2>2. \A d \in Resumers \ {c} : Bystander(d)
        BY <1>6 DEF GateTypeOK, AppendReturns, Bystander
  <2> QED BY <1>0, <2>1, <2>2, MoverSecured
<1>7. ASSUME NEW c \in Resumers, LeaveNode(c) PROVE Progress'
      BY <1>0, <1>7, LeaverSecured
<1> QED BY <1>1, <1>2, <1>3, <1>4, <1>5, <1>6, <1>7
        DEF GateNext, NodeStep, InvokeToInterrupt, EnterScope, ExitScope, AppendRaises,
            AppendLost, SaveUpdate, CallerDies, gateVars

-----------------------------------------------------------------------------
(* What the log and the checkpointer hold.                                 *)

LEMMA TrailStep ==
  GateTypeOK /\ Progress /\ NoTrailForWrongRole /\ [GateNext]_gateVars => NoTrailForWrongRole'
<1> SUFFICES ASSUME GateTypeOK, Progress, NoTrailForWrongRole, [GateNext]_gateVars
             PROVE  NoTrailForWrongRole'
    OBVIOUS
<1>1. ASSUME NEW c \in Resumers, AppendAudit(c) \/ AppendLost(c)
      PROVE  NoTrailForWrongRole'
  <2>1. call[c] \in OversightActions /\ Audit!Record(call[c]) /\ place[c] = "append"
        BY <1>1 DEF GateTypeOK, AppendAudit, AppendLost
  <2>2. call[c].response.reviewer_role \in ApproverRoles
        BY <2>1 DEF Progress, Secured, Answered
  <2>3. PICK n \in Nat \ DOMAIN oversight :
          /\ DOMAIN oversight' = DOMAIN oversight \cup {n}
          /\ oversight'[n] = call[c]
          /\ \A i \in DOMAIN oversight : oversight'[i] = oversight[i]
        BY <2>1, RecordAdds
  <2> QED BY <2>2, <2>3 DEF NoTrailForWrongRole
<1>2. CASE UNCHANGED oversight
      BY <1>2 DEF NoTrailForWrongRole
<1> QED BY <1>1, <1>2
        DEF GateNext, NodeStep, InvokeToInterrupt, Resume, EnterScope, ExitScope, CheckRole,
            Delegate, AppendRaises, AppendReturns, Audit!Answer, SaveUpdate, CallerDies, gateVars

(* A run that no caller is saving keeps its outcome and the outcome's      *)
(* record.                                                                 *)
Recorded(g) ==
  Settled(g) =>
    \E i \in DOMAIN oversight : Matches(oversight[i], g) /\ <<i, oversight[i]>> \in told

Chained(g) ==
  Settled(g) =>
    /\ Len(run[g].chain) = 2
    /\ run[g].chain[2].principal = IF run[g].reviewer = NoReviewer
                                   THEN run[g].chain[1].principal
                                   ELSE run[g].reviewer

LEMMA UntouchedRun ==
  ASSUME NEW g \in Runs, Recorded(g), Chained(g), LogGrows, run'[g] = run[g]
  PROVE  Recorded(g)' /\ Chained(g)'
BY DEF Recorded, Chained, Settled, Matches, LogGrows

LEMMA OutcomeStep ==
  ASSUME GateTypeOK, Progress, NEW c \in Resumers, SaveUpdate(c),
         NEW g \in Runs, call[c].run = g
  PROVE  Recorded(g)' /\ Chained(g)'
<1>1. run'[g] = Outcome(c) /\ oversight' = oversight /\ told' = told
      BY DEF GateTypeOK, SaveUpdate
<1>2. /\ slot[c] \in DOMAIN oversight
      /\ oversight[slot[c]] = call[c]
      /\ <<slot[c], call[c]>> \in told
      /\ Len(chain[c]) = 2
      /\ chain[c][2].principal =
           Principal(chain[c][1].principal, call[c].response.reviewer)
      BY DEF SaveUpdate, Progress, Secured
<1>3. /\ run'[g].reviewer = call[c].response.reviewer
      /\ run'[g].chain = chain[c]
      /\ run'[g].status = IF call[c].response.decision = "reject"
                          THEN "halted" ELSE "published"
      BY <1>1 DEF Outcome
<1>4. (call[c].response.decision = "reject") <=> (run'[g].status = "halted")
      BY <1>3
<1>5. Recorded(g)'
  <2>1. /\ oversight'[slot[c]].run = g
        /\ oversight'[slot[c]].response.reviewer = run'[g].reviewer
        /\ (oversight'[slot[c]].response.decision = "reject") <=> (run'[g].status = "halted")
        BY <1>1, <1>2, <1>3, <1>4
  <2>2. slot[c] \in DOMAIN oversight' /\ <<slot[c], oversight'[slot[c]]>> \in told'
        BY <1>1, <1>2
  <2> QED BY <2>1, <2>2 DEF Recorded, Matches
<1>6. Chained(g)'
      BY <1>2, <1>3 DEF Chained, Principal
<1> QED BY <1>5, <1>6

LEMMA OutcomesStep ==
  ASSUME GateTypeOK, Progress, OutcomeIsRecorded, ChainEndsWithReviewer, [GateNext]_gateVars
  PROVE  OutcomeIsRecorded' /\ ChainEndsWithReviewer'
<1>0. LogGrows
      BY LogOnlyGrows
<1>1. \A g \in Runs : Recorded(g) /\ Chained(g)
      BY DEF OutcomeIsRecorded, ChainEndsWithReviewer, Recorded, Chained
<1>2. ASSUME NEW g \in Runs PROVE Recorded(g)' /\ Chained(g)'
  <2>1. ASSUME NEW c \in Resumers, SaveUpdate(c), call[c].run = g
        PROVE  Recorded(g)' /\ Chained(g)'
        BY <2>1, OutcomeStep
  <2>2. CASE run'[g] = run[g]
        BY <1>0, <1>1, <2>2, UntouchedRun
  <2>3. ASSUME NEW h \in Runs, InvokeToInterrupt(h) PROVE Recorded(g)' /\ Chained(g)'
    <3>1. run'[g] = run[g] \/ ~Settled(g)'
          BY <2>3 DEF GateTypeOK, InvokeToInterrupt, Settled
    <3> QED BY <2>2, <3>1 DEF Recorded, Chained
  <2>4. ASSUME NEW c \in Resumers, SaveUpdate(c), call[c].run # g
        PROVE  run'[g] = run[g]
        BY <2>4 DEF GateTypeOK, SaveUpdate
  <2> QED BY <2>1, <2>2, <2>3, <2>4
          DEF GateNext, NodeStep, Resume, EnterScope, ExitScope, CheckRole, Delegate,
              AppendAudit, AppendLost, AppendRaises, AppendReturns, CallerDies, gateVars
<1> QED BY <1>2 DEF OutcomeIsRecorded, ChainEndsWithReviewer, Recorded, Chained

LEMMA GateStep == GateInv /\ [GateNext]_gateVars => GateInv'
BY TypeStep, ProgressStep, TrailStep, OutcomesStep DEF GateInv

LEMMA GateInvariance == GateSpec => []GateInv
BY GateInitInv, GateStep, PTL DEF GateSpec

-----------------------------------------------------------------------------

(* "A rejected credential must not leave an approval trail", for any       *)
(* number of callers racing on any number of runs.                         *)
THEOREM WrongRoleLeavesNoTrail == GateSpec => []NoTrailForWrongRole
<1>1. GateInv => NoTrailForWrongRole
      BY DEF GateInv
<1> QED BY GateInvariance, <1>1, PTL

(* Every outcome the checkpointer holds has its acknowledged record.       *)
THEOREM EveryOutcomeIsRecorded == GateSpec => []OutcomeIsRecorded
<1>1. GateInv => OutcomeIsRecorded
      BY DEF GateInv
<1> QED BY GateInvariance, <1>1, PTL

(* The saved responsibility chain ends with the reviewer of the outcome.   *)
THEOREM ReviewerEndsChain == GateSpec => []ChainEndsWithReviewer
<1>1. GateInv => ChainEndsWithReviewer
      BY DEF GateInv
<1> QED BY GateInvariance, <1>1, PTL

-----------------------------------------------------------------------------
(* One caller that retries.                                                *)

(* The log is used from its beginning, so a new position is the last.      *)
Packed == \A i \in DOMAIN oversight, j \in Nat : j < i => j \in DOMAIN oversight

(* A caller that has its position wrote nothing after it, and a caller     *)
(* still busy with a run that another one finished finds the other's       *)
(* record in the log.                                                      *)
Retrying(c) ==
  /\ place[c] # "idle" => call[c].by = c
  /\ place[c] \in {"answer", "return"} =>
       \A j \in DOMAIN oversight : oversight[j].by = c => j <= slot[c]
  /\ place[c] # "idle" /\ Settled(call[c].run) =>
       \E i \in DOMAIN oversight :
         oversight[i].run = call[c].run /\ oversight[i].by # c

About(g) == {i \in DOMAIN oversight : oversight[i].run = g}

Latest(g) ==
  /\ Settled(g)
  /\ \A i, j \in About(g) : oversight[i].by = oversight[j].by
  => \E i \in About(g) : Matches(oversight[i], g) /\ \A j \in About(g) : j <= i

RetryInv == Packed /\ (\A c \in Resumers : Retrying(c)) /\ (\A g \in Runs : Latest(g))

LEMMA RecordIsLast ==
  ASSUME GateTypeOK, Packed, NEW e \in OversightActions, Audit!Record(e)
  PROVE  /\ Packed'
         /\ \E n \in Nat \ DOMAIN oversight :
              /\ DOMAIN oversight' = DOMAIN oversight \cup {n}
              /\ oversight'[n] = e
              /\ \A i \in DOMAIN oversight : oversight'[i] = oversight[i] /\ i < n
<1>1. PICK n \in Audit!Ends :
        oversight' = [i \in DOMAIN oversight \cup {n} |-> IF i = n THEN e ELSE oversight[i]]
      BY DEF Audit!Record
<1>2. /\ n \in Nat \ DOMAIN oversight
      /\ n = 0 \/ \E i \in DOMAIN oversight : n = i + 1
      BY <1>1 DEF Audit!Ends, GateTypeOK
<1>3. \A i \in DOMAIN oversight : i \in Nat /\ i < n
      BY <1>2 DEF Packed, GateTypeOK
<1>4. Packed'
  <2>1. DOMAIN oversight' = DOMAIN oversight \cup {n}
        BY <1>1
  <2>2. \A j \in Nat : j < n => j \in DOMAIN oversight
        BY <1>2 DEF Packed, GateTypeOK
  <2> QED BY <2>1, <2>2 DEF Packed
<1> QED BY <1>1, <1>2, <1>3, <1>4

LEMMA RetryInit == GateInit => RetryInv
<1> SUFFICES ASSUME GateInit PROVE RetryInv
    OBVIOUS
<1>1. DOMAIN oversight = {} /\ \A c \in Resumers : place[c] = "idle"
      BY DEF GateInit, Audit!Init
<1>2. \A g \in Runs : ~Settled(g)
      BY DEF GateInit, NewRun, Settled
<1> QED BY <1>1, <1>2 DEF RetryInv, Packed, Retrying, Latest

(* Steps that write neither the log nor an outcome: a caller comes to a    *)
(* run that is not finished, stays with its event and position, or leaves. *)
LEMMA QuietStep ==
  ASSUME RetryInv, UNCHANGED oversight,
         \A g \in Runs : Settled(g)' <=> Settled(g),
         \A g \in Runs : Settled(g) => run'[g] = run[g],
         \A c \in Resumers : call[c] # << >> => call[c].run \in Runs,
         \A c \in Resumers :
           \/ place'[c] = "idle"
           \/ /\ place'[c] = "check" /\ call'[c].by = c
              /\ call'[c].run \in Runs /\ ~Settled(call'[c].run)
           \/ /\ place[c] # "idle" /\ call[c] # << >> /\ call'[c] = call[c]
              /\ place'[c] \in {"answer", "return"} =>
                   place[c] \in {"answer", "return"} /\ slot'[c] = slot[c]
  PROVE  RetryInv'
<1>1. Packed'
      BY DEF RetryInv, Packed
<1>2. ASSUME NEW c \in Resumers PROVE Retrying(c)'
  <2>1. CASE place'[c] = "idle"
        BY <2>1 DEF Retrying
  <2>2. CASE /\ place'[c] = "check" /\ call'[c].by = c
             /\ call'[c].run \in Runs /\ ~Settled(call'[c].run)
        BY <2>2 DEF Retrying, Settled
  <2>3. CASE /\ place[c] # "idle" /\ call[c] # << >> /\ call'[c] = call[c]
             /\ place'[c] \in {"answer", "return"} =>
                  place[c] \in {"answer", "return"} /\ slot'[c] = slot[c]
    <3>1. Retrying(c) /\ call[c].run \in Runs
          BY <2>3 DEF RetryInv
    <3>2. Settled(call[c].run)' => Settled(call[c].run)
          BY <2>3, <3>1 DEF Settled
    <3> QED BY <2>3, <3>1, <3>2 DEF Retrying
  <2> QED BY <2>1, <2>2, <2>3
<1>3. ASSUME NEW g \in Runs PROVE Latest(g)'
  <2>1. About(g)' = About(g)
        BY DEF About
  <2>2. Latest(g)
        BY DEF RetryInv
  <2>3. CASE ~Settled(g)'
        BY <2>3 DEF Latest
  <2>4. CASE Settled(g)'
    <3>1. Settled(g) /\ run'[g] = run[g]
          BY <2>4
    <3> QED BY <2>1, <2>2, <3>1 DEF Latest, Matches
  <2> QED BY <2>3, <2>4
<1> QED BY <1>1, <1>2, <1>3 DEF RetryInv

LEMMA RecordStep ==
  ASSUME GateTypeOK, OutcomeIsRecorded, RetryInv,
         NEW c \in Resumers, AppendAudit(c) \/ AppendLost(c)
  PROVE  RetryInv'
<1>1. /\ call[c] \in OversightActions
      /\ Audit!Record(call[c])
      /\ place[c] = "append"
      /\ run' = run
      BY DEF GateTypeOK, AppendAudit, AppendLost
<1>2. Packed /\ Retrying(c)
      BY DEF RetryInv
<1>3. PICK n \in Nat \ DOMAIN oversight :
        /\ DOMAIN oversight' = DOMAIN oversight \cup {n}
        /\ oversight'[n] = call[c]
        /\ \A i \in DOMAIN oversight : oversight'[i] = oversight[i] /\ i < n
      BY <1>1, <1>2, RecordIsLast
<1>4. Packed'
      BY <1>1, <1>2, RecordIsLast
<1>5. call[c].by = c /\ call[c].run \in Runs
      BY <1>1, <1>2 DEF Retrying, OversightActions
<1>6. /\ place'[c] = "idle" \/ (place'[c] = "answer" /\ call'[c] = call[c] /\ slot'[c] = n)
      /\ \A d \in Resumers \ {c} : Bystander(d)
      BY <1>3 DEF AppendAudit, AppendLost, LeaveNode, GateTypeOK, Bystander
<1>7. ASSUME NEW d \in Resumers PROVE Retrying(d)'
  <2>1. Retrying(d)
        BY DEF RetryInv
  <2>2. CASE d = c
    <3>1. CASE place'[c] = "idle"
          BY <2>2, <3>1 DEF Retrying
    <3>2. CASE place'[c] = "answer" /\ call'[c] = call[c] /\ slot'[c] = n
      <4>1. \A j \in DOMAIN oversight' : j <= n
            BY <1>3 DEF GateTypeOK
      <4>2. Settled(call[c].run) =>
              \E i \in DOMAIN oversight' :
                oversight'[i].run = call[c].run /\ oversight'[i].by # c
            BY <1>1, <1>2, <1>3 DEF Retrying
      <4>3. Settled(call[c].run)' => Settled(call[c].run)
            BY <1>1, <3>2 DEF Settled
      <4> QED BY <1>5, <2>2, <3>2, <4>1, <4>2, <4>3 DEF Retrying
    <3> QED BY <1>6, <3>1, <3>2
  <2>3. CASE d # c
    <3>1. place'[d] = place[d] /\ call'[d] = call[d] /\ slot'[d] = slot[d]
          BY <1>6, <2>3 DEF Bystander
    <3>2. \A j \in DOMAIN oversight' :
            oversight'[j].by = d => j \in DOMAIN oversight /\ oversight[j].by = d
          BY <1>3, <1>5, <2>3
    <3>3. Settled(call[d].run)' => Settled(call[d].run)
          BY <1>1, <3>1 DEF Settled
    <3> QED BY <1>3, <2>1, <3>1, <3>2, <3>3 DEF Retrying
  <2> QED BY <2>2, <2>3
<1>8. ASSUME NEW g \in Runs PROVE Latest(g)'
  <2>1. Latest(g)
        BY DEF RetryInv
  <2>2. Settled(g)' <=> Settled(g)
        BY <1>1 DEF Settled
  <2>3. CASE call[c].run # g
    <3>1. About(g)' = About(g)
          BY <1>3, <2>3 DEF About
    <3>2. \A i \in About(g) : oversight'[i] = oversight[i]
          BY <1>3 DEF About
    <3> QED BY <1>1, <2>1, <2>2, <3>1, <3>2 DEF Latest, Matches
  <2>4. CASE call[c].run = g
    <3> SUFFICES ASSUME Settled(g)
                 PROVE  \E i, j \in About(g)' : oversight'[i].by # oversight'[j].by
        BY <2>2 DEF Latest
    <3>1. PICK i \in DOMAIN oversight : oversight[i].run = g /\ oversight[i].by # c
          BY <1>1, <1>2, <2>4 DEF Retrying
    <3>2. i \in About(g)' /\ oversight'[i].by # c
          BY <1>3, <3>1 DEF About
    <3>3. n \in About(g)' /\ oversight'[n].by = c
          BY <1>3, <1>5, <2>4 DEF About
    <3> QED BY <3>2, <3>3
  <2> QED BY <2>3, <2>4
<1> QED BY <1>4, <1>7, <1>8 DEF RetryInv

LEMMA SaveStep ==
  ASSUME GateTypeOK, Progress, RetryInv, NEW c \in Resumers, SaveUpdate(c)
  PROVE  RetryInv'
<1> DEFINE g == call[c].run
<1>1. /\ place[c] = "return" /\ place'[c] = "idle"
      /\ call[c] \in OversightActions
      /\ run' = [run EXCEPT ![g] = Outcome(c)]
      /\ oversight' = oversight
      /\ \A d \in Resumers \ {c} : Bystander(d)
      BY DEF SaveUpdate, LeaveNode, GateTypeOK, Bystander
<1>2. g \in Runs /\ call[c].by = c
      BY <1>1 DEF OversightActions, RetryInv, Retrying
<1>3. slot[c] \in DOMAIN oversight /\ oversight[slot[c]] = call[c]
      BY <1>1 DEF Progress, Secured
<1>4. \A j \in DOMAIN oversight : oversight[j].by = c => j <= slot[c]
      BY <1>1 DEF RetryInv, Retrying
<1>5. /\ run'[g] = Outcome(c)
      /\ \A h \in Runs \ {g} : run'[h] = run[h]
      BY <1>1, <1>2 DEF GateTypeOK
<1> HIDE DEF g
<1>6. Packed'
      BY <1>1 DEF RetryInv, Packed
<1>7. ASSUME NEW d \in Resumers PROVE Retrying(d)'
  <2>1. CASE d = c
        BY <1>1, <2>1 DEF Retrying
  <2>2. CASE d # c
    <3>1. place'[d] = place[d] /\ call'[d] = call[d] /\ slot'[d] = slot[d] /\ Retrying(d)
          BY <1>1, <2>2 DEF Bystander, RetryInv
    <3>2. CASE place[d] = "idle"
          BY <3>1, <3>2 DEF Retrying
    <3>3. CASE place[d] # "idle" /\ call[d].run = g
      <4>1. oversight'[slot[c]].run = call'[d].run /\ oversight'[slot[c]].by # d
            BY <1>1, <1>2, <1>3, <2>2, <3>1, <3>3 DEF g
      <4> QED BY <1>1, <1>3, <3>1, <3>3, <4>1 DEF Retrying
    <3>4. CASE place[d] # "idle" /\ call[d].run # g
      <4>1. call[d].run \in Runs
            BY <3>4 DEF GateTypeOK, OversightActions
      <4>2. run'[call[d].run] = run[call[d].run]
            BY <1>5, <3>4, <4>1
      <4>3. Settled(call[d].run)' => Settled(call[d].run)
            BY <3>1, <4>2 DEF Settled
      <4> QED BY <1>1, <3>1, <4>3 DEF Retrying
    <3> QED BY <3>2, <3>3, <3>4
  <2> QED BY <2>1, <2>2
<1>8. ASSUME NEW h \in Runs PROVE Latest(h)'
  <2>1. About(h)' = About(h)
        BY <1>1 DEF About
  <2>2. CASE h = g
    <3>1. slot[c] \in About(h)
          BY <1>2, <1>3, <2>2 DEF About, g
    <3>2. /\ run'[h].reviewer = call[c].response.reviewer
          /\ run'[h].status = IF call[c].response.decision = "reject"
                              THEN "halted" ELSE "published"
          BY <1>5, <2>2 DEF Outcome
    <3>3. /\ oversight'[slot[c]].run = h
          /\ oversight'[slot[c]].response.reviewer = run'[h].reviewer
          /\ (oversight'[slot[c]].response.decision = "reject")
               <=> (run'[h].status = "halted")
          BY <1>1, <1>3, <2>2, <3>2 DEF g
    <3>4. (\A i, j \in About(h) : oversight[i].by = oversight[j].by)
            => \A j \in About(h) : j <= slot[c]
          BY <1>2, <1>3, <1>4, <3>1 DEF About
    <3> QED BY <1>1, <2>1, <3>1, <3>3, <3>4 DEF Latest, Matches
  <2>3. CASE h # g
    <3>1. run'[h] = run[h] /\ Latest(h)
          BY <1>5, <2>3 DEF RetryInv
    <3> QED BY <1>1, <2>1, <3>1 DEF Latest, Settled, Matches
  <2> QED BY <2>2, <2>3
<1> QED BY <1>6, <1>7, <1>8 DEF RetryInv

LEMMA RetryStep == GateInv /\ RetryInv /\ [GateNext]_gateVars => RetryInv'
<1> SUFFICES ASSUME GateInv, RetryInv, [GateNext]_gateVars PROVE RetryInv'
    OBVIOUS
<1> GateTypeOK /\ Progress /\ OutcomeIsRecorded
    BY DEF GateInv
<1>1. \A c \in Resumers : call[c] # << >> => call[c].run \in Runs
      BY DEF GateTypeOK, OversightActions
<1>2. \A c \in Resumers : place[c] # "idle" => call[c] # << >>
      BY DEF GateTypeOK
<1>3. ASSUME NEW g \in Runs, InvokeToInterrupt(g) PROVE RetryInv'
  <2>1. /\ \A h \in Runs : Settled(h)' <=> Settled(h)
        /\ \A h \in Runs : Settled(h) => run'[h] = run[h]
        BY <1>3 DEF InvokeToInterrupt, GateTypeOK, Settled
  <2>2. UNCHANGED <<oversight, place, call, slot>>
        BY <1>3 DEF InvokeToInterrupt
  <2>3. \A c \in Resumers :
          \/ place'[c] = "idle"
          \/ /\ place[c] # "idle" /\ call[c] # << >> /\ call'[c] = call[c]
             /\ place'[c] \in {"answer", "return"} =>
                  place[c] \in {"answer", "return"} /\ slot'[c] = slot[c]
        BY <1>2, <2>2
  <2> QED BY <1>1, <2>1, <2>2, <2>3, QuietStep
<1>4. ASSUME NEW c \in Resumers, NEW g \in Runs, NEW response \in ApprovalResponses,
             Resume(c, g, response)
      PROVE  RetryInv'
  <2>1. UNCHANGED <<run, oversight>>
        BY <1>4 DEF Resume
  <2>2. place'[c] = "check" /\ call'[c].by = c /\ call'[c].run \in Runs /\ ~Settled(call'[c].run)
        BY <1>4 DEF Resume, GateTypeOK, Settled
  <2>3. \A d \in Resumers \ {c} : place'[d] = place[d] /\ call'[d] = call[d] /\ slot'[d] = slot[d]
        BY <1>4 DEF Resume, GateTypeOK
  <2>4. \A d \in Resumers :
          \/ place'[d] = "idle"
          \/ /\ place'[d] = "check" /\ call'[d].by = d
             /\ call'[d].run \in Runs /\ ~Settled(call'[d].run)
          \/ /\ place[d] # "idle" /\ call[d] # << >> /\ call'[d] = call[d]
             /\ place'[d] \in {"answer", "return"} =>
                  place[d] \in {"answer", "return"} /\ slot'[d] = slot[d]
        BY <1>2, <2>2, <2>3
  <2>5. \A h \in Runs : (Settled(h)' <=> Settled(h)) /\ run'[h] = run[h]
        BY <2>1 DEF Settled
  <2> QED BY <1>1, <2>1, <2>4, <2>5, QuietStep
<1>5. ASSUME NEW c \in Resumers,
             \/ EnterScope(c) \/ ExitScope(c) \/ CheckRole(c) \/ Delegate(c)
             \/ AppendRaises(c) \/ AppendReturns(c) \/ CallerDies(c)
      PROVE  RetryInv'
  <2>1. UNCHANGED <<run, oversight>>
        BY <1>5 DEF EnterScope, ExitScope, CheckRole, Delegate, AppendRaises,
                    AppendReturns, CallerDies, Audit!Answer
  <2>2. \/ place'[c] = "idle"
        \/ /\ place[c] # "idle" /\ call'[c] = call[c]
           /\ place'[c] \in {"answer", "return"} =>
                place[c] \in {"answer", "return"} /\ slot'[c] = slot[c]
        BY <1>5 DEF EnterScope, ExitScope, CheckRole, Delegate, AppendRaises,
                    AppendReturns, CallerDies, LeaveNode, GateTypeOK
  <2>3. \A d \in Resumers \ {c} : place'[d] = place[d] /\ call'[d] = call[d] /\ slot'[d] = slot[d]
        BY <1>5 DEF EnterScope, ExitScope, CheckRole, Delegate, AppendRaises,
                    AppendReturns, CallerDies, LeaveNode, GateTypeOK
  <2>4. \A d \in Resumers :
          \/ place'[d] = "idle"
          \/ /\ place[d] # "idle" /\ call[d] # << >> /\ call'[d] = call[d]
             /\ place'[d] \in {"answer", "return"} =>
                  place[d] \in {"answer", "return"} /\ slot'[d] = slot[d]
        BY <1>2, <2>2, <2>3
  <2>5. \A h \in Runs : (Settled(h)' <=> Settled(h)) /\ run'[h] = run[h]
        BY <2>1 DEF Settled
  <2> QED BY <1>1, <2>1, <2>4, <2>5, QuietStep
<1>6. CASE UNCHANGED gateVars
  <2>1. UNCHANGED <<run, place, call, slot, oversight>>
        BY <1>6 DEF gateVars
  <2>2. \A d \in Resumers :
          \/ place'[d] = "idle"
          \/ /\ place[d] # "idle" /\ call[d] # << >> /\ call'[d] = call[d]
             /\ place'[d] \in {"answer", "return"} =>
                  place[d] \in {"answer", "return"} /\ slot'[d] = slot[d]
        BY <1>2, <2>1
  <2>3. \A h \in Runs : (Settled(h)' <=> Settled(h)) /\ run'[h] = run[h]
        BY <2>1 DEF Settled
  <2> QED BY <1>1, <2>1, <2>2, <2>3, QuietStep
<1> QED BY <1>3, <1>4, <1>5, <1>6, RecordStep, SaveStep DEF GateNext, NodeStep

(* However often a caller crashed, had its append fail or lost its answer, *)
(* once a run is finished the newest record about it is the one of its     *)
(* outcome, as long as one caller did all the retrying.                    *)
THEOREM LatestRecordTells == GateSpec => []LatestRecordIsOutcome
<1>1. RetryInv => LatestRecordIsOutcome
      BY DEF RetryInv, Latest, About, LatestRecordIsOutcome
<1> QED BY GateInvariance, RetryInit, RetryStep, <1>1, PTL DEF GateSpec

-----------------------------------------------------------------------------
(* ToolBudget                                                              *)

(* What a tool's counter says of its runs: it counts them, no run starts   *)
(* over the budget, and a refusal leaves nothing of the budget.            *)
Charged ==
  \A t \in Tools :
    /\ calls[t] = ran[t]
    /\ calls[t] <= MaxCalls[t]
    /\ t \in refused => calls[t] = MaxCalls[t]

ToolInv == ToolTypeOK /\ Charged

-----------------------------------------------------------------------------
(* Stacks of calls                                                         *)

LEMMA InnerFrame ==
  ASSUME ToolTypeOK, nest # << >>
  PROVE  /\ Len(nest) \in Nat \ {0}
         /\ Inner \in Frames
         /\ Inner.tool \in Tools
         /\ Inner.at \in {"entry", "func"}
<1>1. nest \in Seq(Frames)
      BY DEF ToolTypeOK
<1>2. Len(nest) \in Nat /\ Len(nest) # 0
      BY <1>1
<1>3. Inner \in Frames
      BY <1>1, <1>2 DEF Inner
<1> QED BY <1>2, <1>3 DEF Frames

(* Without its innermost call a stack is a stack of running functions.     *)
LEMMA OuterStack ==
  ASSUME ToolTypeOK, nest # << >>
  PROVE  /\ Outer \in Seq(Frames)
         /\ Len(Outer) = Len(nest) - 1
         /\ \A i \in 1..Len(Outer) : Outer[i].at = "func"
<1> DEFINE n == Len(nest) - 1
<1>1. nest \in Seq(Frames) /\ n \in Nat /\ n <= Len(nest)
      BY InnerFrame DEF ToolTypeOK
<1>2. \A i \in 1..n : nest[i] \in Frames /\ nest[i].at = "func"
      BY <1>1 DEF ToolTypeOK
<1>3. Outer = [i \in 1..n |-> nest[i]]
      BY <1>1 DEF Outer
<1>4. Outer \in Seq(Frames) /\ Len(Outer) = n
      BY <1>1, <1>2, <1>3
<1> QED BY <1>1, <1>2, <1>3, <1>4

LEMMA PoppedStack ==
  ASSUME ToolTypeOK, nest # << >>, nest' = Outer
  PROVE  /\ nest' \in Seq(Frames)
         /\ \A i \in 1..Len(nest') - 1 : nest'[i].at = "func"
<1>1. /\ Outer \in Seq(Frames)
      /\ \A i \in 1..Len(Outer) : Outer[i].at = "func"
      BY OuterStack
<1>2. Len(Outer) \in Nat
      BY <1>1
<1> QED BY <1>1, <1>2

LEMMA PushedStack ==
  ASSUME NEW stack \in Seq(Frames), NEW frame \in Frames,
         \A i \in 1..Len(stack) : stack[i].at = "func"
  PROVE  /\ Append(stack, frame) \in Seq(Frames)
         /\ \A i \in 1..Len(Append(stack, frame)) - 1 :
              Append(stack, frame)[i].at = "func"
OBVIOUS

(* Counting an outcome keeps the counter's type.                           *)
LEMMA CountedType ==
  ASSUME ToolTypeOK, NEW t \in Tools, NEW o \in Outcomes
  PROVE  Counted(t, o) \in [Tools -> [Outcomes -> Nat]]
<1>1. outcomes[t][o] + 1 \in Nat
      BY DEF ToolTypeOK
<1>2. [outcomes[t] EXCEPT ![o] = outcomes[t][o] + 1] \in [Outcomes -> Nat]
      BY <1>1 DEF ToolTypeOK
<1> QED BY <1>2 DEF Counted, ToolTypeOK

-----------------------------------------------------------------------------
(* The calls of a tool on a stack                                          *)

CallsOf(stack, t) == {i \in DOMAIN stack : stack[i].tool = t}

LEMMA HeldCount ==
  ASSUME NEW stack \in Seq(Frames), NEW t
  PROVE  IsFiniteSet(CallsOf(stack, t)) /\ Cardinality(CallsOf(stack, t)) \in Nat
<1>1. Len(stack) \in Nat /\ DOMAIN stack = 1..Len(stack)
      OBVIOUS
<1>2. IsFiniteSet(1..Len(stack))
      BY <1>1, FS_Interval
<1>3. CallsOf(stack, t) \subseteq 1..Len(stack)
      BY <1>1 DEF CallsOf
<1>4. IsFiniteSet(CallsOf(stack, t))
      BY <1>2, <1>3, FS_Subset
<1> QED BY <1>4, FS_CardinalityType

(* One more frame is one more call of its tool and of no other.            *)
LEMMA PushedHeld ==
  ASSUME NEW stack \in Seq(Frames), NEW frame \in Frames, NEW t
  PROVE  Cardinality(CallsOf(Append(stack, frame), t))
           = Cardinality(CallsOf(stack, t)) + (IF frame.tool = t THEN 1 ELSE 0)
<1> DEFINE pushed == Append(stack, frame)
           top == Len(stack) + 1
<1>1. /\ Len(stack) \in Nat
      /\ DOMAIN stack = 1..Len(stack)
      /\ DOMAIN pushed = 1..top
      /\ pushed[top] = frame
      /\ \A i \in 1..Len(stack) : pushed[i] = stack[i]
      OBVIOUS
<1>2. top \notin CallsOf(stack, t)
      BY <1>1 DEF CallsOf
<1>3. CASE frame.tool = t
  <2>1. CallsOf(pushed, t) = CallsOf(stack, t) \cup {top}
        BY <1>1, <1>3 DEF CallsOf
  <2> QED BY <1>2, <1>3, <2>1, HeldCount, FS_AddElement, ZenonT(30)
<1>4. CASE frame.tool # t
  <2>1. CallsOf(pushed, t) = CallsOf(stack, t)
        BY <1>1, <1>4 DEF CallsOf
  <2> QED BY <1>4, <2>1, HeldCount
<1> QED BY <1>3, <1>4

LEMMA SplitStack ==
  ASSUME ToolTypeOK, nest # << >>
  PROVE  nest = Append(Outer, Inner)
<1>1. nest \in Seq(Frames) /\ Len(nest) \in Nat \ {0}
      BY InnerFrame DEF ToolTypeOK
<1>2. Len(nest) - 1 \in Nat
      BY <1>1
<1> QED BY <1>1, <1>2 DEF Outer, Inner

(* A call that ends leaves one call less of its tool in progress.          *)
LEMMA PoppedHeld ==
  ASSUME ToolTypeOK, nest # << >>, NEW t
  PROVE  Cardinality(CallsOf(nest, t))
           = Cardinality(CallsOf(Outer, t)) + (IF Inner.tool = t THEN 1 ELSE 0)
BY InnerFrame, OuterStack, SplitStack, PushedHeld, ZenonT(30)

-----------------------------------------------------------------------------
(* The invariant                                                           *)

LEMMA ToolInitInv == ToolInit => ToolInv
<1> SUFFICES ASSUME ToolInit PROVE ToolInv
    OBVIOUS
<1> USE ToolConstantsOK DEF ToolInit, None
<1>1. ToolTypeOK
      BY DEF ToolTypeOK
<1>2. Charged
      BY DEF Charged
<1> QED BY <1>1, <1>2 DEF ToolInv

LEMMA RequestStep == ASSUME ToolInv, NEW t \in Tools, Request(t) PROVE ToolInv'
<1> USE ToolConstantsOK DEF ToolInv
<1>1. [tool |-> t, at |-> "entry"] \in Frames
      BY DEF Frames
<1>2. \A i \in 1..Len(nest) : nest[i].at = "func"
  <2>1. CASE nest = << >>
        BY <2>1
  <2>2. CASE Running
        BY <2>2, InnerFrame, SMTT(30) DEF Running, Inner, ToolTypeOK
  <2> QED BY <2>1, <2>2 DEF Request
<1>3. /\ nest' \in Seq(Frames)
      /\ \A i \in 1..Len(nest') - 1 : nest'[i].at = "func"
      BY <1>1, <1>2, PushedStack DEF Request, ToolTypeOK
<1>4. requests' \in [Tools -> Nat]
      BY DEF Request, ToolTypeOK
<1>5. /\ nest' \in Seq(Frames)
      /\ UNCHANGED <<calls, outcomes, raising, resets, ran, refused, uncounted>>
      BY <1>3 DEF Request
<1>6. ToolTypeOK'
      BY <1>3, <1>4, <1>5 DEF ToolTypeOK
<1>7. Charged'
      BY DEF Request, Charged
<1> QED BY <1>6, <1>7

LEMMA ResetStep == ASSUME ToolInv, NEW t \in Tools, Reset(t) PROVE ToolInv'
<1> USE ToolConstantsOK DEF ToolInv, Reset
<1>1. ToolTypeOK'
      BY DEF ToolTypeOK
<1>2. Charged'
  <2> SUFFICES ASSUME NEW u \in Tools
               PROVE  /\ calls'[u] = ran'[u]
                      /\ calls'[u] <= MaxCalls[u]
                      /\ u \in refused' => calls'[u] = MaxCalls[u]
      BY DEF Charged
  <2>1. CASE u = t
    <3>1. calls'[u] = 0 /\ ran'[u] = 0 /\ u \notin refused'
          BY <2>1 DEF ToolTypeOK
    <3>2. MaxCalls[u] \in Nat
          OBVIOUS
    <3> QED BY <3>1, <3>2
  <2>2. CASE u # t
        BY <2>2 DEF Charged, ToolTypeOK
  <2> QED BY <2>1, <2>2
<1> QED BY <1>1, <1>2

LEMMA RefuseStep == ASSUME ToolInv, Refuse PROVE ToolInv'
<1> USE ToolConstantsOK DEF ToolInv, Refuse
<1>1. Inner.tool \in Tools /\ nest # << >>
      BY InnerFrame DEF Entering
<1>2. outcomes' \in [Tools -> [Outcomes -> Nat]]
      BY <1>1, CountedType DEF Outcomes
<1>3. ToolTypeOK'
      BY <1>1, <1>2, PoppedStack DEF ToolTypeOK, asked
<1>4. Charged'
      BY <1>1 DEF Charged, Exhausted, ToolTypeOK
<1> QED BY <1>3, <1>4

LEMMA AdmitStep == ASSUME ToolInv, Admit PROVE ToolInv'
<1> USE ToolConstantsOK DEF ToolInv, Admit
<1>1. Inner.tool \in Tools /\ nest # << >>
      BY InnerFrame DEF Entering
<1>2. [tool |-> Inner.tool, at |-> "func"] \in Frames
      BY <1>1 DEF Frames
<1>3. /\ nest' \in Seq(Frames)
      /\ \A i \in 1..Len(nest') - 1 : nest'[i].at = "func"
      BY <1>1, <1>2, OuterStack, PushedStack
<1>4. calls' \in [Tools -> Nat] /\ ran' \in [Tools -> Nat]
      BY <1>1, SMTT(30) DEF ToolTypeOK
<1>5. UNCHANGED <<outcomes, raising, requests, resets, refused, uncounted>>
      BY DEF asked
<1>6. ToolTypeOK'
      BY <1>3, <1>4, <1>5 DEF ToolTypeOK
<1>7. Charged'
  <2> SUFFICES ASSUME NEW u \in Tools
               PROVE  /\ calls'[u] = ran'[u]
                      /\ calls'[u] <= MaxCalls[u]
                      /\ u \in refused' => calls'[u] = MaxCalls[u]
      BY DEF Charged
  <2>1. calls[u] \in Nat /\ ran[u] \in Nat /\ MaxCalls[u] \in Nat
        BY DEF ToolTypeOK
  <2>2. CASE u = Inner.tool
    <3>1. calls'[u] = calls[u] + 1 /\ ran'[u] = ran[u] + 1
          BY <2>2 DEF ToolTypeOK
    <3>2. calls[u] < MaxCalls[u]
          BY <2>1, <2>2 DEF Exhausted
    <3> QED BY <2>1, <3>1, <3>2 DEF Charged
  <2>3. CASE u # Inner.tool
    <3>1. calls'[u] = calls[u] /\ ran'[u] = ran[u]
          BY <2>3 DEF ToolTypeOK
    <3> QED BY <3>1 DEF Charged
  <2> QED BY <2>2, <2>3
<1> QED BY <1>6, <1>7

(* The three ways a call ends with its frame charged.                      *)
LEMMA LeaveStep ==
  ASSUME ToolInv, Return \/ FuncRaises \/ PreviewRaises
  PROVE  ToolInv'
<1> USE ToolConstantsOK DEF ToolInv, Return, FuncRaises, PreviewRaises, AfterError
<1>1. Inner.tool \in Tools /\ nest # << >>
      BY InnerFrame DEF Entering, Running
<1>2. outcomes' \in [Tools -> [Outcomes -> Nat]]
  <2>1. outcomes' = outcomes \/ \E r \in Outcomes : outcomes' = Counted(Inner.tool, r)
        BY DEF Outcomes, CountError
  <2> QED BY <1>1, <2>1, CountedType DEF ToolTypeOK
<1>3. uncounted' \in [Tools -> Nat]
      BY <1>1 DEF ToolTypeOK
<1>4. ToolTypeOK'
      BY <1>1, <1>2, <1>3, PoppedStack DEF ToolTypeOK, asked
<1>5. Charged'
      BY DEF Charged
<1> QED BY <1>4, <1>5

LEMMA ToolNextInv == ToolInv /\ [ToolNext]_toolVars => ToolInv'
<1> SUFFICES ASSUME ToolInv, [ToolNext]_toolVars PROVE ToolInv'
    OBVIOUS
<1>1. CASE \E t \in Tools : Request(t) \/ Reset(t)
      BY <1>1, RequestStep, ResetStep
<1>2. CASE Refuse
      BY <1>2, RefuseStep
<1>3. CASE Admit
      BY <1>3, AdmitStep
<1>4. CASE Return \/ FuncRaises \/ PreviewRaises
      BY <1>4, LeaveStep
<1>5. CASE Catch
      BY <1>5 DEF Catch, ToolInv, ToolTypeOK, Charged, asked
<1>6. CASE UNCHANGED toolVars
      BY <1>6 DEF toolVars, ToolInv, ToolTypeOK, Charged, asked
<1> QED BY <1>1, <1>2, <1>3, <1>4, <1>5, <1>6 DEF ToolNext

LEMMA ToolInvariance == ToolSpec => []ToolInv
BY ToolInitInv, ToolNextInv, PTL DEF ToolSpec

-----------------------------------------------------------------------------
(* Every call is accounted for                                             *)

ToolOutcome(t) ==
  outcomes[t]["ok"] + outcomes[t]["error"] + outcomes[t]["breaker_open"]

Accounted(t) ==
  requests[t] = ToolOutcome(t) + uncounted[t] + Cardinality(CallsOf(nest, t))

LEMMA AccountedMeans == EveryCallAccounted <=> \A t \in Tools : Accounted(t)
BY DEF EveryCallAccounted, Accounted, ToolOutcome, CallsOf

LEMMA CountsType ==
  ASSUME ToolTypeOK, NEW t \in Tools
  PROVE  /\ ToolOutcome(t) \in Nat
         /\ uncounted[t] \in Nat
         /\ requests[t] \in Nat
         /\ Cardinality(CallsOf(nest, t)) \in Nat
<1>1. \A o \in Outcomes : outcomes[t][o] \in Nat
      BY DEF ToolTypeOK
<1>2. ToolOutcome(t) \in Nat
      BY <1>1 DEF ToolOutcome, Outcomes
<1> QED BY <1>2, HeldCount DEF ToolTypeOK

(* One outcome more of the tool counted, none of the others.               *)
LEMMA CountedOnce ==
  ASSUME ToolTypeOK, NEW t \in Tools, NEW u \in Tools, NEW o \in Outcomes,
         outcomes' = Counted(u, o)
  PROVE  ToolOutcome(t)' = ToolOutcome(t) + (IF t = u THEN 1 ELSE 0)
<1>1. \A p \in Outcomes : outcomes[t][p] \in Nat /\ outcomes[u][p] \in Nat
      BY DEF ToolTypeOK
<1>2. CASE t = u
  <2>1. outcomes'[t] = [outcomes[t] EXCEPT ![o] = outcomes[t][o] + 1]
        BY <1>2 DEF Counted, ToolTypeOK
  <2>2. \A p \in Outcomes :
          outcomes'[t][p] = outcomes[t][p] + (IF p = o THEN 1 ELSE 0)
        BY <1>1, <2>1 DEF ToolTypeOK
  <2> QED BY <1>1, <1>2, <2>2 DEF ToolOutcome, Outcomes
<1>3. CASE t # u
  <2>1. outcomes'[t] = outcomes[t]
        BY <1>3 DEF Counted, ToolTypeOK
  <2> QED BY <1>1, <1>3, <2>1 DEF ToolOutcome, Outcomes
<1> QED BY <1>2, <1>3

LEMMA AccountedRequest ==
  ASSUME ToolTypeOK, NEW t \in Tools, Accounted(t), NEW u \in Tools, Request(u)
  PROVE  Accounted(t)'
<1> DEFINE made == IF t = u THEN 1 ELSE 0
<1>1. requests'[t] = requests[t] + made
      BY DEF Request, ToolTypeOK
<1>2. [tool |-> u, at |-> "entry"] \in Frames
      BY DEF Frames
<1>3. Cardinality(CallsOf(nest', t)) = Cardinality(CallsOf(nest, t)) + made
      BY <1>2, PushedHeld DEF Request, ToolTypeOK
<1>4. ToolOutcome(t)' = ToolOutcome(t) /\ uncounted' = uncounted
      BY DEF Request, ToolOutcome
<1> HIDE DEF made
<1>5. made \in Nat
      BY DEF made
<1> QED BY <1>1, <1>3, <1>4, <1>5, CountsType DEF Accounted

(* The call ends with one outcome, or uncounted by its redactor.           *)
LEMMA AccountedLeave ==
  ASSUME ToolTypeOK, NEW t \in Tools, Accounted(t),
         Refuse \/ Return \/ FuncRaises \/ PreviewRaises
  PROVE  Accounted(t)'
<1> DEFINE ended == IF t = Inner.tool THEN 1 ELSE 0
<1>1. nest # << >> /\ Inner.tool \in Tools
      BY InnerFrame DEF Refuse, Return, FuncRaises, PreviewRaises, Entering, Running
<1>2. nest' = Outer /\ requests' = requests
      BY DEF Refuse, Return, FuncRaises, PreviewRaises, asked
<1>3. Cardinality(CallsOf(nest, t)) = Cardinality(CallsOf(nest', t)) + ended
      BY <1>1, <1>2, PoppedHeld
<1>4. Outer \in Seq(Frames)
      BY <1>1, OuterStack
<1>5. Cardinality(CallsOf(nest', t)) \in Nat
      BY <1>2, <1>4, HeldCount
<1>6. (ToolOutcome(t) + uncounted[t])' = ToolOutcome(t) + uncounted[t] + ended
  <2>1. CASE Refuse \/ Return \/ FuncRaises
    <3>1. \E o \in Outcomes : outcomes' = Counted(Inner.tool, o)
          BY <2>1 DEF Refuse, Return, FuncRaises, CountError, Outcomes
    <3>2. ToolOutcome(t)' = ToolOutcome(t) + ended
          BY <1>1, <3>1, CountedOnce
    <3>3. uncounted' = uncounted
          BY <2>1 DEF Refuse, Return, FuncRaises
    <3> HIDE DEF ended
    <3>4. ended \in Nat
          BY DEF ended
    <3> QED BY <3>2, <3>3, <3>4, CountsType
  <2>2. CASE PreviewRaises
    <3>1. uncounted'[t] = uncounted[t] + ended
          BY <1>1, <2>2 DEF PreviewRaises, ToolTypeOK
    <3>2. ToolOutcome(t)' = ToolOutcome(t)
          BY <2>2 DEF PreviewRaises, ToolOutcome
    <3> HIDE DEF ended
    <3>3. ended \in Nat
          BY DEF ended
    <3> QED BY <3>1, <3>2, <3>3, CountsType
  <2> QED BY <2>1, <2>2
<1> HIDE DEF ended
<1>7. ended \in Nat
      BY DEF ended
<1> QED BY <1>2, <1>3, <1>5, <1>6, <1>7, CountsType DEF Accounted

LEMMA AccountedAdmit ==
  ASSUME ToolTypeOK, NEW t \in Tools, Accounted(t), Admit
  PROVE  Accounted(t)'
<1>1. nest # << >> /\ Inner.tool \in Tools
      BY InnerFrame DEF Admit, Entering
<1> DEFINE frame == [tool |-> Inner.tool, at |-> "func"]
<1>2. frame \in Frames /\ frame.tool = Inner.tool
      BY <1>1 DEF Frames
<1>3. Cardinality(CallsOf(nest', t)) = Cardinality(CallsOf(nest, t))
      BY <1>1, <1>2, OuterStack, PushedHeld, PoppedHeld DEF Admit
<1>4. UNCHANGED <<requests, outcomes, uncounted>>
      BY DEF Admit, asked
<1> QED BY <1>3, <1>4 DEF Accounted, ToolOutcome

LEMMA AccountedInit == ToolInit => EveryCallAccounted
<1> SUFFICES ASSUME ToolInit, NEW t \in Tools PROVE Accounted(t)
    BY AccountedMeans
<1>1. CallsOf(nest, t) = {}
      BY DEF ToolInit, CallsOf
<1>2. Cardinality(CallsOf(nest, t)) = 0
      BY <1>1, FS_EmptySet
<1>3. ToolOutcome(t) = 0 /\ uncounted[t] = 0 /\ requests[t] = 0
      BY DEF ToolInit, None, ToolOutcome, Outcomes
<1> QED BY <1>2, <1>3 DEF Accounted

LEMMA AccountedNext ==
  ToolInv /\ EveryCallAccounted /\ [ToolNext]_toolVars => EveryCallAccounted'
<1> SUFFICES ASSUME ToolInv, EveryCallAccounted, [ToolNext]_toolVars, NEW t \in Tools
             PROVE  Accounted(t)'
      BY DEF EveryCallAccounted, Accounted, ToolOutcome, CallsOf
<1>1. ToolTypeOK /\ Accounted(t)
      BY AccountedMeans DEF ToolInv
<1>2. CASE \E u \in Tools : Request(u)
      BY <1>1, <1>2, AccountedRequest
<1>3. CASE \E u \in Tools : Reset(u)
      BY <1>1, <1>3 DEF Reset, Accounted, ToolOutcome
<1>4. CASE Refuse \/ Return \/ FuncRaises \/ PreviewRaises
      BY <1>1, <1>4, AccountedLeave
<1>5. CASE Admit
      BY <1>1, <1>5, AccountedAdmit
<1>6. CASE Catch
      BY <1>1, <1>6 DEF Catch, asked, Accounted, ToolOutcome
<1>7. CASE UNCHANGED toolVars
      BY <1>1, <1>7 DEF toolVars, asked, Accounted, ToolOutcome
<1> QED BY <1>2, <1>3, <1>4, <1>5, <1>6, <1>7 DEF ToolNext

-----------------------------------------------------------------------------
(* Every variable of ToolBudget keeps its type, and only the innermost     *)
(* call has not reached its function.                                      *)
THEOREM ToolTypeCorrect == ToolSpec => []ToolTypeOK
<1>1. ToolInv => ToolTypeOK
      BY DEF ToolInv
<1> QED BY <1>1, ToolInvariance, PTL

(* Between two resets the function of a tool runs at most max_calls times, *)
(* however calls nest, fail and are caught (ObservableTool.__call__).      *)
THEOREM BudgetsHold == ToolSpec => []BudgetHolds
<1>1. ToolInv => BudgetHolds
      BY DEF ToolInv, Charged, BudgetHolds
<1> QED BY <1>1, ToolInvariance, PTL

(* A tool that refused a call runs no function until it is reset.          *)
THEOREM BreakersStayOpen == ToolSpec => StaysOpen
<1>1. ToolInv /\ [ToolNext]_toolVars
        => [\A t \in Tools : t \in refused /\ t \in refused' => ran'[t] = ran[t]]_toolVars
  <2> SUFFICES ASSUME ToolInv, ToolNext, NEW t \in Tools, t \in refused, t \in refused'
               PROVE  ran'[t] = ran[t]
      OBVIOUS
  <2>1. CASE \E u \in Tools : Request(u)
        BY <2>1 DEF Request
  <2>2. CASE \E u \in Tools : Reset(u)
        BY <2>2 DEF Reset, ToolInv, ToolTypeOK
  <2>3. CASE Admit
    <3>1. Inner.tool \in Tools
          BY <2>3, InnerFrame DEF Admit, Entering, ToolInv
    <3>2. Inner.tool # t
          BY <2>3, <3>1, ToolConstantsOK DEF Admit, Exhausted, ToolInv, Charged, ToolTypeOK
    <3> QED BY <2>3, <3>1, <3>2 DEF Admit, ToolInv, ToolTypeOK
  <2>4. CASE Refuse \/ Return \/ FuncRaises \/ Catch \/ PreviewRaises
        BY <2>4 DEF Refuse, Return, FuncRaises, Catch, PreviewRaises
  <2> QED BY <2>1, <2>2, <2>3, <2>4 DEF ToolNext
<1> QED BY <1>1, ToolInvariance, PTL DEF ToolSpec, StaysOpen

(* No failure is invisible: every call made of a tool is in progress, has  *)
(* one outcome in its ToolCounter, or was ended by its redactor.           *)
THEOREM CallsAccounted == ToolSpec => []EveryCallAccounted
<1>1. ToolInit => ToolInv /\ EveryCallAccounted
      BY ToolInitInv, AccountedInit
<1>2. ToolInv /\ EveryCallAccounted /\ [ToolNext]_toolVars
        => (ToolInv /\ EveryCallAccounted)'
      BY ToolNextInv, AccountedNext
<1> QED BY <1>1, <1>2, PTL DEF ToolSpec

-----------------------------------------------------------------------------
(* CostBreaker                                                             *)

Levels(n) == IF n = 0 THEN 0 ELSE n - 1

(* While calls are open, what was spent and all they may still cost, the   *)
(* innermost at its estimate and the others at the dearest, stays within   *)
(* the allowance: the innermost was checked against the whole of what had  *)
(* been spent, the ones around it against less.                            *)
Allowance == Budget + excess + Levels(deepest) * Dearest

Committed ==
  IF open = << >> THEN spent_usd
  ELSE spent_usd + open[Len(open)] + Levels(Len(open)) * Dearest

CostInv ==
  /\ CostTypeOK
  /\ \A i \in 1..Len(open) : open[i] <= Budget
  /\ Committed <= Allowance

LEMMA DearestIsDearest ==
  /\ Dearest \in Nat
  /\ \A e \in Estimates : e \in Nat /\ e <= Dearest
BY BudgetConstantsOK DEF Dearest

(* One more level of nesting allows one more dearest call, and no fewer    *)
(* levels ever allow more.                                                 *)
LEMMA MoreLevels ==
  ASSUME NEW m \in Nat, NEW n \in Nat, m <= n
  PROVE  /\ Levels(m) * Dearest \in Nat
         /\ Levels(m) * Dearest <= Levels(n) * Dearest
         /\ Levels(m + 1) * Dearest = m * Dearest
         /\ m > 0 => m * Dearest = Levels(m) * Dearest + Dearest
<1>1. Dearest \in Nat
  BY DearestIsDearest
<1>2. \A k \in Nat : k * Dearest \in Nat
  BY <1>1
<1>3. \A k \in Nat, j \in Nat : (k + j) * Dearest = k * Dearest + j * Dearest
  BY <1>1
<1>4. Levels(m) \in Nat /\ Levels(n) \in Nat /\ Levels(m) <= Levels(n)
  BY DEF Levels
<1>5. PICK d \in Nat : Levels(n) = Levels(m) + d
  <2>1. Levels(n) - Levels(m) \in Nat
    BY <1>4
  <2> QED
    BY <1>4, <2>1
<1>6. Levels(n) * Dearest = Levels(m) * Dearest + d * Dearest
  BY <1>3, <1>4, <1>5
<1>7. Levels(m) * Dearest <= Levels(n) * Dearest
  <2>1. Levels(m) * Dearest \in Nat /\ d * Dearest \in Nat
    BY <1>2, <1>4
  <2> QED
    BY <1>6, <2>1
<1>8. Levels(m + 1) = m
  BY DEF Levels
<1>9. ASSUME m > 0 PROVE m * Dearest = Levels(m) * Dearest + Dearest
  <2>1. m = Levels(m) + 1
    BY <1>9 DEF Levels
  <2>2. (Levels(m) + 1) * Dearest = Levels(m) * Dearest + 1 * Dearest
    BY <1>3, <1>4
  <2> QED
    BY <1>1, <2>1, <2>2
<1> QED
  BY <1>2, <1>4, <1>7, <1>8, <1>9

LEMMA LevelsType == \A n \in Nat : Levels(n) * Dearest \in Nat
BY DearestIsDearest DEF Levels

(* Popping the innermost call.                                             *)
LEMMA PoppedCalls ==
  ASSUME CostTypeOK, open # << >>, EndCall
  PROVE  /\ Len(open) \in Nat \ {0}
         /\ open[Len(open)] \in Estimates
         /\ open' \in Seq(Estimates)
         /\ Len(open') = Len(open) - 1
         /\ \A i \in 1..Len(open') : open'[i] = open[i]
<1>1. open \in Seq(Estimates) /\ Len(open) \in Nat \ {0}
  BY DEF CostTypeOK
<1>2. Len(open) - 1 \in Nat /\ Len(open) - 1 <= Len(open)
  BY <1>1
<1>3. open' = [i \in 1..(Len(open) - 1) |-> open[i]]
  BY <1>1, <1>2 DEF EndCall
<1> QED
  BY <1>1, <1>2, <1>3

LEMMA CommittedType == CostTypeOK => Committed \in Nat
<1> SUFFICES ASSUME CostTypeOK PROVE Committed \in Nat
  OBVIOUS
<1>1. open \in Seq(Estimates) /\ spent_usd \in Nat
  BY DEF CostTypeOK
<1>2. CASE open = << >>
  BY <1>1, <1>2 DEF Committed
<1>3. CASE open # << >>
  <2>1. Len(open) \in Nat \ {0} /\ open[Len(open)] \in Estimates
    BY <1>1, <1>3
  <2>2. open[Len(open)] \in Nat /\ Levels(Len(open)) * Dearest \in Nat
    BY <2>1, DearestIsDearest, LevelsType
  <2> QED
    BY <1>1, <1>3, <2>2 DEF Committed
<1> QED
  BY <1>2, <1>3

LEMMA CheckCostStep ==
  ASSUME CostInv, NEW estimate \in Estimates, CheckCost(estimate)
  PROVE  CostInv'
<1>1. /\ open \in Seq(Estimates) /\ Len(open) \in Nat /\ Len(open) <= deepest
      /\ spent_usd \in Nat /\ deepest \in Nat /\ excess \in Nat /\ Budget \in Nat
  BY BudgetConstantsOK DEF CostInv, CostTypeOK
<1>2. /\ open' = Append(open, estimate) /\ Len(open') = Len(open) + 1
      /\ open' # << >> /\ open'[Len(open')] = estimate
      /\ \A i \in 1..Len(open) : open'[i] = open[i]
  BY <1>1 DEF CheckCost
<1>3. /\ deepest' \in Nat /\ Len(open') <= deepest'
      /\ spent_usd' = spent_usd /\ excess' = excess
  BY <1>1, <1>2 DEF CheckCost
<1>4. estimate \in Nat /\ spent_usd + estimate <= Budget
  BY BudgetConstantsOK DEF CheckCost, Fits
<1>5. CostTypeOK'
  BY <1>1, <1>2, <1>3 DEF CostTypeOK
<1>6. \A i \in 1..Len(open') : open'[i] <= Budget
  <2> SUFFICES ASSUME NEW i \in 1..Len(open') PROVE open'[i] <= Budget
    OBVIOUS
  <2>1. CASE i = Len(open')
    BY <1>1, <1>2, <1>4, <2>1
  <2>2. CASE i # Len(open')
    BY <1>1, <1>2, <2>2 DEF CostInv
  <2> QED
    BY <2>1, <2>2
<1>7. /\ Levels(Len(open')) * Dearest \in Nat
      /\ Levels(Len(open')) * Dearest <= Levels(deepest') * Dearest
      /\ Levels(deepest') * Dearest \in Nat
  BY <1>1, <1>2, <1>3, MoreLevels
<1>8. Committed' <= Allowance'
  BY <1>1, <1>2, <1>3, <1>4, <1>7 DEF Committed, Allowance
<1> QED
  BY <1>5, <1>6, <1>8 DEF CostInv

(* A call that ends at or below its estimate commits no more than before:  *)
(* its estimate goes, and the estimate of the call around it replaces the  *)
(* dearest one.  What it cost above the estimate comes on top.             *)
LEMMA EndedCommits ==
  ASSUME CostInv, open # << >>, EndCall,
         NEW cost \in Nat, cost <= open[Len(open)],
         NEW above \in Nat, spent_usd' = spent_usd + cost + above
  PROVE  Committed' <= Committed + above
<1>1. /\ Len(open) \in Nat \ {0} /\ open[Len(open)] \in Estimates
      /\ open' \in Seq(Estimates)
      /\ Len(open') = Len(open) - 1
  BY PoppedCalls DEF CostInv
<1>2. open[Len(open)] \in Nat /\ spent_usd \in Nat
  BY <1>1, DearestIsDearest DEF CostInv, CostTypeOK
<1>3. Levels(Len(open)) = Len(open')
  BY <1>1 DEF Levels
<1>4. CASE open' = << >>
  <2>1. Levels(Len(open)) * Dearest \in Nat
    BY <1>1, MoreLevels
  <2> QED
    BY <1>2, <1>4, <2>1 DEF Committed
<1>5. CASE open' # << >>
  <2>1. Len(open') \in Nat \ {0} /\ open'[Len(open')] \in Estimates
    BY <1>1, <1>5
  <2>2. /\ Levels(Len(open)) * Dearest = Levels(Len(open')) * Dearest + Dearest
        /\ Levels(Len(open')) * Dearest \in Nat
    BY <1>3, <2>1, MoreLevels
  <2>3. /\ Dearest \in Nat /\ open'[Len(open')] \in Nat
        /\ open'[Len(open')] <= Dearest
    BY <2>1, DearestIsDearest
  <2>4. Committed = spent_usd + open[Len(open)] + (Levels(Len(open')) * Dearest + Dearest)
    BY <2>2 DEF Committed
  <2>5. Committed' = spent_usd + cost + above + open'[Len(open')] + Levels(Len(open')) * Dearest
    BY <1>5 DEF Committed
  <2>6. \A s, c, t, n, d, x, a \in Nat :
          c <= t /\ n <= d => s + c + a + n + x <= s + t + (x + d) + a
    OBVIOUS
  <2> QED
    BY <1>2, <2>2, <2>3, <2>4, <2>5, <2>6
<1> QED
  BY <1>4, <1>5

LEMMA RecordCostStep ==
  ASSUME CostInv, NEW actual \in Nat, RecordCost(actual)
  PROVE  CostInv'
<1> DEFINE top == open[Len(open)]
           cost == IF actual > top THEN top ELSE actual
<1>1. /\ Len(open) \in Nat \ {0} /\ top \in Estimates
      /\ open' \in Seq(Estimates)
      /\ Len(open') = Len(open) - 1
      /\ \A i \in 1..Len(open') : open'[i] = open[i]
  BY PoppedCalls DEF CostInv, RecordCost
<1>2. /\ top \in Nat /\ spent_usd \in Nat /\ excess \in Nat /\ deepest \in Nat
      /\ Len(open) <= deepest
  BY <1>1, DearestIsDearest DEF CostInv, CostTypeOK
<1>3. /\ deepest' = deepest /\ spent_usd' = spent_usd + actual
      /\ excess' = excess + (actual - cost)
      /\ cost \in Nat /\ cost <= top /\ actual - cost \in Nat
  BY <1>2 DEF RecordCost
<1>4. CostTypeOK'
  BY <1>1, <1>2, <1>3 DEF CostTypeOK
<1>5. \A i \in 1..Len(open') : open'[i] <= Budget
  BY <1>1 DEF CostInv
<1>6. Committed' <= Committed + (actual - cost)
  BY <1>2, <1>3, EndedCommits DEF RecordCost
<1>7. Levels(deepest) * Dearest \in Nat /\ Committed <= Allowance
  BY <1>2, LevelsType DEF CostInv
<1>8. (CostTypeOK => Committed \in Nat) /\ (CostTypeOK => Committed \in Nat)'
  BY CommittedType, PTL
<1> HIDE DEF cost
<1>9. Allowance' = Allowance + (actual - cost) /\ Allowance \in Nat
  <2>1. /\ Allowance = Budget + excess + Levels(deepest) * Dearest
        /\ Allowance' = Budget + (excess + (actual - cost)) + Levels(deepest) * Dearest
    BY <1>3 DEF Allowance
  <2>2. \A b, e, x, d \in Nat : b + (e + d) + x = (b + e + x) + d
    OBVIOUS
  <2> QED
    BY <1>2, <1>3, <1>7, <2>1, <2>2, BudgetConstantsOK
<1> QED
  BY <1>3, <1>4, <1>5, <1>6, <1>7, <1>8, <1>9 DEF CostInv

LEMMA CallRaisesStep ==
  ASSUME CostInv, CallRaises
  PROVE  CostInv'
<1>1. /\ open' \in Seq(Estimates)
      /\ Len(open) \in Nat \ {0} /\ Len(open') = Len(open) - 1
      /\ \A i \in 1..Len(open') : open'[i] = open[i]
      /\ open[Len(open)] \in Nat
  BY PoppedCalls, DearestIsDearest DEF CostInv, CallRaises
<1>2. /\ UNCHANGED <<spent_usd, deepest, excess>>
      /\ spent_usd \in Nat /\ deepest \in Nat /\ excess \in Nat
  BY DEF CallRaises, CostInv, CostTypeOK
<1>3. CostTypeOK'
  BY <1>1, <1>2 DEF CostInv, CostTypeOK
<1>4. \A i \in 1..Len(open') : open'[i] <= Budget
  BY <1>1 DEF CostInv
<1>5. Committed' <= Committed + 0
  BY <1>1, <1>2, EndedCommits DEF CallRaises
<1>6. (CostTypeOK => Committed \in Nat) /\ (CostTypeOK => Committed \in Nat)'
  BY CommittedType, PTL
<1>7. Allowance' = Allowance /\ Allowance \in Nat
  BY <1>2, LevelsType, BudgetConstantsOK DEF Allowance
<1> QED
  BY <1>3, <1>4, <1>5, <1>6, <1>7 DEF CostInv

(* After a reset nothing is spent, and each open call was let in on its    *)
(* own estimate.                                                           *)
LEMMA ResetCostStep ==
  ASSUME CostInv, ResetCost
  PROVE  CostInv'
<1>1. /\ open \in Seq(Estimates) /\ Len(open) \in Nat /\ Budget \in Nat
      /\ open' = open /\ spent_usd' = 0 /\ deepest' = Len(open) /\ excess' = 0
  BY BudgetConstantsOK DEF ResetCost, CostInv, CostTypeOK
<1>2. CostTypeOK'
  BY <1>1 DEF CostTypeOK
<1>3. Levels(Len(open)) * Dearest \in Nat
  BY <1>1, MoreLevels
<1>4. Allowance' = Budget + 0 + Levels(Len(open)) * Dearest
  BY <1>1 DEF Allowance
<1>5. Committed' <= Allowance'
  <2>1. CASE open = << >>
    BY <1>1, <1>3, <1>4, <2>1 DEF Committed
  <2>2. CASE open # << >>
    <3>1. Len(open) \in 1..Len(open) /\ open[Len(open)] \in Nat
      BY <1>1, <2>2, DearestIsDearest
    <3>2. open[Len(open)] <= Budget
      BY <3>1 DEF CostInv
    <3>3. Committed' = 0 + open[Len(open)] + Levels(Len(open)) * Dearest
      BY <1>1, <2>2 DEF Committed
    <3> QED
      BY <1>1, <1>3, <1>4, <3>1, <3>2, <3>3
  <2> QED
    BY <2>1, <2>2
<1> QED
  BY <1>1, <1>2, <1>5 DEF CostInv

(* Calls that check before they cost exceed the budget of a run by no more *)
(* than their estimates left out and one dearest call for each level of    *)
(* nesting (CostBreaker.check and record), for every budget and depth, and *)
(* with resets while calls are open.                                       *)
THEOREM OverrunIsBounded == CostSpec => []OverrunBounded
<1>1. BudgetInit => CostInv
  <2> SUFFICES ASSUME BudgetInit PROVE CostInv
    OBVIOUS
  <2>1. CostTypeOK
    BY DEF BudgetInit, CostTypeOK
  <2>2. Levels(0) * Dearest \in Nat /\ Budget \in Nat
    BY MoreLevels, BudgetConstantsOK
  <2>3. Committed <= Allowance
    BY <2>2 DEF BudgetInit, Committed, Allowance
  <2> QED
    BY <2>1, <2>3 DEF BudgetInit, CostInv
<1>2. CostInv /\ [CostNext]_budgetVars => CostInv'
  <2> SUFFICES ASSUME CostInv, [CostNext]_budgetVars PROVE CostInv'
    OBVIOUS
  <2>1. CASE \E estimate \in Estimates : CheckCost(estimate)
    BY <2>1, CheckCostStep
  <2>2. CASE \E actual \in 0..MaxSpent : RecordCost(actual)
    BY <2>2, RecordCostStep, BudgetConstantsOK
  <2>3. CASE CallRaises
    BY <2>3, CallRaisesStep
  <2>4. CASE ResetCost
    BY <2>4, ResetCostStep
  <2>5. CASE UNCHANGED budgetVars
    BY <2>5 DEF budgetVars, CostInv, CostTypeOK, Committed, Allowance
  <2> QED
    BY <2>1, <2>2, <2>3, <2>4, <2>5 DEF CostNext
<1>3. CostInv => OverrunBounded
  <2> SUFFICES ASSUME CostInv PROVE spent_usd <= Allowance
    BY DEF OverrunBounded, Allowance, Levels
  <2>1. /\ open \in Seq(Estimates) /\ spent_usd \in Nat /\ deepest \in Nat
        /\ excess \in Nat /\ Budget \in Nat
    BY BudgetConstantsOK DEF CostInv, CostTypeOK
  <2>2. Allowance \in Nat
    BY <2>1, LevelsType, SMTT(30) DEF Allowance
  <2>3. spent_usd <= Committed /\ Committed \in Nat
    <3>1. CASE open = << >>
      BY <2>1, <3>1 DEF Committed
    <3>2. CASE open # << >>
      <4>1. Len(open) \in Nat \ {0} /\ open[Len(open)] \in Nat
        BY <2>1, <3>2, DearestIsDearest
      <4>2. Levels(Len(open)) * Dearest \in Nat
        BY <4>1, MoreLevels
      <4> QED
        BY <2>1, <3>2, <4>1, <4>2 DEF Committed
    <3> QED
      BY <3>1, <3>2
  <2> QED
    BY <2>1, <2>2, <2>3 DEF CostInv
<1> QED
  BY <1>1, <1>2, <1>3, PTL DEF CostSpec

-----------------------------------------------------------------------------
(* VerifiedCodeGenTool                                                     *)

(* The last fail_streak verdicts are failures, and what came before them   *)
(* passed.                                                                 *)
StreakIsTail ==
  /\ fail_streak <= Len(verdicts)
  /\ \A k \in 1..fail_streak : verdicts[Len(verdicts) + 1 - k] = "fail"
  /\ fail_streak < Len(verdicts) => verdicts[Len(verdicts) - fail_streak] = "pass"

(* Each artifact handed out unverified is one of the streak.               *)
CodegenInv ==
  /\ CodegenTypeOK
  /\ StreakIsTail
  /\ unverified <= fail_streak
  /\ unverified < FailStreakLimit

LEMMA FinishRunStep ==
  ASSUME CodegenInv, FinishRun
  PROVE  CodegenInv'
<1> DEFINE n == Len(verdicts)
<1>1. /\ verdicts \in Seq({"pass", "fail"}) /\ n \in Nat
      /\ fail_streak \in Nat /\ fail_streak <= n
      /\ unverified \in Nat /\ FailStreakLimit \in Nat
  BY CodegenConstantsOK DEF CodegenInv, CodegenTypeOK, StreakIsTail
<1>2. verifying' = NoRun /\ NoRun \in [at : {"idle", "verify"}, done : 0..Verifiers,
                                 all_passed : {"yes", "no"}]
  BY CodegenConstantsOK DEF FinishRun, NoRun
<1>3. CASE verifying.all_passed = "yes"
  <2>1. /\ verdicts' = Append(verdicts, "pass") /\ fail_streak' = 0 /\ unverified' = 0
        /\ Len(verdicts') = n + 1 /\ verdicts'[n + 1] = "pass"
    BY <1>1, <1>3 DEF FinishRun, Streak
  <2> QED
    BY <1>1, <1>2, <2>1, CodegenConstantsOK DEF CodegenInv, CodegenTypeOK, StreakIsTail
<1>4. CASE verifying.all_passed # "yes"
  <2>1. /\ verdicts' = Append(verdicts, "fail") /\ fail_streak' = fail_streak + 1
        /\ Len(verdicts') = n + 1 /\ verdicts'[n + 1] = "fail"
        /\ \A i \in 1..n : verdicts'[i] = verdicts[i]
    BY <1>1, <1>4 DEF FinishRun, Streak
  <2>2. unverified' \in Nat /\ unverified' <= fail_streak' /\ unverified' < FailStreakLimit
    BY <1>1, <1>4, <2>1 DEF FinishRun, Trips, Streak, CodegenInv
  <2>3. \A k \in 1..fail_streak' : verdicts'[Len(verdicts') + 1 - k] = "fail"
    <3> SUFFICES ASSUME NEW k \in 1..fail_streak'
                 PROVE  verdicts'[Len(verdicts') + 1 - k] = "fail"
      OBVIOUS
    <3>1. CASE k = 1
      BY <1>1, <2>1, <3>1
    <3>2. CASE k # 1
      <4>1. /\ k - 1 \in 1..fail_streak
            /\ Len(verdicts') + 1 - k = n + 1 - (k - 1)
            /\ n + 1 - (k - 1) \in 1..n
        BY <1>1, <2>1, <3>2
      <4>2. verdicts[n + 1 - (k - 1)] = "fail"
        BY <4>1 DEF CodegenInv, StreakIsTail
      <4> QED
        BY <2>1, <4>1, <4>2
    <3> QED
      BY <3>1, <3>2
  <2>4. fail_streak' < Len(verdicts') =>
          verdicts'[Len(verdicts') - fail_streak'] = "pass"
    <3> SUFFICES ASSUME fail_streak' < Len(verdicts')
                 PROVE  verdicts'[Len(verdicts') - fail_streak'] = "pass"
      OBVIOUS
    <3>1. /\ Len(verdicts') - fail_streak' = n - fail_streak
          /\ n - fail_streak \in 1..n /\ fail_streak < n
      BY <1>1, <2>1
    <3> QED
      BY <2>1, <3>1 DEF CodegenInv, StreakIsTail
  <2> QED
    BY <1>1, <1>2, <2>1, <2>2, <2>3, <2>4 DEF CodegenInv, CodegenTypeOK, StreakIsTail
<1> QED
  BY <1>3, <1>4

(* The streak is the number of judged generations since one last passed,   *)
(* and fewer unverified artifacts than the limit are handed out before one *)
(* does (VerifiedCodeGenTool.run), for any verifiers and any limit.        *)
THEOREM StreakIsVerdicts == CodegenSpec => []StreakCountsVerdicts
<1>1. CodegenInit => CodegenInv
  BY CodegenConstantsOK
     DEF CodegenInit, CodegenInv, CodegenTypeOK, StreakIsTail, NoRun
<1>2. CodegenInv /\ [CodegenNext]_codegenVars => CodegenInv'
  <2> SUFFICES ASSUME CodegenInv, [CodegenNext]_codegenVars PROVE CodegenInv'
    OBVIOUS
  <2> USE CodegenConstantsOK DEF CodegenInv, CodegenTypeOK, StreakIsTail, NoRun
  <2>1. CASE Generate
    BY <2>1 DEF Generate
  <2>2. CASE \E outcome \in VerificationOutcome : Verify(outcome)
    <3>1. /\ verifying' = [verifying EXCEPT !.done = verifying.done + 1, !.all_passed = verifying'.all_passed]
          /\ verifying'.all_passed \in {"yes", "no"} /\ verifying.at = "verify"
          /\ verifying.done + 1 \in 0..Verifiers
          /\ UNCHANGED <<fail_streak, verdicts, unverified>>
      BY <2>2 DEF Verify
    <3> QED
      BY <3>1
  <2>3. CASE RunRaises
    BY <2>3 DEF RunRaises, StreakAfterRaise
  <2>4. CASE FinishRun
    BY <2>4, FinishRunStep
  <2>5. CASE UNCHANGED codegenVars
    BY <2>5 DEF codegenVars
  <2> QED
    BY <2>1, <2>2, <2>3, <2>4, <2>5 DEF CodegenNext
<1>3. CodegenInv => StreakCountsVerdicts
  BY DEF CodegenInv, StreakIsTail, StreakCountsVerdicts
<1> QED
  BY <1>1, <1>2, <1>3, PTL DEF CodegenSpec

-----------------------------------------------------------------------------
(* LoopSignatureBreaker                                                    *)

(* The deque holds the latest calls, as many as the window has room for.   *)
Held == IF Len(seen) < Window THEN Len(seen) ELSE Window

RecentIsTail ==
  /\ Len(recent) = Held
  /\ \A i \in 1..Held : recent[i] = seen[Len(seen) - Held + i]

LoopInv == LoopTypeOK /\ RecentIsTail /\ OpenIffLooping

LEMMA SimilarIsSymmetric == \A x, y : Similar(x, y) <=> Similar(y, x)
<1> SUFFICES ASSUME NEW x, NEW y PROVE Similar(x, y) <=> Similar(y, x)
  OBVIOUS
<1>1. x \cap y = y \cap x /\ x \cup y = y \cup x
  OBVIOUS
<1> QED
  BY <1>1, Zenon DEF Similar

LEMMA ObserveTail ==
  ASSUME LoopInv, NEW text \in Texts, Observe(text)
  PROVE  LoopTypeOK' /\ RecentIsTail'
<1>1. /\ recent \in Seq(Texts) /\ seen \in Seq(Texts) /\ Window \in Nat /\ Window >= 2
      /\ Len(seen) \in Nat /\ Len(recent) = Held
  BY LoopConstantsOK DEF LoopInv, LoopTypeOK, RecentIsTail
<1>2. /\ seen' = Append(seen, text) /\ Len(seen') = Len(seen) + 1 /\ seen' \in Seq(Texts)
      /\ seen'[Len(seen) + 1] = text
      /\ \A i \in 1..Len(seen) : seen'[i] = seen[i]
  BY <1>1 DEF Observe
<1>3. opened' \in {"yes", "no"}
  BY DEF Observe, Verdict, LoopInv, LoopTypeOK
<1>4. CASE Len(seen) < Window
  <2>1. recent' = Append(recent, text) /\ Held = Len(seen) /\ Held' = Len(seen) + 1
    BY <1>1, <1>2, <1>4 DEF Observe, Pushed, Held
  <2>2. recent' \in Seq(Texts) /\ Len(recent') = Held'
    BY <1>1, <2>1
  <2>3. \A i \in 1..Held' : recent'[i] = seen'[Len(seen') - Held' + i]
    BY <1>1, <1>2, <2>1 DEF LoopInv, RecentIsTail
  <2> QED
    BY <1>1, <1>2, <1>3, <1>4, <2>1, <2>2, <2>3 DEF LoopTypeOK, RecentIsTail
<1>5. CASE ~(Len(seen) < Window)
  <2>1. recent' = Append(Tail(recent), text) /\ Held = Window /\ Held' = Window
    BY <1>1, <1>2, <1>5 DEF Observe, Pushed, Held
  <2>2. /\ Tail(recent) \in Seq(Texts) /\ Len(Tail(recent)) = Window - 1
        /\ \A i \in 1..(Window - 1) : Tail(recent)[i] = recent[i + 1]
    BY <1>1, <2>1
  <2>3. /\ recent' \in Seq(Texts) /\ Len(recent') = Window /\ recent'[Window] = text
        /\ \A i \in 1..(Window - 1) : recent'[i] = recent[i + 1]
    BY <1>1, <2>1, <2>2
  <2>4. \A i \in 1..Held' : recent'[i] = seen'[Len(seen') - Held' + i]
    <3>0. Len(seen') - Held' = Len(seen) + 1 - Window
      BY <1>1, <1>2, <2>1
    <3> SUFFICES ASSUME NEW i \in 1..Window
                 PROVE  recent'[i] = seen'[Len(seen) + 1 - Window + i]
      BY <2>1, <3>0
    <3>1. CASE i = Window
      BY <1>1, <1>2, <2>3, <3>1
    <3>2. CASE i # Window
      <4>1. /\ i + 1 \in 1..Window /\ i \in 1..(Window - 1)
            /\ Len(seen) + 1 - Window + i = Len(seen) - Window + (i + 1)
            /\ Len(seen) - Window + (i + 1) \in 1..Len(seen)
        BY <1>1, <1>5, <3>2
      <4>2. recent'[i] = recent[i + 1] /\ recent[i + 1] = seen[Len(seen) - Window + (i + 1)]
        BY <2>1, <2>3, <4>1 DEF LoopInv, RecentIsTail
      <4> QED
        BY <1>2, <4>1, <4>2
    <3> QED
      BY <3>1, <3>2
  <2>5. LoopTypeOK'
    BY <1>1, <1>2, <1>3, <2>3 DEF LoopTypeOK
  <2>6. RecentIsTail'
    BY <2>1, <2>3, <2>4 DEF RecentIsTail
  <2> QED
    BY <2>5, <2>6
<1> QED
  BY <1>4, <1>5

(* On a full deque the pairs AllSimilar looks at are those of the last     *)
(* window of calls.                                                        *)
LEMMA PairsOfTheWindow ==
  ASSUME LoopTypeOK, RecentIsTail, Len(seen) >= Window
  PROVE  AllSimilar(recent) <=>
           \A i, j \in Len(seen) - Window + 1 .. Len(seen) :
             i = j \/ Similar(seen[i], seen[j])
<1> DEFINE base == Len(seen) - Window
<1>1. /\ Len(seen) \in Nat /\ Window \in Nat /\ base \in Nat /\ Held = Window
  BY LoopConstantsOK DEF LoopTypeOK, Held
<1>2. /\ DOMAIN recent = 1..Window /\ Len(recent) = Window
       /\ \A i \in 1..Window : recent[i] = seen[base + i]
  BY <1>1 DEF LoopTypeOK, RecentIsTail
<1>3. ASSUME AllSimilar(recent), NEW i \in base + 1 .. Len(seen),
             NEW j \in base + 1 .. Len(seen), i < j
      PROVE  Similar(seen[i], seen[j])
  <2>1. /\ i - base \in 1..Window /\ j - base \in (i - base) + 1 .. Window
        /\ j - base \in 1..Window
        /\ base + (i - base) = i /\ base + (j - base) = j
    BY <1>1, <1>2, <1>3
  <2>2. Similar(recent[i - base], recent[j - base])
    BY <1>1, <1>2, <1>3, <2>1 DEF AllSimilar
  <2>3. recent[i - base] = seen[i] /\ recent[j - base] = seen[j]
    BY <1>1, <1>2, <2>1
  <2> QED
    BY <2>2, <2>3
<1>4. ASSUME AllSimilar(recent), NEW i \in base + 1 .. Len(seen),
             NEW j \in base + 1 .. Len(seen)
      PROVE  i = j \/ Similar(seen[i], seen[j])
  <2>1. i < j \/ j < i \/ i = j
    BY <1>1, <1>2
  <2> QED
    BY <1>3, <1>4, <2>1, SimilarIsSymmetric
<1>5. ASSUME \A i, j \in base + 1 .. Len(seen) : i = j \/ Similar(seen[i], seen[j]),
             NEW i \in DOMAIN recent, NEW j \in i + 1 .. Len(recent)
      PROVE  Similar(recent[i], recent[j])
  <2>1. /\ i \in 1..Window /\ j \in 1..Window /\ base + i # base + j
        /\ base + i \in base + 1 .. Len(seen) /\ base + j \in base + 1 .. Len(seen)
    BY <1>1, <1>2
  <2>2. Similar(seen[base + i], seen[base + j])
    BY <1>5, <2>1
  <2>3. recent[i] = seen[base + i] /\ recent[j] = seen[base + j]
    BY <1>1, <1>2, <2>1
  <2> QED
    BY <2>2, <2>3
<1> QED
  BY <1>4, <1>5 DEF AllSimilar

LEMMA ObserveStep ==
  ASSUME LoopInv, NEW text \in Texts, Observe(text)
  PROVE  LoopInv'
<1>1. LoopTypeOK' /\ RecentIsTail'
  BY ObserveTail
<1>2. /\ Window \in Nat /\ Len(seen) \in Nat /\ Len(seen') \in Nat
      /\ Len(seen') = Len(seen) + 1 /\ Len(recent') = Held'
      /\ recent' = Pushed(text) /\ opened' = Verdict(recent')
  BY <1>1, LoopConstantsOK DEF LoopInv, LoopTypeOK, RecentIsTail, Observe
<1>3. CASE Len(seen') < Window
  <2>1. opened' = opened /\ opened # "yes"
    BY <1>2, <1>3 DEF Held, Verdict, LoopInv, OpenIffLooping
  <2> QED
    BY <1>1, <1>2, <1>3, <2>1 DEF LoopInv, OpenIffLooping
<1>4. CASE ~(Len(seen') < Window)
  <2>1. opened' = "yes" <=> AllSimilar(recent')
    BY <1>2, <1>4 DEF Held, Verdict
  <2>2. (LoopTypeOK /\ RecentIsTail /\ Len(seen) >= Window =>
          (AllSimilar(recent) <=>
             \A i, j \in Len(seen) - Window + 1 .. Len(seen) :
               i = j \/ Similar(seen[i], seen[j])))'
    BY PairsOfTheWindow, PTL
  <2>3. Len(seen') >= Window
    BY <1>2, <1>4
  <2> QED
    BY <1>1, <2>1, <2>2, <2>3 DEF LoopInv, OpenIffLooping
<1> QED
  BY <1>3, <1>4

(* The breaker is open exactly while the last window calls since the reset *)
(* are near-duplicates of each other, every pair of them                   *)
(* (LoopSignatureBreaker.observe), for every window and threshold.         *)
THEOREM OpenMeansLooping == LoopSpec => []OpenIffLooping
<1>1. LoopInit => LoopInv
  BY LoopConstantsOK
     DEF LoopInit, LoopInv, LoopTypeOK, RecentIsTail, Held, OpenIffLooping
<1>2. LoopInv /\ [LoopNext]_loopVars => LoopInv'
  <2> SUFFICES ASSUME LoopInv, [LoopNext]_loopVars PROVE LoopInv'
    OBVIOUS
  <2>1. CASE \E text \in Texts : Observe(text)
    BY <2>1, ObserveStep
  <2>2. CASE ResetLoop
    BY <2>2, LoopConstantsOK
       DEF ResetLoop, LoopInv, LoopTypeOK, RecentIsTail, Held, OpenIffLooping
  <2>3. CASE UNCHANGED loopVars
    BY <2>3 DEF loopVars, LoopInv, LoopTypeOK, RecentIsTail, Held, OpenIffLooping
  <2> QED
    BY <2>1, <2>2, <2>3 DEF LoopNext
<1>3. LoopInv => OpenIffLooping
  BY DEF LoopInv
<1> QED
  BY <1>1, <1>2, <1>3, PTL DEF LoopSpec
=============================================================================
