----------------------------- MODULE MCPlatform -----------------------------
(***************************************************************************)
(* Small instances, for TLC, of what every example rests on (telemetry,    *)
(* the registry and the simulator, traces and logs, the mock provider), of *)
(* what the examples compute from it (judges, gauges, drift, budgets,      *)
(* ledgers) and of the publish checkpoint.  Only the simulator and         *)
(* telemetry share state; a behaviour is about one part, and the others    *)
(* stay as they were pinned.                                               *)
(***************************************************************************)
EXTENDS SimulatorRun, TraceTree, ExampleRegistry, MockProvider, JudgeCascade,
        FairnessGauges, DriftAlerts, ContextBudget, CostLedgers, ValueLedger,
        FleetJoin, GovernanceGate, TLC

CONSTANTS g1, c1, c2, editor, nobody

VARIABLE part

(* A span of no operation, and a chat span without usage.                  *)
Plain == [operation |-> "none", provider |-> FALSE, usage |-> FALSE,
          unnamespaced |-> FALSE, personal |-> FALSE, pillar |-> "roi"]
MCShapes == {Plain, [Plain EXCEPT !.operation = "chat", !.provider = TRUE, !.pillar = "none"]}
MCSelections ==
  {<<[expect_error |-> TRUE, pillar |-> "roi"], [expect_error |-> FALSE, pillar |-> "risk"]>>, << >>}

(* Three modules; the third imports the second, whose chapter it shares.   *)
Spec1(chapter, key, pillar) == [chapter |-> chapter, key |-> key, pillar |-> pillar]
MCDeclares == <<<<Spec1(1, 2, "roi"), Spec1(1, 1, "risk")>>,
                <<Spec1(2, 1, "roi"), Spec1(2, 4, "roi")>>, <<Spec1(2, 3, "risk")>>>>
MCNeeds == <<{}, {}, {2}>>

(* The examples.                                                           *)
MCScripts == {RagPipeline(TRUE), RagPipeline(FALSE), CrossService, TracedAnswer,
              ScopeHierarchy, FourSignals, FiveLayers}

MCPrompts == {[id |-> "p", length |-> 5, retried |-> FALSE],
              [id |-> "q", length |-> 9, retried |-> TRUE]}

(* Unsure, sure, rounded, no distribution, and one past 1 within tolerance.*)
Judged(p, q) == [label |-> "supported",
                 probabilities |-> [l \in Labels |-> IF l = "supported" THEN p ELSE q]]
MCSamples == {[answer |-> MockDecision(q), fallback |-> 120] : q \in {1, 2}}
               \cup {[answer |-> Judged(55, 44), fallback |-> 20],
                     [answer |-> Judged(90, 30), fallback |-> 20],
                     [answer |-> Judged(102, 0), fallback |-> 20]}

(* Too few, enough, and enough with too few positives or negatives.        *)
MCCounts == {<<1, 0, 1, 0>>, <<2, 1, 1, 0>>, <<1, 1, 2, 2>>, <<1, 0, 2, 1>>, <<1, 0, 3, 0>>}

(* Windows of two and of three, with the logarithms of their products in   *)
(* thousandths.                                                            *)
MCReferences == {<<1, 1, 2>>, <<1, 2>>}
MCLn == [n \in Products |->
  CASE n = 6 -> 1792 [] n = 8 -> 2079 [] n = 18 -> 2890 [] n = 24 -> 3178
    [] n = 30 -> 3401 [] n = 40 -> 3689 [] n = 42 -> 3738 [] n = 56 -> 4025]

MCWords == {<< >>, <<2>>, <<1, 3>>, <<2, 1, 1>>}

MCUsages == {[input |-> 3, output |-> 1], [input |-> 8, output |-> 5],
             [input |-> -1, output |-> 1]}

MCTable == <<Entry("cost", 4, "direct_cost"), Entry("benefit", 5, "measured"),
             Entry("benefit", 1, "assumed")>>

(* The parts that do not run are pinned to one of their initial states.    *)
Pinned ==
  /\ part # "simulator" => selected = << >>
  /\ part # "telemetry" => installed = FALSE
  /\ part # "trace" => script = [r \in Requests |-> FourSignals]
  /\ part # "provider" => failure_mode = "none"
  /\ part # "cascade" =>
       /\ accept_threshold = 50
       /\ evaluator = [c \in Callers |-> c]
       /\ todo = [c \in Callers |-> <<[answer |-> MockDecision(1), fallback |-> 120]>>]
  /\ part # "drift" => reference = <<1, 1, 2>>
  /\ part # "context" =>
       /\ counter = "local"
       /\ context = [system |-> << >>, question |-> << >>, history |-> << >>,
                     retrieval |-> << >>, budget |-> 4]
  /\ part # "ledgers" => loop = "other"

(* Requests share the log buffer only, and callers an evaluator, so that   *)
(* one of them may be short.                                               *)
PlatformInit ==
  /\ part \in {"telemetry", "simulator", "trace", "registry", "provider", "cascade",
               "fairness", "drift", "context", "ledgers", "value", "fleet", "gate"}
  /\ Pinned
  /\ SimulatorInit
  /\ TraceInit
  /\ script["r2"] \in {FourSignals, CrossService}
  /\ RegistryInit
  /\ ProviderInit
  /\ CascadeInit
  /\ Len(todo[2]) = 1
  /\ FairnessInit
  /\ DriftInit
  /\ ContextInit
  /\ part = "context" => context.system = <<2>> /\ context.question # << >>
  /\ LedgersInit
  /\ ValueInit
  /\ FleetInit
  /\ GateInit

(* What each part leaves alone: everything that is not its own.            *)
Frame ==
  /\ UNCHANGED part
  /\ part \notin {"telemetry", "simulator"} => UNCHANGED telemetryVars
  /\ part # "simulator" => UNCHANGED runnerVars
  /\ part # "trace" => UNCHANGED traceVars
  /\ part # "registry" => UNCHANGED registryVars
  /\ part # "provider" => UNCHANGED providerStateVars
  /\ part # "cascade" => UNCHANGED cascadeVars
  /\ part # "fairness" => UNCHANGED fairnessVars
  /\ part # "drift" => UNCHANGED driftVars
  /\ part # "context" => UNCHANGED contextVars
  /\ part # "ledgers" => UNCHANGED ledgerVars
  /\ part # "value" => UNCHANGED valueVars
  /\ part # "fleet" => UNCHANGED fleetVars
  /\ part # "gate" => UNCHANGED gateVars

(* Without the simulator two blocks and one shape are enough; with it, one *)
(* block is disturbed at most, and only a span that gets its tracer anew   *)
(* may break the contract.  A window is a bag, the first day has no flag.  *)
(* The prior period is closed before the current one begins, is of two     *)
(* entries, and no cost is measured.                                       *)
Sorted(w) == \A i \in 1..(Len(w) - 1) : w[i] <= w[i + 1]

SmallTelemetry == block'[3] = "new" /\ \A i \in DOMAIN spans' : spans'[i].shape = Plain

SmallRun ==
  /\ Cardinality({b \in Blocks : disturbed'[b]}) <= 1
  /\ \A i \in DOMAIN spans' : spans'[i].tracer = "fresh" \/ spans'[i].shape = Plain

SmallDay ==
  LET day == days'[Len(days')] IN
    /\ Sorted(day.values)
    /\ days = << >> => ~(day.low_p \/ day.regression \/ day.seasonal \/ day.confirmed)

SmallValue ==
  /\ ledgers'["prior"] # ledgers["prior"] =>
       ledgers["current"] = << >> /\ Len(ledgers'["prior"]) <= 2
  /\ \A p \in Periods : \A i \in DOMAIN ledgers'[p] :
       ledgers'[p][i] # Entry("cost", ledgers'[p][i].usd, "measured")

PlatformNext ==
  \/ part = "telemetry" /\ TelemetryNext /\ SmallTelemetry /\ Frame
  \/ part = "simulator" /\ SimulatorNext /\ SmallRun /\ Frame
  \/ part = "trace" /\ TraceNext /\ Frame
  \/ part = "registry" /\ RegistryNext /\ Frame
  \/ part = "provider" /\ ProviderNext /\ Frame
  \/ part = "cascade" /\ CascadeNext /\ Frame
  \/ part = "fairness" /\ FairnessNext /\ Frame
  \/ part = "drift" /\ DriftNext /\ SmallDay /\ Frame
  \/ part = "context" /\ ContextNext /\ Frame
  \/ part = "ledgers" /\ LedgersNext /\ Frame
  \/ part = "value" /\ ValueNext /\ SmallValue /\ Frame
  \/ part = "fleet" /\ FleetNext /\ Frame
  \/ part = "gate" /\ GateNext /\ Frame

PlatformSpec ==
  PlatformInit
    /\ [][PlatformNext]_<<telemetryVars, runnerVars, traceVars, registryVars,
                          providerStateVars, cascadeVars, fairnessVars, driftVars,
                          contextVars, ledgerVars, valueVars, fleetVars, gateVars, part>>
=============================================================================
