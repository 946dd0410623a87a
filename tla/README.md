# A TLA+ model of ai-observability-engineering

The repository is the companion code of a book on observing AI systems. Most of
it is Python that runs one example and prints a report; the parts that a careful
team would want a model of are the ones with state that outlives a call, or that
several callers share: the hash-chained audit log of Chapter 12 and its stores,
the dossier that is read from it, the publish checkpoint of Chapter 17 that
writes to it, the oversight and agent machinery of Chapters 14 to 16, and the
telemetry set-up that all examples share.

Paths below are relative to `ai-observability-engineering/`.

## 1. Inventory

| component | state it keeps | operations | what is hard about it | what makes it correct |
|---|---|---|---|---|
| **audit logger** `chapters/ch12/audit_logger.py` | `_head`, `_sequence` per logger | `__init__`/`_resume`, `append`, `records` | no lock; `append` reads and assigns its two fields in separate statements; several processes over one store; resume beside a writer | the stored chain verifies and never forks; an acknowledged record stays |
| **stores** `append_only_store.py` | a directory, or a bucket | `put`, `get`, `list_keys` | local: create, then write; S3: head, then put, one page of list results, every head error means "free" | put-if-absent; what was written is listed |
| **verifier** `verify_chain.py` | none (a scan) | `verify_chain` | the cascade behind a break | finds exactly the broken records |
| **dossier** `audit_queries.py`, **custody** `data_custody.py` | rows read | `assemble_dossier`, `record`, `overdue` | listing and reading beside writers | a dossier that calls itself defensible is complete |
| **governance checkpoint** `ch17/governance_checkpoint.py` | the graph's saved state, the audit log | `checkpoint_node` | re-execution at each resume, two resumes of one pause, a failing append, a crash before the save | no published run without its record; no record of a rejected credential |
| **responsibility chain** `ch17/responsibility_chain.py`, **decision record** `decision_record.py` | a `ContextVar` | `start_chain`, `delegate`, `carry_context`, `apply_context`, `release_context`, `assemble_decision_record` | copied contexts, scopes left in any order, tokens of another context | a chain is of one run; a scope that ended lends its authority to nothing |
| **HITL router** `ch14/hitl_router.py` | queue, counter, RNG | `route` | the sampler's stream, two-step enqueue and count | mandatory classes always reach a person |
| **feedback capture** `ch14/feedback_capture.py` | audit log, training dataset | `capture` | append and add are two steps; the default dataset | only logged, vouched corrections are learned, once |
| **briefing pipeline** `ch15/agent_graph.py`, `langgraph_graph.py` | `BriefingState`, `RunTrace` | the three nodes and the routes | the revise loop and its cap; the same shape written twice | ends, and both shapes agree |
| **tool breakers** `ch16/observable_tool.py`, `codegen_breaker.py`, `loop_breaker.py`, `extra_breakers.py` | call counts, streaks, windows, spend | call, `reset`, `observe`, `check`, `record` | nested, failing and overlapping calls | a tripped breaker stays open until reset; a budget is not overrun |
| **memory metrics** `ch16/memory_metrics.py` | a store, lists and counters | `add`, `search`, `record_context`, `record_memory_retrieval` | an exception half-way; the cut at `top_k` | a hit is a hit, counts agree with observations |
| **agent runs** `src/aiobs/agents.py`, `testing/scenarios.py` | the steps of a run | `add`, detectors, `classify`, `failure_vector` | repetition spread over agents that take turns; two budgets | no failure is found once and then lost |
| **telemetry** `src/aiobs/telemetry.py`, `testing/harness.py`, `testing/assertions.py` | process-wide provider, exporter, flag | `configure`, `capture`, `reset`, `get_tracer`, `ExampleHarness.run` | nested blocks replace globals; tracers kept since import; spans that end late | a block gets its own spans |
| **traces and logs** `src/aiobs/instrument.py`, `logging.py`, `ch05/_rag_shared.py` | the span context of a thread, the log buffer | spans, `rerank_in_pool`, `emit`, `capture_logs` | context across threads and services, exceptions, blocks that do not nest | one tree per request, records that name its spans |
| **registry** `chapters/registry.py` | the examples | `@example`, `discover`, `select`, `coverage` | imports that fail and are retried | an answer is never short |
| **simulator** `simulator/runner.py` | outcomes | select, run, report | isolation between runs, expected errors | a pass is earned |
| **mock provider** `src/aiobs/providers/mock.py` | a call counter | `chat`, `stream_chat` | retries, generators per prompt, a clock inside a stream | replies replay; a stream adds up |
| **cascade** `src/aiobs/evals/decision.py`, `ch13/cascade_judge.py` | `last_decision`, `last_escalated` | `score`, `evaluate` | fields shared by threads | the detail belongs to the score |
| **cost ledger** `src/aiobs/cost.py` and the loops of `ch02`, `ch07`, `ch08`, `ch09` | records | `record`, roll-ups, share | rounding; cache hits, retries and samples | roll-ups and spans explain the spend |
| **value ledger and summary** `ch07_value_ledger.py`, `ch09_exec_summary.py` | entries of each period | `add`, `roi`, targets, arrows | trends from zero and from a loss | a page without attention is earned |
| **token budget** `ch08/token_budget.py`, `model_router.py` | none outside a call | `fit_context_to_budget`, `route_model` | the counter changes unit when its API fails | a context fits or the call fails |
| **fleet** `ch08/coding_agent_fleet.py` | per-team counts | `join_fleet` | repeated ids | no spend and no change lost or counted twice |
| **guardrails** `ch10/guardrails.py`, `injection_detector.py`, `src/aiobs/risk.py` | a span | `guarded_call` | nesting; a model that raises between the guards | nothing leaks, the trail adds up |
| **fairness** `ch13/fairness_metrics.py` | gauge samples | `publish_fairness` | a recorder that is reused; floors per denominator | no gap tells of a suppressed group |
| **drift and alerts** `src/aiobs/drift.py`, `ch06/alerting.py` | yesterday's drift | PSI, embedding drift, `evaluate_alert_tier` | values outside the reference, drift that must last | only drift raises an alert |
| **compliance** `ch11/*`, **conventions** `semconv.py`, heuristics, tables | none | lookups | none | – |

**Interactions.** `AuditLogger` calls its store and nothing else. The checkpoint,
feedback capture and the chapter scripts call `AuditLogger.append`; the dossier
calls `records` and `verify_chain`. The checkpoint is a node of the graph that
`langgraph_graph.build_graph` compiles: the graph's checkpointer saves what the
node returns, and re-executes the node from its top when a caller resumes it.
The responsibility chain travels in a `ContextVar`, of which the graph runs a
copy. Every example emits spans through the one global provider of `telemetry`;
the simulator runs the registry's examples one after the other in one process,
each inside a block that replaces that provider. The examples call the mock
provider, price its replies and record them in a ledger.

## 2. Modules

| module | models | built on |
|---|---|---|
| `AuditRecords` | the record, its digest, what a sound chain is, `verify_chain`'s verdict as an operator | – |
| `AuditLog` | what Chapter 12 promises, as an abstract log: records at the end, answers with a position | – |
| `AuditChain` | `AuditLogger` and both stores, statement by statement, several loggers and threads, crashes and restarts | `AuditRecords`; implements `AuditLog` |
| `AuditDossier` | `assemble_dossier` reading beside the writers of `AuditChain` | `AuditChain` |
| `ChainIntegrity` | `verify_chain` as a loop over a chain changed behind the logger | `AuditRecords` |
| `GovernanceGate` | `checkpoint_node` with racing, crashing, retrying callers | `AuditLog` (INSTANCE) |
| `DelegationScopes` | the responsibility chain in threads and tasks, decision records | – |
| `BriefingPipeline` | `run_pipeline` and the checkpointed `StateGraph` beside each other, with one reviewer | – |
| `HitlRouter` | `HitlRouter.route`, its sampler, a queue that may fail | – |
| `FeedbackCapture` | `FeedbackCapture.capture`, the datasets | `AuditLog` (INSTANCE) |
| `ToolBudget`, `LoopBreaker`, `CodegenBreaker`, `CostBudget` | the breakers of Chapter 16, one module each | – |
| `GuardedCall` | `guarded_call`, nested, with a model that may raise | – |
| `AgentRuns`, `MemoryMetrics` | the meters of agents: failure modes of growing runs; retrievals and truncations | – |
| `AgentMeters` | both meters beside each other | `AgentRuns`, `MemoryMetrics` |
| `Rounding` | `round` to a last digit, as `CostLedgers`, `ValueLedger` and `DriftAlerts` use it | – |
| `StableSort` | Python's `sorted`, as `MemoryMetrics`, `ExampleRegistry` and `DriftAlerts` use it | – |
| `TelemetryCapture` | the global provider and exporter under blocks of `capture()` | – |
| `SimulatorRun` | the simulator and the harness over `TelemetryCapture` | `TelemetryCapture` |
| `TraceTree` | spans, contexts handed over, exceptions, log buffers | – |
| `ExampleRegistry` | registration, imports that fail, selection | – |
| `MockProvider` | replies, streams and their reader | – |
| `JudgeCascade` | the decision cascade on shared evaluators | – |
| `FairnessGauges`, `DriftAlerts` | gauges from window to window; drift and tiers from day to day | – |
| `ContextBudget`, `CostLedgers`, `ValueLedger`, `FleetJoin` | budgets and accounts | – |
| `CollectionProofs` | lemmas about finite collections: induction, sums, sorting | `StableSort` |
| `AuditChainProofs` | theorems | `AuditChain` |
| `AuditReadersProofs` | theorems about the readers of a chain | `AuditDossier`, `ChainIntegrity`, `AuditChainProofs` |
| `ReviewProofs` | theorems about review by people | `HitlRouter`, `FeedbackCapture`, `BriefingPipeline` |
| `GateProofs` | theorems about what stops an outcome or an agent | `GovernanceGate`, `ToolBudget`, `LoopBreaker`, `CodegenBreaker`, `CostBudget` |
| `ScopeProofs` | theorems about what opens and closes around a call | `SimulatorRun`, `DelegationScopes`, `GuardedCall`, `ExampleRegistry`, `TraceTree`, `CollectionProofs` |
| `AccountProofs` | theorems about what is added up | `FleetJoin`, `ContextBudget`, `CostLedgers`, `ValueLedger`, `CollectionProofs` |
| `MeasureProofs` | theorems about what is measured | `JudgeCascade`, `FairnessGauges`, `DriftAlerts`, `AgentMeters`, `MockProvider`, `CollectionProofs` |
| `MCAuditLog`, `MCOversight`, `MCPlatform` | several of the above as parts of one run each | see section 3 |
| `MCAuditChain`, `MCAuditDossier`, `MCGovernanceGate` | model values, symmetry for the violation runs | the module each is named after |

### `AuditRecords`

A record is `[sequence, event, prev_hash, record_hash]`. The digest is modelled
as an injection: `HashRecord` of a body is a value that only that body has, and
`Genesis` is none of them. That is the assumption that SHA-256 does not collide;
everything else about hashing (canonical JSON, hexadecimal) is left out. The
timestamp and the identifiers of an event are part of the event.

### `AuditChain`

| variable | code |
|---|---|
| `keys`, `objects` | keys a listing shows, and those whose content is complete. `Torn` is the difference: files created and not yet written |
| `lstate`, `head`, `seq`, `tail` | a logger's life, `_head`, `_sequence`, and the last key `_resume` saw in its listing |
| `pc`, `using`, `rec` | where a thread is in `append`, on which logger, with which record |
| `issued`, `acked` | events handed to `append`, records it returned: for the properties alone |

`append` is cut at every point where another thread, process or the operating
system can act: `Call` (reads `_sequence`), `HashBody` and `LinkPrev` (reads
`_head`, builds the record), then the store, then `AdvanceHead` and
`CountRecord`, the two assignments. With `Backend = "local"` the store is
`CreateKey` (exclusive create) and `WriteObject`, or `WriteFails`; with `"s3"` it
is `HeadObject`, `PutObject`, `UploadFails`. `Faults` says which failures occur.
A logger opens in two steps, `ListKeys` and `ReadTail`, and ends by `Stop` or by
`Crash`, which forgets the calls that use it. `objects` is what `get` answers: on S3
the newest version of a key. The versions that Object Lock keeps behind it are not
modelled, as nothing in the repository reads them. `PageSize` stands for the thousand
keys of a list answer.

### `AuditDossier`

A reader lists the keys, reads them one by one while the writers of `AuditChain`
go on, and verifies what it read. A directory listing need not be a snapshot: it
holds every key that was there throughout, and any of those created meanwhile
(`PossibleListings`). So a listing may have a gap, and a dossier of untouched
records may fail to verify; `HonestDossierVerifies` is about listings without
one. An unreadable key raises, as the code does.

### `ChainIntegrity`

A sound chain at rest is changed behind the logger up to `MaxChanges` times
(payload edited, two records exchanged, one removed) and then scanned record by
record with the code's `prev` and cascade. Nobody recomputes a digest: whoever can
do that has a chain that verifies, as `append_only_store.py:4-6` says, and is kept
out by the store and not by the chain.

### `GovernanceGate`

| variable | code |
|---|---|
| `run` | what the checkpointer holds of each graph run |
| `scope`, `chain` | callers inside `start_chain`; the chain in the node's copied context |
| `place`, `call`, `slot` | where a caller is in the node, the answer it resumed with, the position `append` gave its event |
| `oversight`, `told` | the audit log as an `AuditLog`, and its answers |

`Resume` may be taken by any caller for any paused run, any number of times.
`CheckRole` and `Delegate` may raise; the append may raise with or without
having recorded; a caller may die anywhere. The record in the code does not
carry the run's id; the model keeps it beside the record so that properties can
speak of it. No action reads it.

### `BriefingPipeline`

| variable | code |
|---|---|
| `reviewer`, `cap` | the reviewer's answer to each attempt, `max_hops` |
| `plain`, `trace` | `run_pipeline`: where the loop is, `hop`, `attempt`; its `RunTrace`, counted |
| `graph`, `executor`, `crashes` | the checkpoint and its next node; whether that node is being executed |

The loop is `Research`, `Draft`, `Review`, or `Raise`. The graph is `StartNode`
and `FinishNode`, which saves the node's update and the edge taken; `Crash` in
between saves nothing, and the node is executed again.

### `HitlRouter` and `FeedbackCapture`

`Decide` is `route` up to its two side effects, `Enqueue` or `EnqueueRaises` the
first, `CountAndReturn` the second. `stream` is what the seed makes of the
sampler's draws; `RouterCrash` starts it again, as `__post_init__` does.

`Capture` is `to_payload`, `AppendAudit` or `AppendRaises` the append,
`AdmitAndReturn` the gates and the return. `Open` is `__init__` with no dataset
or with that of another capture, which it ignores while that is empty, because
an empty `FeedbackDataset` is falsy. No document promises otherwise; a caller
who shares a dataset from the start should know.

### The breakers

`ToolBudget` keeps the stack of calls in progress, since a tool is a function
that may call tools: `Request` enters, `Admit` or `Refuse` looks at the budget,
`Return`, `FuncRaises` and `PreviewRaises` leave, `Catch` ends an exception. In
CPython nothing runs between the comparison and the increment in `__call__`, so
`Admit` is one step. `LoopBreaker` represents a text by its set of tokens, all
that `text_similarity` looks at, and a threshold by a fraction. `OpenIffLooping`
is what the code does, every pair of the window alike; what the comment above the
loop promises beyond that, `OscillationOpens`, is false (section 4). `CodegenBreaker`
has one action per verifier. `CostBudget` keeps the calls between a `check` and
its `record`, which may be inside one another.

### `MemoryMetrics`

`MemoryMetrics` keeps the store, what `search` found in it, and both counters. An
item is its similarity to each query, in percent; `RecordContext` counts the kinds
before an unknown one and then raises, as the loop does.

### `AgentRuns`

A run is its sequence of steps, which may go on growing after it was classified;
`tripped` remembers what each classification found, at the default budget or at
the tight one of Chapter 16. `AddStep` is `AgentRun.add`, `MarkTerminated` and
`MarkVerified` the caller's assignments. The scenarios are built with the steps and
tokens they have in the code. Only the step ceiling is smaller than the code's.

### `GuardedCall`

`openSpans` is the stack of calls in progress, since the model callable may make a
guarded call. `CallGuarded` is the function up to the model (or to the return on a
blocked input), `ModelAnswers` and `ModelRaises` the rest. If the model raises the
span has no output action, although the docstring (`guardrails.py:75`) says both
are set on every path; the properties say what holds beside that.

A system prompt is a sequence of words and a completion a sequence of words, pieces
of words and separators, since `detect_system_prompt_leak` splits the one and not the
other: it looks for `Shingle` words joined by single spaces (`Shingles`) anywhere in
the output (`Leaks`), inside longer words too. So it does not see the same words with
a line feed or two spaces between them, or a clause whose words were reordered, and
`GuardrailsAccountable` promises no more than that.

### `DelegationScopes`

| variable | code |
|---|---|
| `chain` | `_chain`, per context; a thread begins with none, a task with a copy |
| `tokens` | the tokens scopes and `apply_context` keep: context, old value, used |
| `snapshot` | what `carry_context` last returned |
| `born`, `orderly`, `decision` | for the properties, and the newest decision record |

Scopes may be left in any order, and `ResetToken` refuses a token that was used or
was made elsewhere. A hop remembers the scope that opened its chain, which no
action reads.

### `TelemetryCapture` and `SimulatorRun`

| variable | code |
|---|---|
| `exporters`, `memory` | each in-memory exporter's finished spans; `_MEMORY_EXPORTER` |
| `sink`, `installed`, `configured` | the exporter of the global provider, OpenTelemetry's once-guard, `_CONFIGURED` |
| `cached` | the exporter a tracer kept since import resolved to, at its first span |
| `spans`, `block`, `captured`, `disturbed` | spans with the blocks open at their start and end; the blocks |

`Enter` is `configure(force=True)` and `reset()`, `Leave` reads whatever exporter
is global by then. Blocks may overlap in any order. `SimulatorRun` adds the
runner: `Begin` and `Finish` are the harness's run around an example's function,
`Body` is anything an example may do (spans that stay open, a configure, a reset, a
capture of its own), `HarnessRaises` and `CallbackRaises` the two ways the runner
itself meets an exception. A span's shape says what the contract's checks look at.

### `TraceTree`

A request runs one of the `Scripts`, a constant: any well-nested sequences of
operations (`TraceOK`). The runs give it those of the examples that build a tree.
`OpenSpan`, `CloseSpan`, `HandOver` to a worker thread or another service, which
runs beside the other requests (`CalleeStarts`, `CalleeEnds`) until the caller
joins it. Anything inside a span may raise (`RaiseInside`), and each span on the way
up gets ERROR (`Unwind`). `EmitRecord` appends to whichever buffer is installed;
`EnterLogs` and `LeaveLogs` are the two ends of `capture_logs`.

### `ExampleRegistry` and `MockProvider`

`ImportModule` runs a chapter module's decorators up to the one that raises; what
was registered before stays, and the module is not in `sys.modules`. `Ask` is
`select` or `coverage` after a `discover` that succeeded.

`Chat` is one call in one of the failure modes. `OpenStream` and the four `Read...`
actions are `stream_chat`'s generator interleaved with `measure_ttft`, with the
clock the generator advances. A text is its length, a draw of the seeded generator
the prompt and the number of the draw.

### `JudgeCascade`

`evaluate` is cut where it touches `last_decision` and `last_escalated`: `Decide`,
`NoteEscalation`, `TakeScore`, `ReportResult`. Callers use evaluators of their own
or share one. `Decision`'s own check (`ValidDecision`) is part of `Decide`.

### `FairnessGauges` and `DriftAlerts`

`Publish` is one `publish_fairness`: `Kept` is what it leaves of the recorder's
earlier samples, `Published` what it sets. Rates are shares of `Scale`, a multiple
of every denominator, so that they are exact. `Day` is one daily window: its
metrics and the tier they raise with yesterday's embedding drift. Values lie a
tenth apart. With Laplace smoothing every share of a window of `n` observations is an odd
multiple of `1 / Shares(n)`, so over a common denominator the index is a sum of integers
times logarithms of integers, `Psi` in units of `1 / PsiUnits`, and `PsiScore` is
`round(psi, 6)` of it, with `Unit` for the million. Windows may have any of the
`WindowSizes`, the reference's or not. The logarithms themselves are a constant, `Ln`, in
units of `1 / LnScale`, of which nothing is assumed but that it grows.

### `ContextBudget`

`fit_context_to_budget` with each count as a step of its own: `FirstCheck`,
`PopWord` until `RetrievalTrimmed`, `SecondCheck`, the summary, `LastCheck`. A text
is its words and a word the tokens the API counts for it; without the API, or when
a call of it failed, a word counts one.

### `CostLedgers`, `ValueLedger`, `FleetJoin`

`loop` says which chapter loop fills the ledger; each loop has one action, its
iteration, with the tenants, use cases and models of the code. Money is in tenths
of a millionth of a dollar, in which every price of the book is a whole number and
`round(x, 6)` a number of tens (`Rounded`): a total, a roll-up and the price on a span
(`ChatSpan`) are rounded, a record keeps its price. So the spans of the routing loop
need not add up to the ledger, and `SpansExplainSpend` says by how much they may miss
it. `ValueLedger` keeps two periods and the page `Render` makes of them; a return is
rounded to one part in `Precision`, and amounts are whole numbers of the last digit
that `add` keeps. In `FleetJoin` the
export grows in any way (ids may repeat), and then `JoinChange` and `JoinSession`
are the iterations of the two loops.

## 3. Runs

| run | properties | shows |
|---|---|---|
| `AuditTrail` | `WrittenChainVerifies`, `AckedDurable`, `DefensibleIsComplete`, `HonestDossierVerifies`, `CascadeFromFirstChange`, `StaleUntilReopened`, `ImplementsLog` | Two loggers and three threads over one local directory with crashes, restarts and failing writes; the same with a reader that assembles a dossier; one thread at a time on S3 with uploads whose answer is lost; and a verifier over a chain that was changed: the chain never forks, acknowledged records stay, a dossier that calls itself defensible is complete, the verifier breaks from the first change on, and the whole implements AuditLog. |
| `BriefingPipeline` | `SameOutcome`, `PublishesFirstApproved`, `HopsCountSavedNodes`, `CapBoundsHops`, `MapChargesRejections`, `Terminates` | The loop and the StateGraph beside each other, for every reviewer over three words, every cap up to 6 and two crashes: they agree, stay under the cap, count saved nodes once, trace what the reviewer answered, and end. |
| `Oversight` | `RoutingAccountable`, `LearningAccountable`, `BudgetHolds`, `EveryCallAccounted`, `OpenIffLooping`, `StreakCountsVerdicts`, `OverrunBounded`, `GuardrailsAccountable`, `ScopesNest`, `MetersTell`, `StaysOpen` | What keeps an agent in bounds: the review router and feedback capture when the queue or the log raises before or after storing, the four breakers under nested, failing and caught calls, the guarded call, the responsibility chain in threads and tasks, and the meters of agent runs, memory and context. |
| `Platform` | `CaptureIsolated`, `ReportEarned`, `SignalsCorrelate`, `SelectComplete`, `ProviderReplays`, `ResultsAreOwn`, `GapsAreDisclosable`, `DriftEarnsAlerts`, `ContextFits`, `LedgersReconcile`, `ValueIsEarned`, `FleetReconciles`, `NoTrailForWrongRole`, `OutcomeIsRecorded`, `ChainEndsWithReviewer`, `LatestRecordIsOutcome` | What every example rests on (overlapping captures, the simulator over them, traces and logs of two requests, the registry with failing imports, the mock provider and its streams) and what the examples compute (cascade, fairness gauges, drift tiers, context budget, ledgers, summary, fleet); and the publish checkpoint, where two callers resume the same paused run, crash, retry and meet failing appends: no record of a rejected credential, no outcome without its acknowledged record. |

Runs that are expected to find a violation:

| run | property | shows |
|---|---|---|
| `AuditChainS3HeadFault` | `AckedDurable` | A head_object that fails for any reason reads as 'key is free', so an acknowledged record is overwritten without a race. |
| `AuditChainLocalTorn` | `ResumePicksUpChain` | A process that dies between creating and writing a file leaves a key no later logger can resume from. |
| `AuditDossierS3Paging` | `DefensibleIsComplete` | On the S3 store a dossier sees the first page alone and still reports a verified chain. |
| `GateAnyDecision` | `PublishOnlyOnApprove` | A decision that is neither approve nor reject publishes. |
| `DelegatedAuthority` | `AuthorityComesFromChain` | delegate(delegated_by=...) takes any name, so a hop acts for somebody the chain never named. |
| `LoopOscillation` | `OscillationOpens` | Four calls that alternate between two phrasings which are not alike leave the loop breaker closed, because every pair of the window has to be alike. |
| `FairnessStaleRate` | `SmallGroupsPublishOnlySize` | A group that falls below the floor keeps the positive rate of an earlier window on the recorder. |
| `LedgerShare` | `ShareIsFraction` | The unattributed share of a ledger exceeds 1, because its denominator is rounded and its numerator is not. |

**Runs of several parts.** `MCAuditLog`, `MCOversight` and `MCPlatform` put
components together in one run. Those that share state do so in the model as well:
the dossier reads the store the loggers write, and the simulator runs on the
telemetry state. Those that share none are *parts*: a variable `part` is chosen
initially, a behaviour belongs to one part, and the others stay as they began
(`Pinned`), so that TLC explores the sum of their states and not the product.

**Bounds.** In the chain, two loggers and three threads contain every race between
one writer and "the others", and four events allow a record before, inside and
behind a race, and a failed write in the middle; beside a reader three events and
two threads are enough (`ReadEvents`, `ReadThreads`), and on S3 one thread at a time
is in a call (`Serial`), since two overwrite each other. `PageSize = 2` and three records reach
the second page. The verifier's chain has up to four records and two changes.

In `GovernanceGate`, a part of `Platform`, two callers and one run contain every race
on one pause; there is one named reviewer and the empty name, since names are only
compared, and `MaxRecords = 2` lets both callers record, or one of them record again
after a lost answer or a crash. `BriefingPipeline` takes every
reviewer over three words, every cap up to 6 (`MAX_HOPS`), odd ones included, and
two crashes, enough for one node to die twice.

`Oversight` routes three recommendations, one of each kind, over every stream of
three draws; three records in the log let a lost answer, its retry and a second
capture meet. Tool budgets are 2 and 1 and there are four requests and one reset,
which nests a tool in itself and the other; the texts include a drift that is alike
step by step and not end to end; three levels of cost calls overrun by two. Two
guarded calls nest; a shingle is 2 words for the code's 8, the system prompt has two
of them, and a completion repeats one, inside a longer word, broken by a line feed or in
another order. Two contexts, three tokens and two hops leave scopes in the wrong order and
hand a chain to a thread that ends first. An agent run gets up to five steps of two
agents, the least that repeats one three times without repeating it in a row; the
ceiling is 4 for the code's 20, and the scenarios have their real lengths; a second
run is kept short (`SmallFleet`).

`Platform`: three blocks, two spans and three exporters contain an outer, an inner
and a later block with a span across each boundary; without the simulator two
blocks and one shape (`SmallTelemetry`), with it at most one disturbed block
(`SmallRun`). Two requests and two log blocks overlap in every way, one of them on
the scripts that share the buffer or leave the process. Three chapter modules, one
of which needs another, each may fail at each example. Two calls of each prompt
show whether a reply depends on the one before. Two callers with two samples share
an evaluator. Two windows over three groups let one fall below the floor of 3. Two
days with windows of two and of three values against references of both sizes, a value
outside the reference included. Texts of up to three
words and budgets of 4 and 7 trim nothing, some and all. Loops make three
iterations; a sample takes each second call for the code's tenth (`SampleEvery`). The
prior period is closed before the current one begins (`SmallValue`). Two sessions
and two changes may repeat each id. The values are in the `.cfg` files.

All counters are bounded by a constant, named in a guard (`Events`, `MaxRecords`,
`MaxCrashes`, `MaxRoutes`, `MaxRequests`, `MaxResets`, `MaxSeen`, `MaxRuns`,
`MaxDepth`, `MaxSpent`, `MaxGuarded`, `MaxTokens`, `MaxHops`, `MaxAgentRuns`,
`MaxAdded`, `MaxItems`, `MaxObserved`, `MaxSpans`, `MaxConfigs`, `MaxCalls`,
`MaxSamples`, `MaxFailures`, `MaxWindows`, `MaxDays`, `MaxIterations`, `MaxEntries`, `MaxSessions`,
`MaxChanges`). When they are used up, or a component has ended, the system stops,
which is why `CHECK_DEADLOCK FALSE` is stated.

**Properties.** Each passing run checks what several steps of several actors could
break. Where two promises of one component are halves of one question they are one
property with named halves: `RoutingAccountable` holds `SamplesFollowSeed` and
`RoutedWorkIsQueued`, `SignalsCorrelate` a sound tree and routed records,
`ContextFits` the promise in words under any failures and in tokens under a steady
counter. Type invariants are theorems (`TypeCorrect`, `GateTypeCorrect`, `ToolTypeCorrect`) or parts of the
inductive invariants of the proof modules.

**Fairness.** `FairSpec` of `BriefingPipeline` has weak fairness of `PlainStep`,
since a Python loop runs on, and of `GraphStep`: somebody invokes a graph whose
checkpoint has a next node. Without the second a crash would be the end, as it
is in the code when nobody resumes. Raising and crashing are the environment's
choice and have no fairness, and crashes are bounded, as an executor that always
dies publishes nothing. No other run has a liveness property: nothing in the
other components waits for another; loops over a list end by their bound.

## 4. What the violation runs show

- **`AuditChainS3HeadFault`** (`chapters/ch12/append_only_store.py:127`). _exists answers False on every exception of head_object, a throttled or denied request included, so put raises nothing for a key that exists and puts another object over an acknowledged record, with no second caller around. append_only_store.py:35 says of DuplicateKeyError "Raised when a key already exists. Append-only means append-only." The comment at :132-134 concedes less and promises less than that: it calls the head-first guard "a narrow race", and says that Object Lock keeps the locked version. It does; but get, list_keys and with them _resume, records and every dossier read the newest version only, and no code of the repository looks at an older one (versions are not modelled).
- **`AuditChainLocalTorn`** (`chapters/ch12/append_only_store.py:69`). put creates the file and writes it in a second step; a process that dies in between leaves an empty file under the next key, and every later AuditLogger raises in _resume. audit_logger.py:90 says "Pick up the chain where a previous process left it."
- **`AuditDossierS3Paging`** (`chapters/ch12/append_only_store.py:152`). records() inherits the single page of list_keys, so a dossier leaves out every acknowledged record beyond it and still verifies. audit_queries.py:64 says "Verification runs over the WHOLE chain".
- **`GateAnyDecision`** (`chapters/ch17/governance_checkpoint.py:150`). The checkpoint publishes on every decision but "reject", the empty string and a misspelt answer included; only the role is checked. governance_checkpoint.py:10-12 says "An approval gate that accepts any resume value is a speed bump."
- **`FairnessStaleRate`** (`chapters/ch13/fairness_metrics.py:175`). publish_fairness deletes the base rates and the equalized odds gap of earlier windows, but not the positive rates: a group that falls below min_n still shows the rate of an earlier window on the same recorder. fairness_metrics.py:5 says "Small groups publish a sample size and nothing else".
- **`LedgerShare`** (`src/aiobs/cost.py:109`). unattributed_share divides an exact sum by total_usd, which is rounded to six digits: a ledger of one call, record('mock-haiku-1', 3, 1), answers 1.066667. cost.py:102 says "Fraction of spend that cannot be assigned to a tenant."
- **`DelegatedAuthority`** (`chapters/ch17/responsibility_chain.py:97`). delegate takes delegated_by as it is given and never looks it up in the chain, so any agent can name any principal; test_ch17_accountability.py:57-59 sets it deliberately to an agent that is a hop of the chain, which is the use the parameter is meant for, and nothing holds a caller to it. responsibility_chain.py:88 says "An agent cannot grant itself an authority the chain never gave it."
- **`LoopOscillation`** (`chapters/ch16/loop_breaker.py:73`). observe opens only if all pairs of the window are alike, the consecutive ones among them, so an alternation A-B-A-B of two phrasings that are not alike, each repeated word for word, never opens it; a check of all pairs opens on no window that a check of the consecutive ones would miss. The comment at loop_breaker.py:69-71 says "Every pair, not just consecutive ones: a loop that alternates between two phrasings has similar pairs at distance two, and a consecutive-only check would miss an A-B-A-B oscillation." test_ch16_agent_cost.py:173-174 repeats it ("A consecutive-only check would miss an A-B-A-B oscillation.") with two phrases of the same words, which are alike at distance one as well. The module's docstring (:15-17) concedes a loop that paraphrases with different vocabulary; this one returns to the same vocabulary every second call.

## 5. What is proved

All theorems are checked by TLAPS for any number of threads, loggers, events,
runs, callers, reviewers, tools, queues, captures, blocks, judges, groups, days and
sessions, and for any cap, budget, floor and threshold: for every value of the
constants of a module that its assumptions allow. What a specification itself leaves
open only within limits is said in the table: the changes behind a logger are edits
of payloads, exchanges and removals (`TamperingCascades`), a chapter module needs only
earlier ones (`AnswersAreComplete`), a script is well nested (`SignalsAreCorrelated`).
The loops of a ledger are those of the code, with the code's price book.

| theorem | states | |
|---|---|---|
| `AuditChainProofs!TypeCorrect` | – | Every variable of AuditChain keeps its type, on either backend. |
| `AuditChainProofs!AckedRecordsDurable` | `AckedDurable` | On the local store no record a caller was told about is ever changed or lost. |
| `AuditChainProofs!PublishersExclusive` | – | On the local store, when a call publishes the head its logger has no other call that will. |
| `AuditChainProofs!HeadsNeverFork` | – | On the local store two loggers never hold heads that let both of them extend the chain differently. |
| `AuditChainProofs!WrittenChainAlwaysVerifies` | `WrittenChainVerifies` | On the local store the records written so far always pass verify_chain. |
| `AuditChainProofs!StaleLoggersStayOut` | `StaleUntilReopened` | On the local store a logger that has fallen behind writes nothing until it is opened again. |
| `AuditChainProofs!RefinesLog` | `ImplementsLog` | On the local store every step of AuditChain is a step of AuditLog or leaves it unchanged. |
| `AuditChainProofs!LoneCallerOnS3` | `ImplementsLog` | On S3, while one call of append at a time is open and head_object fails only for a missing key, acknowledged records stay, the written chain verifies, stale loggers stay out and the log is implemented, crashes and lost answers included. |
| `GateProofs!GateTypeCorrect` | – | Every variable of GovernanceGate keeps its type, and a call is open exactly while its caller is in the node. |
| `GateProofs!WrongRoleLeavesNoTrail` | `NoTrailForWrongRole` | No record in the log comes from a role that may not clear the checkpoint. |
| `GateProofs!EveryOutcomeIsRecorded` | `OutcomeIsRecorded` | A finished run has an acknowledged record of its outcome by its reviewer, under races, crashes and failing appends. |
| `GateProofs!ReviewerEndsChain` | `ChainEndsWithReviewer` | The saved chain of a finished run ends with its reviewer, or with the opener when the reviewer's name is empty. |
| `ReviewProofs!PipelineTypeCorrect` | – | Every variable of BriefingPipeline keeps its type; no attempt is made that does not fit under the cap. |
| `ReviewProofs!SavedNodesCountOnce` | `HopsCountSavedNodes` | The hop of a checkpoint counts each saved draft and review once, however often its node was executed. |
| `ReviewProofs!OnlyApprovedPublished` | `PublishesFirstApproved` | The graph publishes the first draft the reviewer approved and nothing else. |
| `ReviewProofs!CapHolds` | `CapBoundsHops` | Neither shape goes past its cap by more than the review of its last draft, for every reviewer and cap. |
| `ReviewProofs!ShapesAgree` | `SameOutcome` | With one reviewer and one cap the loop and the graph have the same outcome, hop and attempt. |
| `ReviewProofs!MapIsFair` | `MapChargesRejections` | Whatever words a reviewer knows, the trace the health map is built from has one handoff back for every reviewed draft that was not approved, and one rejection charged for every one answered with revise, wherever the loop is: a draft rejected in another word is drawn back and charged to nobody. |
| `GateProofs!ToolTypeCorrect` | – | Every variable of ToolBudget keeps its type, and only the innermost call has not reached its function. |
| `GateProofs!BudgetsHold` | `BudgetHolds` | For any tools, budgets and nesting, a tool's function runs at most max_calls times between two resets. |
| `GateProofs!BreakersStayOpen` | `StaysOpen` | A tool that refused a call runs no function until it is reset. |
| `GateProofs!CallsAccounted` | `EveryCallAccounted` | Every call of a tool is in progress, has exactly one outcome in its counter, or was ended by its redactor. |
| `GateProofs!OverrunIsBounded` | `OverrunBounded` | For any budget and depth of nesting, a run exceeds its budget by no more than what estimates left out and one dearest call per level. |
| `GateProofs!StreakIsVerdicts` | `StreakCountsVerdicts` | The streak is the number of judged generations since one last passed, and fewer unverified artifacts than the limit are handed out before one does. |
| `GateProofs!OpenMeansLooping` | `OpenIffLooping` | For any window and threshold, the breaker is open exactly while the last window calls since the reset are pairwise near-duplicates. |
| `ReviewProofs!RoutingHolds` | `RoutingAccountable` | For any recommendations, seeds and failing queues, samples follow the seed, routed work is in the queue it was given to and no count lacks it. |
| `ReviewProofs!LearningHolds` | `LearningAccountable` | For any captures on shared datasets, with appends that fail or lose their answer, what is learned was logged before and each answer teaches once. |
| `AuditReadersProofs!DefensibleDossiersComplete` | `DefensibleIsComplete` | On the local store a dossier that calls itself defensible holds every record acknowledged before it began. |
| `AuditReadersProofs!HonestDossiersVerify` | `HonestDossierVerifies` | On the local store a dossier with every number up to its last verifies. |
| `AuditReadersProofs!SmallBucketDossiers` | `DefensibleIsComplete` | On S3 the same two hold beside callers of append that take turns, while the bucket fits the one page list_keys asks for. |
| `AuditReadersProofs!TamperingCascades` | `CascadeFromFirstChange` | For chains of any length and any number of payload edits, exchanges and removals that leave the digests as they were written, verify_chain reports exactly the records from the first changed position on. (A chain whose digests were recomputed verifies, as append_only_store.py:4-6 says.) |
| `GateProofs!LatestRecordTells` | `LatestRecordIsOutcome` | Once a run is finished that one caller alone retried, its newest record is the one of its outcome. |
| `ScopeProofs!BlocksAreIsolated` | `CaptureIsolated` | However blocks of capture() overlap, none finds a span from before it was entered and an undisturbed one finds all its own. |
| `ScopeProofs!ReportsAreEarned` | `ReportEarned` | For any selection of examples and any spans they leave open or end late, the report's statuses, coverage and exit code are what each example earned itself. |
| `ScopeProofs!ScopesAreNested` | `ScopesNest` | For any threads, tasks and delegations, a chain is of one run and a scope that ended in its turn lends nothing after it. |
| `ScopeProofs!GuardrailsHold` | `GuardrailsAccountable` | For any prompts, models and thresholds, nested or failing, no returned completion has a shingle of the system prompt in it, words joined by single spaces as the detector looks for them, no model runs on a blocked input, and every call is accounted for. |
| `MeasureProofs!ResultsStayOwn` | `ResultsAreOwn` | For any callers and judges, what an unshared caller is told of a sample is about that sample, and its fees stay below the generative judge's. |
| `MeasureProofs!GapsDiscloseNobody` | `GapsAreDisclosable` | For any groups, counts, floor and windows, the published gaps are those of the groups large enough to publish. |
| `MeasureProofs!DriftIsMeasured` | – | For any reference and windows of any sizes, any number of bins and any last digit, every observation is in one bin and what is reported first moved farthest; the stability index before it is rounded is never negative, is 0 exactly where the smoothed shares agree, and is positive for a window, no smaller than the reference, of values all beyond it; and the score is that index to within half of its last digit, so it may read 0 where the index does not (half of DriftEarnsAlerts). |
| `MeasureProofs!AlertsFollowDrift` | `DriftEarnsAlerts` | And over any days, an alert somebody must act on comes of drift, and no worse metric lowers a tier. |
| `AccountProofs!FleetsReconcile` | `FleetReconciles` | For any export and any changes, whatever ids repeat, no dollar is lost or counted twice and a change counts once per team. |
| `AccountProofs!ContextsFit` | `ContextFits` | For any texts, budget and counter, a context that is returned is within its budget, in words however often the API fails between counts and in tokens under a steady counter, and gives up no more than it has to; a long question is never routed small. |
| `AccountProofs!LedgersAgree` | `LedgersReconcile` | For any usages, questions and sampling rate, what a ledger is rolled up by adds up to its total but for the rounding of its lines, and the spans of a loop, rounded as set_cost_attributes rounds them, explain its spend: exactly, but in the routing loop to half a millionth of a dollar per span. |
| `AccountProofs!ValueIsReal` | `ValueIsEarned` | For any entries, amounts and Table 7.3, the measured return is a floor of the return, and a page without attention is of a ledger that meets it, with arrows that point where the return went. |
| `MeasureProofs!AgentsAreCaught` | – | For any runs, agents, thresholds and steps, a run that repeats itself or overruns is found and stays found, agents that take turns hide neither, and a scenario stays on its list until it is answered, whatever its memory is asked (with RetrievalsAreTold the whole of MetersTell). |
| `MeasureProofs!ProviderIsReplayed` | `ProviderReplays` | For any prompts, contexts, limits and latency, the same call gets the same reply in whatever order, and measure_ttft reads the text of a stream, and times its tokens, from any split. |
| `MeasureProofs!RetrievalsAreTold` | – | For any memories, queries, top_k and drops, a retrieval is told as a hit exactly when something relevant is stored, and every drop counts once in the metric it belongs to, calls that raised half-way included. |
| `MeasureProofs!MetersAreTold` | `MetersTell` | The meters of agents and of memory hold beside each other, for any runs and any memories. |
| `ScopeProofs!AnswersAreComplete` | `SelectComplete` | For any chapter modules that need only earlier ones, any number of failing imports and any requests (chapters, keys, pillars), an answer of select or coverage holds every declared example that was asked for, once and in order. |
| `ScopeProofs!SignalsAreCorrelated` | `SignalsCorrelate` | For any well-nested scripts of open, close, hand over, call and log, and any requests, exceptions and handed-over contexts, the spans of a request are one tree that names the span at fault, and every record names a span of its request that was open when it was made. |

**`AuditChainProofs`.** `TypeCorrect` holds for both backends without more.
The rest assume `Backend = "local"`, but for `LoneCallerOnS3`: an S3 bucket
keeps its promises only for callers that take turns (`Serial`: one call of `append`
open at a time, in all processes together), since two may both find a key free, and
while `head_object` fails for nothing but a missing key (no `"head"` in `Faults`; the
run `AuditChainS3HeadFault` shows why). The proofs need either
(`Guarded`), so the same lemmas serve both, with crashes, stale loggers, truncated
listings and uploads whose answer is lost. `AckedDurable` is not inductive. The inductive invariant
`IInv` adds what the absence of a lock rests on: keys are an initial segment of
the naturals (`Contiguous`), written records link to their predecessors
(`Linked`), each open logger's head and number are either in step with the
store, stale, or about to be moved by the one thread that created the key
(`LoggerInv`), a call in progress holds what it read (`CallInv`), and a key is
owned by at most one call (`OneOwner`). From that the proof has one lemma per
action. `Dense` (the written keys have no gap) is proved apart since only
`WrittenChainVerifies` needs it. `RefinesLog` maps each step to a step of
`AuditLog` or a stutter.

**`GateProofs`.** `OutcomeIsRecorded` needs `Progress`: a caller past
the role check holds an approver's answer and a chain that ends with its
reviewer, and past the append its event is in the log at its slot. One caller's
step cannot undo another's progress because the log only grows
(`LogOnlyGrows`, `BystanderSecured`).

`LatestRecordTells` is about retries. `RetryInv` says that a caller which has its
position in the log wrote nothing after it, and that a caller still busy with a run
which another one finished finds the other's record in the log; so a run whose
records are all of one caller ends with the record of its outcome.

**`AuditReadersProofs`.** A reader sees a store that others write. `ReadersInv`
says of each stage of `assemble_dossier` where the records are that were
acknowledged when it began: in the store for good (`StoredStays`, from the invariant
of `AuditChainProofs`), then at a key the listing will show, then listed or read. On S3
that needs `OnePage` (the list answer holds every key, `SmallBucketDossiers`): the run
`AuditDossierS3Paging` shows what a second page does. The verifier's loop invariant (`ScanOnTrack` in `IntegrityInv`) is that every record
before the one at hand is the one that was written, and that the expected digest is
that of the last of them.

**`ReviewProofs`.** `RouterInv` ties the sampler's draws to the number of decisions on
which it was asked, and what a call is on its way to, or returned, to what the queue
holds; a call that is about to be counted is one that the counter still owes
(`CountsBacked`). `FeedbackInv` counts, for each action, the places where it is
learned and the calls that may still teach it: together they are no more than
the log has of it (`TaughtAndOwed`).

Of the two shapes of the pipeline, `PlainInv` and `GraphInv` say, for each point of
the loop and each next node, what hop is in terms of attempt, how it compares
with the cap, and that every earlier attempt was rejected. From them follow the
cap, that only the first approved draft is published, and, since both shapes
then stop at the first approval or at the same cap, that they agree. A review adds
its answer to those counted (`AnsweredGrows`), which is what the trace holds.

The invariant `Charged` ties a tool's counter to its runs, and
the lemmas on stacks say that only the innermost call has not reached its function.
`CallsAccounted` is inductive beside it. For the cost of nested calls `CostInv`
bounds what was spent and all that the open calls may still cost, the innermost at
its estimate and the others at the dearest, by the allowance. The streak and the
loop breaker have an invariant on the tail of the history since the last reset.

**`ScopeProofs`.** `CaptureInv` rests on exporters being numbered: the one a block
reads is newer than that of any span that started before the block. `SimulatorInv`
adds that an exporter holds only spans that ended (`EndedInv`) and, for each example
that was run, that its outcome is what its own block found (`RunInv`). In
`DelegationScopes` every chain, snapshot and token holds the hops of one run
(`RunsApart`), and what a token restores is what its scope began with. `GuardInv`
follows the stack of guarded calls, each open once and with at most one event.

For the registry `RegistryInv` says that every registered example is declared and has
its id to itself, that those of an imported module are all there, and that a module
whose import failed after its first example is never imported (`Barred`): that example
is registered, so a retry raises at it. So once all are imported the registry holds what
is declared, and `Select` orders it: ids differ, so the order is strict.

For a trace, `RequestHolds` says of the values of one request that the open spans are as
many as its script opened and did not close, so that a hand-over never carries an empty
context; that each has the one beneath it on the stack as its parent; that a submitted
callee holds the context it was handed and a running one that and its own span, the
newest; and, while an exception is on its way up, that the spans with ERROR and those
still open are together the path from a root to the span it was raised in. `LogsHold`
says that, as long as the blocks of `capture_logs` nest, each restores the one around it.

**`MeasureProofs`.** `CascadeInv` says, step by step of a call, which sample the shared
fields of an evaluator are about, for a caller who shares it with nobody.
`GapsDiscloseNobody` compares a window with the same window without its small
groups: their gaps are the same (`SmallGroupsDoNotCount`), since each is a maximum
less a minimum of the rates of the others.

For drift, a value lies between the edges of one bin only and of one at least, the first
and the last having no outer edge (`OneBin`); so the bins add up to the window
(`EverythingCounted`, from `PartsAddUp`). A term of the stability index is never negative
and is 0 only where the two smoothed shares agree (`TermIs`), because the logarithm
grows; and a window beyond the reference has nothing in the first bin, where the
reference has its least value (`LeftTheRange`), so that the shares differ there unless
the window is the smaller one. What is reported is the nearest number of last digits
(`NearestIs`), so it is within half of one (`ScoreIs`). The first item reported is the
farthest (`FarthestFirst`, from the lemma on sorting), so no mean of the distances is
more, before and after rounding (`ScoreAtMost`, `NearestKeepsOrder`). The
tiers compare a day with one that differs in one metric (`TierGrows`).

For the memory, `MemoryInv` keeps of each retrieval what it was told and of how many
items: the store only grows, so it stays true of those. The cut at `top_k` keeps the
nearest item (`NearestFirst`), so that the best of the results is the best of the store.
A call that raised has counted what it wanted of each kind, or less (`FirstDrops`).

The failures of agents are found in runs that go on growing. `AgentInv` says that a
run is still what is left of the scenario it began as, and that what was found once
is found again: a step more takes no repetition away and no tokens back
(`RunGrows`). That more steps than the kinds allow repeat one of them
is `Pigeonhole`, from the sum over the kinds; every agent but the first takes over at
its first step (`HandoffsAre`).

For the provider `ProviderInv` says of each reply what it was asked and in which
mode, which decides all of it, and `StreamHolds` what a reader holds who has read so
many chunks: one content for each part, the first timed at its arrival, the clock one
latency further for each. The ends of the parts are a recursive function; that there
is one (`SplitsExist`), that it grows strictly up to the length (`EndsAre`) and that
the parts put together are the text (`JoinedIs`) is proved by induction on the number
of parts.

**`AccountProofs`.** For the fleet the invariant `FleetInv` says in the middle of the
join what every team was charged: the changes and sessions gone over so far.

For the token budget `ContextInv` gives, at each step of the call, the reason why it
came that far: the limit of a trim is what the history leaves, a text that was cut is
a prefix whose next word did not fit (`OneMore`), and the history is summarized only
after the whole of it did not fit with no retrieval. It is a predicate of values
(`Holds`), so that one lemma (`HoldsNext`) takes it to the next state. In words it
needs only that a count, whoever makes it, is at least the number of words
(`CountIsLarge`): the API counts a token or more for each.

For the ledgers `LedgersInv` says for each loop what its ledger, the second one and
its spans hold after so many iterations. Every loop but the sampling one is a step
that adds the same to two sums; for the sample, the number of its records is the
iterations over `SampleEvery`, rounded up (`SampleTurn`). That a roll-up adds up
to the total is a fact about sums: those over the parts of a set make the sum of the set
(`PartsAddUp`), and rounding moves each, a price on a span included, by half a
millionth at most (`SumOfNear`; not at all where the price is in tens, `RoundedTens`). The value ledger keeps its entries, and `ValueInv` what a rendered page
tells of them (`Told`). Without the assumed entries no cost is gone and the benefits
are less by just those (`FloorIs`, from `SumOfUnion`); an arrow tells which of two
returns is larger (`ArrowsAre`) because `roi()` raises unless the costs are positive.

**`CollectionProofs`.** Three things about data had to be proved from their definitions. A set of naturals
that is not empty has a least element, hence every induction over naturals or
finite sets here is by the least counterexample (`SmallestOf`, `SmallerFirst`); a finite
set of numbers has a largest (`LargestOf`). And the folds of the community
modules choose an order of their own: `SumsExist` and `SumsAnyOrder` show that the
sum of a finite set exists and is the same in any order, from which `SumAdd` follows:
one more element adds its value. And `Ordered` sorts (`OrderedIs`): under a weak order no
two positions have as many ahead of them, so their ranks are all there are
(`PlacesDiffer`, `PlacesAreAll`), and the CHOOSE in its definition finds each.

**Assumptions.** Those named `...OK` in the modules on the constants, and
`Backend = "local"` where stated. They say of what kind a constant is (`TraceOK`: what a
script is made of; `MemoryOK`: similarities between 0 and 100, kinds with counts;
`RegistryOK`: modules that need only earlier ones) and what the code checks itself
(`DriftOK`: two bins or more, a reference whose values differ). TLC evaluates each in
the run that uses the module.

**Only model-checked.** `Terminates`, since liveness under fairness is out of the
prover's reach; every other property of a passing run is stated by a theorem. That
a component refuses to go on when it is at one of the bounds above is only
model-checked as well. Of S3 nothing is proved without
`Serial` and a `head_object` that can be trusted. `ResumePicksUpChain`, `PublishOnlyOnApprove` and
what else a violation run checks is false, or false on S3.

## 6. Not modelled

Each component of the inventory is in `PROJECT.json` with what is left out of it.
In short:

- data custody (a dict of lists), compliance tagging, the gap analysis and the EU
  timeline, OWASP and red-team tables, semantic conventions, pillars: lookups
  without state;
- floating-point text and statistics measures: heuristic evaluators, RAG quality,
  the Kolmogorov-Smirnov test, fully loaded cost;
- layout: reports, HTML, DOT, the executive page, Prometheus rules;
- one-call helpers: `preference_both_orders`, the HTTP transport of a judge,
  `ElapsedTimeBreaker`, previews and argument hashes, the PII patterns;
- the canonical JSON of an audit payload, which is a model value here.

Vendored frameworks are modelled by how the code uses them: langgraph's interrupt
and resume, boto3's answers, the file system, OpenTelemetry's global provider and
context, Python's `contextvars`.

## 7. Plan

Everything the plan named is modelled, checked and, but for `Terminates`, proved. What
would come next:

1. the components listed as *partly* modelled, where they grow: aggregation over runs in
   `build_health_map`, the approval of a dataset that is shared from the start, a second
   provider behind the mock's interface;
2. `Terminates`, once the prover handles fairness: the variant is the number of hops
   left together with the crashes left.
