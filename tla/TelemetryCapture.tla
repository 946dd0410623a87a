-------------------------- MODULE TelemetryCapture --------------------------
(***************************************************************************)
(* src/aiobs/telemetry.py: one provider, one exporter and one flag for the *)
(* whole process, replaced by every configure(force=True).  A span goes to *)
(* the exporter of the provider its tracer came from; what a block of      *)
(* capture(), or a run of the harness, reads at its end is whatever        *)
(* exporter _MEMORY_EXPORTER names by then.                                *)
(***************************************************************************)
EXTENDS Naturals, Sequences, FiniteSets

CONSTANTS
  Blocks,      \* blocks of capture() and runs of the harness
  Shapes,      \* what a span carries, as far as anybody looks at it
  MaxSpans,    \* bound on the spans of a behaviour
  MaxConfigs   \* bound on the exporters it creates

ASSUME TelemetryOK == MaxSpans \in Nat /\ MaxConfigs \in Nat

VARIABLES
  exporters,   \* exporters[i]: the finished spans the i-th exporter holds
  memory,      \* _MEMORY_EXPORTER, 0 for None
  sink,        \* the exporter of the global provider, 0 for none we can read
  installed,   \* some provider is installed, and guards itself
  configured,  \* _CONFIGURED
  cached,      \* the exporter of a tracer held by a module, once resolved
  spans,       \* the spans started, in order
  block,       \* where each block is
  captured,    \* what it found at its end
  disturbed    \* somebody configured or reset while it was open

providerVars == <<exporters, memory, sink, installed, configured>>
telemetryVars == <<providerVars, cached, spans, block, captured, disturbed>>

OpenBlocks == {b \in Blocks : block[b] = "open"}

\* The host may have installed a provider of its own.
TelemetryInit ==
  /\ exporters = << >>
  /\ memory = 0
  /\ sink = 0
  /\ installed \in BOOLEAN
  /\ configured = FALSE
  /\ cached = << >>
  /\ spans = << >>
  /\ block = [b \in Blocks |-> "new"]
  /\ captured = [b \in Blocks |-> {}]
  /\ disturbed = [b \in Blocks |-> FALSE]

-----------------------------------------------------------------------------
(* configure: a second call changes nothing unless it is forced, and       *)
(* OpenTelemetry refuses a second provider unless its guard was reset.     *)
BuildExporter(kind) ==
  IF kind = "memory"
  THEN /\ exporters' = Append(exporters, {})
       /\ memory' = Len(exporters) + 1
  ELSE UNCHANGED <<exporters, memory>>

Install(kind, force) ==
  /\ BuildExporter(kind)
  /\ sink' = IF ~force /\ installed THEN sink
             ELSE IF kind = "memory" THEN Len(exporters) + 1 ELSE 0
  /\ installed' = TRUE
  /\ configured' = TRUE

Ensure(kind, force) ==
  IF configured /\ ~force
  THEN UNCHANGED providerVars
  ELSE Len(exporters) < MaxConfigs /\ Install(kind, force)

Disturb(bs) == disturbed' = [b \in Blocks |-> disturbed[b] \/ b \in bs]

(* "console", "otlp" and "none" keep the old _MEMORY_EXPORTER.  An unknown *)
(* kind raises before anything is assigned.                                *)
Configure(kind, force) ==
  /\ Ensure(kind, force)
  /\ Disturb(IF force THEN OpenBlocks ELSE {})
  /\ UNCHANGED <<cached, spans, block, captured>>

ResetSpans ==
  /\ memory > 0
  /\ exporters' = [exporters EXCEPT ![memory] = {}]
  /\ Disturb(OpenBlocks)
  /\ UNCHANGED <<memory, sink, installed, configured, cached, spans, block, captured>>

-----------------------------------------------------------------------------
(* Spans.  `inside' and `until' are the blocks open when a span starts and *)
(* when it ends.                                                           *)
Started(shape, tracer, exporter) ==
  [shape |-> shape, tracer |-> tracer, exporter |-> exporter,
   inside |-> OpenBlocks, ended |-> FALSE, until |-> {}]

(* get_tracer configures on first use, then asks the global provider.      *)
StartSpan(shape) ==
  /\ Len(spans) < MaxSpans
  /\ Ensure("memory", FALSE)
  /\ spans' = Append(spans, Started(shape, "fresh", sink'))
  /\ UNCHANGED <<cached, block, captured, disturbed>>

(* A tracer made when its module was imported (codegen_breaker.py:18) is a *)
(* proxy that keeps the provider of its first span.                        *)
StartCachedSpan(shape) ==
  /\ Len(spans) < MaxSpans
  /\ installed
  /\ cached' = IF cached = << >> THEN <<sink>> ELSE cached
  /\ spans' = Append(spans, Started(shape, "cached", cached'[1]))
  /\ UNCHANGED <<providerVars, block, captured, disturbed>>

(* SimpleSpanProcessor exports when the span ends.                         *)
EndSpan(i) ==
  /\ ~spans[i].ended
  /\ spans' = [spans EXCEPT ![i].ended = TRUE, ![i].until = OpenBlocks]
  /\ exporters' = [e \in DOMAIN exporters |->
       IF e = spans[i].exporter THEN exporters[e] \cup {i} ELSE exporters[e]]
  /\ UNCHANGED <<memory, sink, installed, configured, cached, block, captured, disturbed>>

(* Listing 5.1 has a provider of its own, which it does not install, and   *)
(* makes that provider's exporter the one everybody reads; its one span is *)
(* flushed before it returns.                                              *)
DeploymentEnvironmentResource(shape) ==
  /\ Len(spans) < MaxSpans
  /\ Len(exporters) < MaxConfigs
  /\ LET own == Len(exporters) + 1
     IN  /\ spans' = Append(spans, [Started(shape, "private", own)
                                     EXCEPT !.ended = TRUE, !.until = OpenBlocks])
         /\ exporters' = Append(exporters, {Len(spans) + 1})
         /\ memory' = own
  /\ Disturb(OpenBlocks)
  /\ UNCHANGED <<sink, installed, configured, cached, block, captured>>

-----------------------------------------------------------------------------
FinishedSpans == IF memory = 0 THEN {} ELSE exporters[memory]

\* Mutant: a block takes over the provider it finds.
EnterUnforced(b) ==
  /\ block[b] = "new"
  /\ Ensure("memory", FALSE)
  /\ block' = [block EXCEPT ![b] = "open"]
  /\ Disturb(OpenBlocks)
  /\ UNCHANGED <<cached, spans, captured>>

(* capture() and ExampleHarness.run both begin with configure(force=True)  *)
(* and reset(); the new exporter is empty already.                         *)
Enter(b) ==
  /\ block[b] = "new"
  /\ Ensure("memory", TRUE)
  /\ block' = [block EXCEPT ![b] = "open"]
  /\ Disturb(OpenBlocks)
  /\ UNCHANGED <<cached, spans, captured>>

Leave(b) ==
  /\ block[b] = "open"
  /\ block' = [block EXCEPT ![b] = "done"]
  /\ captured' = [captured EXCEPT ![b] = FinishedSpans]
  /\ UNCHANGED <<providerVars, cached, spans, disturbed>>

SpanStep ==
  \/ \E shape \in Shapes :
       \/ StartSpan(shape)
       \/ StartCachedSpan(shape)
       \/ DeploymentEnvironmentResource(shape)
  \/ \E i \in DOMAIN spans : EndSpan(i)

TelemetryNext ==
  \/ SpanStep
  \/ \E kind \in {"memory", "none"}, force \in BOOLEAN : Configure(kind, force)
  \/ ResetSpans
  \/ \E b \in Blocks : Enter(b) \/ Leave(b)

TelemetrySpec == TelemetryInit /\ [][TelemetryNext]_telemetryVars

-----------------------------------------------------------------------------
(* Properties                                                              *)

FinishedWithin(b) ==
  {i \in DOMAIN spans : b \in spans[i].inside /\ b \in spans[i].until}

(* Whatever blocks overlap, end out of order, configure or reset, a block  *)
(* finds no span that was started before it was entered; and when nobody   *)
(* else configured or reset while it was open, it finds every span that    *)
(* started and ended in it on a tracer asked for when it was needed.       *)
CaptureIsolated ==
  \A b \in Blocks : block[b] = "done" =>
    /\ \A i \in captured[b] : b \in spans[i].inside
    /\ ~disturbed[b] =>
         {i \in FinishedWithin(b) : spans[i].tracer = "fresh"} \subseteq captured[b]
=============================================================================
