---------------------------- MODULE ScopeProofs ----------------------------
(***************************************************************************)
(* Proofs about what belongs to whom when blocks, threads, tasks and calls *)
(* overlap: the spans a block of capture() finds (TelemetryCapture), the   *)
(* hops a responsibility chain holds (DelegationScopes) and what the span  *)
(* of a guarded call says (GuardedCall), for any number of each and any    *)
(* order of entering and leaving; the examples the registry holds after    *)
(* any imports, of which some fail (ExampleRegistry); and the traces and   *)
(* the log records of any number of requests (TraceTree).                  *)
(***************************************************************************)
EXTENDS SimulatorRun, DelegationScopes, GuardedCall, ExampleRegistry, TraceTree,
        CollectionProofs

(* Capture.  Every new exporter has a number of its own, and               *)
(* _MEMORY_EXPORTER only ever moves to a newer one; so a span that started *)
(* before a block was entered sits in an exporter the block cannot read.   *)
SpanRecords ==
  [shape : Shapes, tracer : {"fresh", "cached", "private"}, exporter : Nat,
   inside : SUBSET Blocks, ended : BOOLEAN, until : SUBSET Blocks]

Exported ==
  \A e \in DOMAIN exporters : \A i \in exporters[e] :
    i \in DOMAIN spans /\ spans[i].exporter = e

CaptureTypeOK ==
  /\ exporters \in Seq(SUBSET Nat)
  /\ memory \in 0..Len(exporters)
  /\ sink \in 0..Len(exporters)
  /\ installed \in BOOLEAN
  /\ configured \in BOOLEAN
  /\ cached \in Seq(0..Len(exporters))
  /\ spans \in Seq(SpanRecords)
  /\ \A i \in DOMAIN spans : spans[i].exporter <= Len(exporters)
  /\ block \in [Blocks -> {"new", "open", "done", "failed"}]
  /\ captured \in [Blocks -> SUBSET Nat]
  /\ disturbed \in [Blocks -> BOOLEAN]
  /\ Exported

(* A block that nobody disturbed still has the provider it installed.      *)
Undisturbed(b) ==
  /\ memory > 0 /\ memory = sink
  /\ installed /\ configured
  /\ \A i \in DOMAIN spans : spans[i].tracer = "fresh" /\ b \in spans[i].inside =>
       /\ spans[i].exporter = memory
       /\ b \in spans[i].until => i \in exporters[memory]

Isolated(b) ==
  /\ block[b] = "new" =>
       \A i \in DOMAIN spans : b \notin spans[i].inside /\ b \notin spans[i].until
  /\ block[b] = "open" =>
       \A i \in DOMAIN spans : b \notin spans[i].inside => spans[i].exporter < memory
  /\ block[b] = "open" /\ ~disturbed[b] => Undisturbed(b)
  /\ block[b] = "done" =>
       /\ \A i \in captured[b] : i \in DOMAIN spans /\ b \in spans[i].inside
       /\ ~disturbed[b] =>
            \A i \in DOMAIN spans :
              /\ spans[i].tracer = "fresh"
              /\ b \in spans[i].inside /\ b \in spans[i].until
              => i \in captured[b]

CaptureInv == CaptureTypeOK /\ \A b \in Blocks : Isolated(b)

(* configure touches no exporter there is, and names only new ones.        *)
ProvidersMove ==
  /\ exporters' \in Seq(SUBSET Nat) /\ Len(exporters) <= Len(exporters')
  /\ \A e \in 1..Len(exporters) : exporters'[e] = exporters[e]
  /\ \A e \in 1..Len(exporters') : e > Len(exporters) => exporters'[e] = {}
  /\ memory' \in memory..Len(exporters')
  /\ sink' \in 0..Len(exporters')
  /\ installed' \in BOOLEAN
  /\ configured' \in BOOLEAN

LEMMA EnsureMoves ==
  ASSUME CaptureTypeOK, NEW kind \in {"memory", "none"}, NEW force \in BOOLEAN,
         Ensure(kind, force)
  PROVE  /\ ProvidersMove
         /\ configured /\ ~force => UNCHANGED providerVars
         /\ kind = "memory" /\ force =>
              /\ memory' = Len(exporters) + 1 /\ sink' = memory'
              /\ installed' /\ configured'
<1> USE DEF CaptureTypeOK
<1>1. CASE configured /\ ~force
  <2>1. UNCHANGED <<exporters, memory, sink, installed, configured>>
        BY <1>1 DEF Ensure, providerVars
  <2> QED BY <1>1, <2>1 DEF ProvidersMove, providerVars
<1>2. CASE ~(configured /\ ~force)
  <2>1. Install(kind, force)
        BY <1>2 DEF Ensure
  <2>2. CASE kind = "memory"
    <3>1. /\ exporters' = Append(exporters, {})
          /\ memory' = Len(exporters) + 1
          /\ sink' \in {sink, Len(exporters) + 1}
          /\ force => sink' = Len(exporters) + 1
          /\ installed' = TRUE /\ configured' = TRUE
          BY <2>1, <2>2 DEF Install, BuildExporter
    <3>2. /\ exporters' \in Seq(SUBSET Nat) /\ Len(exporters') = Len(exporters) + 1
          /\ \A e \in 1..Len(exporters) : exporters'[e] = exporters[e]
          /\ exporters'[Len(exporters) + 1] = {}
          BY <3>1
    <3> QED BY <1>2, <3>1, <3>2 DEF ProvidersMove
  <2>3. CASE kind = "none"
    <3>1. /\ exporters' = exporters /\ memory' = memory
          /\ sink' \in {sink, 0}
          /\ installed' = TRUE /\ configured' = TRUE
          BY <2>1, <2>3 DEF Install, BuildExporter
    <3> QED BY <1>2, <2>3, <3>1 DEF ProvidersMove
  <2> QED BY <2>2, <2>3
<1> QED BY <1>1, <1>2

(* What the type says of spans and exporters, one by one.                  *)
LEMMA SpanFacts ==
  ASSUME CaptureTypeOK
  PROVE  /\ DOMAIN spans = 1..Len(spans) /\ Len(spans) \in Nat
         /\ DOMAIN exporters = 1..Len(exporters) /\ Len(exporters) \in Nat
         /\ \A i \in DOMAIN spans :
              /\ spans[i] \in SpanRecords
              /\ spans[i].exporter \in 0..Len(exporters)
<1>1. spans \in Seq(SpanRecords) /\ exporters \in Seq(SUBSET Nat)
      BY DEF CaptureTypeOK
<1>2. \A i \in DOMAIN spans : spans[i] \in SpanRecords
      BY <1>1
<1>3. \A i \in DOMAIN spans : spans[i].exporter \in Nat
      BY <1>2 DEF SpanRecords
<1>4. \A i \in DOMAIN spans : spans[i].exporter <= Len(exporters)
      BY DEF CaptureTypeOK
<1>5. /\ DOMAIN spans = 1..Len(spans) /\ Len(spans) \in Nat
      /\ DOMAIN exporters = 1..Len(exporters) /\ Len(exporters) \in Nat
      BY <1>1
<1> QED BY <1>2, <1>3, <1>4, <1>5

(* A new provider and nothing else.                                        *)
LEMMA ProvidersMoveTyped ==
  ASSUME CaptureTypeOK, ProvidersMove, UNCHANGED <<cached, spans>>,
         block' \in [Blocks -> {"new", "open", "done", "failed"}],
         captured' \in [Blocks -> SUBSET Nat], disturbed' \in [Blocks -> BOOLEAN]
  PROVE  CaptureTypeOK'
<1>1. cached' \in Seq(0..Len(exporters'))
      BY DEF CaptureTypeOK, ProvidersMove
<1>2. Exported'
  <2>1. DOMAIN exporters' = 1..Len(exporters') /\ Exported
        BY DEF CaptureTypeOK, ProvidersMove
  <2>2. ASSUME NEW e \in DOMAIN exporters', NEW i \in exporters'[e]
        PROVE  i \in DOMAIN spans /\ spans[i].exporter = e
    <3>1. e \in 1..Len(exporters) /\ exporters'[e] = exporters[e]
      <4>1. e \in 1..Len(exporters') /\ ~(e > Len(exporters))
            BY <2>1, <2>2 DEF ProvidersMove
      <4>2. Len(exporters) \in Nat
            BY SpanFacts
      <4>3. e \in 1..Len(exporters)
            BY <4>1, <4>2
      <4> QED BY <4>3 DEF ProvidersMove
    <3> QED BY <2>1, <2>2, <3>1, SpanFacts DEF Exported
  <2> QED BY <2>2 DEF Exported
<1>3. \A i \in DOMAIN spans' : spans'[i].exporter <= Len(exporters')
      BY SpanFacts DEF ProvidersMove
<1> QED BY <1>1, <1>2, <1>3 DEF CaptureTypeOK, ProvidersMove

(* A span that starts in an exporter there is.                             *)
LEMMA SpanStartsTyped ==
  ASSUME CaptureTypeOK, ProvidersMove, UNCHANGED <<block, captured, disturbed>>,
         cached' \in Seq(0..Len(exporters')),
         NEW s \in SpanRecords, s.exporter <= Len(exporters'),
         spans' = Append(spans, s)
  PROVE  CaptureTypeOK'
<1>1. spans \in Seq(SpanRecords)
      BY DEF CaptureTypeOK
<1>2. /\ spans' \in Seq(SpanRecords)
      /\ DOMAIN spans' = DOMAIN spans \cup {Len(spans) + 1}
      /\ \A i \in DOMAIN spans : spans'[i] = spans[i]
      /\ spans'[Len(spans) + 1] = s
      BY <1>1
<1>3. Exported'
  <2>1. DOMAIN exporters' = 1..Len(exporters') /\ Exported
        BY DEF CaptureTypeOK, ProvidersMove
  <2>2. ASSUME NEW e \in DOMAIN exporters', NEW i \in exporters'[e]
        PROVE  i \in DOMAIN spans' /\ spans'[i].exporter = e
    <3>1. e \in 1..Len(exporters) /\ exporters'[e] = exporters[e]
      <4>1. e \in 1..Len(exporters') /\ ~(e > Len(exporters))
            BY <2>1, <2>2 DEF ProvidersMove
      <4>2. Len(exporters) \in Nat
            BY SpanFacts
      <4>3. e \in 1..Len(exporters)
            BY <4>1, <4>2
      <4> QED BY <4>3 DEF ProvidersMove
    <3>2. i \in DOMAIN spans /\ spans[i].exporter = e
          BY <2>1, <2>2, <3>1, SpanFacts DEF Exported
    <3> QED BY <1>2, <3>2
  <2> QED BY <2>2 DEF Exported
<1>4. \A i \in DOMAIN spans' : spans'[i].exporter <= Len(exporters')
  <2>1. \A i \in DOMAIN spans : spans[i].exporter <= Len(exporters')
        BY SpanFacts DEF ProvidersMove
  <2> QED BY <1>2, <2>1
<1> QED BY <1>2, <1>3, <1>4 DEF CaptureTypeOK, ProvidersMove

(* What spans go through: they start inside every open block and may end   *)
(* once, and nothing about their start changes.                            *)
SpansEvolve ==
  /\ DOMAIN spans \subseteq DOMAIN spans'
  /\ \A i \in DOMAIN spans :
       /\ spans'[i].tracer = spans[i].tracer
       /\ spans'[i].exporter = spans[i].exporter
       /\ spans'[i].inside = spans[i].inside
       /\ spans'[i].until = spans[i].until \/ spans'[i].until = OpenBlocks
  /\ \A i \in DOMAIN spans' \ DOMAIN spans :
       spans'[i].inside = OpenBlocks /\ spans'[i].until \subseteq OpenBlocks

LEMMA BlockStays ==
  ASSUME CaptureTypeOK, SpansEvolve, memory' \in Nat, memory <= memory',
         NEW b \in Blocks, Isolated(b),
         block'[b] = block[b], captured'[b] = captured[b],
         disturbed[b] => disturbed'[b],
         block[b] = "open" /\ ~disturbed'[b] => Undisturbed(b)'
  PROVE  Isolated(b)'
<1>1. b \in OpenBlocks <=> block[b] = "open"
      BY DEF OpenBlocks
<1>2. memory \in Nat /\ \A i \in DOMAIN spans : spans[i].exporter \in Nat
      BY SpanFacts DEF CaptureTypeOK
<1>3. CASE block[b] = "new"
      BY <1>1, <1>3 DEF Isolated, SpansEvolve
<1>4. CASE block[b] = "open"
  <2>1. \A i \in DOMAIN spans' : b \notin spans'[i].inside => spans'[i].exporter < memory'
        BY <1>1, <1>2, <1>4 DEF Isolated, SpansEvolve
  <2> QED BY <1>4, <2>1 DEF Isolated
<1>5. CASE block[b] = "done"
  <2>1. \A i \in captured[b] : i \in DOMAIN spans' /\ b \in spans'[i].inside
        BY <1>5 DEF Isolated, SpansEvolve
  <2>2. ASSUME ~disturbed'[b], NEW i \in DOMAIN spans', spans'[i].tracer = "fresh",
               b \in spans'[i].inside, b \in spans'[i].until
        PROVE  i \in captured[b]
    <3>1. i \in DOMAIN spans
          BY <1>1, <1>5, <2>2 DEF SpansEvolve
    <3>2. spans'[i].until = spans[i].until
          BY <1>1, <1>5, <2>2, <3>1 DEF SpansEvolve
    <3> QED BY <1>5, <2>2, <3>1, <3>2 DEF Isolated, SpansEvolve
  <2> QED BY <1>5, <2>1, <2>2 DEF Isolated
<1>6. CASE block[b] \notin {"new", "open", "done"}
      BY <1>6 DEF Isolated
<1> QED BY <1>3, <1>4, <1>5, <1>6

LEMMA CaptureInitInv == TelemetryInit => CaptureInv
<1> SUFFICES ASSUME TelemetryInit PROVE CaptureInv
    OBVIOUS
<1>1. CaptureTypeOK
  <2>1. exporters = << >> /\ spans = << >> /\ cached = << >>
        BY DEF TelemetryInit
  <2>2. Exported
        BY <2>1 DEF Exported
  <2>3. /\ exporters \in Seq(SUBSET Nat) /\ Len(exporters) = 0
        /\ spans \in Seq(SpanRecords) /\ DOMAIN spans = {}
        /\ cached \in Seq(0..Len(exporters))
        BY <2>1
  <2>4. memory = 0 /\ sink = 0 /\ installed \in BOOLEAN /\ configured \in BOOLEAN
        BY DEF TelemetryInit
  <2>5. /\ block \in [Blocks -> {"new", "open", "done", "failed"}]
        /\ captured \in [Blocks -> SUBSET Nat]
        /\ disturbed \in [Blocks -> BOOLEAN]
        BY DEF TelemetryInit
  <2> QED BY <2>2, <2>3, <2>4, <2>5 DEF CaptureTypeOK
<1>2. \A b \in Blocks : Isolated(b)
      BY DEF TelemetryInit, Isolated
<1> QED BY <1>1, <1>2 DEF CaptureInv

(* A span that starts on the tracer of now, or of the import.              *)
LEMMA StartInv ==
  ASSUME CaptureInv, ProvidersMove, UNCHANGED <<block, captured, disturbed>>,
         cached' \in Seq(0..Len(exporters')),
         configured => UNCHANGED providerVars,
         NEW shape \in Shapes, NEW tracer \in {"fresh", "cached"},
         NEW exporter \in 0..Len(exporters'), tracer = "fresh" => exporter = sink',
         spans' = Append(spans, Started(shape, tracer, exporter))
  PROVE  CaptureInv'
<1> DEFINE s == Started(shape, tracer, exporter)
<1>1. /\ s \in SpanRecords /\ s.exporter = exporter /\ s.tracer = tracer
      /\ s.inside = OpenBlocks /\ s.until = {}
  <2>1. exporter \in Nat /\ OpenBlocks \in SUBSET Blocks
        BY DEF CaptureInv, CaptureTypeOK, ProvidersMove, OpenBlocks
  <2> QED BY <2>1 DEF Started, SpanRecords
<1> HIDE DEF s
<1>2. spans' = Append(spans, s)
      BY DEF s
<1>3. CaptureTypeOK /\ CaptureTypeOK'
  <2>1. s.exporter <= Len(exporters')
        BY <1>1 DEF CaptureInv, CaptureTypeOK, ProvidersMove
  <2> QED BY <1>1, <1>2, <2>1, SpanStartsTyped DEF CaptureInv
<1>4. /\ DOMAIN spans' = DOMAIN spans \cup {Len(spans) + 1}
      /\ \A i \in DOMAIN spans : spans'[i] = spans[i]
      /\ spans'[Len(spans) + 1] = s
      BY <1>2 DEF CaptureInv, CaptureTypeOK
<1>5. SpansEvolve
      BY <1>1, <1>4 DEF SpansEvolve
<1>6. memory' \in Nat /\ memory <= memory'
      BY DEF ProvidersMove, CaptureInv, CaptureTypeOK
<1>7. ASSUME NEW b \in Blocks PROVE Isolated(b)'
  <2>1. ASSUME block[b] = "open", ~disturbed'[b] PROVE Undisturbed(b)'
    <3>1. Undisturbed(b)
          BY <2>1 DEF CaptureInv, Isolated
    <3>2. UNCHANGED <<exporters, memory, sink, installed, configured>>
          BY <3>1 DEF Undisturbed, providerVars
    <3>3. s.tracer = "fresh" => s.exporter = memory
          BY <1>1, <3>1, <3>2 DEF Undisturbed
    <3> QED BY <1>1, <1>4, <3>1, <3>2, <3>3 DEF Undisturbed
  <2> QED BY <1>3, <1>5, <1>6, <2>1, BlockStays DEF CaptureInv
<1> QED BY <1>3, <1>7 DEF CaptureInv

LEMMA StartSpanInv ==
  ASSUME CaptureInv, NEW shape \in Shapes, StartSpan(shape)
  PROVE  CaptureInv'
<1>1. Ensure("memory", FALSE) /\ CaptureTypeOK
      BY DEF StartSpan, CaptureInv
<1>2. ProvidersMove /\ (configured => UNCHANGED providerVars)
      BY <1>1, EnsureMoves
<1>3. sink' \in 0..Len(exporters') /\ cached' \in Seq(0..Len(exporters'))
      BY <1>1, <1>2 DEF ProvidersMove, StartSpan, CaptureTypeOK
<1> QED BY <1>2, <1>3, StartInv DEF StartSpan

LEMMA StartCachedSpanInv ==
  ASSUME CaptureInv, NEW shape \in Shapes, StartCachedSpan(shape)
  PROVE  CaptureInv'
<1>1. CaptureTypeOK /\ UNCHANGED <<exporters, memory, sink, installed, configured>>
      BY DEF StartCachedSpan, CaptureInv, providerVars
<1>2. ProvidersMove
      BY <1>1 DEF ProvidersMove, CaptureTypeOK
<1>3. cached' \in Seq(0..Len(exporters')) /\ cached'[1] \in 0..Len(exporters')
  <2>1. CASE cached = << >>
    <3>1. cached' = <<sink>> /\ sink \in 0..Len(exporters')
          BY <1>1, <2>1 DEF StartCachedSpan, CaptureTypeOK
    <3> QED BY <3>1
  <2>2. CASE cached # << >>
        BY <1>1, <2>2 DEF StartCachedSpan, CaptureTypeOK
  <2> QED BY <2>1, <2>2
<1> QED BY <1>1, <1>2, <1>3, StartInv DEF StartCachedSpan, providerVars

LEMMA EndSpanInv ==
  ASSUME CaptureInv, NEW n \in DOMAIN spans, EndSpan(n)
  PROVE  CaptureInv'
<1>1. CaptureTypeOK /\ UNCHANGED <<memory, sink, installed, configured, cached,
                                   block, captured, disturbed>>
      BY DEF CaptureInv, EndSpan
<1>2. spans \in Seq(SpanRecords) /\ exporters \in Seq(SUBSET Nat)
      BY <1>1 DEF CaptureTypeOK
<1>3. /\ spans[n] \in SpanRecords /\ n \in Nat
      /\ \A i \in DOMAIN spans : spans[i].exporter \in 0..Len(exporters)
      BY <1>1, <1>2, SpanFacts
<1>4. /\ spans' \in Seq(SpanRecords) /\ Len(spans') = Len(spans)
      /\ DOMAIN spans' = DOMAIN spans
      /\ \A i \in DOMAIN spans \ {n} : spans'[i] = spans[i]
      /\ spans'[n] = [spans[n] EXCEPT !.ended = TRUE, !.until = OpenBlocks]
  <2>1. spans' = [spans EXCEPT ![n] = [spans[n] EXCEPT !.ended = TRUE, !.until = OpenBlocks]]
        BY DEF EndSpan
  <2>2. [spans[n] EXCEPT !.ended = TRUE, !.until = OpenBlocks] \in SpanRecords
        BY <1>1, <1>3 DEF SpanRecords, OpenBlocks, CaptureTypeOK
  <2> QED BY <1>2, <2>1, <2>2
<1>5. /\ spans'[n].tracer = spans[n].tracer
      /\ spans'[n].exporter = spans[n].exporter
      /\ spans'[n].inside = spans[n].inside
      /\ spans'[n].until = OpenBlocks
      BY <1>3, <1>4 DEF SpanRecords
<1>6. SpansEvolve
      BY <1>4, <1>5 DEF SpansEvolve
<1>7. /\ exporters' \in Seq(SUBSET Nat) /\ Len(exporters') = Len(exporters)
      /\ DOMAIN exporters' = DOMAIN exporters
      /\ \A e \in DOMAIN exporters :
           exporters'[e] = IF e = spans[n].exporter THEN exporters[e] \cup {n}
                           ELSE exporters[e]
      BY <1>2, <1>3 DEF EndSpan
<1>8. CaptureTypeOK'
  <2>0. Exported /\ Len(exporters) \in Nat
        BY <1>1, SpanFacts DEF CaptureTypeOK
  <2>1. Exported'
    <3>1. ASSUME NEW e \in DOMAIN exporters, NEW i \in exporters'[e]
          PROVE  i \in DOMAIN spans /\ spans[i].exporter = e
      <4>1. i \in exporters[e] \/ (i = n /\ e = spans[n].exporter)
            BY <1>7, <3>1
      <4> QED BY <2>0, <4>1 DEF Exported
    <3>2. \A i \in DOMAIN spans : spans'[i].exporter = spans[i].exporter
          BY <1>4, <1>5
    <3> QED BY <1>4, <1>7, <3>1, <3>2 DEF Exported
  <2>2. \A i \in DOMAIN spans' : spans'[i].exporter <= Len(exporters')
    <3>1. \A i \in DOMAIN spans : spans'[i].exporter = spans[i].exporter
          BY <1>4, <1>5
    <3> QED BY <1>3, <1>4, <1>7, <2>0, <3>1
  <2>3. /\ memory' \in 0..Len(exporters') /\ sink' \in 0..Len(exporters')
        /\ installed' \in BOOLEAN /\ configured' \in BOOLEAN
        /\ cached' \in Seq(0..Len(exporters'))
        BY <1>1, <1>7 DEF CaptureTypeOK
  <2> QED BY <1>1, <1>4, <1>7, <2>1, <2>2, <2>3 DEF CaptureTypeOK
<1>9. ASSUME NEW b \in Blocks PROVE Isolated(b)'
  <2>1. ASSUME block[b] = "open", ~disturbed'[b] PROVE Undisturbed(b)'
    <3>1. Undisturbed(b)
          BY <1>1, <2>1 DEF CaptureInv, Isolated
    <3>2. memory \in DOMAIN exporters
          BY <1>1, <1>2, <3>1 DEF Undisturbed, CaptureTypeOK
    <3>3. ASSUME NEW i \in DOMAIN spans', spans'[i].tracer = "fresh", b \in spans'[i].inside
          PROVE  /\ spans'[i].exporter = memory
                 /\ b \in spans'[i].until => i \in exporters'[memory]
      <4>1. CASE i = n
            BY <1>4, <1>5, <1>7, <3>1, <3>2, <3>3, <4>1 DEF Undisturbed
      <4>2. CASE i # n
            BY <1>4, <1>7, <3>1, <3>2, <3>3, <4>2 DEF Undisturbed
      <4> QED BY <4>1, <4>2
    <3> QED BY <1>1, <3>1, <3>3 DEF Undisturbed
  <2>2. memory' \in Nat /\ memory <= memory'
        BY <1>1 DEF CaptureTypeOK
  <2> QED BY <1>1, <1>6, <2>1, <2>2, BlockStays DEF CaptureInv
<1> QED BY <1>8, <1>9 DEF CaptureInv

(* Listing 5.1 hands a block that is open its own exporter to read.        *)
LEMMA OwnProviderInv ==
  ASSUME CaptureInv, NEW shape \in Shapes, DeploymentEnvironmentResource(shape)
  PROVE  CaptureInv'
<1> DEFINE own == Len(exporters) + 1
           s == [Started(shape, "private", own) EXCEPT !.ended = TRUE, !.until = OpenBlocks]
<1>1. CaptureTypeOK /\ UNCHANGED <<sink, installed, configured, cached, block, captured>>
      BY DEF CaptureInv, DeploymentEnvironmentResource
<1>2. spans \in Seq(SpanRecords) /\ exporters \in Seq(SUBSET Nat) /\ own \in Nat
      BY <1>1 DEF CaptureTypeOK
<1>3. /\ s \in SpanRecords /\ s.exporter = own /\ s.tracer = "private"
      /\ s.inside = OpenBlocks /\ s.until = OpenBlocks
  <2>1. OpenBlocks \in SUBSET Blocks
        BY DEF OpenBlocks
  <2> QED BY <1>2, <2>1 DEF Started, SpanRecords
<1>4. /\ spans' = Append(spans, s) /\ exporters' = Append(exporters, {Len(spans) + 1})
      /\ memory' = own
      BY DEF DeploymentEnvironmentResource
<1> HIDE DEF s
<1>5. /\ spans' \in Seq(SpanRecords)
      /\ DOMAIN spans' = DOMAIN spans \cup {Len(spans) + 1}
      /\ Len(spans) + 1 \notin DOMAIN spans
      /\ \A i \in DOMAIN spans : spans'[i] = spans[i]
      /\ spans'[Len(spans) + 1] = s
      BY <1>2, <1>3, <1>4
<1>6. /\ exporters' \in Seq(SUBSET Nat) /\ Len(exporters') = own
      /\ DOMAIN exporters' = DOMAIN exporters \cup {own}
      /\ \A e \in DOMAIN exporters : exporters'[e] = exporters[e]
      /\ exporters'[own] = {Len(spans) + 1}
      BY <1>2, <1>4
<1>7. \A i \in DOMAIN spans : spans[i].exporter \in 0..Len(exporters)
      BY <1>1, SpanFacts
<1>8. disturbed' = [b \in Blocks |-> disturbed[b] \/ b \in OpenBlocks]
      BY DEF DeploymentEnvironmentResource, Disturb
<1>9. CaptureTypeOK'
  <2>0. Exported /\ Len(exporters) \in Nat /\ own \notin DOMAIN exporters
        BY <1>1, SpanFacts DEF CaptureTypeOK
  <2>1. Exported'
    <3>1. ASSUME NEW e \in DOMAIN exporters, NEW i \in exporters'[e]
          PROVE  i \in DOMAIN spans' /\ spans'[i].exporter = e
          BY <1>5, <1>6, <2>0, <3>1 DEF Exported
    <3>2. ASSUME NEW i \in exporters'[own]
          PROVE  i \in DOMAIN spans' /\ spans'[i].exporter = own
          BY <1>3, <1>5, <1>6, <3>2
    <3> QED BY <1>6, <3>1, <3>2 DEF Exported
  <2>2. \A i \in DOMAIN spans' : spans'[i].exporter <= Len(exporters')
    <3>1. \A i \in DOMAIN spans : spans'[i].exporter <= own
          BY <1>5, <1>7, <2>0
    <3> QED BY <1>2, <1>3, <1>5, <1>6, <3>1
  <2>3. /\ memory' \in 0..Len(exporters') /\ sink' \in 0..Len(exporters')
        /\ installed' \in BOOLEAN /\ configured' \in BOOLEAN
        /\ cached' \in Seq(0..Len(exporters'))
        BY <1>1, <1>2, <1>4, <1>6 DEF CaptureTypeOK
  <2>4. disturbed' \in [Blocks -> BOOLEAN]
        BY <1>1, <1>8 DEF CaptureTypeOK
  <2> QED BY <1>1, <1>5, <1>6, <2>1, <2>2, <2>3, <2>4 DEF CaptureTypeOK
<1>10. SpansEvolve
      BY <1>3, <1>5 DEF SpansEvolve
<1>11. memory' \in Nat /\ memory <= memory'
      BY <1>1, <1>2, <1>4 DEF CaptureTypeOK
<1>12. ASSUME NEW b \in Blocks PROVE Isolated(b)'
  <2>1. /\ block[b] = "open" => disturbed'[b]
        /\ disturbed[b] => disturbed'[b]
        BY <1>8 DEF OpenBlocks
  <2> QED BY <1>1, <1>10, <1>11, <2>1, BlockStays DEF CaptureInv
<1> QED BY <1>9, <1>12 DEF CaptureInv

(* configure(), forced or not, and the reset of the exporter there is.     *)
LEMMA ConfigureInv ==
  ASSUME CaptureInv, NEW kind \in {"memory", "none"}, NEW force \in BOOLEAN,
         Configure(kind, force)
  PROVE  CaptureInv'
<1>1. /\ CaptureTypeOK /\ Ensure(kind, force)
      /\ UNCHANGED <<cached, spans, block, captured>>
      BY DEF CaptureInv, Configure
<1>2. ProvidersMove /\ (configured /\ ~force => UNCHANGED providerVars)
      BY <1>1, EnsureMoves
<1>3. disturbed' = [b \in Blocks |-> disturbed[b] \/ (force /\ b \in OpenBlocks)]
      BY DEF Configure, Disturb
<1>4. CaptureTypeOK'
  <2>1. disturbed' \in [Blocks -> BOOLEAN]
        BY <1>1, <1>3 DEF CaptureTypeOK
  <2>2. /\ block' \in [Blocks -> {"new", "open", "done", "failed"}]
        /\ captured' \in [Blocks -> SUBSET Nat]
        BY <1>1 DEF CaptureTypeOK
  <2> QED BY <1>1, <1>2, <2>1, <2>2, ProvidersMoveTyped
<1>5. SpansEvolve /\ memory' \in Nat /\ memory <= memory'
      BY <1>1, <1>2 DEF SpansEvolve, ProvidersMove, CaptureTypeOK
<1>6. ASSUME NEW b \in Blocks PROVE Isolated(b)'
  <2>1. ASSUME block[b] = "open", ~disturbed'[b] PROVE Undisturbed(b)'
    <3>1. Undisturbed(b) /\ ~force
          BY <1>3, <2>1 DEF CaptureInv, Isolated, OpenBlocks
    <3>2. UNCHANGED <<exporters, memory, sink, installed, configured, spans>>
          BY <1>1, <1>2, <3>1 DEF Undisturbed, providerVars
    <3> QED BY <3>1, <3>2 DEF Undisturbed
  <2>2. disturbed[b] => disturbed'[b]
        BY <1>3
  <2> QED BY <1>1, <1>5, <2>1, <2>2, BlockStays DEF CaptureInv
<1> QED BY <1>4, <1>6 DEF CaptureInv

LEMMA ResetSpansInv ==
  ASSUME CaptureInv, ResetSpans
  PROVE  CaptureInv'
<1>1. /\ CaptureTypeOK
      /\ UNCHANGED <<memory, sink, installed, configured, cached, spans, block, captured>>
      BY DEF CaptureInv, ResetSpans
<1>2. disturbed' = [b \in Blocks |-> disturbed[b] \/ b \in OpenBlocks]
      BY DEF ResetSpans, Disturb
<1>3. /\ exporters' \in Seq(SUBSET Nat) /\ Len(exporters') = Len(exporters)
      /\ DOMAIN exporters' = DOMAIN exporters
      /\ \A e \in DOMAIN exporters : exporters'[e] \subseteq exporters[e]
      BY <1>1 DEF ResetSpans, CaptureTypeOK
<1>4. CaptureTypeOK'
  <2>1. Exported'
        BY <1>1, <1>3 DEF CaptureTypeOK, Exported
  <2>2. disturbed' \in [Blocks -> BOOLEAN]
        BY <1>1, <1>2 DEF CaptureTypeOK
  <2> QED BY <1>1, <1>3, <2>1, <2>2 DEF CaptureTypeOK
<1>5. SpansEvolve /\ memory' \in Nat /\ memory <= memory'
      BY <1>1 DEF SpansEvolve, CaptureTypeOK
<1>6. ASSUME NEW b \in Blocks PROVE Isolated(b)'
  <2>1. /\ block[b] = "open" => disturbed'[b]
        /\ disturbed[b] => disturbed'[b]
        BY <1>2 DEF OpenBlocks
  <2> QED BY <1>1, <1>5, <2>1, BlockStays DEF CaptureInv
<1> QED BY <1>4, <1>6 DEF CaptureInv

(* A block begins with an exporter no span there is can be in.             *)
LEMMA EnterInv ==
  ASSUME CaptureInv, NEW n \in Blocks, Enter(n)
  PROVE  CaptureInv'
<1>1. /\ CaptureTypeOK /\ Ensure("memory", TRUE) /\ block[n] = "new"
      /\ UNCHANGED <<cached, spans, captured>>
      BY DEF CaptureInv, Enter
<1>2. /\ ProvidersMove
      /\ memory' = Len(exporters) + 1 /\ sink' = memory' /\ installed' /\ configured'
      BY <1>1, EnsureMoves
<1>3. /\ disturbed' = [b \in Blocks |-> disturbed[b] \/ b \in OpenBlocks]
      /\ block' = [block EXCEPT ![n] = "open"]
      BY DEF Enter, Disturb
<1>4. CaptureTypeOK'
  <2>1. /\ disturbed' \in [Blocks -> BOOLEAN]
        /\ block' \in [Blocks -> {"new", "open", "done", "failed"}]
        /\ captured' \in [Blocks -> SUBSET Nat]
        BY <1>1, <1>3 DEF CaptureTypeOK
  <2> QED BY <1>1, <1>2, <2>1, ProvidersMoveTyped
<1>5. SpansEvolve /\ memory' \in Nat /\ memory <= memory'
      BY <1>1, <1>2 DEF SpansEvolve, ProvidersMove, CaptureTypeOK
<1>6. Isolated(n)'
  <2>1. block'[n] = "open"
        BY <1>1, <1>3 DEF CaptureTypeOK
  <2>2. \A i \in DOMAIN spans : n \notin spans[i].inside /\ spans[i].exporter < memory'
        BY <1>1, <1>2, SpanFacts DEF CaptureInv, Isolated
  <2>3. Undisturbed(n)'
        BY <1>1, <1>2, <1>5, <2>2, SpanFacts DEF Undisturbed
  <2> QED BY <1>1, <2>1, <2>2, <2>3 DEF Isolated
<1>7. ASSUME NEW b \in Blocks \ {n} PROVE Isolated(b)'
  <2>1. /\ block'[b] = block[b]
        /\ block[b] = "open" => disturbed'[b]
        /\ disturbed[b] => disturbed'[b]
        BY <1>1, <1>3 DEF OpenBlocks, CaptureTypeOK
  <2> QED BY <1>1, <1>5, <2>1, BlockStays DEF CaptureInv
<1> QED BY <1>4, <1>6, <1>7 DEF CaptureInv

LEMMA LeaveInv ==
  ASSUME CaptureInv, NEW n \in Blocks, Leave(n)
  PROVE  CaptureInv'
<1>1. /\ CaptureTypeOK /\ block[n] = "open" /\ Isolated(n)
      /\ UNCHANGED <<exporters, memory, sink, installed, configured, cached, spans, disturbed>>
      BY DEF CaptureInv, Leave, providerVars
<1>2. /\ block' = [block EXCEPT ![n] = "done"]
      /\ captured' = [captured EXCEPT ![n] = FinishedSpans]
      BY DEF Leave
<1>3. memory > 0 => FinishedSpans = exporters[memory] /\ memory \in DOMAIN exporters
      BY <1>1 DEF FinishedSpans, CaptureTypeOK
<1>4. /\ \A i \in FinishedSpans : i \in DOMAIN spans /\ spans[i].exporter = memory
      /\ FinishedSpans \subseteq Nat
      BY <1>1, <1>3, SpanFacts DEF FinishedSpans, CaptureTypeOK, Exported
<1>5. CaptureTypeOK'
  <2>1. /\ block' \in [Blocks -> {"new", "open", "done", "failed"}]
        /\ captured' \in [Blocks -> SUBSET Nat]
        BY <1>1, <1>2, <1>4 DEF CaptureTypeOK
  <2>2. Exported'
        BY <1>1 DEF CaptureTypeOK, Exported
  <2> QED BY <1>1, <2>1, <2>2 DEF CaptureTypeOK
<1>6. Isolated(n)'
  <2>1. block'[n] = "done" /\ captured'[n] = FinishedSpans
        BY <1>1, <1>2 DEF CaptureTypeOK
  <2>2. ASSUME NEW i \in FinishedSpans PROVE i \in DOMAIN spans /\ n \in spans[i].inside
    <3>1. i \in DOMAIN spans /\ spans[i].exporter = memory
          BY <1>4
    <3>2. n \notin spans[i].inside => spans[i].exporter < memory
          BY <1>1, <3>1 DEF Isolated
    <3>3. memory \in Nat
          BY <1>1 DEF CaptureTypeOK
    <3>4. ~(memory < memory)
          BY <3>3
    <3> QED BY <3>1, <3>2, <3>4
  <2>3. ASSUME ~disturbed[n], NEW i \in DOMAIN spans, spans[i].tracer = "fresh",
               n \in spans[i].inside, n \in spans[i].until
        PROVE  i \in FinishedSpans
        BY <1>1, <1>3, <2>3 DEF Isolated, Undisturbed
  <2> QED BY <1>1, <2>1, <2>2, <2>3 DEF Isolated
<1>7. SpansEvolve /\ memory' \in Nat /\ memory <= memory'
      BY <1>1 DEF SpansEvolve, CaptureTypeOK
<1>8. ASSUME NEW b \in Blocks \ {n} PROVE Isolated(b)'
  <2>1. block'[b] = block[b] /\ captured'[b] = captured[b]
        BY <1>1, <1>2 DEF CaptureTypeOK
  <2>2. Undisturbed(b) => Undisturbed(b)'
        BY <1>1 DEF Undisturbed
  <2>3. block[b] = "open" /\ ~disturbed'[b] => Undisturbed(b)'
        BY <1>1, <2>2 DEF CaptureInv, Isolated
  <2> QED BY <1>1, <1>7, <2>1, <2>3, BlockStays DEF CaptureInv
<1> QED BY <1>5, <1>6, <1>8 DEF CaptureInv

LEMMA CaptureStep == CaptureInv /\ [TelemetryNext]_telemetryVars => CaptureInv'
<1>1. CASE UNCHANGED telemetryVars
      BY <1>1 DEF telemetryVars, providerVars, CaptureInv, CaptureTypeOK, Exported,
                  Isolated, Undisturbed
<1> QED BY <1>1, StartSpanInv, StartCachedSpanInv, OwnProviderInv, EndSpanInv,
           ConfigureInv, ResetSpansInv, EnterInv, LeaveInv
        DEF TelemetryNext, SpanStep

(* However many blocks of capture() overlap, and in whatever order they    *)
(* are entered and left, none finds a span from before it was entered, and *)
(* one that nobody disturbed finds all its own.                            *)
THEOREM BlocksAreIsolated == TelemetrySpec => []CaptureIsolated
<1>1. CaptureInv => CaptureIsolated
      BY DEF CaptureInv, Isolated, CaptureIsolated, FinishedWithin
<1> QED BY CaptureInitInv, CaptureStep, <1>1, PTL DEF TelemetrySpec

-----------------------------------------------------------------------------
(* The simulator.  What a block found ended in that block, and it found    *)
(* nothing before it was left; an example runs in a block of its own.      *)
SpansEnd ==
  /\ DOMAIN spans \subseteq DOMAIN spans'
  /\ \A i \in DOMAIN spans :
       /\ spans'[i].shape = spans[i].shape
       /\ spans'[i].inside = spans[i].inside
       /\ \/ spans'[i] = spans[i]
          \/ ~spans[i].ended /\ spans'[i].ended /\ spans'[i].until = OpenBlocks
  /\ \A i \in DOMAIN spans' \ DOMAIN spans :
       /\ spans'[i].inside = OpenBlocks
       /\ spans'[i].ended => spans'[i].until = OpenBlocks

(* Only spans that ended are exported.                                     *)
OnlyEnded == \A e \in DOMAIN exporters : \A i \in exporters[e] : spans[i].ended

EndedInside(b) ==
  /\ block[b] # "done" => captured[b] = {}
  /\ block[b] = "open" =>
       \A i \in DOMAIN spans :
         b \in spans[i].inside /\ spans[i].ended => b \in spans[i].until
  /\ block[b] = "done" =>
       \A i \in captured[b] : spans[i].ended /\ b \in spans[i].until

EndedInv == OnlyEnded /\ \A b \in Blocks : EndedInside(b)

LEMMA EndedInitInv == TelemetryInit => EndedInv
BY DEF TelemetryInit, EndedInv, OnlyEnded, EndedInside

LEMMA EndedStays ==
  ASSUME CaptureInv, SpansEnd, NEW b \in Blocks, EndedInside(b),
         block'[b] = block[b], captured'[b] = captured[b]
  PROVE  EndedInside(b)'
<1>1. b \in OpenBlocks <=> block[b] = "open"
      BY DEF OpenBlocks
<1>2. block[b] = "done" => \A i \in captured[b] : i \in DOMAIN spans
      BY DEF CaptureInv, Isolated
<1>3. CASE block[b] = "open"
  <2>1. ASSUME NEW i \in DOMAIN spans', b \in spans'[i].inside, spans'[i].ended
        PROVE  b \in spans'[i].until
    <3>1. CASE i \in DOMAIN spans
          BY <1>1, <1>3, <2>1, <3>1 DEF EndedInside, SpansEnd
    <3>2. CASE i \notin DOMAIN spans
          BY <1>1, <1>3, <2>1, <3>2 DEF SpansEnd
    <3> QED BY <3>1, <3>2
  <2> QED BY <1>3, <2>1 DEF EndedInside
<1>4. CASE block[b] = "done"
  <2>1. ASSUME NEW i \in captured[b]
        PROVE  spans'[i].ended /\ b \in spans'[i].until
        BY <1>2, <1>4, <2>1 DEF EndedInside, SpansEnd
  <2> QED BY <1>4, <2>1 DEF EndedInside
<1>5. CASE block[b] \notin {"open", "done"}
      BY <1>5 DEF EndedInside
<1> QED BY <1>3, <1>4, <1>5

(* A new provider alone, and a span that starts.                           *)
LEMMA MovedEnded ==
  ASSUME CaptureInv, EndedInv, ProvidersMove, spans' = spans
  PROVE  SpansEnd /\ OnlyEnded'
<1>1. SpansEnd
      BY DEF SpansEnd
<1>2. ASSUME NEW e \in DOMAIN exporters', NEW i \in exporters'[e]
      PROVE  spans'[i].ended
  <2>1. e \in DOMAIN exporters /\ exporters'[e] = exporters[e]
        BY <1>2, SpanFacts DEF CaptureInv, ProvidersMove
  <2> QED BY <1>2, <2>1 DEF EndedInv, OnlyEnded
<1> QED BY <1>1, <1>2 DEF OnlyEnded

LEMMA StartedEnded ==
  ASSUME CaptureInv, EndedInv, ProvidersMove, NEW s,
         s.inside = OpenBlocks, s.ended = FALSE,
         spans' = Append(spans, s)
  PROVE  SpansEnd /\ OnlyEnded'
<1>1. /\ DOMAIN spans' = DOMAIN spans \cup {Len(spans) + 1}
      /\ \A i \in DOMAIN spans : spans'[i] = spans[i]
      /\ spans'[Len(spans) + 1] = s
      BY DEF CaptureInv, CaptureTypeOK
<1>2. SpansEnd
      BY <1>1 DEF SpansEnd
<1>3. ASSUME NEW e \in DOMAIN exporters', NEW i \in exporters'[e]
      PROVE  spans'[i].ended
  <2>1. e \in DOMAIN exporters /\ exporters'[e] = exporters[e]
        BY <1>3, SpanFacts DEF CaptureInv, ProvidersMove
  <2>2. i \in DOMAIN spans
        BY <1>3, <2>1 DEF CaptureInv, CaptureTypeOK, Exported
  <2> QED BY <1>1, <1>3, <2>1, <2>2 DEF EndedInv, OnlyEnded
<1> QED BY <1>2, <1>3 DEF OnlyEnded

LEMMA SpanStepEnded ==
  ASSUME CaptureInv, EndedInv, SpanStep
  PROVE  SpansEnd /\ OnlyEnded'
<1>1. CASE \E shape \in Shapes : StartSpan(shape)
  <2>1. PICK shape \in Shapes : StartSpan(shape)
        BY <1>1
  <2>2. ProvidersMove
        BY <2>1, EnsureMoves DEF StartSpan, CaptureInv
  <2>3. PICK s : s = Started(shape, "fresh", sink')
        OBVIOUS
  <2>4. s.inside = OpenBlocks /\ s.ended = FALSE
        BY <2>3 DEF Started
  <2>5. spans' = Append(spans, s)
        BY <2>1, <2>3 DEF StartSpan
  <2> QED BY <2>2, <2>4, <2>5, StartedEnded
<1>2. CASE \E shape \in Shapes : StartCachedSpan(shape)
  <2>1. PICK shape \in Shapes : StartCachedSpan(shape)
        BY <1>2
  <2>2. ProvidersMove
        BY <2>1 DEF StartCachedSpan, providerVars, ProvidersMove, CaptureInv, CaptureTypeOK
  <2>3. PICK s : s = Started(shape, "cached", cached'[1])
        OBVIOUS
  <2>4. s.inside = OpenBlocks /\ s.ended = FALSE
        BY <2>3 DEF Started
  <2>5. spans' = Append(spans, s)
        BY <2>1, <2>3 DEF StartCachedSpan
  <2> QED BY <2>2, <2>4, <2>5, StartedEnded
<1>3. CASE \E shape \in Shapes : DeploymentEnvironmentResource(shape)
  <2>1. PICK shape \in Shapes : DeploymentEnvironmentResource(shape)
        BY <1>3
  <2>2. PICK s : s = [Started(shape, "private", Len(exporters) + 1)
                       EXCEPT !.ended = TRUE, !.until = OpenBlocks]
        OBVIOUS
  <2>3. s.inside = OpenBlocks /\ s.ended = TRUE /\ s.until = OpenBlocks
        BY <2>2 DEF Started
  <2>4. spans' = Append(spans, s) /\ exporters' = Append(exporters, {Len(spans) + 1})
        BY <2>1, <2>2 DEF DeploymentEnvironmentResource
  <2>5. /\ DOMAIN spans' = DOMAIN spans \cup {Len(spans) + 1}
        /\ \A i \in DOMAIN spans : spans'[i] = spans[i]
        /\ spans'[Len(spans) + 1] = s
        BY <2>4 DEF CaptureInv, CaptureTypeOK
  <2>6. /\ DOMAIN exporters' = DOMAIN exporters \cup {Len(exporters) + 1}
        /\ \A e \in DOMAIN exporters : exporters'[e] = exporters[e]
        /\ exporters'[Len(exporters) + 1] = {Len(spans) + 1}
        BY <2>4 DEF CaptureInv, CaptureTypeOK
  <2>7. SpansEnd
        BY <2>3, <2>5 DEF SpansEnd
  <2>8. ASSUME NEW e \in DOMAIN exporters', NEW i \in exporters'[e]
        PROVE  spans'[i].ended
    <3>1. CASE e \in DOMAIN exporters
      <4>1. i \in DOMAIN spans
            BY <2>6, <2>8, <3>1 DEF CaptureInv, CaptureTypeOK, Exported
      <4> QED BY <2>5, <2>6, <2>8, <3>1, <4>1 DEF EndedInv, OnlyEnded
    <3>2. CASE e \notin DOMAIN exporters
          BY <2>3, <2>5, <2>6, <2>8, <3>2
    <3> QED BY <3>1, <3>2
  <2> QED BY <2>7, <2>8 DEF OnlyEnded
<1>4. CASE \E n \in DOMAIN spans : EndSpan(n)
  <2>1. PICK n \in DOMAIN spans : EndSpan(n)
        BY <1>4
  <2>2. spans \in Seq(SpanRecords) /\ spans[n] \in SpanRecords /\ ~spans[n].ended
        BY <2>1, SpanFacts DEF CaptureInv, CaptureTypeOK, EndSpan
  <2>3. spans' = [spans EXCEPT ![n] = [spans[n] EXCEPT !.ended = TRUE, !.until = OpenBlocks]]
        BY <2>1 DEF EndSpan
  <2>4. /\ DOMAIN spans' = DOMAIN spans
        /\ \A i \in DOMAIN spans \ {n} : spans'[i] = spans[i]
        /\ spans'[n] = [spans[n] EXCEPT !.ended = TRUE, !.until = OpenBlocks]
        BY <2>2, <2>3
  <2>5. /\ spans'[n].shape = spans[n].shape /\ spans'[n].inside = spans[n].inside
        /\ spans'[n].ended /\ spans'[n].until = OpenBlocks
        BY <2>2, <2>4 DEF SpanRecords
  <2>6. SpansEnd
        BY <2>2, <2>4, <2>5 DEF SpansEnd
  <2>7. ASSUME NEW e \in DOMAIN exporters', NEW i \in exporters'[e]
        PROVE  spans'[i].ended
    <3>1. e \in DOMAIN exporters /\ (i \in exporters[e] \/ i = n)
          BY <2>1, <2>7 DEF EndSpan
    <3>2. i \in exporters[e] => i \in DOMAIN spans /\ spans[i].ended
          BY <3>1 DEF CaptureInv, CaptureTypeOK, Exported, EndedInv, OnlyEnded
    <3> QED BY <2>4, <2>5, <3>1, <3>2
  <2> QED BY <2>6, <2>7 DEF OnlyEnded
<1> QED BY <1>1, <1>2, <1>3, <1>4 DEF SpanStep

(* A block is entered, and left with what the exporter of then holds.      *)
LEMMA EnterEnded ==
  ASSUME CaptureInv, EndedInv, NEW n \in Blocks, Enter(n)
  PROVE  EndedInv' /\ SpansEnd
<1>1. /\ Ensure("memory", TRUE) /\ block[n] = "new" /\ UNCHANGED <<spans, captured>>
      /\ block' = [block EXCEPT ![n] = "open"] /\ CaptureTypeOK
      BY DEF Enter, CaptureInv
<1>2. SpansEnd /\ OnlyEnded'
      BY <1>1, EnsureMoves, MovedEnded
<1>3. block'[n] = "open" /\ \A b \in Blocks \ {n} : block'[b] = block[b]
      BY <1>1 DEF CaptureTypeOK
<1>4. EndedInside(n)'
      BY <1>1, <1>3 DEF EndedInside, EndedInv, CaptureInv, Isolated
<1>5. ASSUME NEW b \in Blocks \ {n} PROVE EndedInside(b)'
      BY <1>1, <1>2, <1>3, EndedStays DEF EndedInv
<1> QED BY <1>2, <1>4, <1>5 DEF EndedInv

LEMMA LeaveEnded ==
  ASSUME CaptureInv, EndedInv, NEW n \in Blocks, Leave(n)
  PROVE  EndedInv' /\ SpansEnd
<1>1. /\ block[n] = "open" /\ UNCHANGED <<spans, exporters, memory>>
      /\ block' = [block EXCEPT ![n] = "done"]
      /\ captured' = [captured EXCEPT ![n] = FinishedSpans] /\ CaptureTypeOK
      BY DEF Leave, CaptureInv, providerVars
<1>2. SpansEnd /\ OnlyEnded'
      BY <1>1 DEF SpansEnd, OnlyEnded, EndedInv
<1>3. /\ block'[n] = "done" /\ captured'[n] = FinishedSpans
      /\ \A b \in Blocks \ {n} : block'[b] = block[b] /\ captured'[b] = captured[b]
      BY <1>1 DEF CaptureTypeOK
<1>4. ASSUME NEW i \in FinishedSpans
      PROVE  spans[i].ended /\ n \in spans[i].until
  <2>1. memory \in DOMAIN exporters /\ i \in exporters[memory]
        BY <1>1, <1>4, SpanFacts DEF FinishedSpans, CaptureTypeOK
  <2>2. i \in DOMAIN spans /\ spans[i].ended
        BY <1>1, <2>1 DEF CaptureTypeOK, Exported, EndedInv, OnlyEnded
  <2>3. CaptureInv'
        BY LeaveInv
  <2>4. n \in spans[i].inside
        BY <1>1, <1>3, <1>4, <2>3 DEF CaptureInv, Isolated
  <2> QED BY <1>1, <2>2, <2>4 DEF EndedInv, EndedInside
<1>5. EndedInside(n)'
      BY <1>1, <1>3, <1>4 DEF EndedInside
<1>6. ASSUME NEW b \in Blocks \ {n} PROVE EndedInside(b)'
      BY <1>2, <1>3, EndedStays DEF EndedInv
<1> QED BY <1>2, <1>5, <1>6 DEF EndedInv

(* What an example does in its own block.                                  *)
LEMMA BodyEnded ==
  ASSUME CaptureInv, EndedInv, SpanStep \/ Configure("none", TRUE) \/ ResetSpans
  PROVE  EndedInv' /\ SpansEnd /\ UNCHANGED <<block, captured>>
<1>1. UNCHANGED <<block, captured>>
      BY DEF SpanStep, StartSpan, StartCachedSpan, DeploymentEnvironmentResource, EndSpan,
             Configure, ResetSpans
<1>2. SpansEnd /\ OnlyEnded'
  <2>1. CASE SpanStep
        BY <2>1, SpanStepEnded
  <2>2. CASE Configure("none", TRUE)
    <3>1. Ensure("none", TRUE) /\ spans' = spans /\ CaptureTypeOK
          BY <2>2 DEF Configure, CaptureInv
    <3>2. ProvidersMove
          BY <3>1, EnsureMoves
    <3> QED BY <3>1, <3>2, MovedEnded
  <2>3. CASE ResetSpans
    <3>1. /\ spans' = spans /\ DOMAIN exporters' = DOMAIN exporters
          /\ \A e \in DOMAIN exporters : exporters'[e] \subseteq exporters[e]
          BY <2>3 DEF ResetSpans, CaptureInv, CaptureTypeOK
    <3> QED BY <3>1 DEF SpansEnd, OnlyEnded, EndedInv
  <2> QED BY <2>1, <2>2, <2>3
<1>3. ASSUME NEW b \in Blocks PROVE EndedInside(b)'
      BY <1>1, <1>2, <1>3, EndedStays DEF EndedInv
<1> QED BY <1>1, <1>2, <1>3 DEF EndedInv

(* The status of an outcome is that of what its block found.               *)
OutcomeEarned(i) ==
  /\ outcomes[i].how = "harness" => outcomes[i].status # "PASS" /\ captured[i] = {}
  /\ outcomes[i].how # "harness" =>
       /\ block[i] = "done"
       /\ outcomes[i].status = "PASS" <=> KeptPromise(i) /\ Checked(captured[i])

RunInv ==
  /\ selected \in Selections
  /\ \E S : outcomes \in Seq(S)
  /\ Len(outcomes) <= Len(selected)
  /\ running \in {0, Len(outcomes) + 1} /\ running <= Len(selected)
  /\ \A i \in 1..Len(selected) :
       i > Len(outcomes) => block[i] = IF i = running THEN "open" ELSE "new"
  /\ \A i \in DOMAIN outcomes : block[i] \in {"done", "failed"} /\ OutcomeEarned(i)
  /\ phase = "done" => Len(outcomes) = Len(selected)

SimulatorInv == CaptureInv /\ EndedInv /\ RunInv

LEMMA RunFacts ==
  ASSUME RunInv
  PROVE  /\ selected \in Seq([expect_error : BOOLEAN, pillar : Pillars])
         /\ Len(selected) \in Nat /\ DOMAIN selected = 1..Len(selected)
         /\ 1..Len(selected) \subseteq Blocks
         /\ Len(outcomes) \in Nat /\ DOMAIN outcomes = 1..Len(outcomes)
         /\ DOMAIN outcomes \subseteq 1..Len(selected)
         /\ DOMAIN outcomes \subseteq Blocks
         /\ running \in Nat
<1>1. selected \in Seq([expect_error : BOOLEAN, pillar : Pillars])
      BY SimulatorOK DEF RunInv
<1>2. Len(selected) \in Nat /\ DOMAIN selected = 1..Len(selected)
      BY <1>1
<1>3. 1..Len(selected) \subseteq Blocks
      BY SimulatorOK DEF RunInv
<1>4. Len(outcomes) \in Nat /\ DOMAIN outcomes = 1..Len(outcomes)
      BY DEF RunInv
<1>5. DOMAIN outcomes \subseteq 1..Len(selected)
  <2>1. Len(outcomes) <= Len(selected)
        BY DEF RunInv
  <2> QED BY <1>2, <1>4, <2>1
<1>6. running \in Nat
  <2>1. running \in {0, Len(outcomes) + 1}
        BY DEF RunInv
  <2> QED BY <1>4, <2>1
<1> QED BY <1>1, <1>2, <1>3, <1>4, <1>5, <1>6

(* Whatever else goes on, what a block found keeps its shape.              *)
LEMMA OutcomeStays ==
  ASSUME CaptureInv, SpansEnd, NEW i \in Blocks, OutcomeEarned(i),
         UNCHANGED selected, outcomes'[i] = outcomes[i],
         block'[i] = block[i], captured'[i] = captured[i]
  PROVE  OutcomeEarned(i)'
<1>1. block[i] = "done" => \A j \in captured[i] : j \in DOMAIN spans
      BY DEF CaptureInv, Isolated
<1>2. block[i] = "done" => (Checked(captured[i])' <=> Checked(captured[i]))
      BY <1>1 DEF Checked, SpansEnd
<1> QED BY <1>2 DEF OutcomeEarned, KeptPromise

LEMMA SimulatorInitInv == SimulatorInit => SimulatorInv
<1> SUFFICES ASSUME SimulatorInit PROVE SimulatorInv
    OBVIOUS
<1>1. TelemetryInit /\ selected \in Selections /\ running = 0 /\ outcomes = << >> /\ phase = "run"
      BY DEF SimulatorInit
<1>2. CaptureInv /\ EndedInv
      BY <1>1, CaptureInitInv, EndedInitInv
<1>3. selected \in Seq([expect_error : BOOLEAN, pillar : Pillars])
      BY <1>1, SimulatorOK
<1>4. 1..Len(selected) \subseteq Blocks /\ Len(selected) \in Nat
      BY <1>1, <1>3, SimulatorOK
<1>5. /\ outcomes \in Seq({}) /\ Len(outcomes) = 0 /\ DOMAIN outcomes = {}
      BY <1>1
<1>6. \A i \in 1..Len(selected) : block[i] = "new" /\ i # 0
      BY <1>1, <1>4 DEF TelemetryInit
<1>7. RunInv
      BY <1>1, <1>4, <1>5, <1>6 DEF RunInv
<1> QED BY <1>2, <1>7 DEF SimulatorInv

LEMMA BeginInv ==
  ASSUME SimulatorInv, Begin
  PROVE  SimulatorInv'
<1>1. PICK n : n = Len(outcomes) + 1
      OBVIOUS
<1>2. /\ running = 0 /\ n <= Len(selected) /\ running' = n /\ Enter(n)
      /\ UNCHANGED <<selected, outcomes, phase>> /\ n \in 1..Len(selected) /\ n \in Blocks
      /\ phase = "run"
      BY <1>1, RunFacts DEF Begin, SimulatorInv
<1>3. CaptureInv'
      BY <1>2, EnterInv DEF SimulatorInv
<1>4. EndedInv' /\ SpansEnd
      BY <1>2, EnterEnded DEF SimulatorInv
<1>5. /\ block'[n] = "open" /\ \A b \in Blocks \ {n} : block'[b] = block[b]
      /\ captured' = captured
      BY <1>2 DEF Enter, SimulatorInv, CaptureInv, CaptureTypeOK
<1>6. RunInv /\ CaptureInv
      BY DEF SimulatorInv
<1>7. \A i \in 1..Len(selected) : i > Len(outcomes) => block'[i] = IF i = n THEN "open" ELSE "new"
      BY <1>2, <1>5, <1>6, RunFacts DEF RunInv
<1>8. ASSUME NEW i \in DOMAIN outcomes
      PROVE  block'[i] \in {"done", "failed"} /\ OutcomeEarned(i)'
  <2>1. i \in Blocks \ {n} /\ block'[i] = block[i]
        BY <1>1, <1>5, <1>6, <1>8, RunFacts
  <2>2. OutcomeEarned(i)'
        BY <1>2, <1>4, <1>5, <1>6, <1>8, <2>1, OutcomeStays DEF RunInv
  <2> QED BY <1>6, <1>8, <2>1, <2>2 DEF RunInv
<1>9. RunInv'
      BY <1>1, <1>2, <1>6, <1>7, <1>8 DEF RunInv
<1> QED BY <1>3, <1>4, <1>9 DEF SimulatorInv

(* A step that leaves the run and the blocks of its examples alone.        *)
LEMMA RunStays ==
  ASSUME SimulatorInv, SpansEnd, UNCHANGED <<selected, running, outcomes>>,
         phase' = "done" => phase = "done" \/ Len(outcomes) = Len(selected),
         \A b \in 1..Len(selected) : block'[b] = block[b] /\ captured'[b] = captured[b]
  PROVE  RunInv'
<1>1. RunInv /\ CaptureInv
      BY DEF SimulatorInv
<1>2. ASSUME NEW i \in DOMAIN outcomes
      PROVE  block'[i] \in {"done", "failed"} /\ OutcomeEarned(i)'
  <2>1. i \in Blocks /\ i \in 1..Len(selected)
        BY <1>1, <1>2, RunFacts
  <2>2. OutcomeEarned(i)'
        BY <1>1, <1>2, <2>1, OutcomeStays DEF RunInv
  <2> QED BY <1>1, <1>2, <2>1, <2>2 DEF RunInv
<1>3. \A i \in 1..Len(selected) :
        i > Len(outcomes) => block'[i] = IF i = running THEN "open" ELSE "new"
      BY <1>1 DEF RunInv
<1> QED BY <1>1, <1>2, <1>3 DEF RunInv

LEMMA BodyInv ==
  ASSUME SimulatorInv, Body
  PROVE  SimulatorInv'
<1>1. /\ UNCHANGED <<selected, running, outcomes, phase>>
      /\ CaptureInv /\ EndedInv /\ RunInv
      BY DEF Body, runnerVars, SimulatorInv
<1>2. CASE SpanStep \/ Configure("none", TRUE) \/ ResetSpans
  <2>1. CaptureInv'
        BY <1>1, <1>2, CaptureStep DEF TelemetryNext
  <2>2. EndedInv' /\ SpansEnd /\ UNCHANGED <<block, captured>>
        BY <1>1, <1>2, BodyEnded
  <2>3. RunInv'
        BY <1>1, <2>2, RunStays
  <2> QED BY <2>1, <2>2, <2>3 DEF SimulatorInv
<1>3. CASE \E b \in Blocks \ (1..Len(selected)) : Enter(b) \/ Leave(b)
  <2>1. PICK b \in Blocks \ (1..Len(selected)) : Enter(b) \/ Leave(b)
        BY <1>3
  <2>2. CaptureInv'
        BY <1>1, <2>1, EnterInv, LeaveInv
  <2>3. EndedInv' /\ SpansEnd
        BY <1>1, <2>1, EnterEnded, LeaveEnded
  <2>4. \A n \in Blocks \ {b} : block'[n] = block[n] /\ captured'[n] = captured[n]
        BY <1>1, <2>1 DEF Enter, Leave, CaptureInv, CaptureTypeOK
  <2>5. \A n \in 1..Len(selected) : block'[n] = block[n] /\ captured'[n] = captured[n]
        BY <1>1, <2>1, <2>4, RunFacts
  <2>6. RunInv'
        BY <1>1, <2>3, <2>5, RunStays
  <2> QED BY <2>2, <2>3, <2>6 DEF SimulatorInv
<1> QED BY <1>2, <1>3 DEF Body, SpanStep

(* An example that ended: its outcome is the newest.                       *)
LEMMA RunGrows ==
  ASSUME SimulatorInv, SpansEnd, phase # "done", UNCHANGED <<selected, phase>>,
         NEW r, r = running, r > 0, running' = 0,
         NEW o, outcomes' = Append(outcomes, o),
         \A b \in Blocks \ {r} : block'[b] = block[b] /\ captured'[b] = captured[b],
         block'[r] \in {"done", "failed"},
         OutcomeEarned(r)'
  PROVE  RunInv'
<1>1. RunInv /\ CaptureInv
      BY DEF SimulatorInv
<1>2. PICK S : outcomes \in Seq(S)
      BY <1>1 DEF RunInv
<1>3. r = Len(outcomes) + 1 /\ r <= Len(selected)
      BY <1>1, RunFacts DEF RunInv
<1>4. /\ outcomes' \in Seq(S \cup {o}) /\ Len(outcomes') = r
      /\ DOMAIN outcomes' = DOMAIN outcomes \cup {r}
      /\ \A i \in DOMAIN outcomes : outcomes'[i] = outcomes[i]
      /\ r \notin DOMAIN outcomes
  <2>1. outcomes \in Seq(S \cup {o})
        BY <1>2
  <2> QED BY <1>3, <2>1
<1>5. ASSUME NEW i \in DOMAIN outcomes
      PROVE  block'[i] \in {"done", "failed"} /\ OutcomeEarned(i)'
  <2>1. i \in Blocks \ {r}
        BY <1>1, <1>4, <1>5, RunFacts
  <2>2. OutcomeEarned(i)'
        BY <1>1, <1>4, <1>5, <2>1, OutcomeStays DEF RunInv
  <2> QED BY <1>1, <1>5, <2>1, <2>2 DEF RunInv
<1>6. ASSUME NEW i \in 1..Len(selected), i > r
      PROVE  block'[i] = "new" /\ i # 0
  <2>1. i \in Blocks \ {r} /\ i > Len(outcomes)
        BY <1>1, <1>3, <1>6, RunFacts
  <2> QED BY <1>1, <1>6, <2>1 DEF RunInv
<1>7. \A i \in DOMAIN outcomes' : block'[i] \in {"done", "failed"} /\ OutcomeEarned(i)'
      BY <1>4, <1>5
<1>8. (\E T : outcomes \in Seq(T))'
      BY <1>4
<1>9. /\ selected' \in Selections /\ Len(outcomes') <= Len(selected')
      /\ running' \in {0, Len(outcomes') + 1} /\ running' <= Len(selected')
      BY <1>1, <1>3, <1>4, RunFacts DEF RunInv
<1> QED BY <1>4, <1>6, <1>7, <1>8, <1>9 DEF RunInv

LEMMA FinishInv ==
  ASSUME SimulatorInv, NEW how \in {"returned", "raised"}, Finish(how)
  PROVE  SimulatorInv'
<1>1. CaptureInv /\ EndedInv /\ RunInv
      BY DEF SimulatorInv
<1>2. PICK r : r = running
      OBVIOUS
<1>3. /\ r \in Blocks /\ r \in 1..Len(selected) /\ r = Len(outcomes) + 1
      /\ Leave(r) /\ phase = "run" /\ r > 0 /\ running' = 0
      /\ UNCHANGED <<selected, phase>>
  <2>1. r > 0 /\ r <= Len(selected) /\ r = Len(outcomes) + 1
        BY <1>1, <1>2, RunFacts DEF Finish, RunInv
  <2>2. r \in 1..Len(selected)
        BY <1>1, <2>1, RunFacts
  <2> QED BY <1>1, <1>2, <2>1, <2>2, RunFacts DEF Finish
<1>4. CaptureInv' /\ EndedInv' /\ SpansEnd
      BY <1>1, <1>3, LeaveInv, LeaveEnded
<1>5. PICK expected \in BOOLEAN : expected = selected[r].expect_error
  <2>1. PICK S : S = [expect_error : BOOLEAN, pillar : Pillars]
        OBVIOUS
  <2>2. selected \in Seq(S)
        BY <1>1, <2>1, RunFacts
  <2>3. selected[r] \in S
        BY <1>3, <2>2
  <2> QED BY <2>1, <2>3
<1>6. PICK found : found = FinishedSpans
      OBVIOUS
<1>7. PICK o : o = [how |-> how,
                    status |-> Status(how # "returned" /\ ~expected,
                                      (expected => how # "returned") /\ Checked(found))]
      OBVIOUS
<1>8. outcomes' = Append(outcomes, o)
      BY <1>2, <1>5, <1>6, <1>7 DEF Finish
<1>9. /\ block'[r] = "done" /\ captured'[r] = found
      /\ UNCHANGED spans
      /\ \A b \in Blocks \ {r} : block'[b] = block[b] /\ captured'[b] = captured[b]
      BY <1>1, <1>3, <1>6 DEF Leave, CaptureInv, CaptureTypeOK
<1>10. OutcomeEarned(r)'
  <2>1. outcomes'[r] = o
        BY <1>1, <1>3, <1>8, RunFacts DEF RunInv
  <2>2. o.status = "PASS" <=> ((expected <=> how # "returned") /\ Checked(found))
        BY <1>7 DEF Status
  <2>3. o.how = how /\ how # "harness"
        BY <1>7
  <2>4. Checked(found)' <=> Checked(found)
        BY <1>9 DEF Checked
  <2> QED BY <1>3, <1>5, <1>9, <2>1, <2>2, <2>3, <2>4 DEF OutcomeEarned, KeptPromise
<1>11. RunInv'
      BY <1>2, <1>3, <1>4, <1>8, <1>9, <1>10, RunGrows
<1> QED BY <1>4, <1>11 DEF SimulatorInv

(* The block of a harness that raised is over, and found nothing.          *)
LEMMA HarnessRaisesInv ==
  ASSUME SimulatorInv, HarnessRaises
  PROVE  SimulatorInv'
<1>1. CaptureInv /\ EndedInv /\ RunInv
      BY DEF SimulatorInv
<1>2. PICK r : r = running
      OBVIOUS
<1>3. /\ r > 0 /\ running' = 0 /\ phase = "run"
      /\ block' = [block EXCEPT ![r] = "failed"]
      /\ UNCHANGED <<exporters, memory, sink, installed, configured, cached, spans, captured,
                     disturbed, selected, phase>>
      BY <1>2 DEF HarnessRaises, providerVars
<1>4. /\ r \in Blocks /\ r \in 1..Len(selected) /\ r = Len(outcomes) + 1
      /\ block[r] = "open"
  <2>1. r <= Len(selected) /\ r = Len(outcomes) + 1
        BY <1>1, <1>2, <1>3, RunFacts DEF RunInv
  <2>2. r \in 1..Len(selected)
        BY <1>1, <1>3, <2>1, RunFacts
  <2>3. r > Len(outcomes)
        BY <1>1, <2>1, RunFacts
  <2> QED BY <1>1, <1>2, <2>1, <2>2, <2>3, RunFacts DEF RunInv
<1>5. block'[r] = "failed" /\ \A b \in Blocks \ {r} : block'[b] = block[b]
      BY <1>1, <1>3, <1>4 DEF CaptureInv, CaptureTypeOK
<1>6. SpansEnd
      BY <1>3 DEF SpansEnd
<1>7. CaptureInv'
  <2>1. CaptureTypeOK'
        BY <1>1, <1>3 DEF CaptureInv, CaptureTypeOK, Exported
  <2>2. Isolated(r)'
        BY <1>5 DEF Isolated
  <2>3. \A b \in Blocks \ {r} : Isolated(b)'
        BY <1>1, <1>3, <1>5 DEF CaptureInv, Isolated, Undisturbed
  <2> QED BY <2>1, <2>2, <2>3 DEF CaptureInv
<1>8. captured[r] = {}
      BY <1>1, <1>4 DEF EndedInv, EndedInside
<1>9. EndedInv'
  <2>1. OnlyEnded'
        BY <1>1, <1>3 DEF EndedInv, OnlyEnded
  <2>2. EndedInside(r)'
        BY <1>3, <1>5, <1>8 DEF EndedInside
  <2>3. \A b \in Blocks \ {r} : EndedInside(b)'
        BY <1>1, <1>3, <1>5 DEF EndedInv, EndedInside
  <2> QED BY <2>1, <2>2, <2>3 DEF EndedInv
<1>10. PICK o : o = [how |-> "harness", status |-> "ERROR"]
      OBVIOUS
<1>11. outcomes' = Append(outcomes, o)
      BY <1>10 DEF HarnessRaises
<1>12. OutcomeEarned(r)'
  <2>1. outcomes'[r] = o
        BY <1>1, <1>4, <1>11, RunFacts DEF RunInv
  <2>2. o.how = "harness" /\ o.status # "PASS"
        BY <1>10
  <2> QED BY <1>3, <1>8, <2>1, <2>2 DEF OutcomeEarned
<1>13. RunInv'
      BY <1>1, <1>2, <1>3, <1>5, <1>6, <1>11, <1>12, RunGrows
<1> QED BY <1>7, <1>9, <1>13 DEF SimulatorInv

LEMMA SimulatorStep ==
  SimulatorInv /\ [SimulatorNext]_<<telemetryVars, runnerVars>> => SimulatorInv'
<1> SUFFICES ASSUME SimulatorInv, [SimulatorNext]_<<telemetryVars, runnerVars>>
             PROVE  SimulatorInv'
    OBVIOUS
<1>1. CASE CallbackRaises \/ Report \/ UNCHANGED <<telemetryVars, runnerVars>>
  <2>1. /\ UNCHANGED <<selected, running, outcomes, spans, exporters, block, captured>>
        /\ UNCHANGED telemetryVars
        /\ phase' = "done" => phase = "done" \/ Len(outcomes) = Len(selected)
        BY <1>1 DEF CallbackRaises, Report, telemetryVars, providerVars, runnerVars
  <2>2. CaptureInv'
        BY <2>1, CaptureStep DEF SimulatorInv
  <2>3. EndedInv' /\ SpansEnd
        BY <2>1 DEF SimulatorInv, EndedInv, OnlyEnded, EndedInside, SpansEnd
  <2>4. RunInv'
        BY <2>1, <2>3, RunStays
  <2> QED BY <2>2, <2>3, <2>4 DEF SimulatorInv
<1> QED BY <1>1, BeginInv, BodyInv, FinishInv, HarnessRaisesInv DEF SimulatorNext

(* What the block of an example found is among what it finished.           *)
LEMMA FoundIsOwn ==
  ASSUME SimulatorInv, NEW i \in DOMAIN outcomes
  PROVE  captured[i] \subseteq FinishedWithin(i)
<1>1. CaptureInv /\ EndedInv /\ RunInv /\ i \in Blocks
      BY RunFacts DEF SimulatorInv
<1>2. CASE outcomes[i].how = "harness"
      BY <1>1, <1>2 DEF RunInv, OutcomeEarned
<1>3. CASE outcomes[i].how # "harness"
  <2>1. block[i] = "done"
        BY <1>1, <1>3 DEF RunInv, OutcomeEarned
  <2> QED BY <1>1, <2>1 DEF CaptureInv, Isolated, EndedInv, EndedInside, FinishedWithin
<1> QED BY <1>2, <1>3

LEMMA StatusesEarned ==
  ASSUME SimulatorInv, NEW i \in DOMAIN outcomes, ~disturbed[i], outcomes[i].how # "harness"
  PROVE  StatusEarned(i)
<1>1. CaptureInv /\ RunInv /\ i \in Blocks
      BY RunFacts DEF SimulatorInv
<1>2. /\ block[i] = "done"
      /\ outcomes[i].status = "PASS" <=> KeptPromise(i) /\ Checked(captured[i])
      BY <1>1 DEF RunInv, OutcomeEarned
<1>3. OwnSpans(i) \subseteq captured[i]
      BY <1>1, <1>2 DEF CaptureInv, Isolated, OwnSpans, FinishedWithin
<1>4. captured[i] \subseteq FinishedWithin(i)
      BY FoundIsOwn
<1> QED BY <1>2, <1>3, <1>4 DEF StatusEarned, Checked

(* A pillar is observed at most as often as an example finished a span     *)
(* that carried it.                                                        *)
LEMMA CoverageEarned ==
  ASSUME SimulatorInv, NEW p
  PROVE  Observed(p) <= Cardinality({i \in DOMAIN outcomes :
           \E j \in FinishedWithin(i) : spans[j].shape.pillar = p})
<1> DEFINE seen == {i \in DOMAIN outcomes : p \in PillarsCovered(i)}
           carried == {i \in DOMAIN outcomes :
                        \E j \in FinishedWithin(i) : spans[j].shape.pillar = p}
<1>1. IsFiniteSet(DOMAIN outcomes)
      BY RunFacts, FS_Interval DEF SimulatorInv
<1>2. IsFiniteSet(carried)
      BY <1>1, FS_Subset
<1>3. seen \subseteq carried
      BY FoundIsOwn DEF PillarsCovered
<1>4. Cardinality(seen) <= Cardinality(carried)
      BY <1>2, <1>3, FS_Subset
<1> QED BY <1>4 DEF Observed

(* simulator/runner.py run: for any selection, any examples and any spans  *)
(* they open, leave open or end late, in a process anybody may reconfigure,*)
(* a status is what the example's own spans and its own ending earned, an  *)
(* exit code of 0 means that every selected example kept its promise, and  *)
(* the coverage counts no example twice or for the spans of another.       *)
THEOREM ReportsAreEarned == SimulatorSpec => []ReportEarned
<1>1. SimulatorInv => ReportEarned
  <2> SUFFICES ASSUME SimulatorInv PROVE ReportEarned
      OBVIOUS
  <2>1. \A i \in DOMAIN outcomes :
          ~disturbed[i] /\ outcomes[i].how # "harness" => StatusEarned(i)
        BY StatusesEarned
  <2>2. ASSUME phase = "done", ExitCode = 0, NEW i \in DOMAIN selected
        PROVE  KeptPromise(i)
    <3>1. DOMAIN outcomes = DOMAIN selected
          BY <2>2, RunFacts DEF SimulatorInv, RunInv
    <3>2. outcomes[i].status = "PASS"
          BY <2>2, <3>1 DEF ExitCode, Passed
    <3> QED BY <3>1, <3>2 DEF SimulatorInv, RunInv, OutcomeEarned
  <2> QED BY <2>1, <2>2, CoverageEarned DEF ReportEarned
<1> QED BY SimulatorInitInv, SimulatorStep, <1>1, PTL DEF SimulatorSpec

-----------------------------------------------------------------------------
(* Scopes.  A token keeps the chain its scope replaced, and while a        *)
(* context leaves its scopes in reverse order that chain continues the one *)
(* the scope below had set: what a scope puts back is what was there.      *)
HopRecords == [principal : People, run : Nat]

TokenRecords ==
  [context : Threads, old : Seq(HopRecords), hops : Seq(HopRecords), used : BOOLEAN]

ScopesTypeOK ==
  /\ chain \in [Threads -> Seq(HopRecords)]
  /\ tokens \in Seq(TokenRecords)
  /\ snapshot \in Seq(HopRecords)
  /\ born \in [Threads -> Seq(HopRecords)]
  /\ orderly \in [Threads -> BOOLEAN]
  /\ decision.chain \in Seq(HopRecords)

(* A chain is of one run, wherever it is kept.                             *)
OneRun(hops) == \A i \in DOMAIN hops : hops[i].run = hops[1].run

RunsApart ==
  /\ \A c \in Threads : OneRun(chain[c])
  /\ OneRun(snapshot) /\ OneRun(decision.chain)
  /\ \A t \in DOMAIN tokens : OneRun(tokens[t].old)

(* The chain that the scopes of a context, or none, leave it with.         *)
Base(scopes, start, open) == IF open = {} THEN start ELSE scopes[Max(open)].hops

Continues(scopes, start, open, hops) ==
  /\ IsPrefix(Base(scopes, start, open), hops)
  /\ open = {} /\ start = << >> => hops = << >>

Below(c, t) == {u \in OpenTokens(c) : u < t}

Nested(c) ==
  orderly[c] =>
    /\ Continues(tokens, born[c], OpenTokens(c), chain[c])
    /\ \A t \in OpenTokens(c) : Continues(tokens, born[c], Below(c, t), tokens[t].old)

(* Among any tokens there are one was made last.                           *)
LatestExists ==
  \A S \in SUBSET DOMAIN tokens : S # {} => \E m \in S : \A u \in S : m >= u

ScopesInv == ScopesTypeOK /\ RunsApart /\ LatestExists /\ \A c \in Threads : Nested(c)

LEMMA MaxIs ==
  ASSUME NEW S \in SUBSET Nat, NEW m \in S, \A u \in S : m >= u
  PROVE  Max(S) = m
<1>1. Max(S) \in S /\ \A u \in S : Max(S) >= u
      BY DEF Max
<1>2. Max(S) \in Nat /\ m \in Nat /\ Max(S) >= m /\ m >= Max(S)
      BY <1>1
<1> QED BY <1>2

LEMMA AppendFacts ==
  ASSUME NEW X, NEW s \in Seq(X), NEW x \in X
  PROVE  /\ Append(s, x) \in Seq(X)
         /\ DOMAIN Append(s, x) = DOMAIN s \cup {Len(s) + 1}
         /\ Append(s, x)[Len(s) + 1] = x
         /\ \A i \in DOMAIN s : Append(s, x)[i] = s[i]
OBVIOUS

LEMMA NonEmptyFacts ==
  ASSUME NEW X, NEW s \in Seq(X), s # << >>
  PROVE  1 \in DOMAIN s /\ Len(s) \in DOMAIN s /\ s[Len(s)] \in X
<1>1. Len(s) \in Nat /\ Len(s) # 0 /\ DOMAIN s = 1..Len(s)
      OBVIOUS
<1>2. Len(s) \in DOMAIN s
      BY <1>1
<1> QED BY <1>1, <1>2

LEMMA OneRunAppend ==
  ASSUME NEW s \in Seq(HopRecords), s # << >>, OneRun(s),
         NEW x \in HopRecords, x.run = s[Len(s)].run
  PROVE  OneRun(Append(s, x))
<1>1. 1 \in DOMAIN s /\ Len(s) \in DOMAIN s
      BY NonEmptyFacts
<1>2. x.run = s[1].run
      BY <1>1 DEF OneRun
<1> QED BY <1>1, <1>2, AppendFacts DEF OneRun

LEMMA PrefixOfItself ==
  ASSUME NEW X, NEW s \in Seq(X)
  PROVE  IsPrefix(s, s)
BY DEF IsPrefix

LEMMA PrefixOfLonger ==
  ASSUME NEW X, NEW s \in Seq(X), NEW t \in Seq(X), IsPrefix(s, t), NEW x \in X
  PROVE  IsPrefix(s, Append(t, x))
<1>1. Len(s) \in Nat /\ Len(t) \in Nat /\ Len(s) <= Len(t)
      BY DEF IsPrefix
<1>2. Append(t, x) \in Seq(X) /\ Len(Append(t, x)) = Len(t) + 1
      BY <1>1
<1>3. SubSeq(Append(t, x), 1, Len(s)) = SubSeq(t, 1, Len(s))
  <2>1. \A i \in 1..Len(s) : Append(t, x)[i] = t[i]
        BY <1>1
  <2> QED BY <1>1, <1>2, <2>1
<1> QED BY <1>1, <1>2, <1>3 DEF IsPrefix

LEMMA ScopesInitInv == ScopesInit => ScopesInv
<1> SUFFICES ASSUME ScopesInit PROVE ScopesInv
    OBVIOUS
<1>1. /\ tokens = << >> /\ snapshot = << >> /\ decision.chain = << >>
      /\ \A c \in Threads : chain[c] = << >> /\ born[c] = << >>
      BY DEF ScopesInit
<1>2. ScopesTypeOK
  <2>1. << >> \in Seq(HopRecords) /\ << >> \in Seq(TokenRecords)
        OBVIOUS
  <2> QED BY <1>1, <2>1 DEF ScopesInit, ScopesTypeOK
<1>3. RunsApart
      BY <1>1 DEF RunsApart, OneRun
<1>4. DOMAIN tokens = {}
      BY <1>1
<1>5. LatestExists
      BY <1>4 DEF LatestExists
<1>6. ASSUME NEW c \in Threads PROVE Nested(c)
  <2>1. OpenTokens(c) = {}
        BY <1>4 DEF OpenTokens
  <2>2. IsPrefix(<< >>, << >>)
    <3>1. << >> \in Seq(HopRecords)
          OBVIOUS
    <3> QED BY <3>1, PrefixOfItself
  <2> QED BY <1>1, <2>1, <2>2 DEF Nested, Continues, Base
<1> QED BY <1>2, <1>3, <1>5, <1>6 DEF ScopesInv

(* StartChain and ApplyContext: a token for what was there, on top.        *)
LEMMA SetInv ==
  ASSUME ScopesInv, NEW c \in Threads, NEW hops \in Seq(HopRecords), OneRun(hops),
         Set(c, hops)
  PROVE  ScopesInv'
<1> DEFINE tk == [context |-> c, old |-> chain[c], hops |-> hops, used |-> FALSE]
<1>1. /\ ScopesTypeOK /\ RunsApart /\ LatestExists
      /\ UNCHANGED <<snapshot, born, orderly, decision>>
      /\ chain' = [chain EXCEPT ![c] = hops]
      /\ tokens' = Append(tokens, tk)
      BY DEF ScopesInv, Set
<1> PICK n \in Nat : n = Len(tokens) + 1
    BY <1>1 DEF ScopesTypeOK
<1>2. tk \in TokenRecords /\ tokens \in Seq(TokenRecords)
      BY <1>1 DEF ScopesTypeOK, TokenRecords
<1>3. /\ tokens' \in Seq(TokenRecords)
      /\ DOMAIN tokens' = DOMAIN tokens \cup {n} /\ n \notin DOMAIN tokens
      /\ \A t \in DOMAIN tokens : t \in Nat /\ t < n
      /\ \A t \in DOMAIN tokens : tokens'[t] = tokens[t]
      /\ tokens'[n] = tk
      BY <1>1, <1>2
<1>4. /\ tokens'[n].context = c /\ tokens'[n].old = chain[c]
      /\ tokens'[n].hops = hops /\ tokens'[n].used = FALSE
      BY <1>3
<1> HIDE DEF tk
<1>5. /\ chain'[c] = hops /\ \A d \in Threads \ {c} : chain'[d] = chain[d]
      /\ chain' \in [Threads -> Seq(HopRecords)]
      BY <1>1 DEF ScopesTypeOK
<1>6. ScopesTypeOK'
      BY <1>1, <1>3, <1>5 DEF ScopesTypeOK
<1>7. RunsApart'
  <2>1. \A t \in DOMAIN tokens' : OneRun(tokens'[t].old)
        BY <1>1, <1>3, <1>4 DEF RunsApart
  <2>2. \A d \in Threads : OneRun(chain'[d])
        BY <1>1, <1>5 DEF RunsApart
  <2> QED BY <1>1, <2>1, <2>2 DEF RunsApart
<1>8. LatestExists'
  <2> SUFFICES ASSUME NEW S \in SUBSET DOMAIN tokens', S # {}
               PROVE  \E m \in S : \A u \in S : m >= u
      BY DEF LatestExists
  <2>1. CASE n \in S
        BY <1>3, <2>1
  <2>2. CASE n \notin S
        BY <1>1, <1>3, <2>2 DEF LatestExists
  <2> QED BY <2>1, <2>2
<1>9. /\ OpenTokens(c)' = OpenTokens(c) \cup {n}
      /\ \A d \in Threads \ {c} : OpenTokens(d)' = OpenTokens(d)
      BY <1>3, <1>4 DEF OpenTokens
<1>10. /\ \A d \in Threads : \A t \in OpenTokens(d) : Below(d, t)' = Below(d, t)
       /\ Below(c, n)' = OpenTokens(c)
  <2>1. \A d \in Threads : \A t \in OpenTokens(d) : t \in DOMAIN tokens
        BY DEF OpenTokens
  <2>2. n \in Nat /\ \A t \in DOMAIN tokens : t \in Nat /\ t < n
        BY <1>3
  <2>3. ~(n < n) /\ \A t \in DOMAIN tokens : ~(n < t)
        BY <2>2
  <2> QED BY <1>9, <2>1, <2>2, <2>3 DEF Below
<1>11. \A d \in Threads, h \in Seq(HopRecords), S \in SUBSET DOMAIN tokens :
         Continues(tokens, born[d], S, h) => Continues(tokens', born'[d], S, h)
  <2> SUFFICES ASSUME NEW d \in Threads, NEW h \in Seq(HopRecords),
                      NEW S \in SUBSET DOMAIN tokens,
                      Continues(tokens, born[d], S, h)
               PROVE  Continues(tokens', born[d], S, h)
      BY <1>1
  <2>1. Base(tokens', born[d], S) = Base(tokens, born[d], S)
    <3>1. CASE S = {}
          BY <3>1 DEF Base
    <3>2. CASE S # {}
      <4>1. PICK m \in S : \A u \in S : m >= u
            BY <1>1, <3>2 DEF LatestExists
      <4>2. Max(S) = m
            BY <1>3, <4>1, MaxIs
      <4> QED BY <1>3, <3>2, <4>1, <4>2 DEF Base
    <3> QED BY <3>1, <3>2
  <2> QED BY <2>1 DEF Continues
<1>12. ASSUME NEW d \in Threads PROVE Nested(d)'
  <2>1. CASE ~orderly[d]
        BY <1>1, <2>1 DEF Nested
  <2>2. CASE orderly[d]
    <3>1. /\ Continues(tokens, born[d], OpenTokens(d), chain[d])
          /\ \A t \in OpenTokens(d) : Continues(tokens, born[d], Below(d, t), tokens[t].old)
          BY <2>2 DEF ScopesInv, Nested
    <3>2. /\ OpenTokens(d) \subseteq DOMAIN tokens /\ chain[d] \in Seq(HopRecords)
          /\ \A t \in OpenTokens(d) :
               Below(d, t) \subseteq DOMAIN tokens /\ tokens[t].old \in Seq(HopRecords)
      <4>1. \A t \in DOMAIN tokens : tokens[t].old \in Seq(HopRecords)
        <5>1. \A t \in DOMAIN tokens : tokens[t] \in TokenRecords
              BY <1>2
        <5> QED BY <5>1 DEF TokenRecords
      <4> QED BY <1>1, <4>1 DEF OpenTokens, Below, ScopesTypeOK
    <3>3. \A t \in OpenTokens(d) :
            Continues(tokens', born'[d], Below(d, t)', tokens'[t].old)
          BY <1>3, <1>10, <1>11, <3>1, <3>2
    <3>4. CASE d # c
      <4>1. OpenTokens(d)' = OpenTokens(d) /\ chain'[d] = chain[d]
            BY <1>5, <1>9, <3>4
      <4>2. Continues(tokens', born'[d], OpenTokens(d), chain[d])
            BY <1>11, <3>1, <3>2
      <4> QED BY <1>1, <3>3, <4>1, <4>2 DEF Nested
    <3>5. CASE d = c
      <4>1. Continues(tokens', born'[c], Below(c, n)', tokens'[n].old)
        <5>1. Continues(tokens', born'[c], OpenTokens(c), chain[c])
              BY <1>11, <3>1, <3>2, <3>5
        <5> QED BY <1>4, <1>10, <5>1
      <4>2. Max(OpenTokens(c)') = n
        <5>1. OpenTokens(c)' \subseteq Nat /\ n \in OpenTokens(c)'
              BY <1>3, <1>9, <3>2, <3>5
        <5>2. \A u \in OpenTokens(c)' : n >= u
              BY <1>3, <1>9, <3>2, <3>5
        <5> QED BY <5>1, <5>2, MaxIs
      <4>3. Continues(tokens', born'[c], OpenTokens(c)', chain'[c])
        <5>1. OpenTokens(c)' # {}
              BY <1>9
        <5> QED BY <1>4, <1>5, <4>2, <5>1, PrefixOfItself DEF Continues, Base
      <4> QED BY <1>9, <3>3, <3>5, <4>1, <4>3 DEF Nested
    <3> QED BY <3>4, <3>5
  <2> QED BY <2>1, <2>2
<1> QED BY <1>6, <1>7, <1>8, <1>12 DEF ScopesInv

(* A scope ends: in reverse order it puts back the chain of the one below. *)
LEMMA ResetInv ==
  ASSUME ScopesInv, NEW c \in Threads, NEW n \in DOMAIN tokens, ResetToken(c, n)
  PROVE  ScopesInv'
<1>1. /\ ScopesTypeOK /\ RunsApart /\ LatestExists
      /\ n \in OpenTokens(c)
      /\ UNCHANGED <<snapshot, born, decision>>
      /\ tokens' = [tokens EXCEPT ![n] = [tokens[n] EXCEPT !.used = TRUE]]
      /\ chain' = [chain EXCEPT ![c] = tokens[n].old]
      /\ orderly' = [orderly EXCEPT ![c] = orderly[c] /\ n = Max(OpenTokens(c))]
      BY DEF ScopesInv, ResetToken, PutBack
<1>2. tokens \in Seq(TokenRecords)
      BY <1>1 DEF ScopesTypeOK
<1>3. \A t \in DOMAIN tokens : tokens[t] \in TokenRecords
      BY <1>2
<1>4. \A t \in DOMAIN tokens :
        /\ tokens[t].context \in Threads /\ tokens[t].old \in Seq(HopRecords)
        /\ tokens[t].hops \in Seq(HopRecords) /\ t \in Nat
  <2>1. DOMAIN tokens \subseteq Nat
        BY <1>2
  <2> QED BY <1>3, <2>1 DEF TokenRecords
<1>5. /\ [tokens[n] EXCEPT !.used = TRUE] \in TokenRecords
      /\ tokens'[n] = [tokens[n] EXCEPT !.used = TRUE]
      /\ DOMAIN tokens' = DOMAIN tokens
      /\ \A t \in DOMAIN tokens \ {n} : tokens'[t] = tokens[t]
      BY <1>1, <1>2, <1>3 DEF TokenRecords
<1>6. tokens' \in Seq(TokenRecords)
      BY <1>1, <1>2, <1>5
<1>7. /\ tokens'[n].used = TRUE
      /\ \A t \in DOMAIN tokens :
           /\ tokens'[t].context = tokens[t].context
           /\ tokens'[t].old = tokens[t].old /\ tokens'[t].hops = tokens[t].hops
      BY <1>3, <1>5 DEF TokenRecords
<1>8. /\ chain'[c] = tokens[n].old /\ \A d \in Threads \ {c} : chain'[d] = chain[d]
      /\ chain' \in [Threads -> Seq(HopRecords)]
      BY <1>1, <1>4 DEF ScopesTypeOK
<1>9. /\ orderly'[c] => orderly[c] /\ n = Max(OpenTokens(c))
      /\ \A d \in Threads \ {c} : orderly'[d] = orderly[d]
      /\ orderly' \in [Threads -> BOOLEAN]
      BY <1>1 DEF ScopesTypeOK
<1>10. ScopesTypeOK'
      BY <1>1, <1>6, <1>8, <1>9 DEF ScopesTypeOK
<1>11. RunsApart'
  <2>1. \A d \in Threads : OneRun(chain'[d])
        BY <1>1, <1>8 DEF RunsApart
  <2> QED BY <1>1, <1>5, <1>7, <2>1 DEF RunsApart
<1>12. LatestExists'
      BY <1>1, <1>5 DEF LatestExists
<1>13. /\ OpenTokens(c)' = OpenTokens(c) \ {n}
       /\ \A d \in Threads \ {c} : OpenTokens(d)' = OpenTokens(d)
  <2>1. tokens[n].context = c
        BY <1>1 DEF OpenTokens
  <2>2. \A t \in DOMAIN tokens \ {n} : tokens'[t].used = tokens[t].used
        BY <1>5
  <2>3. \A d \in Threads, t \in DOMAIN tokens \ {n} :
          t \in OpenTokens(d)' <=> t \in OpenTokens(d)
        BY <1>5, <1>7, <2>2 DEF OpenTokens
  <2>4. \A d \in Threads : n \notin OpenTokens(d)'
        BY <1>7 DEF OpenTokens
  <2>5. \A d \in Threads \ {c} : n \notin OpenTokens(d)
        BY <2>1 DEF OpenTokens
  <2>6. \A d \in Threads : /\ OpenTokens(d) \subseteq DOMAIN tokens
                           /\ OpenTokens(d)' \subseteq DOMAIN tokens
        BY <1>5 DEF OpenTokens
  <2> QED BY <2>3, <2>4, <2>5, <2>6
<1>14. \A start, S, h : S \subseteq DOMAIN tokens /\ Continues(tokens, start, S, h)
                          => Continues(tokens', start, S, h)
  <2> SUFFICES ASSUME NEW start, NEW S \in SUBSET DOMAIN tokens, NEW h,
                      Continues(tokens, start, S, h)
               PROVE  Continues(tokens', start, S, h)
      OBVIOUS
  <2>1. S # {} => Max(S) \in DOMAIN tokens
    <3> SUFFICES ASSUME S # {} PROVE Max(S) \in DOMAIN tokens
        OBVIOUS
    <3>1. PICK m \in S : \A u \in S : m >= u
          BY <1>1 DEF LatestExists
    <3>2. S \in SUBSET Nat
          BY <1>4
    <3> QED BY <3>1, <3>2, MaxIs
  <2> QED BY <1>7, <2>1 DEF Continues, Base
<1>15. ASSUME NEW d \in Threads PROVE Nested(d)'
  <2>0. OpenTokens(d) \subseteq DOMAIN tokens /\ \A t : Below(d, t) \subseteq DOMAIN tokens
        BY DEF OpenTokens, Below
  <2>1. CASE ~orderly'[d]
        BY <2>1 DEF Nested
  <2>2. CASE orderly'[d] /\ d # c
    <3>1. /\ Continues(tokens, born[d], OpenTokens(d), chain[d])
          /\ \A t \in OpenTokens(d) : Continues(tokens, born[d], Below(d, t), tokens[t].old)
          BY <1>9, <2>2 DEF ScopesInv, Nested
    <3>2. \A t : Below(d, t)' = Below(d, t)
          BY <1>13, <2>2 DEF Below
    <3>3. ASSUME NEW t \in OpenTokens(d)'
          PROVE  Continues(tokens', born'[d], Below(d, t)', tokens'[t].old)
      <4>1. t \in OpenTokens(d) /\ t \in DOMAIN tokens
            BY <1>13, <2>0, <2>2, <3>3
      <4>2. Continues(tokens', born[d], Below(d, t), tokens[t].old)
            BY <1>14, <2>0, <3>1, <4>1
      <4> QED BY <1>1, <1>7, <3>2, <4>1, <4>2
    <3>4. Continues(tokens', born'[d], OpenTokens(d)', chain'[d])
          BY <1>1, <1>8, <1>13, <1>14, <2>0, <2>2, <3>1
    <3> QED BY <3>3, <3>4 DEF Nested
  <2>3. CASE orderly'[d] /\ d = c
    <3>1. \A t \in OpenTokens(c) : Continues(tokens, born[c], Below(c, t), tokens[t].old)
          BY <1>9, <2>3 DEF ScopesInv, Nested
    <3>2. \A u \in OpenTokens(c) : u \in Nat /\ n \in Nat /\ u <= n
      <4>1. OpenTokens(c) # {}
            BY <1>1
      <4>2. PICK m \in OpenTokens(c) : \A u \in OpenTokens(c) : m >= u
            BY <1>1, <2>0, <2>3, <4>1 DEF LatestExists
      <4>3. OpenTokens(c) \in SUBSET Nat
            BY <1>4, <2>0, <2>3
      <4>4. n = m
            BY <1>9, <2>3, <4>2, <4>3, MaxIs
      <4> QED BY <4>2, <4>3, <4>4
    <3>3. Below(c, n) = OpenTokens(c)'
          BY <1>13, <3>2 DEF Below
    <3>4. \A t \in OpenTokens(c)' : Below(c, t)' = Below(c, t)
          BY <1>13, <3>2 DEF Below
    <3>5. ASSUME NEW t \in OpenTokens(c)'
          PROVE  Continues(tokens', born'[c], Below(c, t)', tokens'[t].old)
      <4>1. t \in OpenTokens(c) /\ t \in DOMAIN tokens
            BY <1>13, <2>0, <2>3, <3>5
      <4>2. Continues(tokens', born[c], Below(c, t), tokens[t].old)
            BY <1>14, <2>0, <2>3, <3>1, <4>1
      <4> QED BY <1>1, <1>7, <3>4, <3>5, <4>1, <4>2
    <3>6. Continues(tokens', born'[c], OpenTokens(c)', chain'[c])
      <4>1. Continues(tokens, born[c], Below(c, n), tokens[n].old)
            BY <1>1, <3>1
      <4>2. Continues(tokens', born[c], Below(c, n), tokens[n].old)
            BY <1>14, <2>0, <2>3, <4>1
      <4> QED BY <1>1, <1>8, <3>3, <4>2
    <3> QED BY <2>3, <3>5, <3>6 DEF Nested
  <2> QED BY <2>1, <2>2, <2>3
<1> QED BY <1>10, <1>11, <1>12, <1>15 DEF ScopesInv

(* Steps that make and use no token.                                       *)
LEMMA TokensStay ==
  ASSUME ScopesInv, UNCHANGED <<tokens, orderly>>,
         chain' \in [Threads -> Seq(HopRecords)], born' \in [Threads -> Seq(HopRecords)],
         snapshot' \in Seq(HopRecords), decision'.chain \in Seq(HopRecords),
         \A c \in Threads : OneRun(chain'[c]), OneRun(snapshot'), OneRun(decision'.chain),
         \A c \in Threads :
           \/ born'[c] = born[c] /\ chain'[c] = chain[c]
           \/ born'[c] = born[c] /\ chain[c] # << >>
                /\ \E h \in HopRecords : chain'[c] = Append(chain[c], h)
           \/ OpenTokens(c) = {} /\ born'[c] = chain'[c]
  PROVE  ScopesInv'
<1>1. ScopesTypeOK /\ RunsApart /\ LatestExists
      BY DEF ScopesInv
<1>2. ScopesTypeOK'
      BY <1>1 DEF ScopesTypeOK
<1>3. RunsApart' /\ LatestExists'
      BY <1>1 DEF RunsApart, LatestExists
<1>4. ASSUME NEW c \in Threads PROVE Nested(c)'
  <2>1. /\ OpenTokens(c)' = OpenTokens(c)
        /\ \A t : Below(c, t)' = Below(c, t)
        BY DEF OpenTokens, Below
  <2>2. chain[c] \in Seq(HopRecords) /\ chain'[c] \in Seq(HopRecords)
        BY <1>1 DEF ScopesTypeOK
  <2>3. CASE born'[c] = born[c] /\ chain'[c] = chain[c]
        BY <2>1, <2>3 DEF ScopesInv, Nested
  <2>4. CASE /\ born'[c] = born[c] /\ chain[c] # << >>
             /\ \E h \in HopRecords : chain'[c] = Append(chain[c], h)
    <3> SUFFICES ASSUME orderly[c]
                 PROVE  Continues(tokens, born[c], OpenTokens(c), chain'[c])
        BY <2>1, <2>4 DEF ScopesInv, Nested
    <3>1. Continues(tokens, born[c], OpenTokens(c), chain[c])
          BY DEF ScopesInv, Nested
    <3>2. Base(tokens, born[c], OpenTokens(c)) \in Seq(HopRecords)
      <4>1. CASE OpenTokens(c) = {}
            BY <1>1, <4>1 DEF Base, ScopesTypeOK
      <4>2. CASE OpenTokens(c) # {}
        <5>1. PICK m \in OpenTokens(c) : \A u \in OpenTokens(c) : m >= u
              BY <1>1, <4>2 DEF LatestExists, OpenTokens
        <5>2. tokens \in Seq(TokenRecords)
              BY <1>1 DEF ScopesTypeOK
        <5>3. OpenTokens(c) \in SUBSET Nat
              BY <5>2 DEF OpenTokens
        <5>4. Max(OpenTokens(c)) = m
              BY <5>1, <5>3, MaxIs
        <5>5. m \in DOMAIN tokens
              BY <5>1 DEF OpenTokens
        <5>6. tokens[m] \in TokenRecords
              BY <5>2, <5>5
        <5> QED BY <4>2, <5>4, <5>6 DEF Base, TokenRecords
      <4> QED BY <4>1, <4>2
    <3>3. IsPrefix(Base(tokens, born[c], OpenTokens(c)), chain'[c])
          BY <2>2, <2>4, <3>1, <3>2, PrefixOfLonger DEF Continues
    <3>4. ~(OpenTokens(c) = {} /\ born[c] = << >>)
          BY <2>4, <3>1 DEF Continues
    <3> QED BY <3>3, <3>4 DEF Continues
  <2>5. CASE OpenTokens(c) = {} /\ born'[c] = chain'[c]
        BY <2>1, <2>2, <2>5, PrefixOfItself DEF Nested, Continues, Base
  <2> QED BY <2>3, <2>4, <2>5
<1> QED BY <1>2, <1>3, <1>4 DEF ScopesInv

LEMMA DelegateInv ==
  ASSUME ScopesInv, NEW c \in Threads, NEW by \in People \cup {""}, Delegate(c, by)
  PROVE  ScopesInv'
<1> DEFINE last == chain[c][Len(chain[c])]
           h == Hop(IF by = "" THEN last.principal ELSE by, last.run)
<1>1. /\ ScopesTypeOK /\ RunsApart /\ chain[c] # << >>
      /\ chain' = [chain EXCEPT ![c] = Append(chain[c], h)]
      /\ UNCHANGED <<tokens, snapshot, born, orderly, decision>>
      BY DEF ScopesInv, Delegate, Last
<1>2. chain[c] \in Seq(HopRecords) /\ OneRun(chain[c])
      BY <1>1 DEF ScopesTypeOK, RunsApart
<1>3. /\ last \in HopRecords /\ Len(chain[c]) \in DOMAIN chain[c]
      /\ 1 \in DOMAIN chain[c]
      BY <1>1, <1>2, NonEmptyFacts
<1>4. last.principal \in People /\ last.run \in Nat /\ last.run = chain[c][1].run
      BY <1>2, <1>3 DEF HopRecords, OneRun
<1>5. h \in HopRecords /\ h.run = last.run
      BY <1>4 DEF Hop, HopRecords
<1> HIDE DEF h, last
<1>6. /\ chain'[c] = Append(chain[c], h) /\ \A d \in Threads \ {c} : chain'[d] = chain[d]
      /\ chain' \in [Threads -> Seq(HopRecords)]
  <2>1. Append(chain[c], h) \in Seq(HopRecords)
        BY <1>2, <1>5, AppendFacts
  <2> QED BY <1>1, <2>1 DEF ScopesTypeOK
<1>7. OneRun(Append(chain[c], h))
      BY <1>1, <1>2, <1>4, <1>5, OneRunAppend DEF last
<1>8. \A d \in Threads : OneRun(chain'[d])
      BY <1>1, <1>6, <1>7 DEF RunsApart
<1>9. \A d \in Threads :
        \/ born'[d] = born[d] /\ chain'[d] = chain[d]
        \/ born'[d] = born[d] /\ chain[d] # << >>
             /\ \E x \in HopRecords : chain'[d] = Append(chain[d], x)
      BY <1>1, <1>5, <1>6
<1> QED BY <1>1, <1>6, <1>8, <1>9, TokensStay DEF ScopesTypeOK, RunsApart

LEMMA CreateTaskInv ==
  ASSUME ScopesInv, NEW c \in Threads, NEW d \in Threads, CreateTask(c, d)
  PROVE  ScopesInv'
<1>1. /\ ScopesTypeOK /\ RunsApart
      /\ chain' = [chain EXCEPT ![d] = chain[c]] /\ born' = [born EXCEPT ![d] = chain[c]]
      /\ \A t \in DOMAIN tokens : tokens[t].context # d
      /\ UNCHANGED <<tokens, snapshot, orderly, decision>>
      BY DEF ScopesInv, CreateTask
<1>2. /\ chain'[d] = chain[c] /\ born'[d] = chain[c]
      /\ \A e \in Threads \ {d} : chain'[e] = chain[e] /\ born'[e] = born[e]
      /\ chain' \in [Threads -> Seq(HopRecords)] /\ born' \in [Threads -> Seq(HopRecords)]
      BY <1>1 DEF ScopesTypeOK
<1>3. OpenTokens(d) = {}
      BY <1>1 DEF OpenTokens
<1>4. \A e \in Threads : OneRun(chain'[e])
      BY <1>1, <1>2 DEF RunsApart
<1>5. \A e \in Threads :
        \/ born'[e] = born[e] /\ chain'[e] = chain[e]
        \/ OpenTokens(e) = {} /\ born'[e] = chain'[e]
      BY <1>2, <1>3
<1> QED BY <1>1, <1>2, <1>4, <1>5, TokensStay DEF ScopesTypeOK, RunsApart

LEMMA KeepChainInv ==
  ASSUME ScopesInv, NEW c \in Threads, CarryContext(c) \/ AssembleDecisionRecord(c)
  PROVE  ScopesInv'
<1>1. ScopesTypeOK /\ RunsApart /\ UNCHANGED <<chain, tokens, born, orderly>>
      BY DEF ScopesInv, CarryContext, AssembleDecisionRecord
<1>2. /\ snapshot' \in {snapshot, chain[c]}
      /\ decision'.chain \in {decision.chain, chain[c]}
      BY DEF CarryContext, AssembleDecisionRecord
<1> QED BY <1>1, <1>2, TokensStay DEF ScopesTypeOK, RunsApart

LEMMA ScopesStep == ScopesInv /\ [ScopesNext]_scopeVars => ScopesInv'
<1> SUFFICES ASSUME ScopesInv, [ScopesNext]_scopeVars PROVE ScopesInv'
    OBVIOUS
<1>1. ScopesTypeOK /\ RunsApart
      BY DEF ScopesInv
<1>2. ASSUME NEW c \in Threads, NEW p \in People, StartChain(c, p) PROVE ScopesInv'
  <2>1. Hop(p, Len(tokens) + 1) \in HopRecords
        BY <1>1 DEF Hop, HopRecords, ScopesTypeOK
  <2>2. /\ <<Hop(p, Len(tokens) + 1)>> \in Seq(HopRecords)
        /\ OneRun(<<Hop(p, Len(tokens) + 1)>>)
        BY <2>1 DEF OneRun
  <2> QED BY <1>2, <2>2, SetInv DEF StartChain
<1>3. ASSUME NEW c \in Threads, ApplyContext(c) PROVE ScopesInv'
      BY <1>1, <1>3, SetInv DEF ApplyContext, ScopesTypeOK, RunsApart
<1>4. CASE UNCHANGED scopeVars
      BY <1>1, <1>4, TokensStay DEF scopeVars, ScopesTypeOK, RunsApart
<1> QED BY <1>2, <1>3, <1>4, ResetInv, DelegateInv, CreateTaskInv, KeepChainInv
        DEF ScopesNext

(* However threads and tasks enter and leave scopes, hand chains over and  *)
(* delegate, a chain and a decision record are of one run, and a scope     *)
(* that ended in its turn lends its authority to nothing after it.         *)
THEOREM ScopesAreNested == ScopesSpec => []ScopesNest
<1>1. ScopesInv => ScopesNest
  <2> SUFFICES ASSUME ScopesInv PROVE ScopesNest
      OBVIOUS
  <2>1. ScopesTypeOK /\ RunsApart
        BY DEF ScopesInv
  <2>2. \A hops \in Range(chain) \cup {snapshot, decision.chain} : OneRun(hops)
    <3>1. \A hops \in Range(chain) : \E c \in Threads : hops = chain[c]
          BY <2>1 DEF Range, ScopesTypeOK
    <3> QED BY <2>1, <3>1 DEF RunsApart
  <2>3. \A c \in Threads : orderly[c] => Continues(tokens, born[c], OpenTokens(c), chain[c])
        BY DEF ScopesInv, Nested
  <2> QED BY <2>2, <2>3 DEF ScopesNest, OneRun, Continues, Base
<1> QED BY ScopesInitInv, ScopesStep, <1>1, PTL DEF ScopesSpec

-----------------------------------------------------------------------------
(* The guarded calls.  What the span of a call says is fixed when it ends, *)
(* and the calls that are still open are those on the stack, each once.    *)
CallRecords ==
  [prompt : Prompts, system : SystemPrompts, threshold : Thresholds,
   input : {"allow", "flag", "block"}, detected : BOOLEAN,
   output : {"not_evaluated", "absent", "allow", "block"}, model : BOOLEAN,
   completion : Completions \cup {"none"}, ended : {"open", "returned", "raised"}]

SoundCall(g) ==
  /\ g.input = InputAction(g.prompt, g.threshold)
  /\ g.model <=> g.input # "block"
  /\ g.detected <=> g.prompt # {}
  /\ g.completion # "none" => g.model /\ ~Leaks(g.completion, g.system)
  /\ g.ended = "open" => g.input # "block"
  /\ g.ended = "returned" => (g.completion = "none" <=> g.input = "block" \/ g.output = "block")

OpenOnce ==
  /\ openSpans \in Seq(DOMAIN guarded)
  /\ \A k \in DOMAIN openSpans : guarded[openSpans[k]].ended = "open"
  /\ \A k, l \in DOMAIN openSpans : openSpans[k] = openSpans[l] => k = l

Occurs(i, q) == \E k \in DOMAIN q : q[k] = i

EventOnce ==
  /\ events \in Seq(DOMAIN guarded)
  /\ \A j, k \in DOMAIN events : events[j] = events[k] => j = k
  /\ \A i \in DOMAIN guarded :
       Occurs(i, events) <=> guarded[i].prompt # {}

GuardInv ==
  /\ guarded \in Seq(CallRecords)
  /\ \A i \in DOMAIN guarded : SoundCall(guarded[i])
  /\ OpenOnce
  /\ EventOnce

(* An input that matches a pattern has a score, and is let through below   *)
(* the threshold only.                                                     *)
LEMMA InputDecision ==
  ASSUME NEW p \in Prompts, NEW t \in Thresholds
  PROVE  /\ InputAction(p, t) \in {"allow", "flag", "block"}
         /\ InputAction(p, t) # "allow" <=> p # {}
         /\ InputAction(p, t) # "block" => InjectionScore(p) < t \/ p = {}
<1>1. InputAction(p, t) \in {"allow", "flag", "block"} /\ (InputAction(p, t) # "allow" <=> p # {})
      BY DEF InputAction
<1>2. ASSUME p # {} PROVE InjectionScore(p) \in Int
  <2> DEFINE S == {Score(x) : x \in p}
  <2>1. S # {} /\ S \subseteq {55, 90}
        BY <1>2 DEF Score
  <2>2. \E x \in S : \A y \in S : x >= y
    <3>1. CASE 90 \in S
          BY <2>1, <3>1
    <3>2. CASE 90 \notin S
          BY <2>1, <3>2
    <3> QED BY <3>1, <3>2
  <2>3. Max(S) \in S
        BY <2>2 DEF Max
  <2> QED BY <1>2, <2>1, <2>3 DEF InjectionScore
<1>3. ASSUME p # {}, InputAction(p, t) # "block" PROVE InjectionScore(p) < t
  <2>1. ~(InjectionScore(p) >= t)
        BY <1>3 DEF InputAction
  <2>2. t \in Int
        BY GuardOK
  <2> QED BY <1>2, <1>3, <2>1, <2>2
<1> QED BY <1>1, <1>3

LEMMA Fronted ==
  ASSUME NEW S, NEW q \in Seq(S), q # << >>
  PROVE  /\ q[Len(q)] \in S /\ Len(q) \in DOMAIN q
         /\ Front(q) \in Seq(S)
         /\ \A k \in DOMAIN Front(q) : k \in DOMAIN q /\ k # Len(q) /\ Front(q)[k] = q[k]
BY DEF Front

(* An index that is new goes to the end of a sequence without repetition.  *)
LEMMA AppendedOnce ==
  ASSUME NEW n \in Nat, NEW q \in Seq(1..n),
         \A k, l \in DOMAIN q : q[k] = q[l] => k = l,
         NEW z, z = Append(q, n + 1)
  PROVE  z \in Seq(1..(n + 1)) /\ \A k, l \in DOMAIN z : z[k] = z[l] => k = l
<1>1. q \in Seq(1..(n + 1)) /\ z \in Seq(1..(n + 1)) /\ Len(z) = Len(q) + 1 /\ Len(q) \in Nat
      OBVIOUS
<1>2. /\ z[Len(q) + 1] = n + 1 /\ DOMAIN z = 1..(Len(q) + 1) /\ DOMAIN q = 1..Len(q)
      /\ \A k \in DOMAIN q : z[k] = q[k] /\ q[k] \in 1..n
      OBVIOUS
<1>3. \A k \in DOMAIN z : k \in DOMAIN q \/ k = Len(q) + 1
      BY <1>1, <1>2
<1>4. \A k \in DOMAIN q : z[k] # n + 1
      BY <1>2
<1> QED BY <1>1, <1>2, <1>3, <1>4

LEMMA NewOccurs ==
  ASSUME NEW n \in Nat, NEW q \in Seq(1..n), NEW z, z = Append(q, n + 1)
  PROVE  Occurs(n + 1, z) /\ ~Occurs(n + 1, q)
<1>1. /\ z[Len(q) + 1] = n + 1 /\ Len(q) + 1 \in DOMAIN z
      /\ \A k \in DOMAIN q : q[k] \in 1..n
      OBVIOUS
<1> QED BY <1>1 DEF Occurs

LEMMA OldOccurs ==
  ASSUME NEW n \in Nat, NEW q \in Seq(1..n), NEW z, z = Append(q, n + 1), NEW i \in 1..n
  PROVE  Occurs(i, z) <=> Occurs(i, q)
<1>1. /\ z[Len(q) + 1] = n + 1 /\ DOMAIN z = 1..(Len(q) + 1) /\ DOMAIN q = 1..Len(q)
      /\ \A k \in DOMAIN q : z[k] = q[k]
      /\ Len(q) \in Nat
      OBVIOUS
<1>2. i # n + 1 /\ DOMAIN q \subseteq DOMAIN z
      BY <1>1
<1>3. \A k \in DOMAIN z : k \in DOMAIN q \/ k = Len(q) + 1
      BY <1>1
<1> QED BY <1>1, <1>2, <1>3 DEF Occurs

LEMMA CallGuardedStep ==
  ASSUME GuardInv, NEW p \in Prompts, NEW s \in SystemPrompts, NEW t \in Thresholds,
         CallGuarded(p, s, t)
  PROVE  GuardInv'
<1> DEFINE a == InputAction(p, t)
           n == Len(guarded)
           g == [prompt |-> p, system |-> s, threshold |-> t,
                 input |-> a, detected |-> a # "allow",
                 output |-> IF a = "block" THEN "not_evaluated" ELSE "absent",
                 model |-> a # "block", completion |-> "none",
                 ended |-> IF a = "block" THEN "returned" ELSE "open"]
<1>1. /\ guarded' = Append(guarded, g)
      /\ openSpans' = IF a = "block" THEN openSpans ELSE Append(openSpans, n + 1)
      /\ events' = IF p = {} THEN events ELSE Append(events, n + 1)
      BY DEF CallGuarded
<1>2. /\ guarded \in Seq(CallRecords) /\ n \in Nat /\ DOMAIN guarded = 1..n
      /\ OpenOnce /\ EventOnce
      BY DEF GuardInv
<1>3. a \in {"allow", "flag", "block"} /\ (a # "allow" <=> p # {})
      BY InputDecision
<1>4. /\ g.prompt = p /\ g.ended = (IF a = "block" THEN "returned" ELSE "open")
      /\ SoundCall(g)
      BY <1>3 DEF SoundCall
<1>5. g \in CallRecords
  <2> HIDE DEF a
  <2> QED BY <1>3 DEF CallRecords
<1> HIDE DEF g
<1>6. /\ guarded' \in Seq(CallRecords) /\ DOMAIN guarded' = 1..(n + 1)
      /\ guarded'[n + 1] = g /\ \A i \in 1..n : guarded'[i] = guarded[i]
      BY <1>1, <1>2, <1>5
<1> HIDE DEF n
<1>7. \A i \in DOMAIN guarded' : SoundCall(guarded'[i])
  <2>1. \A i \in 1..(n + 1) : i \in 1..n \/ i = n + 1
        BY <1>2
  <2>2. \A i \in 1..n : SoundCall(guarded[i])
        BY <1>2 DEF GuardInv
  <2> QED BY <1>4, <1>6, <2>1, <2>2
<1>8. OpenOnce'
  <2>1. /\ openSpans \in Seq(1..n) /\ \A k \in DOMAIN openSpans : openSpans[k] \in 1..n
        /\ \A k \in DOMAIN openSpans : guarded[openSpans[k]].ended = "open"
        /\ \A k, l \in DOMAIN openSpans : openSpans[k] = openSpans[l] => k = l
        BY <1>2 DEF OpenOnce
  <2>2. CASE a = "block"
    <3>1. openSpans' = openSpans
          BY <1>1, <2>2
    <3>2. openSpans \in Seq(1..(n + 1))
          BY <1>2, <2>1
    <3> QED BY <1>6, <2>1, <3>1, <3>2 DEF OpenOnce
  <2>3. CASE a # "block"
    <3>1. openSpans' = Append(openSpans, n + 1) /\ g.ended = "open"
          BY <1>1, <1>4, <2>3
    <3>2. /\ openSpans' \in Seq(1..(n + 1))
          /\ \A k, l \in DOMAIN openSpans' : openSpans'[k] = openSpans'[l] => k = l
          BY <1>2, <2>1, <3>1, AppendedOnce
    <3>3. \A k \in DOMAIN openSpans' :
            (k \in DOMAIN openSpans /\ openSpans'[k] = openSpans[k]) \/ openSpans'[k] = n + 1
          BY <2>1, <3>1
    <3>4. \A k \in DOMAIN openSpans' : guarded'[openSpans'[k]].ended = "open"
          BY <1>6, <2>1, <3>1, <3>3
    <3> QED BY <1>6, <3>2, <3>4 DEF OpenOnce
  <2> QED BY <2>2, <2>3
<1>9. EventOnce'
  <2>1. /\ events \in Seq(1..n)
        /\ \A j, k \in DOMAIN events : events[j] = events[k] => j = k
        /\ \A i \in 1..n : Occurs(i, events) <=> guarded[i].prompt # {}
        BY <1>2 DEF EventOnce
  <2>2. CASE p = {}
    <3>1. events' = events
          BY <1>1, <2>2
    <3>2. events \in Seq(1..(n + 1)) /\ ~Occurs(n + 1, events)
          BY <1>2, <2>1 DEF Occurs
    <3>3. ASSUME NEW i \in 1..(n + 1)
          PROVE  Occurs(i, events) <=> guarded'[i].prompt # {}
      <4>1. CASE i \in 1..n
            BY <1>6, <2>1, <4>1
      <4>2. CASE i = n + 1
            BY <1>4, <1>6, <2>2, <3>2, <4>2
      <4> QED BY <1>2, <4>1, <4>2
    <3> QED BY <1>6, <2>1, <3>1, <3>2, <3>3 DEF EventOnce
  <2>3. CASE p # {}
    <3>1. PICK z : z = Append(events, n + 1) /\ events' = z
          BY <1>1, <2>3
    <3>2. /\ z \in Seq(1..(n + 1))
          /\ \A j, k \in DOMAIN z : z[j] = z[k] => j = k
          /\ \A i \in 1..n : Occurs(i, z) <=> Occurs(i, events)
          /\ Occurs(n + 1, z)
      <4>1. n \in Nat /\ events \in Seq(1..n) /\ z = Append(events, n + 1)
            BY <1>2, <2>1, <3>1
      <4>2. \A j, k \in DOMAIN events : events[j] = events[k] => j = k
            BY <2>1
      <4>3. z \in Seq(1..(n + 1)) /\ \A j, k \in DOMAIN z : z[j] = z[k] => j = k
            BY <4>1, <4>2, AppendedOnce
      <4>4. Occurs(n + 1, z)
            BY <4>1, NewOccurs
      <4>5. ASSUME NEW i \in 1..n PROVE Occurs(i, z) <=> Occurs(i, events)
            BY <4>1, OldOccurs
      <4> QED BY <4>3, <4>4, <4>5
    <3>3. ASSUME NEW i \in 1..(n + 1)
          PROVE  Occurs(i, z) <=> guarded'[i].prompt # {}
      <4>1. CASE i \in 1..n
            BY <1>6, <2>1, <3>2, <4>1
      <4>2. CASE i = n + 1
            BY <1>4, <1>6, <2>3, <3>2, <4>2
      <4> QED BY <1>2, <4>1, <4>2
    <3> QED BY <1>6, <3>1, <3>2, <3>3 DEF EventOnce
  <2> QED BY <2>2, <2>3
<1> QED BY <1>6, <1>7, <1>8, <1>9 DEF GuardInv

(* Both ways for the innermost call to end.                                *)
LEMMA EndStep ==
  ASSUME GuardInv, openSpans # << >>,
         NEW o \in {"absent", "allow", "block"}, NEW z \in Completions \cup {"none"},
         NEW h \in {"returned", "raised"},
         z # "none" => ~Leaks(z, guarded[Current].system),
         h = "returned" => (z = "none" <=> o = "block"),
         End(o, z, h)
  PROVE  GuardInv'
<1> DEFINE g == guarded[Current]
           e == [g EXCEPT !.output = o, !.completion = z, !.ended = h]
           n == Len(guarded)
<1>1. /\ guarded \in Seq(CallRecords) /\ DOMAIN guarded = 1..n /\ n \in Nat
      /\ openSpans \in Seq(1..n) /\ OpenOnce /\ EventOnce
      /\ \A i \in 1..n : SoundCall(guarded[i])
      BY DEF GuardInv, OpenOnce
<1>2. /\ guarded' = [guarded EXCEPT ![Current] = e]
      /\ openSpans' = Front(openSpans) /\ events' = events
      BY DEF End
<1>3. Current \in 1..n /\ Len(openSpans) \in DOMAIN openSpans
      BY <1>1, Fronted DEF Current
<1>4. g \in CallRecords /\ SoundCall(g) /\ g.ended = "open"
      BY <1>1, <1>3 DEF OpenOnce, Current
<1>5. /\ e \in CallRecords
      /\ e.prompt = g.prompt /\ e.system = g.system /\ e.threshold = g.threshold
      /\ e.input = g.input /\ e.detected = g.detected /\ e.model = g.model
      /\ e.output = o /\ e.completion = z /\ e.ended = h
  <2>1. e = [g EXCEPT !.output = o, !.completion = z, !.ended = h]
        OBVIOUS
  <2> HIDE DEF g, e
  <2> QED BY <1>4, <2>1 DEF CallRecords
<1>6. SoundCall(e)
  <2> HIDE DEF e
  <2>1. z # "none" => ~Leaks(z, g.system)
        OBVIOUS
  <2> HIDE DEF g
  <2> QED BY <1>4, <1>5, <2>1 DEF SoundCall
<1> HIDE DEF e
<1>7. /\ guarded' \in Seq(CallRecords) /\ DOMAIN guarded' = 1..n /\ guarded'[Current] = e
      /\ \A i \in 1..n \ {Current} : guarded'[i] = guarded[i]
  <2> HIDE DEF n
  <2>1. Len(guarded) = n
        BY DEF n
  <2> QED BY <1>1, <1>2, <1>3, <1>5, <2>1
<1>8. \A i \in DOMAIN guarded' : SoundCall(guarded'[i])
      BY <1>1, <1>6, <1>7
<1>9. OpenOnce'
  <2>1. /\ openSpans' \in Seq(1..n)
        /\ \A k \in DOMAIN openSpans' : k \in DOMAIN openSpans /\ k # Len(openSpans)
                                      /\ openSpans'[k] = openSpans[k]
        BY <1>1, <1>2, Fronted
  <2>2. ASSUME NEW k \in DOMAIN openSpans' PROVE guarded'[openSpans'[k]].ended = "open"
    <3>1. openSpans[k] \in 1..n /\ openSpans[k] # Current
      <4>1. k \in DOMAIN openSpans /\ k # Len(openSpans)
            BY <2>1
      <4>2. openSpans[k] \in 1..n
            BY <1>1, <4>1
      <4> QED BY <1>1, <1>3, <4>1, <4>2 DEF OpenOnce, Current
    <3> QED BY <1>1, <1>7, <2>1, <3>1 DEF OpenOnce
  <2>3. \A k, l \in DOMAIN openSpans' : openSpans'[k] = openSpans'[l] => k = l
        BY <1>1, <2>1 DEF OpenOnce
  <2> QED BY <1>7, <2>1, <2>2, <2>3 DEF OpenOnce
<1>10. EventOnce'
  <2>1. \A i \in 1..n : guarded'[i].prompt = guarded[i].prompt
        BY <1>5, <1>7
  <2>2. /\ events \in Seq(1..n)
        /\ \A j, k \in DOMAIN events : events[j] = events[k] => j = k
        /\ \A i \in 1..n : Occurs(i, events) <=> guarded[i].prompt # {}
        BY <1>1 DEF EventOnce
  <2> HIDE DEF n
  <2> QED BY <1>2, <1>7, <2>1, <2>2 DEF EventOnce
<1> QED BY <1>7, <1>8, <1>9, <1>10 DEF GuardInv

LEMMA GuardStep == GuardInv /\ [GuardNext]_guardVars => GuardInv'
<1> SUFFICES ASSUME GuardInv, [GuardNext]_guardVars PROVE GuardInv'
    OBVIOUS
<1>1. ASSUME NEW p \in Prompts, NEW s \in SystemPrompts, NEW t \in Thresholds,
             CallGuarded(p, s, t)
      PROVE  GuardInv'
      BY <1>1, CallGuardedStep
<1>2. ASSUME NEW c \in Completions, ModelAnswers(c) PROVE GuardInv'
  <2> DEFINE o == OutputAction(guarded[Current], c)
             z == IF o = "block" THEN "none" ELSE c
  <2>1. openSpans # << >> /\ End(o, z, "returned")
        BY <1>2 DEF ModelAnswers
  <2>2. /\ o \in {"absent", "allow", "block"} /\ z \in Completions \cup {"none"}
        /\ z # "none" => ~Leaks(z, guarded[Current].system)
        /\ z = "none" <=> o = "block"
        BY GuardOK DEF OutputAction
  <2> HIDE DEF o, z
  <2> QED BY <2>1, <2>2, EndStep
<1>3. CASE ModelRaises
      BY <1>3, EndStep DEF ModelRaises
<1>4. CASE UNCHANGED guardVars
      BY <1>4 DEF guardVars, GuardInv, OpenOnce, EventOnce, Occurs
<1> QED BY <1>1, <1>2, <1>3, <1>4 DEF GuardNext

(* chapters/ch10/guardrails.py guarded_call: for any prompts, models,      *)
(* system prompts and thresholds, nested or failing at any depth, no       *)
(* completion that a caller gets has Shingle words of the system prompt in *)
(* a row with single spaces between them, no model runs on a blocked       *)
(* input, and spans and events account for every call.                     *)
THEOREM GuardrailsHold == GuardSpec => []GuardrailsAccountable
<1>1. GuardInit => GuardInv
      BY DEF GuardInit, GuardInv, OpenOnce, EventOnce
<1>2. GuardInv => GuardrailsAccountable
  <2> SUFFICES ASSUME GuardInv PROVE GuardrailsAccountable
      OBVIOUS
  <2>1. ASSUME NEW i \in DOMAIN guarded
        PROVE  /\ guarded[i] \in CallRecords /\ SoundCall(guarded[i])
               /\ guarded[i].prompt \in Prompts /\ guarded[i].threshold \in Thresholds
    <3>1. guarded[i] \in CallRecords /\ SoundCall(guarded[i])
          BY DEF GuardInv
    <3> QED BY <3>1 DEF CallRecords
  <2>2. ASSUME NEW i \in Ended
        PROVE  LET g == guarded[i] IN
                 /\ g.completion # "none" => g.model /\ ~Leaks(g.completion, g.system)
                 /\ g.model => InjectionScore(g.prompt) < g.threshold \/ g.prompt = {}
                 /\ g.ended = "returned" => (g.completion = "none" <=> Stopped(i))
    <3>1. i \in DOMAIN guarded
          BY DEF Ended
    <3>2. guarded[i].input # "block" =>
            InjectionScore(guarded[i].prompt) < guarded[i].threshold \/ guarded[i].prompt = {}
          BY <2>1, <3>1, InputDecision DEF SoundCall
    <3> QED BY <2>1, <3>1, <3>2 DEF SoundCall, Stopped
  <2>3. ASSUME NEW i \in DOMAIN guarded
        PROVE  LET n == Cardinality({j \in DOMAIN events : events[j] = i}) IN
                 /\ n = (IF guarded[i].prompt = {} THEN 0 ELSE 1)
                 /\ guarded[i].detected <=> n = 1
    <3> DEFINE E == {j \in DOMAIN events : events[j] = i}
    <3>1. guarded[i].detected <=> guarded[i].prompt # {}
          BY <2>1 DEF SoundCall
    <3>2. /\ \A j, k \in DOMAIN events : events[j] = events[k] => j = k
          /\ Occurs(i, events) <=> guarded[i].prompt # {}
          BY DEF GuardInv, EventOnce
    <3>3. CASE guarded[i].prompt = {}
      <4>1. E = {}
            BY <3>2, <3>3 DEF Occurs
      <4>2. Cardinality(E) = 0
            BY <4>1, FS_EmptySet
      <4> QED BY <3>1, <3>3, <4>2
    <3>4. CASE guarded[i].prompt # {}
      <4>1. PICK j \in DOMAIN events : events[j] = i
            BY <3>2, <3>4 DEF Occurs
      <4>2. E = {j}
            BY <3>2, <4>1
      <4>3. Cardinality(E) = 1
            BY <4>2, FS_Singleton
      <4> QED BY <3>1, <3>4, <4>3
    <3> QED BY <3>3, <3>4
  <2> QED BY <2>2, <2>3 DEF GuardrailsAccountable
<1>3. GuardSpec => []GuardInv
      BY <1>1, GuardStep, PTL DEF GuardSpec
<1> QED BY <1>2, <1>3, PTL

-----------------------------------------------------------------------------
(* The registry.  What was registered before a module's code raised stays, *)
(* so that the module's first example is refused when the import is        *)
(* retried; and once every module is imported none is imported again, so   *)
(* that what an answer was taken from stays as it was.                     *)
Specs == [chapter : Int, key : Int, pillar : STRING]

LEMMA DeclaresAre ==
  /\ Declares \in Seq(Seq(Specs))
  /\ \A m \in DOMAIN Declares : Declares[m] \in Seq(Specs)
<1>1. Declares \in Seq(Seq(Specs))
      BY RegistryOK DEF Specs
<1> QED BY <1>1

(* Every example that is registered is declared and has its id to itself.  *)
IdsDiffer(specs) == \A i, j \in DOMAIN specs : i # j => Id(specs[i]) # Id(specs[j])

Registers(specs, spec) == \E j \in DOMAIN specs : specs[j] = spec

Kept == [module : DOMAIN Declares, kept : Nat]

(* A module that kept an example is never imported: its first one is there.*)
Barred(entry, specs, modules) ==
  entry.kept > 0 =>
    /\ entry.module \notin modules
    /\ Declares[entry.module] # << >>
    /\ Id(Declares[entry.module][1]) \in Ids(specs)

(* What was asked of the examples declared, in order, each once.           *)
InFull(found, wanted) ==
  /\ {found[i] : i \in DOMAIN found} = wanted
  /\ Len(found) = Cardinality(wanted)
  /\ \A i \in 1..(Len(found) - 1) : Before(found[i], found[i + 1])

Covered == {s.chapter : s \in Declared}

Answered(answer) ==
  /\ InFull(answer.specs, {s \in Declared : Asked(s, answer.chapter, answer.wanted, answer.pillar)})
  /\ answer.uncovered = (1..LastChapter) \ Covered

RegistryInv ==
  /\ registered \in Seq(Specs) /\ IdsDiffer(registered)
  /\ \A i \in DOMAIN registered : registered[i] \in Declared
  /\ imported \in SUBSET DOMAIN Declares
  /\ \A m \in imported : \A i \in DOMAIN Declares[m] : Registers(registered, Declares[m][i])
  /\ failed \in Seq(Kept)
  /\ \A i \in DOMAIN failed : Barred(failed[i], registered, imported)
  /\ answers # << >> => imported = DOMAIN Declares /\ Answered(answers)

(* The examples of a body that are registered: up to the first one at      *)
(* which something raises.                                                 *)
Stops(declared, stop, taken, i) ==
  \/ i = stop
  \/ declared[i].chapter \notin 1..LastChapter
  \/ Id(declared[i]) \in taken \cup Ids(SubSeq(declared, 1, i - 1))

LEMMA RunsToIs ==
  ASSUME NEW declared \in Seq(Specs), NEW stop, NEW taken,
         NEW k, k = RunsTo(declared, stop, taken)
  PROVE  /\ k \in 0..Len(declared)
         /\ \A i \in 1..k : ~Stops(declared, stop, taken, i)
         /\ k < Len(declared) => Stops(declared, stop, taken, k + 1)
<1> DEFINE stops == {i \in DOMAIN declared : Stops(declared, stop, taken, i)}
<1>1. k = IF stops = {} THEN Len(declared) ELSE (CHOOSE i \in stops : \A j \in stops : i <= j) - 1
      BY DEF RunsTo, Stops
<1>2. PICK n \in Nat : n = Len(declared) /\ DOMAIN declared = 1..n
      OBVIOUS
<1>3. CASE stops = {}
      BY <1>1, <1>2, <1>3
<1>4. CASE stops # {}
  <2>1. stops \subseteq Nat /\ stops \subseteq 1..n
        BY <1>2
  <2>2. \E i \in stops : \A j \in stops : i <= j
    <3> HIDE DEF stops
    <3> QED BY <1>4, <2>1, SmallestOf
  <2>3. PICK b \in stops : b = k + 1 /\ \A j \in stops : b <= j
    <3>1. PICK b : b = CHOOSE i \in stops : \A j \in stops : i <= j
          OBVIOUS
    <3>2. b \in stops /\ \A j \in stops : b <= j
          BY <2>2, <3>1
    <3>3. k = b - 1
          BY <1>1, <1>4, <3>1
    <3>4. b \in 1..n
          BY <2>1, <3>2
    <3>5. b = k + 1
          BY <3>3, <3>4
    <3> QED BY <3>2, <3>5
  <2>4. b \in 1..n /\ k = b - 1
    <3>1. b \in 1..n
          BY <2>1
    <3>2. k = (CHOOSE i \in stops : \A j \in stops : i <= j) - 1
          BY <1>1, <1>4
    <3>3. PICK c \in 1..n : c = CHOOSE i \in stops : \A j \in stops : i <= j
          BY <2>1, <2>2
    <3>4. k \in Int
          BY <3>2, <3>3
    <3> QED BY <2>3, <3>1, <3>4
  <2>5. k \in 0..n /\ \A i \in 1..k : i \in DOMAIN declared /\ ~(b <= i)
        BY <1>2, <2>4
  <2>6. \A i \in 1..k : i \notin stops
        BY <2>3, <2>5
  <2> QED BY <1>2, <2>3, <2>5, <2>6
<1> QED BY <1>3, <1>4

LEMMA IdsOfPart ==
  ASSUME NEW declared \in Seq(Specs), NEW i \in 1..Len(declared), NEW j \in 1..(i - 1)
  PROVE  Id(declared[j]) \in Ids(SubSeq(declared, 1, i - 1))
<1>1. PICK part : part = SubSeq(declared, 1, i - 1)
      OBVIOUS
<1>2. Len(declared) \in Nat /\ i - 1 \in 0..Len(declared)
      OBVIOUS
<1>3. DOMAIN part = 1..(i - 1) /\ part[j] = declared[j]
      BY <1>1, <1>2
<1> QED BY <1>1, <1>3 DEF Ids

(* What one import adds to the registry.                                   *)
Adds(more, specs, declared, k) ==
  /\ more \in Seq(Specs) /\ IdsDiffer(more)
  /\ \A i \in DOMAIN specs : i \in DOMAIN more /\ more[i] = specs[i]
  /\ \A i \in 1..k : Registers(more, declared[i])
  /\ \A i \in DOMAIN more : Registers(specs, more[i]) \/ \E j \in 1..k : more[i] = declared[j]

LEMMA BodyRegisters ==
  ASSUME NEW specs \in Seq(Specs), IdsDiffer(specs),
         NEW declared \in Seq(Specs), NEW stop, NEW k, k = RunsTo(declared, stop, Ids(specs)),
         NEW more, more = specs \o SubSeq(declared, 1, k)
  PROVE  Adds(more, specs, declared, k)
<1>1. /\ k \in 0..Len(declared)
      /\ \A i \in 1..k : ~Stops(declared, stop, Ids(specs), i)
      BY RunsToIs
<1>2. PICK n, m \in Nat : n = Len(specs) /\ m = Len(declared)
      OBVIOUS
<1>3. PICK part : part = SubSeq(declared, 1, k)
      OBVIOUS
<1>4. part \in Seq(Specs) /\ Len(part) = k /\ \A i \in 1..k : part[i] = declared[i]
      BY <1>1, <1>2, <1>3
<1>5. /\ more \in Seq(Specs) /\ Len(more) = n + k /\ DOMAIN more = 1..(n + k)
      /\ \A i \in 1..n : more[i] = specs[i]
      /\ \A i \in (n + 1)..(n + k) : more[i] = part[i - n]
      BY <1>1, <1>2, <1>3, <1>4
<1>6. \A i \in 1..(n + k) : i \in 1..n \/ (i \in (n + 1)..(n + k) /\ i - n \in 1..k)
      BY <1>1, <1>2
<1>7. \A i \in (n + 1)..(n + k) : i - n \in 1..k /\ more[i] = declared[i - n]
      BY <1>1, <1>2, <1>4, <1>5
<1>8. \A i \in 1..k : i + n \in (n + 1)..(n + k) /\ i + n \in 1..(n + k) /\ more[i + n] = declared[i]
  <2> SUFFICES ASSUME NEW i \in 1..k
               PROVE  i + n \in (n + 1)..(n + k) /\ i + n \in 1..(n + k) /\ more[i + n] = declared[i]
      OBVIOUS
  <2>1. i + n \in (n + 1)..(n + k) /\ i + n \in 1..(n + k) /\ (i + n) - n = i
        BY <1>1, <1>2
  <2> QED BY <1>7, <2>1
<1>9. \A i \in 1..k : \A j \in 1..n : Id(declared[i]) # Id(specs[j])
  <2> SUFFICES ASSUME NEW i \in 1..k, NEW j \in 1..n PROVE Id(declared[i]) # Id(specs[j])
      OBVIOUS
  <2>1. Id(declared[i]) \notin Ids(specs)
        BY <1>1 DEF Stops
  <2>2. Id(specs[j]) \in Ids(specs)
        BY <1>2 DEF Ids
  <2> QED BY <2>1, <2>2
<1>10. \A i, j \in 1..k : j < i => Id(declared[i]) # Id(declared[j])
  <2> SUFFICES ASSUME NEW i \in 1..k, NEW j \in 1..k, j < i
               PROVE  Id(declared[i]) # Id(declared[j])
      OBVIOUS
  <2>1. i \in 1..Len(declared) /\ j \in 1..(i - 1)
        BY <1>1, <1>2
  <2>2. Id(declared[i]) \notin Ids(SubSeq(declared, 1, i - 1))
        BY <1>1 DEF Stops
  <2> QED BY <2>1, <2>2, IdsOfPart
<1>11. \A i, j \in 1..(n + k) : j < i => Id(more[i]) # Id(more[j])
  <2> SUFFICES ASSUME NEW i \in 1..(n + k), NEW j \in 1..(n + k), j < i
               PROVE  Id(more[i]) # Id(more[j])
      OBVIOUS
  <2>1. CASE i \in 1..n
    <3>1. j \in 1..n
          BY <1>2, <2>1
    <3>2. i # j /\ i \in DOMAIN specs /\ j \in DOMAIN specs
          BY <1>2, <2>1, <3>1
    <3>3. Id(specs[i]) # Id(specs[j])
          BY <3>2 DEF IdsDiffer
    <3> QED BY <1>5, <2>1, <3>1, <3>3
  <2>2. CASE i \in (n + 1)..(n + k)
    <3>1. i - n \in 1..k /\ more[i] = declared[i - n]
          BY <1>7, <2>2
    <3>2. CASE j \in 1..n
      <4>1. Id(declared[i - n]) # Id(specs[j])
            BY <1>9, <3>1, <3>2
      <4> QED BY <1>5, <3>1, <3>2, <4>1
    <3>3. CASE j \in (n + 1)..(n + k)
      <4>1. j - n \in 1..k /\ more[j] = declared[j - n]
            BY <1>7, <3>3
      <4>2. i \in Int /\ j \in Int /\ n \in Int
            BY <1>2
      <4>3. j - n < i - n
            BY <4>2
      <4>4. j - n \in 1..k /\ more[j] = declared[j - n] /\ j - n < i - n
            BY <4>1, <4>3
      <4>5. Id(declared[i - n]) # Id(declared[j - n])
            BY <1>10, <3>1, <4>4
      <4> QED BY <3>1, <4>4, <4>5
    <3> QED BY <1>6, <3>2, <3>3
  <2> QED BY <1>6, <2>1, <2>2
<1>12. IdsDiffer(more)
  <2> SUFFICES ASSUME NEW i \in DOMAIN more, NEW j \in DOMAIN more, i # j
               PROVE  Id(more[i]) # Id(more[j])
      BY DEF IdsDiffer
  <2>1. i \in 1..(n + k) /\ j \in 1..(n + k)
        BY <1>5
  <2>2. i < j \/ j < i
        BY <1>2, <2>1
  <2> QED BY <1>11, <2>1, <2>2
<1>13. \A i \in 1..k : Registers(more, declared[i])
       BY <1>5, <1>8 DEF Registers
<1>14. \A i \in DOMAIN more : Registers(specs, more[i]) \/ \E j \in 1..k : more[i] = declared[j]
  <2> SUFFICES ASSUME NEW i \in 1..(n + k)
               PROVE  Registers(specs, more[i]) \/ \E j \in 1..k : more[i] = declared[j]
      BY <1>5
  <2>1. CASE i \in 1..n
        BY <1>2, <1>5, <2>1 DEF Registers
  <2>2. CASE i \in (n + 1)..(n + k)
        BY <1>7, <2>2
  <2> QED BY <1>6, <2>1, <2>2
<1>15. \A i \in DOMAIN specs : i \in DOMAIN more /\ more[i] = specs[i]
  <2>1. DOMAIN specs = 1..n /\ 1..n \subseteq 1..(n + k)
        BY <1>1, <1>2
  <2> QED BY <1>5, <2>1
<1> QED BY <1>5, <1>12, <1>13, <1>14, <1>15 DEF Adds

-----------------------------------------------------------------------------
LEMMA RegistryInitInv == RegistryInit => RegistryInv
<1> SUFFICES ASSUME RegistryInit PROVE RegistryInv
    OBVIOUS
<1>1. registered = << >> /\ imported = {} /\ failed = << >> /\ answers = << >>
      BY DEF RegistryInit
<1>2. /\ registered \in Seq(Specs) /\ DOMAIN registered = {}
      /\ failed \in Seq(Kept) /\ DOMAIN failed = {}
      BY <1>1
<1> QED BY <1>1, <1>2 DEF RegistryInv, IdsDiffer

LEMMA DeclaredOf ==
  ASSUME NEW m \in DOMAIN Declares, NEW i \in DOMAIN Declares[m]
  PROVE  Declares[m][i] \in Declared
BY DEF Declared

LEMMA BarredLater ==
  ASSUME NEW entry, NEW specs, NEW modules, NEW more, NEW others,
         Barred(entry, specs, modules),
         \A i \in DOMAIN specs : i \in DOMAIN more /\ more[i] = specs[i],
         entry.kept > 0 => entry.module \notin others
  PROVE  Barred(entry, more, others)
<1>1. Ids(specs) \subseteq Ids(more)
  <2> SUFFICES ASSUME NEW x \in Ids(specs) PROVE x \in Ids(more)
      OBVIOUS
  <2>1. PICK i \in DOMAIN specs : x = Id(specs[i])
        BY DEF Ids
  <2>2. i \in DOMAIN more /\ more[i] = specs[i]
        BY <2>1
  <2> QED BY <2>1, <2>2 DEF Ids
<1> QED BY <1>1 DEF Barred

LEMMA ImportInv ==
  ASSUME RegistryInv, NEW m \in DOMAIN Declares, NEW stop, ImportModule(m, stop)
  PROVE  RegistryInv'
<1>1. PICK declared \in Seq(Specs) : declared = Declares[m]
      BY DeclaresAre
<1>2. PICK specs \in Seq(Specs) :
        /\ specs = registered /\ IdsDiffer(specs)
        /\ \A i \in DOMAIN specs : specs[i] \in Declared
        /\ \A n \in imported : \A i \in DOMAIN Declares[n] : Registers(specs, Declares[n][i])
      BY DEF RegistryInv
<1>3. PICK k : k = RunsTo(declared, stop, Ids(specs))
      OBVIOUS
<1>4. /\ k \in 0..Len(declared)
      /\ \A i \in 1..k : ~Stops(declared, stop, Ids(specs), i)
      BY <1>3, RunsToIs
<1>5. PICK more : more = specs \o SubSeq(declared, 1, k)
      OBVIOUS
<1>6. /\ more \in Seq(Specs) /\ IdsDiffer(more)
      /\ \A i \in DOMAIN specs : i \in DOMAIN more /\ more[i] = specs[i]
      /\ \A i \in 1..k : Registers(more, declared[i])
      /\ \A i \in DOMAIN more : Registers(specs, more[i]) \/ \E j \in 1..k : more[i] = declared[j]
  <2>1. Adds(more, specs, declared, k)
        BY <1>2, <1>3, <1>5, BodyRegisters
  <2> QED BY <2>1 DEF Adds
<1>7. PICK done \in BOOLEAN : done <=> (k = Len(declared) /\ stop > k)
      OBVIOUS
<1>8. PICK entry : entry = [module |-> m, kept |-> k]
      OBVIOUS
<1>9. /\ m \notin imported /\ registered' = more /\ answers' = answers
      /\ imported' = IF done THEN imported \cup {m} ELSE imported
      /\ failed' = IF done THEN failed ELSE Append(failed, entry)
      BY <1>1, <1>2, <1>3, <1>5, <1>7, <1>8 DEF ImportModule, Import
<1>10. Len(declared) \in Nat /\ DOMAIN declared = 1..Len(declared) /\ 1..k \subseteq DOMAIN declared
  <2>1. PICK n \in Nat : n = Len(declared) /\ DOMAIN declared = 1..n
        OBVIOUS
  <2> QED BY <1>4, <2>1
<1>11. \A i \in DOMAIN more : more[i] \in Declared
  <2> SUFFICES ASSUME NEW i \in DOMAIN more PROVE more[i] \in Declared
      OBVIOUS
  <2>1. CASE Registers(specs, more[i])
        BY <1>2, <2>1 DEF Registers
  <2>2. ASSUME NEW j \in 1..k, more[i] = declared[j] PROVE more[i] \in Declared
    <3>1. j \in DOMAIN Declares[m]
          BY <1>1, <1>10
    <3> QED BY <1>1, <2>2, <3>1, DeclaredOf
  <2> QED BY <1>6, <2>1, <2>2
<1>12. imported' \in SUBSET DOMAIN Declares
       BY <1>9 DEF RegistryInv
<1>13. ASSUME NEW n \in imported', NEW i \in DOMAIN Declares[n]
       PROVE  Registers(more, Declares[n][i])
  <2>1. CASE n \in imported
    <3>1. PICK j \in DOMAIN specs : specs[j] = Declares[n][i]
          BY <1>2, <2>1 DEF Registers
    <3> QED BY <1>6, <3>1 DEF Registers
  <2>2. CASE n = m /\ done
    <3>1. i \in 1..k
          BY <1>1, <1>7, <1>10, <2>2
    <3> QED BY <1>1, <1>6, <2>2, <3>1
  <2> QED BY <1>9, <2>1, <2>2
<1>14. entry \in Kept
       BY <1>4, <1>8, <1>10 DEF Kept
<1>15. PICK before \in Seq(Kept) :
         before = failed /\ \A i \in DOMAIN before : Barred(before[i], specs, imported)
       BY <1>2 DEF RegistryInv
<1>16. ASSUME NEW i \in DOMAIN before PROVE Barred(before[i], more, imported')
  <2>1. PICK e \in Kept : e = before[i] /\ Barred(e, specs, imported)
        BY <1>15
  <2>2. e.kept > 0 => e.module \notin imported'
    <3>1. CASE e.module # m
          BY <1>9, <2>1, <3>1 DEF Barred
    <3>2. CASE e.module = m
      <4>1. SUFFICES ASSUME e.kept > 0, done PROVE FALSE
            BY <1>9, <3>2
      <4>2. declared # << >> /\ Id(declared[1]) \in Ids(specs)
            BY <1>1, <2>1, <3>2, <4>1 DEF Barred
      <4>3. Len(declared) # 0
            BY <4>2
      <4>4. 1 \in 1..k
            BY <1>7, <1>10, <4>1, <4>3
      <4>5. Stops(declared, stop, Ids(specs), 1)
            BY <4>2 DEF Stops
      <4> QED BY <1>4, <4>4, <4>5
    <3> QED BY <3>1, <3>2
  <2>3. Barred(e, more, imported')
    <3>1. PICK others : others = imported'
          OBVIOUS
    <3>2. e.kept > 0 => e.module \notin others
          BY <2>2, <3>1
    <3>3. Barred(e, more, others)
          BY <1>6, <2>1, <3>2, BarredLater
    <3> QED BY <3>1, <3>3
  <2> QED BY <2>1, <2>3
<1>17. CASE done
  <2>1. failed' = before
        BY <1>9, <1>15, <1>17
  <2>2. answers' # << >> => imported = DOMAIN Declares
        BY <1>9 DEF RegistryInv
  <2>3. answers' = << >>
        BY <1>9, <2>2
  <2> QED BY <1>6, <1>9, <1>11, <1>12, <1>13, <1>15, <1>16, <2>1, <2>3 DEF RegistryInv
<1>18. CASE ~done
  <2>1. PICK after : after = Append(before, entry)
        OBVIOUS
  <2>2. failed' = after /\ after \in Seq(Kept)
        BY <1>9, <1>14, <1>15, <1>18, <2>1
  <2>3. \A i \in DOMAIN after : (i \in DOMAIN before /\ after[i] = before[i]) \/ after[i] = entry
        BY <1>14, <2>1
  <2>4. Barred(entry, more, imported')
    <3>1. entry.module = m /\ entry.kept = k /\ m \notin imported'
          BY <1>8, <1>9, <1>18
    <3>2. SUFFICES ASSUME k > 0 PROVE declared # << >> /\ Id(declared[1]) \in Ids(more)
          BY <1>1, <3>1 DEF Barred
    <3>3. 1 \in 1..k
          BY <1>4, <3>2
    <3>4. PICK j \in DOMAIN more : more[j] = declared[1]
          BY <1>6, <3>3 DEF Registers
    <3>5. Len(declared) # 0
          BY <1>4, <3>2
    <3>6. declared # << >>
          BY <3>5
    <3> QED BY <3>4, <3>6 DEF Ids
  <2>5. \A i \in DOMAIN after : Barred(after[i], more, imported')
        BY <1>16, <2>3, <2>4
  <2>6. answers' # << >> => imported = DOMAIN Declares
        BY <1>9 DEF RegistryInv
  <2>7. answers' = << >>
        BY <1>9, <2>6
  <2> QED BY <1>6, <1>9, <1>11, <1>12, <1>13, <2>2, <2>5, <2>7 DEF RegistryInv
<1> QED BY <1>17, <1>18

(* An answer holds what was asked of the examples declared, in order.      *)
LEMMA BeforeOrders ==
  ASSUME NEW specs \in Seq(Specs), IdsDiffer(specs), NEW I, I \subseteq DOMAIN specs,
         NEW less, less = {p \in I \X I : Before(specs[p[1]], specs[p[2]])}
  PROVE  /\ I \subseteq Int /\ IsFiniteSet(I) /\ WeakOrder(I, less)
         /\ \A i, j \in I : i # j /\ <<j, i>> \notin less => Before(specs[i], specs[j])
<1>1. PICK n \in Nat : n = Len(specs) /\ DOMAIN specs = 1..n
      OBVIOUS
<1>2. IsFiniteSet(1..n)
  <2>1. 1 \in Int /\ n \in Int
        BY <1>1
  <2> QED BY ONLY <2>1, FS_Interval
<1>3. I \subseteq Int /\ IsFiniteSet(I)
      BY <1>1, <1>2, FS_Subset
<1>4. \A i, j \in I : <<i, j>> \in less <=> Before(specs[i], specs[j])
      OBVIOUS
<1>5. ASSUME NEW i \in I
      PROVE  specs[i].chapter \in Int /\ specs[i].key \in Int
  <2>1. PICK s \in Specs : s = specs[i]
        OBVIOUS
  <2>2. s.chapter \in Int /\ s.key \in Int
        BY DEF Specs
  <2> QED BY <2>1, <2>2
<1>6. ASSUME NEW i \in I, NEW j \in I, NEW k \in I
      PROVE  /\ Before(specs[i], specs[j]) => ~Before(specs[j], specs[i])
             /\ Before(specs[i], specs[k]) =>
                  Before(specs[i], specs[j]) \/ Before(specs[j], specs[k])
             /\ i # j /\ ~Before(specs[j], specs[i]) => Before(specs[i], specs[j])
  <2>1. PICK a, b, c, d, e, f \in Int :
          /\ a = specs[i].chapter /\ b = specs[i].key
          /\ c = specs[j].chapter /\ d = specs[j].key
          /\ e = specs[k].chapter /\ f = specs[k].key
        BY <1>5
  <2>2. i # j => a # c \/ b # d
    <3>1. i # j => Id(specs[i]) # Id(specs[j])
          BY DEF IdsDiffer
    <3> QED BY <2>1, <3>1 DEF Id
  <2>3. /\ Before(specs[i], specs[j]) <=> a < c \/ (a = c /\ b < d)
        /\ Before(specs[j], specs[i]) <=> c < a \/ (c = a /\ d < b)
        /\ Before(specs[i], specs[k]) <=> a < e \/ (a = e /\ b < f)
        /\ Before(specs[j], specs[k]) <=> c < e \/ (c = e /\ d < f)
        BY <2>1 DEF Before
  <2> QED BY <2>2, <2>3
<1>7. WeakOrder(I, less)
  <2>1. \A i, j \in I : <<i, j>> \in less => <<j, i>> \notin less
        BY <1>4, <1>6
  <2>2. \A i, j, k \in I : <<i, k>> \in less => <<i, j>> \in less \/ <<j, k>> \in less
        BY <1>4, <1>6
  <2> QED BY <2>1, <2>2 DEF WeakOrder
<1>8. \A i, j \in I : i # j /\ <<j, i>> \notin less => Before(specs[i], specs[j])
      BY <1>4, <1>6
<1> QED BY <1>3, <1>7, <1>8

LEMMA SelectIs ==
  ASSUME RegistryInv, imported = DOMAIN Declares, NEW chapter, NEW want, NEW pillar,
         NEW found, found = Select(chapter, want, pillar),
         NEW wanted, wanted = {s \in Declared : Asked(s, chapter, want, pillar)}
  PROVE  InFull(found, wanted)
<1>1. PICK specs \in Seq(Specs) :
        /\ specs = registered /\ IdsDiffer(specs)
        /\ \A i \in DOMAIN specs : specs[i] \in Declared
        /\ \A m \in DOMAIN Declares : \A i \in DOMAIN Declares[m] : Registers(specs, Declares[m][i])
      BY DEF RegistryInv
<1>2. PICK I : I = {i \in DOMAIN specs : Asked(specs[i], chapter, want, pillar)}
      OBVIOUS
<1>3. PICK less : less = {p \in I \X I : Before(specs[p[1]], specs[p[2]])}
      OBVIOUS
<1>4. PICK order : order = Ordered(I, less)
      OBVIOUS
<1>5. found = [k \in DOMAIN order |-> specs[order[k]]]
      BY <1>1, <1>2, <1>3, <1>4 DEF Select
<1>6. /\ I \subseteq Int /\ IsFiniteSet(I) /\ WeakOrder(I, less)
      /\ \A i, j \in I : i # j /\ <<j, i>> \notin less => Before(specs[i], specs[j])
  <2>1. I \subseteq DOMAIN specs
        BY <1>2
  <2> QED BY <1>1, <1>3, <2>1, BeforeOrders
<1>7. PICK n : n = Cardinality(I)
      OBVIOUS
<1>8. Sorted(I, less, n, order)
      BY ONLY <1>4, <1>6, <1>7, OrderedIs
<1>9. /\ n \in Nat /\ DOMAIN order = 1..n
      /\ \A k \in 1..n : order[k] \in I
      /\ \A i \in I : \E k \in 1..n : order[k] = i
      /\ \A k, l \in 1..n : k < l => order[k] # order[l] /\ <<order[l], order[k]>> \notin less
      BY <1>8 DEF Sorted
<1>10. DOMAIN found = 1..n /\ \A k \in 1..n : found[k] = specs[order[k]]
       BY <1>5, <1>9
<1>11. \A s \in Declared : Registers(specs, s)
  <2> SUFFICES ASSUME NEW s \in Declared PROVE Registers(specs, s)
      OBVIOUS
  <2>1. PICK m \in DOMAIN Declares : \E i \in DOMAIN Declares[m] : s = Declares[m][i]
        BY DEF Declared
  <2>2. PICK i \in DOMAIN Declares[m] : s = Declares[m][i]
        BY <2>1
  <2> QED BY <1>1, <2>2
<1>12. \A s : s \in wanted <=> \E i \in I : s = specs[i]
  <2>1. ASSUME NEW s \in wanted PROVE \E i \in I : s = specs[i]
    <3>1. PICK i \in DOMAIN specs : specs[i] = s
          BY <1>11 DEF Registers
    <3> QED BY <1>2, <3>1
  <2>2. ASSUME NEW i \in I PROVE specs[i] \in wanted
        BY <1>1, <1>2
  <2> QED BY <2>1, <2>2
<1>13. {found[i] : i \in DOMAIN found} = wanted
  <2>1. ASSUME NEW i \in DOMAIN found PROVE found[i] \in wanted
        BY <1>9, <1>10, <1>12
  <2>2. ASSUME NEW s \in wanted PROVE \E i \in DOMAIN found : s = found[i]
    <3>1. PICK i \in I : s = specs[i]
          BY <1>12
    <3>2. PICK k \in 1..n : order[k] = i
          BY <1>9
    <3> QED BY <1>10, <3>1, <3>2
  <2> QED BY <2>1, <2>2
<1>14. n = Cardinality(wanted)
  <2>1. PICK f : f = [i \in I |-> specs[i]]
        OBVIOUS
  <2>2. f \in [I -> wanted]
        BY <1>12, <2>1
  <2>3. \A s \in wanted : \E i \in I : f[i] = s
        BY <1>12, <2>1
  <2>4. ASSUME NEW i \in I, NEW j \in I, f[i] = f[j] PROVE i = j
    <3>1. i \in DOMAIN specs /\ j \in DOMAIN specs /\ specs[i] = specs[j]
          BY <1>2, <2>1, <2>4
    <3> QED BY <1>1, <3>1 DEF IdsDiffer
  <2>5. f \in Surjection(I, wanted) /\ f \in Injection(I, wanted)
        BY <2>2, <2>3, <2>4 DEF Surjection, Injection, IsInjective
  <2> QED BY <1>6, <1>7, <2>5, FS_Surjection
<1>15. found \in Seq(wanted) /\ Len(found) = n
  <2>1. found \in [1..n -> wanted]
        BY <1>5, <1>9, <1>10, <1>12
  <2> QED BY <1>9, <2>1
<1>16. ASSUME NEW i \in 1..(n - 1) PROVE Before(found[i], found[i + 1])
  <2>1. i \in 1..n /\ i + 1 \in 1..n /\ i < i + 1
        BY <1>9
  <2>2. /\ order[i] \in I /\ order[i + 1] \in I /\ order[i] # order[i + 1]
        /\ <<order[i + 1], order[i]>> \notin less
        BY <1>9, <2>1
  <2>3. Before(specs[order[i]], specs[order[i + 1]])
        BY <1>6, <2>2
  <2> QED BY <1>10, <2>1, <2>3
<1> QED BY <1>13, <1>14, <1>15, <1>16 DEF InFull

LEMMA ChaptersCovered ==
  ASSUME RegistryInv, imported = DOMAIN Declares
  PROVE  Chapters(registered) = Covered
<1>1. \A i \in DOMAIN registered : registered[i] \in Declared
      BY DEF RegistryInv
<1>2. ASSUME NEW s \in Declared PROVE \E i \in DOMAIN registered : registered[i] = s
  <2>1. PICK m \in DOMAIN Declares : \E i \in DOMAIN Declares[m] : s = Declares[m][i]
        BY DEF Declared
  <2>2. PICK i \in DOMAIN Declares[m] : s = Declares[m][i]
        BY <2>1
  <2>3. Registers(registered, s)
        BY <2>2 DEF RegistryInv
  <2> QED BY <2>3 DEF Registers
<1> QED BY <1>1, <1>2 DEF Chapters, Covered

LEMMA AskInv ==
  ASSUME RegistryInv, NEW chapter, NEW wanted, NEW pillar, Ask(chapter, wanted, pillar)
  PROVE  RegistryInv'
<1>1. PICK found, uncovered, answer :
        /\ found = Select(chapter, wanted, pillar)
        /\ uncovered = (1..LastChapter) \ Chapters(registered)
        /\ answer = [chapter |-> chapter, wanted |-> wanted, pillar |-> pillar,
                     specs |-> found, uncovered |-> uncovered]
      OBVIOUS
<1>2. /\ imported = DOMAIN Declares
      /\ answers' = answer
      /\ UNCHANGED <<registered, imported, failed>>
      BY <1>1 DEF Ask
<1>3. /\ answer.chapter = chapter /\ answer.wanted = wanted /\ answer.pillar = pillar
      /\ answer.specs = found /\ answer.uncovered = uncovered
      BY <1>1
<1>4. InFull(found, {s \in Declared : Asked(s, chapter, wanted, pillar)})
      BY <1>1, <1>2, SelectIs
<1>5. Answered(answer)
      BY <1>1, <1>2, <1>3, <1>4, ChaptersCovered DEF Answered
<1> QED BY <1>2, <1>5 DEF RegistryInv

LEMMA RegistryStepInv == RegistryInv /\ [RegistryNext]_registryVars => RegistryInv'
<1> SUFFICES ASSUME RegistryInv, [RegistryNext]_registryVars PROVE RegistryInv'
    OBVIOUS
<1>1. CASE UNCHANGED registryVars
      BY <1>1 DEF registryVars, RegistryInv
<1>2. ASSUME NEW m \in DOMAIN Declares, NEW stop, ImportModule(m, stop) PROVE RegistryInv'
      BY <1>2, ImportInv
<1>3. ASSUME NEW chapter, NEW wanted, NEW pillar, Ask(chapter, wanted, pillar) PROVE RegistryInv'
      BY <1>3, AskInv
<1> QED BY <1>1, <1>2, <1>3 DEF RegistryNext

LEMMA SelectsAreComplete == RegistryInv => SelectComplete
<1> SUFFICES ASSUME RegistryInv PROVE SelectComplete
    OBVIOUS
<1>1. answers # << >> => Answered(answers)
      BY DEF RegistryInv
<1>2. \A i \in DOMAIN failed : failed[i].kept > 0 => failed[i].module \notin imported
      BY DEF RegistryInv, Barred
<1> QED BY <1>1, <1>2 DEF SelectComplete, Answered, InFull, Covered

(* chapters/registry.py: whatever the modules declare and import, whatever *)
(* select is asked for, and whichever imports fail, however often: a       *)
(* caller that gets an answer gets all it asked for, once and in order.    *)
THEOREM AnswersAreComplete == RegistrySpec => []SelectComplete
BY RegistryInitInv, RegistryStepInv, SelectsAreComplete, PTL DEF RegistrySpec

-----------------------------------------------------------------------------
(* Traces.  While nothing raises, the depth of the stack is that of the    *)
(* next operation in its script, so that what a hand-over carries is never *)
(* empty; the stack is the path from a root to the innermost open span;    *)
(* and while an exception is on its way up, the spans it has left and      *)
(* those that are still open are the path to the span it was raised in.    *)
(* All of it is said of the values of one request's state: its script s,   *)
(* the position a in it, its tree t, its stack k, its callee c, whether it *)
(* is raising, e, and the origin o.                                        *)
SpanNames == UNION {{s[i].name : i \in DOMAIN s} : s \in Scripts}

SpanNodes ==
  [name : SpanNames, parent : Nat, trace : Nat, status : {"unset", "error"}, ended : BOOLEAN]

OuterBefore(s, a) ==
  {i \in 1..(a - 1) : s[i].op = "open" /\ Count(s, "open", i) = Count(s, "close", i)}

Roots(t) == {i \in DOMAIN t : t[i].parent = 0}
Errors(t) == {i \in DOMAIN t : t[i].status = "error"}

CarriesAll(s) == \A i \in DOMAIN s : s[i].op = "hand" => s[i].carry

CarriedFrom(k, carry) == IF carry /\ k # << >> THEN <<Top(k)>> ELSE << >>

PathOf(t, i) ==
  LET path[j \in 0..Len(t)] == IF j = 0 THEN {} ELSE {j} \cup path[t[j].parent]
  IN  path[i]

Rooted(t, i) ==
  /\ t[i].parent < i
  /\ t[i].parent = 0 => t[i].trace = i
  /\ t[i].parent # 0 => t[i].trace = t[t[i].parent].trace
  /\ t[i].trace \in Roots(t)

TreeHolds(t) == t \in Seq(SpanNodes) /\ \A i \in DOMAIN t : Rooted(t, i)

Beneath(k, i) == IF i = 1 THEN 0 ELSE k[i - 1]

StackHolds(t, k) ==
  /\ k \in Seq(DOMAIN t)
  /\ \A i \in DOMAIN k : t[k[i]].parent = Beneath(k, i)
  /\ \A i, j \in DOMAIN k : i < j => k[i] < k[j]

Callees ==
  [name : SpanNames \cup {""}, context : Seq(Nat), state : {"idle", "submitted", "running"}]

CalleeHolds(s, a, t, k, c, e) ==
  /\ c \in Callees
  /\ c.state # "idle" =>
       /\ ~e /\ a \in DOMAIN s /\ s[a].op = "hand" /\ c.name = s[a].name
  /\ c.state = "submitted" => c.context = CarriedFrom(k, s[a].carry)
  /\ c.state = "running" =>
       /\ c.context = Append(CarriedFrom(k, s[a].carry), Len(t)) /\ Len(t) > 0
       /\ t[Len(t)].parent = Top(CarriedFrom(k, s[a].carry))
       /\ \A i \in DOMAIN k : k[i] < Len(t)

Unended(t, k, c) == Range(k) \cup (IF c.state = "running" THEN {Len(t)} ELSE {})

EndsHold(t, k, c) == \A i \in DOMAIN t : t[i].ended = (i \notin Unended(t, k, c))

DepthHolds(s, a, k, e) ==
  /\ a \in 1..(Len(s) + 1)
  /\ ~e => Len(k) + Count(s, "close", a) = Count(s, "open", a)

ErrorsHold(s, t, k, e, o) ==
  /\ ~e => Errors(t) = {}
  /\ e /\ CarriesAll(s) => o \in DOMAIN t /\ Errors(t) \cup Range(k) = PathOf(t, o)

RootsHold(s, a, t) ==
  CarriesAll(s) => Cardinality(Roots(t)) <= Cardinality(OuterBefore(s, a))

RequestHolds(s, a, t, k, c, e, o) ==
  /\ s \in Scripts /\ e \in BOOLEAN
  /\ TreeHolds(t) /\ StackHolds(t, k) /\ CalleeHolds(s, a, t, k, c, e)
  /\ EndsHold(t, k, c) /\ DepthHolds(s, a, k, e)
  /\ ErrorsHold(s, t, k, e, o) /\ RootsHold(s, a, t)

(* Logs: the blocks that are open, each once; and what a block restores is *)
(* the one around it, as long as they end in reverse order.                *)
RecordHolds(r, b) ==
  /\ b = r.due
  /\ r.span \in DOMAIN tree[r.request] /\ r.open
  /\ r.trace = tree[r.request][r.span].trace

LogRecords == [request : Requests, span : Nat, trace : Nat, open : BOOLEAN,
               due : LogBlocks \cup {"none"}]

LogsHold ==
  /\ buffer \in LogBlocks \cup {"none"} /\ nested \in BOOLEAN
  /\ previous \in [LogBlocks -> LogBlocks \cup {"none", "unused"}]
  /\ entered \in Seq(LogBlocks)
  /\ \A i \in DOMAIN entered : previous[entered[i]] # "unused"
  /\ \A i, j \in DOMAIN entered : i # j => entered[i] # entered[j]
  /\ nested =>
       /\ buffer = Innermost
       /\ \A i \in DOMAIN entered :
            previous[entered[i]] = IF i = 1 THEN "none" ELSE entered[i - 1]
  /\ collected \in [LogBlocks -> Seq(LogRecords)]
  /\ \A b \in LogBlocks : \A i \in DOMAIN collected[b] : RecordHolds(collected[b][i], b)

RequestsHold ==
  /\ DOMAIN script = Requests /\ DOMAIN at = Requests /\ DOMAIN tree = Requests
  /\ DOMAIN stack = Requests /\ DOMAIN callee = Requests
  /\ DOMAIN raising = Requests /\ DOMAIN origin = Requests
  /\ \A r \in Requests :
       RequestHolds(script[r], at[r], tree[r], stack[r], callee[r], raising[r], origin[r])

TraceInv == RequestsHold /\ LogsHold

-----------------------------------------------------------------------------
(* Scripts: how a count grows, and what TraceOK says.                      *)
LEMMA CountStep ==
  ASSUME NEW s, NEW op, NEW i \in Nat \ {0}
  PROVE  /\ Count(s, op, i) \in Nat
         /\ Count(s, op, 1) = 0
         /\ s[i].op = op => Count(s, op, i + 1) = Count(s, op, i) + 1
         /\ s[i].op # op => Count(s, op, i + 1) = Count(s, op, i)
<1> DEFINE C(a) == {j \in 1..(a - 1) : s[j].op = op}
<1>1. IsFiniteSet(C(i))
  <2>1. 1 \in Int /\ i - 1 \in Int
        OBVIOUS
  <2>2. IsFiniteSet(1..(i - 1))
        BY ONLY <2>1, FS_Interval
  <2>3. C(i) \in SUBSET (1..(i - 1))
        OBVIOUS
  <2> QED BY <2>2, <2>3, FS_Subset
<1>2. Cardinality(C(i)) \in Nat
      BY <1>1, FS_CardinalityType
<1>3. C(1) = {}
      OBVIOUS
<1>4. s[i].op = op => C(i + 1) = C(i) \cup {i} /\ i \notin C(i)
      OBVIOUS
<1>5. s[i].op # op => C(i + 1) = C(i)
  <2> SUFFICES ASSUME s[i].op # op PROVE C(i + 1) = C(i)
      OBVIOUS
  <2>1. \A j : j \in 1..((i + 1) - 1) <=> j \in 1..(i - 1) \/ j = i
        OBVIOUS
  <2> QED BY <2>1
<1>6. \A a : Count(s, op, a) = Cardinality(C(a))
      BY DEF Count
<1> HIDE DEF C
<1>7. s[i].op = op => Cardinality(C(i + 1)) = Cardinality(C(i)) + 1
      BY <1>1, <1>4, FS_AddElement
<1> QED BY <1>2, <1>3, <1>5, <1>6, <1>7, FS_EmptySet

LEMMA InsideASpan ==
  ASSUME NEW s \in Scripts
  PROVE  /\ Len(s) \in Nat /\ DOMAIN s = 1..Len(s)
         /\ \A i \in DOMAIN s :
              /\ s[i].name \in SpanNames
              /\ s[i].op \in {"open", "close", "hand", "emit"}
              /\ s[i].op # "open" => Count(s, "close", i) < Count(s, "open", i)
<1>1. s \in Seq(Operations)
      BY TraceOK
<1>2. ASSUME NEW i \in DOMAIN s
      PROVE  /\ s[i].name \in SpanNames
             /\ s[i].op \in {"open", "close", "hand", "emit"}
             /\ s[i].op # "open" => Count(s, "close", i) < Count(s, "open", i)
  <2>1. s[i] \in Operations
        BY <1>1
  <2>2. s[i].op \in {"open", "close", "hand", "emit"}
        BY <2>1 DEF Operations
  <2>3. s[i].name \in SpanNames
        BY DEF SpanNames
  <2> QED BY <2>2, <2>3, TraceOK
<1> QED BY <1>1, <1>2

-----------------------------------------------------------------------------
(* Paths: a parent comes before its child, so that the path to a span is   *)
(* the span and the path to its parent.                                    *)
Parents(t, p) == \A i \in 1..Len(t) : p[i] \in 0..(i - 1) /\ t[i].parent = p[i]

NextPath(f, t, j) == IF j = 0 THEN {} ELSE {j} \cup f[t[j].parent]
PathsTo(f, t, n) == f = [j \in 0..n |-> NextPath(f, t, j)]

LEMMA NextPathIs ==
  ASSUME NEW f, NEW t
  PROVE  NextPath(f, t, 0) = {} /\ \A j : j # 0 => NextPath(f, t, j) = {j} \cup f[t[j].parent]
BY DEF NextPath

LEMMA NextPathSame ==
  ASSUME NEW f, NEW g, NEW t, NEW j, j # 0 => f[t[j].parent] = g[t[j].parent]
  PROVE  NextPath(f, t, j) = NextPath(g, t, j)
BY DEF NextPath

LEMMA PathsExist ==
  ASSUME NEW t, NEW p, NEW last \in Nat, last = Len(t), Parents(t, p)
  PROVE  \E f : PathsTo(f, t, last)
<1> DEFINE P == {n \in Nat : n =< last => \E f : PathsTo(f, t, n)}
<1>1. 0 \in P
  <2>1. PICK f : f = [j \in 0..0 |-> {}]
        OBVIOUS
  <2>2. \A j \in 0..0 : f[j] = NextPath(f, t, j)
    <3>1. \A j \in 0..0 : j = 0
          OBVIOUS
    <3> QED BY <2>1, <3>1, NextPathIs
  <2>3. f = [j \in 0..0 |-> f[j]]
        BY <2>1
  <2>4. PathsTo(f, t, 0)
        BY <2>2, <2>3 DEF PathsTo
  <2> QED BY <2>4
<1>2. ASSUME NEW n \in Nat, n \in P PROVE n + 1 \in P
  <2> SUFFICES ASSUME n + 1 =< last PROVE \E f : PathsTo(f, t, n + 1)
      OBVIOUS
  <2>1. PICK f : PathsTo(f, t, n)
        BY <1>2
  <2>2. PICK m \in 1..last : m = n + 1
        OBVIOUS
  <2>3. PICK g : g = [j \in 0..m |-> IF j = m THEN NextPath(f, t, m) ELSE f[j]]
        OBVIOUS
  <2>4. /\ \A j \in 0..n : g[j] = f[j]
        /\ g[m] = NextPath(f, t, m)
        BY <2>2, <2>3
  <2>5. \A j \in 0..n : f[j] = NextPath(f, t, j)
        BY <2>1 DEF PathsTo
  <2>6. ASSUME NEW j \in 0..m PROVE j # 0 => t[j].parent \in 0..n
    <3> SUFFICES ASSUME j # 0 PROVE t[j].parent \in 0..n
        OBVIOUS
    <3>1. j \in 1..Len(t)
          BY <2>2
    <3>2. p[j] \in 0..(j - 1) /\ t[j].parent = p[j]
          BY <3>1 DEF Parents
    <3>3. p[j] \in 0..n
          BY <2>2, <3>2
    <3> QED BY <3>2, <3>3
  <2>7. ASSUME NEW j \in 0..m PROVE g[j] = NextPath(g, t, j)
    <3>1. NextPath(g, t, j) = NextPath(f, t, j)
          BY <2>4, <2>6, NextPathSame
    <3>2. CASE j = m
          BY <2>4, <3>1, <3>2
    <3>3. CASE j # m
      <4>1. j \in 0..n
            BY <2>2, <3>3
      <4> QED BY <2>4, <2>5, <3>1, <4>1
    <3> QED BY <3>2, <3>3
  <2>8. g = [j \in 0..m |-> g[j]]
        BY <2>3
  <2>9. PathsTo(g, t, m)
        BY <2>7, <2>8 DEF PathsTo
  <2> QED BY <2>2, <2>9
<1>3. \A n \in Nat : n \in P
  <2> HIDE DEF P
  <2> QED BY <1>1, <1>2, NatSteps
<1>4. last \in P
      BY <1>3
<1> QED BY <1>4

LEMMA PathIs ==
  ASSUME NEW t, NEW p, NEW last \in Nat, last = Len(t), Parents(t, p)
  PROVE  /\ PathOf(t, 0) = {}
         /\ \A i \in 1..last : PathOf(t, i) = {i} \cup PathOf(t, t[i].parent)
<1>1. PICK f : f = CHOOSE g : PathsTo(g, t, last)
      OBVIOUS
<1>2. PathsTo(f, t, last)
      BY <1>1, PathsExist
<1>3. \A i : PathOf(t, i) = f[i]
      BY <1>1 DEF PathOf, PathsTo, NextPath
<1>4. \A j \in 0..last : f[j] = NextPath(f, t, j)
      BY <1>2 DEF PathsTo
<1>5. ASSUME NEW i \in 1..last PROVE f[i] = {i} \cup f[t[i].parent]
  <2>1. i \in 0..last /\ i # 0
        OBVIOUS
  <2>2. f[i] = NextPath(f, t, i)
        BY <1>4, <2>1
  <2> QED BY <2>1, <2>2, NextPathIs
<1>6. f[0] = {}
  <2>1. 0 \in 0..last
        OBVIOUS
  <2>2. f[0] = NextPath(f, t, 0)
        BY <1>4, <2>1
  <2> QED BY <2>2, NextPathIs
<1> QED BY <1>3, <1>5, <1>6

LEMMA PathsSame ==
  ASSUME NEW t, NEW p, NEW last \in Nat, last = Len(t), Parents(t, p),
         NEW u, Len(u) = last, Parents(u, p), NEW i \in 0..last
  PROVE  PathOf(u, i) = PathOf(t, i)
<1> DEFINE Bad == {j \in 0..last : PathOf(u, j) # PathOf(t, j)}
<1> SUFFICES ASSUME Bad # {} PROVE FALSE
    OBVIOUS
<1>1. PICK j \in Bad : \A m \in Bad : j =< m
  <2>1. Bad \subseteq Nat
        OBVIOUS
  <2> HIDE DEF Bad
  <2> QED BY <2>1, SmallestOf
<1>2. j \in 0..last /\ PathOf(u, j) # PathOf(t, j)
      BY <1>1
<1>3. /\ PathOf(t, 0) = {}
      /\ \A k \in 1..last : PathOf(t, k) = {k} \cup PathOf(t, t[k].parent)
      BY PathIs
<1>4. /\ PathOf(u, 0) = {}
      /\ \A k \in 1..last : PathOf(u, k) = {k} \cup PathOf(u, u[k].parent)
      BY PathIs
<1>5. j \in 1..last
  <2>1. j # 0
        BY <1>2, <1>3, <1>4
  <2> QED BY <1>2, <2>1
<1>6. t[j].parent = p[j] /\ u[j].parent = p[j] /\ p[j] \in 0..(j - 1)
      BY <1>5 DEF Parents
<1>7. PathOf(t, p[j]) = PathOf(u, p[j])
  <2>1. PICK q \in 0..last : q = p[j] /\ ~(j =< q)
        BY <1>5, <1>6
  <2>2. q \notin Bad
        BY <1>1, <2>1
  <2> QED BY <2>1, <2>2
<1>8. PathOf(t, j) = {j} \cup PathOf(t, p[j]) /\ PathOf(u, j) = {j} \cup PathOf(u, p[j])
      BY <1>3, <1>4, <1>5, <1>6
<1> QED BY <1>2, <1>7, <1>8

-----------------------------------------------------------------------------
(* What is known of a tree and of the stack of its open spans.             *)
LEMMA TreeFacts ==
  ASSUME NEW t, TreeHolds(t)
  PROVE  /\ Len(t) \in Nat /\ DOMAIN t = 1..Len(t)
         /\ \A i \in 1..Len(t) : /\ t[i] \in SpanNodes /\ t[i].parent \in 0..(i - 1)
                                 /\ t[i].trace \in 1..Len(t)
         /\ Parents(t, [i \in 1..Len(t) |-> t[i].parent])
<1>1. Len(t) \in Nat /\ DOMAIN t = 1..Len(t) /\ \A i \in 1..Len(t) : t[i] \in SpanNodes
      BY DEF TreeHolds
<1>2. ASSUME NEW i \in 1..Len(t) PROVE t[i].parent \in 0..(i - 1) /\ t[i].trace \in 1..Len(t)
  <2>1. t[i].parent \in Nat
        BY <1>1 DEF SpanNodes
  <2>2. t[i].parent < i /\ t[i].trace \in Roots(t)
        BY <1>1 DEF TreeHolds, Rooted
  <2> QED BY <1>1, <2>1, <2>2 DEF Roots
<1>3. Parents(t, [i \in 1..Len(t) |-> t[i].parent])
      BY <1>2 DEF Parents
<1> QED BY <1>1, <1>2, <1>3

LEMMA StackFacts ==
  ASSUME NEW t, TreeHolds(t), NEW k, StackHolds(t, k)
  PROVE  /\ Len(k) \in Nat /\ DOMAIN k = 1..Len(k)
         /\ \A i \in 1..Len(k) : k[i] \in 1..Len(t)
         /\ Range(k) \subseteq 1..Len(t)
         /\ k # << >> <=> Len(k) > 0
         /\ k # << >> => Top(k) = k[Len(k)] /\ Top(k) \in 1..Len(t)
         /\ k = << >> => Top(k) = 0
<1>1. Len(t) \in Nat /\ DOMAIN t = 1..Len(t)
      BY TreeFacts
<1>2. /\ Len(k) \in Nat /\ DOMAIN k = 1..Len(k)
      /\ \A i \in 1..Len(k) : k[i] \in 1..Len(t)
      BY <1>1 DEF StackHolds
<1>3. Range(k) \subseteq 1..Len(t)
      BY <1>2 DEF Range
<1>4. k # << >> <=> Len(k) > 0
      BY DEF StackHolds
<1>5. k # << >> => Len(k) \in 1..Len(k)
      BY <1>2, <1>4
<1> QED BY <1>2, <1>3, <1>4, <1>5 DEF Top

(* The open spans are the path to the innermost one.                       *)
LEMMA StackIsPath ==
  ASSUME NEW t, TreeHolds(t), NEW k, StackHolds(t, k)
  PROVE  Range(k) = PathOf(t, Top(k))
<1>1. /\ Len(k) \in Nat /\ DOMAIN k = 1..Len(k)
      /\ \A i \in 1..Len(k) : k[i] \in 1..Len(t)
      BY StackFacts
<1>2. /\ PathOf(t, 0) = {}
      /\ \A i \in 1..Len(t) : PathOf(t, i) = {i} \cup PathOf(t, t[i].parent)
  <2>1. PICK last, p : last \in Nat /\ last = Len(t) /\ Parents(t, p)
        BY TreeFacts
  <2> QED BY <2>1, PathIs
<1> DEFINE P == {n \in Nat : n =< Len(k) /\ n > 0 => PathOf(t, k[n]) = {k[i] : i \in 1..n}}
<1>3. 0 \in P
      OBVIOUS
<1>4. ASSUME NEW n \in Nat, n \in P PROVE n + 1 \in P
  <2> SUFFICES ASSUME n + 1 =< Len(k)
               PROVE  PathOf(t, k[n + 1]) = {k[i] : i \in 1..(n + 1)}
      OBVIOUS
  <2>1. PICK m \in 1..Len(k) : m = n + 1
        BY <1>1
  <2>2. k[m] \in 1..Len(t) /\ t[k[m]].parent = Beneath(k, m)
        BY <1>1 DEF StackHolds
  <2>3. PathOf(t, k[m]) = {k[m]} \cup PathOf(t, Beneath(k, m))
        BY <1>2, <2>2
  <2>4. {k[i] : i \in 1..m} = {k[m]} \cup {k[i] : i \in 1..n}
    <3>1. 1..m = {m} \cup 1..n
          BY <2>1
    <3> QED BY <3>1
  <2>5. PathOf(t, Beneath(k, m)) = {k[i] : i \in 1..n}
    <3>1. CASE n = 0
      <4>1. Beneath(k, m) = 0
            BY <2>1, <3>1 DEF Beneath
      <4>2. 1..n = {}
            BY <3>1
      <4> QED BY <1>2, <4>1, <4>2
    <3>2. CASE n # 0
      <4>1. Beneath(k, m) = k[n]
            BY <2>1, <3>2 DEF Beneath
      <4>2. n =< Len(k) /\ n > 0
            BY <1>1, <3>2
      <4> QED BY <1>4, <4>1, <4>2
    <3> QED BY <3>1, <3>2
  <2> QED BY <2>1, <2>3, <2>4, <2>5
<1>5. \A n \in Nat : n \in P
  <2> HIDE DEF P
  <2> QED BY <1>3, <1>4, NatSteps
<1>6. CASE k = << >>
  <2>1. Top(k) = 0 /\ Range(k) = {}
        BY <1>6 DEF Top, Range
  <2> QED BY <1>2, <2>1
<1>7. CASE k # << >>
  <2>1. Len(k) > 0 /\ Top(k) = k[Len(k)]
        BY <1>7, StackFacts
  <2>2. Len(k) \in P
        BY <1>1, <1>5
  <2>3. PathOf(t, k[Len(k)]) = {k[i] : i \in 1..Len(k)}
        BY <1>1, <2>1, <2>2
  <2> QED BY <1>1, <2>1, <2>3 DEF Range
<1> QED BY <1>6, <1>7

-----------------------------------------------------------------------------
(* A span that starts, and one that ends.                                  *)
Under(t, name, context) ==
  [name |-> name, parent |-> Top(context),
   trace |-> IF context = << >> THEN Len(t) + 1 ELSE t[Top(context)].trace,
   status |-> "unset", ended |-> FALSE]

Ending(t, i, status) == [t EXCEPT ![i] = [@ EXCEPT !.ended = TRUE, !.status = status]]

Grown(t, u, s, n) ==
  /\ TreeHolds(u) /\ Len(u) = n /\ n = Len(t) + 1 /\ DOMAIN u = 1..n
  /\ \A i \in 1..Len(t) : u[i] = t[i] /\ i \in 1..n
  /\ n \in 1..n /\ u[n] = s /\ s.ended = FALSE /\ s.status = "unset"

StartsUnder(s, t, context) ==
  /\ s \in SpanNodes
  /\ s.status = "unset" /\ s.ended = FALSE
  /\ context = << >> => s.parent = 0 /\ s.trace = Len(t) + 1
  /\ context # << >> => s.parent = Top(context) /\ s.trace = t[Top(context)].trace

LEMMA UnderIs ==
  ASSUME NEW t, TreeHolds(t), NEW name \in SpanNames, NEW context,
         context # << >> => Top(context) \in 1..Len(t)
  PROVE  StartsUnder(Under(t, name, context), t, context)
<1> DEFINE s == Under(t, name, context)
<1>1. Len(t) \in Nat /\ \A i \in 1..Len(t) : t[i].trace \in 1..Len(t)
      BY TreeFacts
<1>2. PICK p, q \in Nat :
        /\ p = Top(context) /\ q = IF context = << >> THEN Len(t) + 1 ELSE t[Top(context)].trace
  <2>1. CASE context = << >>
    <3>1. Top(context) = 0 /\ Len(t) + 1 \in Nat
          BY <1>1, <2>1 DEF Top
    <3> QED BY <2>1, <3>1
  <2>2. CASE context # << >>
    <3>1. t[Top(context)].trace \in Nat /\ Top(context) \in Nat
          BY <1>1, <2>2
    <3> QED BY <2>2, <3>1
  <2> QED BY <2>1, <2>2
<1>3. s = [name |-> name, parent |-> p, trace |-> q, status |-> "unset", ended |-> FALSE]
      BY <1>2 DEF Under
<1>4. s \in SpanNodes
      BY <1>3 DEF SpanNodes
<1>5. s.parent = p /\ s.trace = q /\ s.status = "unset" /\ s.ended = FALSE
      BY <1>3
<1>6. context = << >> => p = 0
      BY <1>2 DEF Top
<1> QED BY <1>2, <1>4, <1>5, <1>6 DEF StartsUnder

Grows(t, u, s, n, context) ==
  /\ Grown(t, u, s, n)
  /\ Errors(u) = Errors(t)
  /\ context = << >> => Roots(u) = Roots(t) \cup {n}
  /\ context # << >> => Roots(u) = Roots(t)

LEMMA GrowTree ==
  ASSUME NEW t, TreeHolds(t), NEW name \in SpanNames, NEW context,
         context # << >> => Top(context) \in 1..Len(t),
         NEW s, s = Under(t, name, context), NEW u, u = Append(t, s), NEW n, n = Len(t) + 1
  PROVE  Grows(t, u, s, n, context)
<1>1. /\ Len(t) \in Nat /\ DOMAIN t = 1..Len(t) /\ t \in Seq(SpanNodes)
      /\ \A i \in 1..Len(t) : t[i].parent \in 0..(i - 1) /\ Rooted(t, i)
      BY TreeFacts DEF TreeHolds
<1>2. /\ s \in SpanNodes
      /\ s.status = "unset" /\ s.ended = FALSE
      /\ context = << >> => s.parent = 0 /\ s.trace = n
      /\ context # << >> => s.parent = Top(context) /\ s.trace = t[Top(context)].trace
  <2>1. StartsUnder(s, t, context)
        BY UnderIs
  <2> QED BY <2>1 DEF StartsUnder
<1>3. /\ u \in Seq(SpanNodes) /\ Len(u) = n /\ DOMAIN u = 1..n
      /\ \A i \in 1..Len(t) : u[i] = t[i] /\ i \in 1..n
      /\ n \in 1..n /\ u[n] = s /\ n \notin 1..Len(t)
      BY <1>1, <1>2
<1>4. \A i \in 1..n : i \in 1..Len(t) \/ i = n
      BY <1>1
<1>5. Errors(u) = Errors(t)
      BY <1>1, <1>2, <1>3, <1>4 DEF Errors
<1>6. Roots(t) \subseteq Roots(u)
      BY <1>1, <1>3 DEF Roots
<1>7. context = << >> => Roots(u) = Roots(t) \cup {n}
      BY <1>1, <1>2, <1>3, <1>4 DEF Roots
<1>8. context # << >> => Roots(u) = Roots(t)
  <2> SUFFICES ASSUME context # << >> PROVE Roots(u) = Roots(t)
      OBVIOUS
  <2>1. u[n].parent # 0
        BY <1>1, <1>2, <1>3
  <2> QED BY <1>1, <1>3, <1>4, <2>1 DEF Roots
<1>9. ASSUME NEW i \in 1..n PROVE Rooted(u, i)
  <2>1. CASE i \in 1..Len(t)
    <3>1. /\ t[i].parent < i /\ t[i].parent \in 0..(i - 1)
          /\ t[i].parent = 0 => t[i].trace = i
          /\ t[i].parent # 0 => t[i].trace = t[t[i].parent].trace
          /\ t[i].trace \in Roots(t)
          BY <1>1, <2>1 DEF Rooted
    <3>2. u[i] = t[i]
          BY <1>3, <2>1
    <3>3. t[i].parent # 0 => t[i].parent \in 1..Len(t)
          BY <1>1, <2>1, <3>1
    <3>4. t[i].parent # 0 => u[t[i].parent] = t[t[i].parent]
          BY <1>3, <3>3
    <3> QED BY <1>6, <3>1, <3>2, <3>4 DEF Rooted
  <2>2. CASE i = n /\ context = << >>
    <3>1. u[i].parent = 0 /\ u[i].trace = i
          BY <1>2, <1>3, <2>2
    <3>2. i \in Roots(u)
          BY <1>3, <2>2, <3>1 DEF Roots
    <3>3. 0 < i
          BY <1>1, <2>2
    <3> QED BY <3>1, <3>2, <3>3 DEF Rooted
  <2>3. CASE i = n /\ context # << >>
    <3>1. PICK p \in 1..Len(t) : p = Top(context)
          BY <2>3
    <3>2. u[i].parent = p /\ u[i].trace = t[p].trace /\ u[p] = t[p] /\ p < i
          BY <1>1, <1>2, <1>3, <2>3, <3>1
    <3>3. t[p].trace \in Roots(u)
          BY <1>1, <1>6 DEF Rooted
    <3>4. p # 0
          OBVIOUS
    <3> QED BY <3>2, <3>3, <3>4 DEF Rooted
  <2> QED BY <1>4, <2>1, <2>2, <2>3
<1>10. TreeHolds(u)
       BY <1>3, <1>9 DEF TreeHolds
<1>11. Grown(t, u, s, n)
       BY <1>2, <1>3, <1>10 DEF Grown
<1> QED BY <1>5, <1>7, <1>8, <1>11 DEF Grows

EndedAt(t, u, i) ==
  /\ TreeHolds(u) /\ Len(u) = Len(t) /\ DOMAIN u = DOMAIN t
  /\ Roots(u) = Roots(t)
  /\ \A j \in 1..Len(t) : u[j].parent = t[j].parent /\ u[j].trace = t[j].trace
  /\ u[i].ended = TRUE /\ \A j \in 1..Len(t) : j # i => u[j].ended = t[j].ended
  /\ \A j \in 0..Len(t) : PathOf(u, j) = PathOf(t, j)

LEMMA EndTree ==
  ASSUME NEW t, TreeHolds(t), NEW i \in 1..Len(t), NEW status \in {"unset", "error"},
         NEW u, u = Ending(t, i, status)
  PROVE  /\ EndedAt(t, u, i)
         /\ status = "error" => Errors(u) = Errors(t) \cup {i}
         /\ status = "unset" => Errors(u) = Errors(t) \ {i}
<1>1. /\ Len(t) \in Nat /\ DOMAIN t = 1..Len(t) /\ t \in Seq(SpanNodes)
      /\ \A j \in 1..Len(t) : t[j].parent \in 0..(j - 1) /\ Rooted(t, j) /\ t[j] \in SpanNodes
      BY TreeFacts DEF TreeHolds
<1>2. PICK s \in SpanNodes : s = t[i]
      BY <1>1
<1>3. PICK z : z = [s EXCEPT !.ended = TRUE, !.status = status]
      OBVIOUS
<1>4. /\ z \in SpanNodes /\ z.parent = s.parent /\ z.trace = s.trace
      /\ z.status = status /\ z.ended = TRUE
      BY <1>3 DEF SpanNodes
<1>5. u = [t EXCEPT ![i] = z]
      BY <1>2, <1>3 DEF Ending
<1>6. /\ u \in Seq(SpanNodes) /\ Len(u) = Len(t) /\ DOMAIN u = 1..Len(t)
      /\ u[i] = z /\ \A j \in 1..Len(t) : j # i => u[j] = t[j]
      BY <1>1, <1>4, <1>5
<1>7. \A j \in 1..Len(t) : u[j].parent = t[j].parent /\ u[j].trace = t[j].trace
      BY <1>2, <1>4, <1>6
<1>8. Roots(u) = Roots(t)
      BY <1>1, <1>6, <1>7 DEF Roots
<1>9. u[i].ended = TRUE /\ \A j \in 1..Len(t) : j # i => u[j].ended = t[j].ended
      BY <1>4, <1>6
<1>10. status = "error" => Errors(u) = Errors(t) \cup {i}
  <2> SUFFICES ASSUME status = "error" PROVE Errors(u) = Errors(t) \cup {i}
      OBVIOUS
  <2>1. u[i].status = "error"
        BY <1>4, <1>6
  <2>2. \A j \in 1..Len(t) : u[j].status = "error" <=> t[j].status = "error" \/ j = i
        BY <1>6, <2>1
  <2>3. \A j : j \in Errors(u) <=> j \in 1..Len(t) /\ u[j].status = "error"
        BY <1>6 DEF Errors
  <2>4. \A j : j \in Errors(t) <=> j \in 1..Len(t) /\ t[j].status = "error"
        BY <1>1 DEF Errors
  <2> QED BY <2>2, <2>3, <2>4
<1>11. status = "unset" => Errors(u) = Errors(t) \ {i}
       BY <1>1, <1>4, <1>6 DEF Errors
<1>12. ASSUME NEW j \in 1..Len(t) PROVE Rooted(u, j)
  <2>1. /\ t[j].parent < j /\ t[j].parent \in 0..(j - 1)
        /\ t[j].parent = 0 => t[j].trace = j
        /\ t[j].parent # 0 => t[j].trace = t[t[j].parent].trace
        /\ t[j].trace \in Roots(t)
        BY <1>1 DEF Rooted
  <2>2. u[j].parent = t[j].parent /\ u[j].trace = t[j].trace
        BY <1>7
  <2>3. t[j].parent # 0 => u[t[j].parent].trace = t[t[j].parent].trace
        BY <1>1, <1>7, <2>1
  <2> QED BY <1>8, <2>1, <2>2, <2>3 DEF Rooted
<1>13. TreeHolds(u)
       BY <1>6, <1>12 DEF TreeHolds
<1>14. \A j \in 0..Len(t) : PathOf(u, j) = PathOf(t, j)
  <2>1. PICK last, p : last \in Nat /\ last = Len(t) /\ p = [j \in 1..last |-> t[j].parent]
        BY <1>1
  <2>2. Parents(t, p) /\ Parents(u, p)
        BY <1>1, <1>6, <1>7, <2>1 DEF Parents
  <2> QED BY <1>6, <2>1, <2>2, PathsSame
<1> QED BY <1>1, <1>6, <1>7, <1>8, <1>9, <1>10, <1>11, <1>13, <1>14 DEF EndedAt

-----------------------------------------------------------------------------
(* What each step of a request does to what is known of it.                *)
LEMMA OuterStep ==
  ASSUME NEW s, NEW a \in Nat \ {0}
  PROVE  /\ Cardinality(OuterBefore(s, a)) \in Nat
         /\ Cardinality(OuterBefore(s, a)) =< Cardinality(OuterBefore(s, a + 1))
         /\ s[a].op = "open" /\ Count(s, "open", a) = Count(s, "close", a) =>
              Cardinality(OuterBefore(s, a + 1)) = Cardinality(OuterBefore(s, a)) + 1
<1>1. \A b \in Nat : IsFiniteSet(OuterBefore(s, b))
  <2> TAKE b \in Nat
  <2>1. 1 \in Int /\ b - 1 \in Int
        OBVIOUS
  <2>2. IsFiniteSet(1..(b - 1))
        BY ONLY <2>1, FS_Interval
  <2>3. OuterBefore(s, b) \in SUBSET (1..(b - 1))
        BY DEF OuterBefore
  <2> QED BY <2>2, <2>3, FS_Subset
<1>2. OuterBefore(s, a) \subseteq OuterBefore(s, a + 1)
      BY DEF OuterBefore
<1>3. s[a].op = "open" /\ Count(s, "open", a) = Count(s, "close", a) =>
        OuterBefore(s, a + 1) = OuterBefore(s, a) \cup {a} /\ a \notin OuterBefore(s, a)
  <2>1. \A j : j \in 1..((a + 1) - 1) <=> j \in 1..(a - 1) \/ j = a
        OBVIOUS
  <2>2. a \notin 1..(a - 1)
        OBVIOUS
  <2> QED BY <2>1, <2>2 DEF OuterBefore
<1>4. IsFiniteSet(OuterBefore(s, a)) /\ IsFiniteSet(OuterBefore(s, a + 1))
      BY <1>1
<1>5. Cardinality(OuterBefore(s, a)) \in Nat
      BY <1>4, FS_CardinalityType
<1>6. Cardinality(OuterBefore(s, a)) =< Cardinality(OuterBefore(s, a + 1))
      BY <1>2, <1>4, FS_Subset
<1> QED BY <1>3, <1>4, <1>5, <1>6, FS_AddElement

LEMMA UnendedIs ==
  ASSUME NEW t, NEW k, NEW c
  PROVE  /\ c.state # "running" => Unended(t, k, c) = Range(k)
         /\ c.state = "running" => Unended(t, k, c) = Range(k) \cup {Len(t)}
BY DEF Unended

LEMMA StackKept ==
  ASSUME NEW t, TreeHolds(t), NEW k, StackHolds(t, k), NEW u, TreeHolds(u),
         \A i \in 1..Len(t) : i \in 1..Len(u) /\ u[i].parent = t[i].parent
  PROVE  StackHolds(u, k)
<1>1. DOMAIN t = 1..Len(t) /\ DOMAIN u = 1..Len(u)
      BY TreeFacts
<1>2. k \in Seq(DOMAIN t) /\ DOMAIN t \subseteq DOMAIN u
      BY <1>1 DEF StackHolds
<1>3. k \in Seq(DOMAIN u) /\ \A i \in DOMAIN k : k[i] \in 1..Len(t)
      BY <1>1, <1>2
<1> QED BY <1>3 DEF StackHolds

Pushed(t, l, k, n) ==
  /\ StackHolds(t, l) /\ Len(l) = Len(k) + 1
  /\ Range(l) = Range(k) \cup {n}

LEMMA PushStack ==
  ASSUME NEW t, TreeHolds(t), NEW k, StackHolds(t, k), NEW u, NEW s, NEW n,
         Grown(t, u, s, n), s.parent = Top(k), NEW l, l = Append(k, n)
  PROVE  Pushed(u, l, k, n)
<1>1. /\ Len(k) \in Nat /\ DOMAIN k = 1..Len(k) /\ Len(t) \in Nat
      /\ \A i \in 1..Len(k) : k[i] \in 1..Len(t)
      BY StackFacts, TreeFacts
<1>2. /\ TreeHolds(u) /\ n = Len(t) + 1 /\ DOMAIN u = 1..n /\ u[n] = s /\ n \in 1..n
      /\ \A i \in 1..Len(t) : u[i] = t[i] /\ i \in 1..n
      BY DEF Grown
<1>3. \A i \in 1..Len(k) : k[i] \in DOMAIN u
      BY <1>1, <1>2
<1>4. k \in Seq(DOMAIN u)
  <2>1. k \in Seq(DOMAIN t) /\ DOMAIN t \subseteq DOMAIN u
        BY <1>2, TreeFacts DEF StackHolds
  <2> QED BY <2>1
<1>5. PICK m \in Nat : m = Len(k) + 1
      BY <1>1
<1>6. /\ l \in Seq(DOMAIN u) /\ Len(l) = m /\ DOMAIN l = 1..m
      /\ l[m] = n /\ \A i \in 1..Len(k) : l[i] = k[i]
      BY <1>1, <1>2, <1>4, <1>5
<1>7. \A i \in 1..m : i \in 1..Len(k) \/ i = m
      BY <1>1, <1>5
<1>8. ASSUME NEW i \in 1..m PROVE u[l[i]].parent = Beneath(l, i)
  <2>1. CASE i \in 1..Len(k)
    <3>1. l[i] = k[i] /\ u[k[i]] = t[k[i]] /\ t[k[i]].parent = Beneath(k, i)
          BY <1>1, <1>2, <1>6, <2>1 DEF StackHolds
    <3>2. i # 1 => i - 1 \in 1..Len(k)
          BY <1>1, <2>1
    <3>3. Beneath(l, i) = Beneath(k, i)
          BY <1>6, <3>2 DEF Beneath
    <3> QED BY <3>1, <3>3
  <2>2. CASE i = m
    <3>1. u[l[i]].parent = Top(k)
          BY <1>2, <1>6, <2>2
    <3>2. CASE m = 1
      <4>1. k = << >>
            BY <1>1, <1>5, <3>2, StackFacts
      <4>2. Top(k) = 0
            BY <4>1 DEF Top
      <4> QED BY <2>2, <3>1, <3>2, <4>2 DEF Beneath
    <3>3. CASE m # 1
      <4>1. m - 1 = Len(k) /\ Len(k) \in 1..Len(k) /\ k # << >>
            BY <1>1, <1>5, <3>3
      <4>2. Top(k) = k[Len(k)]
            BY <4>1 DEF Top
      <4> QED BY <1>6, <2>2, <3>1, <3>3, <4>1, <4>2 DEF Beneath
    <3> QED BY <3>2, <3>3
  <2> QED BY <1>7, <2>1, <2>2
<1>9. ASSUME NEW i \in 1..m, NEW j \in 1..m, i < j PROVE l[i] < l[j]
  <2>1. i \in 1..Len(k)
        BY <1>1, <1>5, <1>9
  <2>2. CASE j \in 1..Len(k)
    <3>1. i \in DOMAIN k /\ j \in DOMAIN k
          BY <1>1, <2>1, <2>2
    <3>2. k[i] < k[j]
          BY <1>9, <3>1 DEF StackHolds
    <3> QED BY <1>6, <2>1, <2>2, <3>2
  <2>3. CASE j = m
    <3>1. k[i] \in 1..Len(t) /\ l[i] = k[i] /\ l[j] = n
          BY <1>1, <1>6, <2>1, <2>3
    <3>2. PICK q \in 1..Len(t) : q = k[i]
          BY <3>1
    <3>3. Len(t) \in Nat /\ n = Len(t) + 1
          BY <1>1, <1>2
    <3>4. q < n
          BY ONLY <3>3, q \in 1..Len(t)
    <3> QED BY <3>1, <3>2, <3>4
  <2> QED BY <1>7, <2>2, <2>3
<1>10. Range(l) = Range(k) \cup {n}
       BY <1>1, <1>6, <1>7, <1>5 DEF Range
<1>11. StackHolds(u, l)
       BY <1>6, <1>8, <1>9 DEF StackHolds
<1> QED BY <1>5, <1>6, <1>10, <1>11 DEF Pushed

Popped(t, l, k) ==
  /\ StackHolds(t, l) /\ Len(l) = Len(k) - 1
  /\ Range(l) = Range(k) \ {Top(k)}
  /\ Range(k) = Range(l) \cup {Top(k)}

LEMMA PopStack ==
  ASSUME NEW t, TreeHolds(t), NEW k, StackHolds(t, k), k # << >>, NEW l, l = Pop(k)
  PROVE  Popped(t, l, k)
<1>1. /\ Len(k) \in Nat /\ DOMAIN k = 1..Len(k) /\ Len(k) > 0 /\ Len(t) \in Nat
      /\ \A i \in 1..Len(k) : k[i] \in 1..Len(t)
      /\ Top(k) = k[Len(k)]
      BY StackFacts, TreeFacts
<1>2. k \in Seq(DOMAIN t)
      BY DEF StackHolds
<1>3. PICK m \in Nat : m = Len(k) - 1
  <2>1. Len(k) \in Nat /\ Len(k) > 0
        BY <1>1
  <2> QED BY ONLY <2>1
<1>4. /\ l \in Seq(DOMAIN t) /\ Len(l) = m /\ DOMAIN l = 1..m
      /\ \A i \in 1..m : l[i] = k[i] /\ i \in 1..Len(k)
      BY <1>1, <1>2, <1>3 DEF Pop
<1>5. \A i \in 1..m : t[l[i]].parent = Beneath(l, i)
  <2> TAKE i \in 1..m
  <2>1. i # 1 => i - 1 \in 1..m
        OBVIOUS
  <2>2. Beneath(l, i) = Beneath(k, i)
        BY <1>4, <2>1 DEF Beneath
  <2> QED BY <1>1, <1>4, <2>2 DEF StackHolds
<1>6. \A i, j \in 1..m : i < j => l[i] < l[j]
      BY <1>1, <1>4 DEF StackHolds
<1>7. \A i \in 1..m : k[i] # k[Len(k)]
  <2> TAKE i \in 1..m
  <2>1. i < Len(k) /\ i \in 1..Len(k) /\ Len(k) \in 1..Len(k)
        BY <1>1, <1>3
  <2>2. k[i] < k[Len(k)] /\ k[i] \in 1..Len(t) /\ k[Len(k)] \in 1..Len(t)
        BY <1>1, <2>1 DEF StackHolds
  <2> QED BY <2>2
<1>8. \A i \in 1..Len(k) : i \in 1..m \/ i = Len(k)
  <2>1. Len(k) \in Nat /\ m \in Nat /\ m = Len(k) - 1
        BY <1>1, <1>3
  <2> QED BY ONLY <2>1
<1>9. Range(l) = {k[i] : i \in 1..m} /\ Range(k) = {k[i] : i \in 1..Len(k)}
      BY <1>1, <1>4 DEF Range
<1>10. Len(k) \in 1..Len(k)
       BY <1>1
<1>11. Range(k) = Range(l) \cup {Top(k)} /\ Top(k) \notin Range(l)
       BY <1>1, <1>4, <1>7, <1>8, <1>9, <1>10
<1>12. StackHolds(t, l)
       BY <1>4, <1>5, <1>6 DEF StackHolds
<1> QED BY <1>3, <1>4, <1>11, <1>12 DEF Popped

(* A step of one request: what it keeps of its earlier spans is all that a *)
(* record collected before needs.                                          *)
Keeps(t, u) == \A i \in DOMAIN t : i \in DOMAIN u /\ u[i].trace = t[i].trace

Stepped(t, s, a, u, k, c, e, o) == RequestHolds(s, a, u, k, c, e, o) /\ Keeps(t, u)

LEMMA ScriptFacts ==
  ASSUME NEW s, NEW a, NEW t, NEW k, NEW c, NEW e, NEW o, RequestHolds(s, a, t, k, c, e, o)
  PROVE  /\ Len(s) \in Nat /\ DOMAIN s = 1..Len(s) /\ a \in 1..(Len(s) + 1) /\ a \in Nat \ {0}
         /\ Count(s, "open", a) \in Nat /\ Count(s, "close", a) \in Nat /\ Len(k) \in Nat
         /\ ~e => Len(k) + Count(s, "close", a) = Count(s, "open", a)
         /\ a \in DOMAIN s => a + 1 \in 1..(Len(s) + 1) /\ s[a].name \in SpanNames
         /\ a \in DOMAIN s /\ ~e /\ s[a].op # "open" => k # << >>
<1>1. s \in Scripts /\ DepthHolds(s, a, k, e) /\ TreeHolds(t) /\ StackHolds(t, k)
      BY DEF RequestHolds
<1>2. Len(s) \in Nat /\ DOMAIN s = 1..Len(s)
      BY <1>1, InsideASpan
<1>3. a \in 1..(Len(s) + 1) /\ a \in Nat \ {0} /\ a \in Nat
      BY <1>1, <1>2 DEF DepthHolds
<1>4. Count(s, "open", a) \in Nat /\ Count(s, "close", a) \in Nat
      BY <1>3, CountStep
<1>5. Len(k) \in Nat /\ (k # << >> <=> Len(k) > 0)
      BY <1>1, StackFacts
<1>6. ~e => Len(k) + Count(s, "close", a) = Count(s, "open", a)
      BY <1>1 DEF DepthHolds
<1>7. a \in DOMAIN s => a + 1 \in 1..(Len(s) + 1)
      BY <1>2, <1>3
<1>8. a \in DOMAIN s => /\ s[a].name \in SpanNames
                        /\ s[a].op # "open" => Count(s, "close", a) < Count(s, "open", a)
      BY <1>1, InsideASpan
<1>9. a \in DOMAIN s /\ ~e /\ s[a].op # "open" => k # << >>
      BY <1>4, <1>5, <1>6, <1>8
<1> QED BY <1>2, <1>3, <1>4, <1>5, <1>6, <1>7, <1>8, <1>9

LEMMA OpenStep ==
  ASSUME NEW s, NEW a, NEW t, NEW k, NEW c, NEW e, NEW o, RequestHolds(s, a, t, k, c, e, o),
         a \in DOMAIN s, ~e, c.state = "idle", s[a].op = "open",
         NEW u, u = Append(t, Under(t, s[a].name, k)), NEW l, l = Append(k, Len(t) + 1)
  PROVE  Stepped(t, s, a + 1, u, l, c, e, o)
<1>1. /\ s \in Scripts /\ e \in BOOLEAN
      /\ TreeHolds(t) /\ StackHolds(t, k) /\ CalleeHolds(s, a, t, k, c, e)
      /\ EndsHold(t, k, c) /\ DepthHolds(s, a, k, e)
      /\ ErrorsHold(s, t, k, e, o) /\ RootsHold(s, a, t)
      BY DEF RequestHolds
<1>2. /\ a \in Nat \ {0} /\ a + 1 \in 1..(Len(s) + 1) /\ s[a].name \in SpanNames
      /\ Count(s, "open", a) \in Nat /\ Count(s, "close", a) \in Nat /\ Len(k) \in Nat
      /\ Len(k) + Count(s, "close", a) = Count(s, "open", a)
      BY ScriptFacts
<1>3. PICK n, x : n = Len(t) + 1 /\ x = Under(t, s[a].name, k) /\ u = Append(t, x) /\ l = Append(k, n)
      OBVIOUS
<1>4. k # << >> => Top(k) \in 1..Len(t)
      BY <1>1, StackFacts
<1>5. /\ Grown(t, u, x, n)
      /\ Errors(u) = Errors(t)
      /\ k = << >> => Roots(u) = Roots(t) \cup {n}
      /\ k # << >> => Roots(u) = Roots(t)
  <2>1. Grows(t, u, x, n, k)
        BY <1>1, <1>2, <1>3, <1>4, GrowTree
  <2> QED BY <2>1 DEF Grows
<1>6. /\ TreeHolds(u) /\ Len(u) = n /\ DOMAIN u = 1..n /\ n \in 1..n /\ u[n] = x
      /\ x.ended = FALSE /\ \A i \in 1..Len(t) : u[i] = t[i] /\ i \in 1..n
      BY <1>5 DEF Grown
<1>7. x.parent = Top(k)
  <2>1. StartsUnder(x, t, k)
        BY <1>1, <1>2, <1>3, <1>4, UnderIs
  <2>2. k = << >> => Top(k) = 0
        BY DEF Top
  <2> QED BY <2>1, <2>2 DEF StartsUnder
<1>8. StackHolds(u, l) /\ Len(l) = Len(k) + 1 /\ Range(l) = Range(k) \cup {n}
  <2>1. Pushed(u, l, k, n)
        BY <1>1, <1>3, <1>5, <1>7, PushStack
  <2> QED BY <2>1 DEF Pushed
<1>9. Len(t) \in Nat /\ DOMAIN t = 1..Len(t)
      BY <1>1, TreeFacts
<1>10. \A i \in 1..n : i \in 1..Len(t) \/ i = n
       BY <1>3, <1>9
<1>11. n \notin 1..Len(t)
       BY <1>3, <1>9
<1>12. EndsHold(u, l, c)
  <2>1. Unended(t, k, c) = Range(k) /\ Unended(u, l, c) = Range(l)
        BY UnendedIs
  <2>2. \A i \in 1..Len(t) : t[i].ended = (i \notin Range(k))
        BY <1>1, <1>9, <2>1 DEF EndsHold
  <2>3. ASSUME NEW i \in 1..n PROVE u[i].ended = (i \notin Range(l))
    <3>1. CASE i = n
          BY <1>6, <1>8, <3>1
    <3>2. CASE i \in 1..Len(t)
          BY <1>6, <1>8, <1>11, <2>2, <3>2
    <3> QED BY <1>10, <3>1, <3>2
  <2> QED BY <1>6, <2>1, <2>3 DEF EndsHold
<1>13. CalleeHolds(s, a + 1, u, l, c, e)
       BY <1>1 DEF CalleeHolds
<1>14. DepthHolds(s, a + 1, l, e)
  <2>1. Count(s, "open", a + 1) = Count(s, "open", a) + 1 /\ Count(s, "close", a + 1) = Count(s, "close", a)
        BY <1>2, CountStep
  <2>2. Len(l) + Count(s, "close", a + 1) = Count(s, "open", a + 1)
        BY <1>2, <1>8, <2>1
  <2> QED BY <1>2, <2>2 DEF DepthHolds
<1>15. ErrorsHold(s, u, l, e, o)
       BY <1>1, <1>5 DEF ErrorsHold
<1>16. RootsHold(s, a + 1, u)
  <2> SUFFICES ASSUME CarriesAll(s)
               PROVE  Cardinality(Roots(u)) =< Cardinality(OuterBefore(s, a + 1))
      BY DEF RootsHold
  <2>1. Cardinality(Roots(t)) =< Cardinality(OuterBefore(s, a))
        BY <1>1 DEF RootsHold
  <2>2. /\ Cardinality(OuterBefore(s, a)) \in Nat
        /\ Cardinality(OuterBefore(s, a)) =< Cardinality(OuterBefore(s, a + 1))
        /\ Count(s, "open", a) = Count(s, "close", a) =>
             Cardinality(OuterBefore(s, a + 1)) = Cardinality(OuterBefore(s, a)) + 1
        BY <1>2, OuterStep
  <2>3. IsFiniteSet(Roots(t)) /\ n \notin Roots(t)
    <3>1. 1 \in Int /\ Len(t) \in Int
          BY <1>9
    <3>2. IsFiniteSet(1..Len(t))
          BY ONLY <3>1, FS_Interval
    <3>3. Roots(t) \in SUBSET (1..Len(t))
          BY <1>9 DEF Roots
    <3> QED BY <1>11, <3>2, <3>3, FS_Subset
  <2>4. Cardinality(Roots(t)) \in Nat
        BY <2>3, FS_CardinalityType
  <2>5. CASE k = << >>
    <3>1. Len(k) = 0
          BY <2>5
    <3>2. Count(s, "open", a) = Count(s, "close", a)
          BY <1>2, <3>1
    <3>3. Cardinality(Roots(u)) = Cardinality(Roots(t)) + 1
          BY <1>5, <2>3, <2>5, FS_AddElement
    <3>4. Cardinality(OuterBefore(s, a + 1)) = Cardinality(OuterBefore(s, a)) + 1
          BY <2>2, <3>2
    <3> QED BY <2>1, <2>2, <2>4, <3>3, <3>4
  <2>6. CASE k # << >>
    <3>1. Roots(u) = Roots(t)
          BY <1>5, <2>6
    <3>2. PICK x1 \in Nat : x1 = Cardinality(OuterBefore(s, a + 1))
      <4>1. a + 1 \in Nat \ {0}
            BY <1>2
      <4> QED BY <4>1, OuterStep
    <3> QED BY <2>1, <2>2, <2>4, <3>1, <3>2
  <2> QED BY <2>5, <2>6
<1>17. Keeps(t, u)
       BY <1>6, <1>9 DEF Keeps
<1> QED BY <1>1, <1>6, <1>8, <1>12, <1>13, <1>14, <1>15, <1>16, <1>17 DEF Stepped, RequestHolds

(* A step that leaves the tree and the stack alone, and may go on to the   *)
(* next operation of the script.                                           *)
LEMMA KeepsItself ==
  ASSUME NEW t
  PROVE  Keeps(t, t)
BY DEF Keeps

LEMMA CountsKept ==
  ASSUME NEW s, NEW a, NEW t, NEW k, NEW c, NEW e, NEW o, RequestHolds(s, a, t, k, c, e, o),
         a \in DOMAIN s, ~e, s[a].op \in {"hand", "emit"}, NEW f
  PROVE  DepthHolds(s, a + 1, k, f)
<1>1. /\ a \in Nat \ {0} /\ a + 1 \in 1..(Len(s) + 1)
      /\ Len(k) + Count(s, "close", a) = Count(s, "open", a)
      BY ScriptFacts
<1>2. Count(s, "open", a + 1) = Count(s, "open", a) /\ Count(s, "close", a + 1) = Count(s, "close", a)
      BY <1>1, CountStep
<1> QED BY <1>1, <1>2 DEF DepthHolds

LEMMA RootsKept ==
  ASSUME NEW s, NEW a, NEW t, NEW k, NEW c, NEW e, NEW o, RequestHolds(s, a, t, k, c, e, o),
         NEW u, Roots(u) = Roots(t)
  PROVE  RootsHold(s, a, u) /\ RootsHold(s, a + 1, u)
<1>1. a \in Nat \ {0} /\ a + 1 \in Nat \ {0} /\ RootsHold(s, a, t)
      BY ScriptFacts DEF RequestHolds
<1>2. RootsHold(s, a, u)
      BY <1>1 DEF RootsHold
<1>3. PICK x, y \in Nat : /\ x = Cardinality(OuterBefore(s, a)) /\ x =< y
                          /\ y = Cardinality(OuterBefore(s, a + 1))
      BY <1>1, OuterStep
<1>4. IsFiniteSet(Roots(t)) /\ Cardinality(Roots(t)) \in Nat
  <2>1. TreeHolds(t)
        BY DEF RequestHolds
  <2>2. DOMAIN t = 1..Len(t) /\ Len(t) \in Nat
        BY <2>1, TreeFacts
  <2>3. 1 \in Int /\ Len(t) \in Int
        BY <2>2
  <2>4. IsFiniteSet(1..Len(t))
        BY ONLY <2>3, FS_Interval
  <2>5. Roots(t) \in SUBSET (1..Len(t))
        BY <2>2 DEF Roots
  <2>6. IsFiniteSet(Roots(t))
        BY <2>4, <2>5, FS_Subset
  <2> QED BY <2>6, FS_CardinalityType
<1>5. CarriesAll(s) => Cardinality(Roots(t)) =< x
      BY <1>1, <1>3 DEF RootsHold
<1>6. CarriesAll(s) => Cardinality(Roots(u)) =< y
      BY <1>3, <1>4, <1>5
<1> QED BY <1>2, <1>3, <1>6 DEF RootsHold

LEMMA CloseStep ==
  ASSUME NEW s, NEW a, NEW t, NEW k, NEW c, NEW e, NEW o, RequestHolds(s, a, t, k, c, e, o),
         a \in DOMAIN s, ~e, c.state = "idle", s[a].op = "close",
         NEW u, u = Ending(t, Top(k), "unset"), NEW l, l = Pop(k)
  PROVE  Stepped(t, s, a + 1, u, l, c, e, o)
<1>1. /\ s \in Scripts /\ e \in BOOLEAN
      /\ TreeHolds(t) /\ StackHolds(t, k) /\ CalleeHolds(s, a, t, k, c, e)
      /\ EndsHold(t, k, c) /\ ErrorsHold(s, t, k, e, o)
      BY DEF RequestHolds
<1>2. /\ a \in Nat \ {0} /\ a + 1 \in 1..(Len(s) + 1) /\ k # << >>
      /\ Count(s, "open", a) \in Nat /\ Count(s, "close", a) \in Nat /\ Len(k) \in Nat
      /\ Len(k) + Count(s, "close", a) = Count(s, "open", a)
      BY ScriptFacts
<1>3. PICK i \in 1..Len(t) : i = Top(k)
      BY <1>1, <1>2, StackFacts
<1>4. EndedAt(t, u, i) /\ Errors(u) = Errors(t) \ {i}
      BY <1>1, <1>3, EndTree
<1>5. /\ TreeHolds(u) /\ Len(u) = Len(t) /\ DOMAIN u = DOMAIN t /\ DOMAIN t = 1..Len(t)
      /\ Roots(u) = Roots(t)
      /\ \A j \in 1..Len(t) : u[j].parent = t[j].parent /\ u[j].trace = t[j].trace
      /\ u[i].ended = TRUE /\ \A j \in 1..Len(t) : j # i => u[j].ended = t[j].ended
      BY <1>1, <1>4, TreeFacts DEF EndedAt
<1>6. StackHolds(u, k)
      BY <1>1, <1>5, StackKept
<1>7. StackHolds(u, l) /\ Len(l) = Len(k) - 1 /\ Range(l) = Range(k) \ {i}
  <2>1. Popped(u, l, k)
        BY <1>2, <1>5, <1>6, PopStack
  <2> QED BY <1>3, <2>1 DEF Popped
<1>8. EndsHold(u, l, c)
  <2>1. Unended(t, k, c) = Range(k) /\ Unended(u, l, c) = Range(l)
        BY UnendedIs
  <2>2. \A j \in 1..Len(t) : t[j].ended = (j \notin Range(k))
        BY <1>1, <1>5, <2>1 DEF EndsHold
  <2>3. ASSUME NEW j \in 1..Len(t) PROVE u[j].ended = (j \notin Range(l))
    <3>1. CASE j = i
          BY <1>5, <1>7, <3>1
    <3>2. CASE j # i
          BY <1>5, <1>7, <2>2, <3>2
    <3> QED BY <3>1, <3>2
  <2> QED BY <1>5, <2>1, <2>3 DEF EndsHold
<1>9. CalleeHolds(s, a + 1, u, l, c, e)
      BY <1>1 DEF CalleeHolds
<1>10. DepthHolds(s, a + 1, l, e)
  <2>1. Count(s, "close", a + 1) = Count(s, "close", a) + 1 /\ Count(s, "open", a + 1) = Count(s, "open", a)
        BY <1>2, CountStep
  <2>2. Len(l) + Count(s, "close", a + 1) = Count(s, "open", a + 1)
        BY <1>2, <1>7, <2>1
  <2> QED BY <1>2, <2>2 DEF DepthHolds
<1>11. ErrorsHold(s, u, l, e, o)
       BY <1>1, <1>4 DEF ErrorsHold
<1>12. RootsHold(s, a + 1, u)
       BY <1>5, RootsKept
<1>13. Keeps(t, u)
       BY <1>5 DEF Keeps
<1> QED BY <1>1, <1>5, <1>7, <1>8, <1>9, <1>10, <1>11, <1>12, <1>13 DEF Stepped, RequestHolds

LEMMA RaiseStep ==
  ASSUME NEW s, NEW a, NEW t, NEW k, NEW c, NEW e, NEW o, RequestHolds(s, a, t, k, c, e, o),
         e = FALSE, c.state = "idle", k # << >>, NEW f, f = TRUE, NEW p, p = Top(k)
  PROVE  Stepped(t, s, a, t, k, c, f, p)
<1>1. /\ s \in Scripts
      /\ TreeHolds(t) /\ StackHolds(t, k) /\ CalleeHolds(s, a, t, k, c, e)
      /\ EndsHold(t, k, c) /\ ErrorsHold(s, t, k, e, o) /\ RootsHold(s, a, t)
      /\ DepthHolds(s, a, k, e)
      BY DEF RequestHolds
<1>2. Top(k) \in DOMAIN t /\ Range(k) = PathOf(t, Top(k))
  <2>1. Top(k) \in 1..Len(t) /\ DOMAIN t = 1..Len(t)
        BY <1>1, StackFacts, TreeFacts
  <2> QED BY <1>1, <2>1, StackIsPath
<1>3. Errors(t) = {}
      BY <1>1 DEF ErrorsHold
<1>4. ErrorsHold(s, t, k, f, p)
      BY <1>2, <1>3 DEF ErrorsHold
<1>5. DepthHolds(s, a, k, f)
      BY <1>1 DEF DepthHolds
<1>6. CalleeHolds(s, a, t, k, c, f)
      BY <1>1 DEF CalleeHolds
<1> QED BY <1>1, <1>4, <1>5, <1>6, KeepsItself DEF Stepped, RequestHolds

LEMMA UnwindStep ==
  ASSUME NEW s, NEW a, NEW t, NEW k, NEW c, NEW e, NEW o, RequestHolds(s, a, t, k, c, e, o),
         e, c.state = "idle", k # << >>,
         NEW u, u = Ending(t, Top(k), "error"), NEW l, l = Pop(k)
  PROVE  Stepped(t, s, a, u, l, c, e, o)
<1>1. /\ s \in Scripts /\ e \in BOOLEAN
      /\ TreeHolds(t) /\ StackHolds(t, k) /\ CalleeHolds(s, a, t, k, c, e)
      /\ EndsHold(t, k, c) /\ ErrorsHold(s, t, k, e, o) /\ DepthHolds(s, a, k, e)
      BY DEF RequestHolds
<1>2. PICK i \in 1..Len(t) : i = Top(k)
      BY <1>1, StackFacts
<1>3. EndedAt(t, u, i) /\ Errors(u) = Errors(t) \cup {i}
      BY <1>1, <1>2, EndTree
<1>4. /\ TreeHolds(u) /\ Len(u) = Len(t) /\ DOMAIN u = DOMAIN t /\ DOMAIN t = 1..Len(t)
      /\ Roots(u) = Roots(t)
      /\ \A j \in 1..Len(t) : u[j].parent = t[j].parent /\ u[j].trace = t[j].trace
      /\ u[i].ended = TRUE /\ \A j \in 1..Len(t) : j # i => u[j].ended = t[j].ended
      /\ \A j \in 0..Len(t) : PathOf(u, j) = PathOf(t, j)
      BY <1>1, <1>3, TreeFacts DEF EndedAt
<1>5. StackHolds(u, k)
      BY <1>1, <1>4, StackKept
<1>6. StackHolds(u, l) /\ Len(l) = Len(k) - 1 /\ Range(l) = Range(k) \ {i} /\ Range(k) = Range(l) \cup {i}
  <2>1. Popped(u, l, k)
        BY <1>4, <1>5, PopStack
  <2> QED BY <1>2, <2>1 DEF Popped
<1>7. EndsHold(u, l, c)
  <2>1. Unended(t, k, c) = Range(k) /\ Unended(u, l, c) = Range(l)
        BY UnendedIs
  <2>2. \A j \in 1..Len(t) : t[j].ended = (j \notin Range(k))
        BY <1>1, <1>4, <2>1 DEF EndsHold
  <2>3. ASSUME NEW j \in 1..Len(t) PROVE u[j].ended = (j \notin Range(l))
    <3>1. CASE j = i
          BY <1>4, <1>6, <3>1
    <3>2. CASE j # i
          BY <1>4, <1>6, <2>2, <3>2
    <3> QED BY <3>1, <3>2
  <2> QED BY <1>4, <2>1, <2>3 DEF EndsHold
<1>8. CalleeHolds(s, a, u, l, c, e)
      BY <1>1 DEF CalleeHolds
<1>9. DepthHolds(s, a, l, e)
      BY <1>1 DEF DepthHolds
<1>10. ErrorsHold(s, u, l, e, o)
  <2> SUFFICES ASSUME CarriesAll(s)
               PROVE  o \in DOMAIN u /\ Errors(u) \cup Range(l) = PathOf(u, o)
      BY DEF ErrorsHold
  <2>1. o \in DOMAIN t /\ Errors(t) \cup Range(k) = PathOf(t, o)
        BY <1>1 DEF ErrorsHold
  <2>2. Errors(u) \cup Range(l) = Errors(t) \cup Range(k)
        BY <1>3, <1>6
  <2>3. PathOf(u, o) = PathOf(t, o)
    <3>1. o \in 1..Len(t) /\ Len(t) \in Nat
          BY <1>1, <1>4, <2>1, TreeFacts
    <3>2. o \in 0..Len(t)
          BY ONLY <3>1
    <3> QED BY <1>4, <3>2
  <2> QED BY <1>4, <2>1, <2>2, <2>3
<1>11. RootsHold(s, a, u)
       BY <1>4, RootsKept
<1>12. Keeps(t, u)
       BY <1>4 DEF Keeps
<1> QED BY <1>1, <1>4, <1>6, <1>7, <1>8, <1>9, <1>10, <1>11, <1>12 DEF Stepped, RequestHolds

LEMMA EmitStep ==
  ASSUME NEW s, NEW a, NEW t, NEW k, NEW c, NEW e, NEW o, RequestHolds(s, a, t, k, c, e, o),
         a \in DOMAIN s, ~e, c.state = "idle", s[a].op = "emit"
  PROVE  Stepped(t, s, a + 1, t, k, c, e, o) /\ Top(k) \in DOMAIN t
<1>1. /\ s \in Scripts /\ e \in BOOLEAN
      /\ TreeHolds(t) /\ StackHolds(t, k) /\ CalleeHolds(s, a, t, k, c, e)
      /\ EndsHold(t, k, c) /\ ErrorsHold(s, t, k, e, o)
      BY DEF RequestHolds
<1>2. k # << >>
      BY ScriptFacts
<1>3. Top(k) \in DOMAIN t
      BY <1>1, <1>2, StackFacts, TreeFacts
<1>4. DepthHolds(s, a + 1, k, e)
      BY CountsKept
<1>5. CalleeHolds(s, a + 1, t, k, c, e)
      BY <1>1 DEF CalleeHolds
<1>6. RootsHold(s, a + 1, t)
      BY RootsKept
<1> QED BY <1>1, <1>3, <1>4, <1>5, <1>6, KeepsItself DEF Stepped, RequestHolds

(* What is handed over: the innermost open span, or nothing.               *)
LEMMA CarriedIs ==
  ASSUME NEW t, TreeHolds(t), NEW k, StackHolds(t, k), NEW x
  PROVE  /\ CarriedFrom(k, x) \in Seq(Nat)
         /\ CarriedFrom(k, x) # << >> =>
              Top(CarriedFrom(k, x)) = Top(k) /\ Top(k) \in 1..Len(t) /\ Top(k) \in Nat
         /\ x /\ k # << >> => CarriedFrom(k, x) # << >>
<1>1. CASE x /\ k # << >>
  <2>1. PICK i \in Nat : i = Top(k) /\ i \in 1..Len(t)
    <3>1. Top(k) \in 1..Len(t) /\ Len(t) \in Nat
          BY <1>1, StackFacts, TreeFacts
    <3> QED BY <3>1
  <2>2. CarriedFrom(k, x) = <<i>>
        BY <1>1, <2>1 DEF CarriedFrom
  <2>3. <<i>> \in Seq(Nat) /\ <<i>> # << >> /\ Top(<<i>>) = i
        BY DEF Top
  <2> QED BY <2>1, <2>2, <2>3
<1>2. CASE ~(x /\ k # << >>)
  <2>1. CarriedFrom(k, x) = << >>
        BY <1>2 DEF CarriedFrom
  <2> QED BY <1>2, <2>1
<1> QED BY <1>1, <1>2

LEMMA AppendedTop ==
  ASSUME NEW q \in Seq(Nat), NEW n \in Nat
  PROVE  Append(q, n) \in Seq(Nat) /\ Append(q, n) # << >> /\ Top(Append(q, n)) = n
<1>1. Append(q, n) \in Seq(Nat) /\ Len(Append(q, n)) = Len(q) + 1 /\ Append(q, n)[Len(q) + 1] = n
      OBVIOUS
<1>2. Len(q) \in Nat
      OBVIOUS
<1>3. Append(q, n) # << >>
      BY <1>1, <1>2
<1> QED BY <1>1, <1>3 DEF Top

LEMMA HandStep ==
  ASSUME NEW s, NEW a, NEW t, NEW k, NEW c, NEW e, NEW o, RequestHolds(s, a, t, k, c, e, o),
         a \in DOMAIN s, ~e, c.state = "idle", s[a].op = "hand",
         NEW d, d = [name |-> s[a].name, context |-> CarriedFrom(k, s[a].carry),
                     state |-> "submitted"]
  PROVE  Stepped(t, s, a, t, k, d, e, o)
<1>1. /\ s \in Scripts /\ e \in BOOLEAN
      /\ TreeHolds(t) /\ StackHolds(t, k)
      /\ EndsHold(t, k, c) /\ ErrorsHold(s, t, k, e, o) /\ DepthHolds(s, a, k, e)
      /\ RootsHold(s, a, t)
      BY DEF RequestHolds
<1>2. CarriedFrom(k, s[a].carry) \in Seq(Nat) /\ s[a].name \in SpanNames
      BY <1>1, CarriedIs, ScriptFacts
<1>3. /\ d \in Callees /\ d.state = "submitted" /\ d.name = s[a].name
      /\ d.context = CarriedFrom(k, s[a].carry)
      BY <1>2 DEF Callees
<1>4. CalleeHolds(s, a, t, k, d, e)
      BY <1>3 DEF CalleeHolds
<1>5. EndsHold(t, k, d)
  <2>1. Unended(t, k, d) = Unended(t, k, c)
        BY <1>3, UnendedIs
  <2> QED BY <1>1, <2>1 DEF EndsHold
<1> QED BY <1>1, <1>4, <1>5, KeepsItself DEF Stepped, RequestHolds

LEMMA RunningIs ==
  ASSUME NEW y \in SpanNames, NEW z \in Seq(Nat),
         NEW d, d = [name |-> y, context |-> z, state |-> "running"]
  PROVE  d \in Callees /\ d.state = "running" /\ d.name = y /\ d.context = z
BY DEF Callees

LEMMA CalleeStartStep ==
  ASSUME NEW s, NEW a, NEW t, NEW k, NEW c, NEW e, NEW o, RequestHolds(s, a, t, k, c, e, o),
         c.state = "submitted", NEW u, u = Append(t, Under(t, c.name, c.context)),
         NEW d, d = [c EXCEPT !.state = "running", !.context = Append(c.context, Len(t) + 1)]
  PROVE  Stepped(t, s, a, u, k, d, e, o)
<1>1. /\ s \in Scripts /\ e \in BOOLEAN
      /\ TreeHolds(t) /\ StackHolds(t, k) /\ CalleeHolds(s, a, t, k, c, e)
      /\ EndsHold(t, k, c) /\ ErrorsHold(s, t, k, e, o) /\ DepthHolds(s, a, k, e)
      /\ RootsHold(s, a, t)
      BY DEF RequestHolds
<1>2. /\ c \in Callees /\ ~e /\ a \in DOMAIN s /\ s[a].op = "hand" /\ c.name = s[a].name
      /\ c.context = CarriedFrom(k, s[a].carry)
      BY <1>1 DEF CalleeHolds
<1>3. c.name \in SpanNames /\ k # << >>
      BY <1>2, ScriptFacts
<1>4. PICK q \in Seq(Nat) : q = c.context /\ q = CarriedFrom(k, s[a].carry)
      BY <1>1, <1>2, CarriedIs
<1>5. PICK n, x : n = Len(t) + 1 /\ x = Under(t, c.name, q) /\ u = Append(t, x)
      BY <1>4
<1>6. q # << >> => Top(q) \in 1..Len(t)
      BY <1>1, <1>4, CarriedIs
<1>7. /\ Grown(t, u, x, n)
      /\ Errors(u) = Errors(t)
      /\ q # << >> => Roots(u) = Roots(t)
  <2>1. Grows(t, u, x, n, q)
        BY <1>1, <1>3, <1>5, <1>6, GrowTree
  <2> QED BY <2>1 DEF Grows
<1>8. /\ TreeHolds(u) /\ Len(u) = n /\ DOMAIN u = 1..n /\ n \in 1..n /\ u[n] = x
      /\ x.ended = FALSE /\ \A i \in 1..Len(t) : u[i] = t[i] /\ i \in 1..n
      BY <1>7 DEF Grown
<1>9. x.parent = Top(q)
  <2>1. StartsUnder(x, t, q)
        BY <1>1, <1>3, <1>5, <1>6, UnderIs
  <2>2. q = << >> => Top(q) = 0
        BY DEF Top
  <2> QED BY <2>1, <2>2 DEF StartsUnder
<1>10. Len(t) \in Nat /\ DOMAIN t = 1..Len(t) /\ n \in Nat /\ n > 0
       BY <1>1, <1>5, TreeFacts
<1>11. \A i \in 1..n : i \in 1..Len(t) \/ i = n
       BY <1>5, <1>10
<1>12. n \notin 1..Len(t)
       BY <1>5, <1>10
<1>13. StackHolds(u, k)
  <2>1. \A i \in 1..Len(t) : i \in 1..Len(u) /\ u[i].parent = t[i].parent
        BY <1>8
  <2> QED BY <1>1, <1>8, <2>1, StackKept
<1>14. /\ d \in Callees /\ d.state = "running" /\ d.name = s[a].name
       /\ d.context = Append(q, n)
  <2>1. Append(q, n) \in Seq(Nat)
        BY <1>10, AppendedTop
  <2>2. d = [name |-> c.name, context |-> Append(q, n), state |-> "running"]
        BY <1>2, <1>4, <1>5 DEF Callees
  <2>3. PICK y \in SpanNames : y = c.name
        BY <1>3
  <2>4. PICK z \in Seq(Nat) : z = Append(q, n)
        BY <2>1
  <2>5. d = [name |-> y, context |-> z, state |-> "running"]
        BY <2>2, <2>3, <2>4
  <2>6. d \in Callees /\ d.state = "running" /\ d.name = y /\ d.context = z
        BY ONLY <2>5, y \in SpanNames, z \in Seq(Nat), RunningIs
  <2> QED BY <1>2, <2>3, <2>4, <2>6
<1>15. CalleeHolds(s, a, u, k, d, e)
  <2>1. \A i \in DOMAIN k : k[i] < Len(u)
    <3> TAKE i \in DOMAIN k
    <3>1. k[i] \in 1..Len(t)
          BY <1>1, StackFacts
    <3> QED BY <1>5, <1>8, <1>10, <3>1
  <2> QED BY <1>2, <1>4, <1>8, <1>9, <1>10, <1>14, <2>1 DEF CalleeHolds
<1>16. EndsHold(u, k, d)
  <2>1. Unended(t, k, c) = Range(k) /\ Unended(u, k, d) = Range(k) \cup {n}
        BY <1>8, <1>14, UnendedIs
  <2>2. \A i \in 1..Len(t) : t[i].ended = (i \notin Range(k))
        BY <1>1, <1>10, <2>1 DEF EndsHold
  <2>3. ASSUME NEW i \in 1..n PROVE u[i].ended = (i \notin Range(k) \cup {n})
    <3>1. CASE i = n
          BY <1>8, <3>1
    <3>2. CASE i \in 1..Len(t)
          BY <1>8, <1>12, <2>2, <3>2
    <3> QED BY <1>11, <3>1, <3>2
  <2> QED BY <1>8, <2>1, <2>3 DEF EndsHold
<1>17. ErrorsHold(s, u, k, e, o)
       BY <1>1, <1>2, <1>7 DEF ErrorsHold
<1>18. RootsHold(s, a, u)
  <2> SUFFICES ASSUME CarriesAll(s) PROVE RootsHold(s, a, u)
      BY DEF RootsHold
  <2>1. s[a].carry
        BY <1>2 DEF CarriesAll
  <2>2. q # << >>
        BY <1>1, <1>3, <1>4, <2>1, CarriedIs
  <2> QED BY <1>7, <2>2, RootsKept
<1>19. Keeps(t, u)
       BY <1>8, <1>10 DEF Keeps
<1> QED BY <1>1, <1>8, <1>13, <1>15, <1>16, <1>17, <1>18, <1>19 DEF Stepped, RequestHolds

LEMMA CalleeEndStep ==
  ASSUME NEW s, NEW a, NEW t, NEW k, NEW c, NEW e, NEW o, RequestHolds(s, a, t, k, c, e, o),
         c.state = "running", NEW fails \in BOOLEAN,
         NEW u, u = Ending(t, Top(c.context), IF fails THEN "error" ELSE "unset"),
         NEW p, p = IF fails THEN Top(c.context) ELSE 0
  PROVE  Stepped(t, s, a + 1, u, k, Idle, fails, p)
<1>1. /\ s \in Scripts /\ e \in BOOLEAN
      /\ TreeHolds(t) /\ StackHolds(t, k) /\ CalleeHolds(s, a, t, k, c, e)
      /\ EndsHold(t, k, c) /\ ErrorsHold(s, t, k, e, o)
      BY DEF RequestHolds
<1>2. PICK q \in Seq(Nat), i \in 1..Len(t) :
        /\ q = CarriedFrom(k, s[a].carry) /\ i = Len(t) /\ c.context = Append(q, i)
        /\ t[i].parent = Top(q) /\ \A j \in DOMAIN k : k[j] < i
  <2>1. Len(t) > 0 /\ Len(t) \in Nat /\ CarriedFrom(k, s[a].carry) \in Seq(Nat)
        BY <1>1, TreeFacts, CarriedIs DEF CalleeHolds
  <2>2. Len(t) \in 1..Len(t)
        BY <2>1
  <2> QED BY <1>1, <2>1, <2>2 DEF CalleeHolds
<1>3. ~e /\ a \in DOMAIN s /\ s[a].op = "hand"
      BY <1>1 DEF CalleeHolds
<1>4. a \in Nat \ {0} /\ k # << >>
      BY <1>3, ScriptFacts
<1>5. Top(c.context) = i
  <2>1. i \in Nat
        BY <1>1, TreeFacts
  <2> QED BY <1>2, <2>1, AppendedTop
<1>6. PICK status \in {"unset", "error"} :
        u = Ending(t, i, status) /\ (fails => status = "error") /\ (~fails => status = "unset")
      BY <1>5
<1>7. Errors(t) = {}
      BY <1>1, <1>3 DEF ErrorsHold
<1>8. /\ EndedAt(t, u, i)
      /\ fails => Errors(u) = {i}
      /\ ~fails => Errors(u) = {}
      BY <1>1, <1>6, <1>7, EndTree
<1>9. /\ TreeHolds(u) /\ Len(u) = Len(t) /\ DOMAIN u = DOMAIN t /\ DOMAIN t = 1..Len(t)
      /\ Roots(u) = Roots(t)
      /\ \A j \in 1..Len(t) : u[j].parent = t[j].parent /\ u[j].trace = t[j].trace
      /\ u[i].ended = TRUE /\ \A j \in 1..Len(t) : j # i => u[j].ended = t[j].ended
      /\ \A j \in 0..Len(t) : PathOf(u, j) = PathOf(t, j)
      BY <1>1, <1>8, TreeFacts DEF EndedAt
<1>10. StackHolds(u, k)
       BY <1>1, <1>9, StackKept
<1>11. i \notin Range(k)
  <2>1. \A j \in DOMAIN k : k[j] # i
    <3> TAKE j \in DOMAIN k
    <3>1. k[j] \in 1..Len(t) /\ k[j] < i /\ Len(t) \in Nat
          BY <1>1, <1>2, StackFacts, TreeFacts
    <3> QED BY <3>1
  <2> QED BY <2>1 DEF Range
<1>12. Idle \in Callees /\ Idle.state = "idle"
       BY DEF Idle, Callees
<1>13. EndsHold(u, k, Idle)
  <2>1. Unended(t, k, c) = Range(k) \cup {i} /\ Unended(u, k, Idle) = Range(k)
        BY <1>2, <1>12, UnendedIs
  <2>2. \A j \in 1..Len(t) : t[j].ended = (j \notin Range(k) \cup {i})
        BY <1>1, <1>9, <2>1 DEF EndsHold
  <2>3. ASSUME NEW j \in 1..Len(t) PROVE u[j].ended = (j \notin Range(k))
    <3>1. CASE j = i
          BY <1>9, <1>11, <3>1
    <3>2. CASE j # i
          BY <1>9, <2>2, <3>2
    <3> QED BY <3>1, <3>2
  <2> QED BY <1>9, <2>1, <2>3 DEF EndsHold
<1>14. CalleeHolds(s, a + 1, u, k, Idle, fails)
       BY <1>12 DEF CalleeHolds
<1>15. DepthHolds(s, a + 1, k, fails)
       BY <1>3, CountsKept
<1>16. ErrorsHold(s, u, k, fails, p)
  <2>1. ~fails => Errors(u) = {}
        BY <1>8
  <2>2. ASSUME fails, CarriesAll(s)
        PROVE  p \in DOMAIN u /\ Errors(u) \cup Range(k) = PathOf(u, p)
    <3>1. p = i
          BY <1>5, <2>2
    <3>2. s[a].carry
          BY <1>3, <2>2 DEF CarriesAll
    <3>3. Top(q) = Top(k)
      <4>1. q # << >>
            BY <1>1, <1>2, <1>4, <3>2, CarriedIs
      <4> QED BY <1>1, <1>2, <4>1, CarriedIs
    <3>4. Range(k) = PathOf(t, Top(k))
          BY <1>1, StackIsPath
    <3>5. PathOf(t, i) = {i} \cup PathOf(t, t[i].parent)
      <4>1. PICK last, parents : last \in Nat /\ last = Len(t) /\ Parents(t, parents)
            BY <1>1, TreeFacts
      <4> QED BY <4>1, PathIs
    <3>6. PathOf(u, i) = PathOf(t, i)
      <4>1. i \in 0..Len(t)
            OBVIOUS
      <4> QED BY <1>9, <4>1
    <3>7. Errors(u) = {i}
          BY <1>8, <2>2
    <3> QED BY <1>2, <1>9, <3>1, <3>3, <3>4, <3>5, <3>6, <3>7
  <2> QED BY <2>1, <2>2 DEF ErrorsHold
<1>17. RootsHold(s, a + 1, u)
       BY <1>9, RootsKept
<1>18. Keeps(t, u)
       BY <1>9 DEF Keeps
<1> QED BY <1>1, <1>9, <1>10, <1>13, <1>14, <1>15, <1>16, <1>17, <1>18 DEF Stepped, RequestHolds

-----------------------------------------------------------------------------
(* The requests, together: one moves, and the trees of all only grow.      *)
TreesGrow == \A q \in Requests : Keeps(tree[q], tree'[q])

Moves(f, g, r, x) == DOMAIN g = DOMAIN f /\ g[r] = x /\ \A q \in DOMAIN f : q # r => g[q] = f[q]

LEMMA MovesIs ==
  ASSUME NEW f, NEW r \in DOMAIN f
  PROVE  /\ \A x : Moves(f, [f EXCEPT ![r] = x], r, x)
         /\ Moves(f, f, r, f[r])
BY DEF Moves

LEMMA OneMoves ==
  ASSUME RequestsHold, NEW r \in Requests, script' = script,
         NEW a, Moves(at, at', r, a), NEW t, Moves(tree, tree', r, t),
         NEW k, Moves(stack, stack', r, k), NEW c, Moves(callee, callee', r, c),
         NEW e, Moves(raising, raising', r, e), NEW o, Moves(origin, origin', r, o),
         Stepped(tree[r], script[r], a, t, k, c, e, o)
  PROVE  RequestsHold' /\ TreesGrow
<1>1. /\ DOMAIN script' = Requests /\ DOMAIN at' = Requests /\ DOMAIN tree' = Requests
      /\ DOMAIN stack' = Requests /\ DOMAIN callee' = Requests
      /\ DOMAIN raising' = Requests /\ DOMAIN origin' = Requests
      BY DEF RequestsHold, Moves
<1>2. ASSUME NEW q \in Requests
      PROVE  /\ RequestHolds(script'[q], at'[q], tree'[q], stack'[q], callee'[q], raising'[q], origin'[q])
             /\ Keeps(tree[q], tree'[q])
  <2>1. CASE q = r
    <3>1. /\ script'[q] = script[r] /\ at'[q] = a /\ tree'[q] = t /\ stack'[q] = k
          /\ callee'[q] = c /\ raising'[q] = e /\ origin'[q] = o
          BY <2>1 DEF Moves
    <3> QED BY <2>1, <3>1 DEF Stepped
  <2>2. CASE q # r
    <3>1. /\ script'[q] = script[q] /\ at'[q] = at[q] /\ tree'[q] = tree[q] /\ stack'[q] = stack[q]
          /\ callee'[q] = callee[q] /\ raising'[q] = raising[q] /\ origin'[q] = origin[q]
          BY <2>2 DEF Moves, RequestsHold
    <3> QED BY <3>1, KeepsItself DEF RequestsHold
  <2> QED BY <2>1, <2>2
<1> QED BY <1>1, <1>2 DEF RequestsHold, TreesGrow

LEMMA RequestMoves ==
  ASSUME RequestsHold, NEW r \in Requests, RequestStep(r)
  PROVE  /\ RequestsHold' /\ TreesGrow
         /\ \/ UNCHANGED logVars
            \/ EmitRecord(r) /\ Top(stack[r]) \in DOMAIN tree[r]
<1>1. /\ r \in DOMAIN script /\ r \in DOMAIN at /\ r \in DOMAIN tree /\ r \in DOMAIN stack
      /\ r \in DOMAIN callee /\ r \in DOMAIN raising /\ r \in DOMAIN origin
      BY DEF RequestsHold
<1>2. PICK s, a, t, k, c, e, o :
        /\ s = script[r] /\ a = at[r] /\ t = tree[r] /\ k = stack[r]
        /\ c = callee[r] /\ e = raising[r] /\ o = origin[r]
      OBVIOUS
<1>3. RequestHolds(s, a, t, k, c, e, o)
      BY <1>2 DEF RequestsHold
<1>4. /\ Moves(at, at, r, a) /\ Moves(tree, tree, r, t) /\ Moves(stack, stack, r, k)
      /\ Moves(callee, callee, r, c) /\ Moves(raising, raising, r, e) /\ Moves(origin, origin, r, o)
      BY <1>1, <1>2, MovesIs
<1>5. CASE OpenSpan(r)
  <2>1. a \in DOMAIN s /\ ~e /\ c.state = "idle" /\ s[a].op = "open"
        BY <1>2, <1>5 DEF OpenSpan, Ready, NextOp
  <2>2. PICK u, l : u = Append(t, Under(t, s[a].name, k)) /\ l = Append(k, Len(t) + 1)
        OBVIOUS
  <2>3. Stepped(t, s, a + 1, u, l, c, e, o)
        BY <1>3, <2>1, <2>2, OpenStep
  <2>4. SpanUnder(r, s[a].name, k) = Under(t, s[a].name, k)
        BY <1>2 DEF SpanUnder, Under
  <2>5. /\ tree' = [tree EXCEPT ![r] = u] /\ stack' = [stack EXCEPT ![r] = l]
        /\ at' = [at EXCEPT ![r] = a + 1]
        BY <1>1, <1>2, <1>5, <2>2, <2>4 DEF OpenSpan, StartOne, NextOp, Advance
  <2>6. Moves(tree, tree', r, u) /\ Moves(stack, stack', r, l) /\ Moves(at, at', r, a + 1)
        BY <1>1, <2>5, MovesIs
  <2>7. UNCHANGED <<script, callee, raising, origin>> /\ UNCHANGED logVars
        BY <1>5 DEF OpenSpan
  <2>8. Moves(callee, callee', r, c) /\ Moves(raising, raising', r, e) /\ Moves(origin, origin', r, o)
        BY <1>4, <2>7
  <2> QED BY <1>2, <2>3, <2>6, <2>7, <2>8, OneMoves
<1>6. CASE CloseSpan(r)
  <2>1. a \in DOMAIN s /\ ~e /\ c.state = "idle" /\ s[a].op = "close"
        BY <1>2, <1>6 DEF CloseSpan, Ready, NextOp
  <2>2. PICK u, l : u = Ending(t, Top(k), "unset") /\ l = Pop(k)
        OBVIOUS
  <2>3. Stepped(t, s, a + 1, u, l, c, e, o)
        BY <1>3, <2>1, <2>2, CloseStep
  <2>4. /\ tree' = [tree EXCEPT ![r] = u] /\ stack' = [stack EXCEPT ![r] = l]
        /\ at' = [at EXCEPT ![r] = a + 1]
        BY <1>1, <1>2, <1>6, <2>2 DEF CloseSpan, EndOne, Ending, Advance
  <2>5. Moves(tree, tree', r, u) /\ Moves(stack, stack', r, l) /\ Moves(at, at', r, a + 1)
        BY <1>1, <2>4, MovesIs
  <2>6. UNCHANGED <<script, callee, raising, origin>> /\ UNCHANGED logVars
        BY <1>6 DEF CloseSpan
  <2>7. Moves(callee, callee', r, c) /\ Moves(raising, raising', r, e) /\ Moves(origin, origin', r, o)
        BY <1>4, <2>6
  <2> QED BY <1>2, <2>3, <2>5, <2>6, <2>7, OneMoves
<1>7. CASE RaiseInside(r)
  <2>1. e = FALSE /\ c.state = "idle" /\ k # << >>
        BY <1>2, <1>3, <1>7 DEF RaiseInside, RequestHolds
  <2>2. PICK f, p : f = TRUE /\ p = Top(k)
        OBVIOUS
  <2>3. Stepped(t, s, a, t, k, c, f, p)
        BY <1>3, <2>1, <2>2, RaiseStep
  <2>4. raising' = [raising EXCEPT ![r] = f] /\ origin' = [origin EXCEPT ![r] = p]
        BY <1>2, <1>7, <2>2 DEF RaiseInside
  <2>5. Moves(raising, raising', r, f) /\ Moves(origin, origin', r, p)
        BY <1>1, <2>4, MovesIs
  <2>6. UNCHANGED <<script, at, tree, stack, callee>> /\ UNCHANGED logVars
        BY <1>7 DEF RaiseInside
  <2>7. /\ Moves(at, at', r, a) /\ Moves(tree, tree', r, t) /\ Moves(stack, stack', r, k)
        /\ Moves(callee, callee', r, c)
        BY <1>4, <2>6
  <2> QED BY <1>2, <2>3, <2>5, <2>6, <2>7, OneMoves
<1>8. CASE Unwind(r)
  <2>1. e /\ c.state = "idle" /\ k # << >>
        BY <1>2, <1>8 DEF Unwind
  <2>2. PICK u, l : u = Ending(t, Top(k), "error") /\ l = Pop(k)
        OBVIOUS
  <2>3. Stepped(t, s, a, u, l, c, e, o)
        BY <1>3, <2>1, <2>2, UnwindStep
  <2>4. tree' = [tree EXCEPT ![r] = u] /\ stack' = [stack EXCEPT ![r] = l]
        BY <1>1, <1>2, <1>8, <2>2 DEF Unwind, EndOne, Ending
  <2>5. Moves(tree, tree', r, u) /\ Moves(stack, stack', r, l)
        BY <1>1, <2>4, MovesIs
  <2>6. UNCHANGED <<script, at, callee, raising, origin>> /\ UNCHANGED logVars
        BY <1>8 DEF Unwind
  <2>7. /\ Moves(at, at', r, a) /\ Moves(callee, callee', r, c)
        /\ Moves(raising, raising', r, e) /\ Moves(origin, origin', r, o)
        BY <1>4, <2>6
  <2> QED BY <1>2, <2>3, <2>5, <2>6, <2>7, OneMoves
<1>9. CASE HandOver(r)
  <2>1. a \in DOMAIN s /\ ~e /\ c.state = "idle" /\ s[a].op = "hand"
        BY <1>2, <1>9 DEF HandOver, Ready, NextOp
  <2>2. PICK d : d = [name |-> s[a].name, context |-> CarriedFrom(k, s[a].carry), state |-> "submitted"]
        OBVIOUS
  <2>3. Stepped(t, s, a, t, k, d, e, o)
        BY <1>3, <2>1, <2>2, HandStep
  <2>4. Carried(r, s[a].carry) = CarriedFrom(k, s[a].carry)
        BY <1>2 DEF Carried, CarriedFrom
  <2>5. callee' = [callee EXCEPT ![r] = d]
        BY <1>2, <1>9, <2>2, <2>4 DEF HandOver, NextOp
  <2>6. Moves(callee, callee', r, d)
        BY <1>1, <2>5, MovesIs
  <2>7. UNCHANGED <<script, at, tree, stack, raising, origin>> /\ UNCHANGED logVars
        BY <1>9 DEF HandOver
  <2>8. /\ Moves(at, at', r, a) /\ Moves(tree, tree', r, t) /\ Moves(stack, stack', r, k)
        /\ Moves(raising, raising', r, e) /\ Moves(origin, origin', r, o)
        BY <1>4, <2>7
  <2> QED BY <1>2, <2>3, <2>6, <2>7, <2>8, OneMoves
<1>10. CASE CalleeStarts(r)
  <2>1. c.state = "submitted"
        BY <1>2, <1>10 DEF CalleeStarts
  <2>2. PICK u, d : /\ u = Append(t, Under(t, c.name, c.context))
                    /\ d = [c EXCEPT !.state = "running", !.context = Append(c.context, Len(t) + 1)]
        OBVIOUS
  <2>3. Stepped(t, s, a, u, k, d, e, o)
        BY <1>3, <2>1, <2>2, CalleeStartStep
  <2>4. SpanUnder(r, c.name, c.context) = Under(t, c.name, c.context)
        BY <1>2 DEF SpanUnder, Under
  <2>5. tree' = [tree EXCEPT ![r] = u]
        BY <1>1, <1>2, <1>10, <2>2, <2>4 DEF CalleeStarts, StartOne
  <2>6. callee' = [callee EXCEPT ![r] = d]
        BY <1>2, <1>10, <2>2, Zenon DEF CalleeStarts
  <2>7. Moves(tree, tree', r, u) /\ Moves(callee, callee', r, d)
        BY <1>1, <2>5, <2>6, MovesIs
  <2>8. UNCHANGED <<script, at, stack, raising, origin>> /\ UNCHANGED logVars
        BY <1>10 DEF CalleeStarts
  <2>9. /\ Moves(at, at', r, a) /\ Moves(stack, stack', r, k)
        /\ Moves(raising, raising', r, e) /\ Moves(origin, origin', r, o)
        BY <1>4, <2>8
  <2> QED BY <1>2, <2>3, <2>7, <2>8, <2>9, OneMoves
<1>11. ASSUME NEW fails \in BOOLEAN, CalleeEnds(r, fails)
       PROVE  RequestsHold' /\ TreesGrow /\ UNCHANGED logVars
  <2>1. c.state = "running"
        BY <1>2, <1>11 DEF CalleeEnds
  <2>2. PICK u, p : /\ u = Ending(t, Top(c.context), IF fails THEN "error" ELSE "unset")
                    /\ p = IF fails THEN Top(c.context) ELSE 0
        OBVIOUS
  <2>3. Stepped(t, s, a + 1, u, k, Idle, fails, p)
        BY <1>3, <2>1, <2>2, CalleeEndStep
  <2>4. /\ tree' = [tree EXCEPT ![r] = u] /\ at' = [at EXCEPT ![r] = a + 1]
        /\ callee' = [callee EXCEPT ![r] = Idle] /\ raising' = [raising EXCEPT ![r] = fails]
        /\ origin' = [origin EXCEPT ![r] = p]
        BY <1>1, <1>2, <1>11, <2>2 DEF CalleeEnds, EndOne, Ending, Advance
  <2>5. /\ Moves(tree, tree', r, u) /\ Moves(at, at', r, a + 1) /\ Moves(callee, callee', r, Idle)
        /\ Moves(raising, raising', r, fails) /\ Moves(origin, origin', r, p)
        BY <1>1, <2>4, MovesIs
  <2>6. UNCHANGED <<script, stack>> /\ UNCHANGED logVars
        BY <1>11 DEF CalleeEnds
  <2>7. Moves(stack, stack', r, k)
        BY <1>4, <2>6
  <2> QED BY <1>2, <2>3, <2>5, <2>6, <2>7, OneMoves
<1>12. CASE EmitRecord(r)
  <2>1. a \in DOMAIN s /\ ~e /\ c.state = "idle" /\ s[a].op = "emit"
        BY <1>2, <1>12 DEF EmitRecord, Ready, NextOp
  <2>2. Stepped(t, s, a + 1, t, k, c, e, o) /\ Top(k) \in DOMAIN t
        BY <1>3, <2>1, EmitStep
  <2>3. at' = [at EXCEPT ![r] = a + 1]
        BY <1>1, <1>2, <1>12 DEF EmitRecord, Advance
  <2>4. Moves(at, at', r, a + 1)
        BY <1>1, <2>3, MovesIs
  <2>5. UNCHANGED <<script, tree, stack, callee, raising, origin>>
        BY <1>12 DEF EmitRecord
  <2>6. /\ Moves(tree, tree', r, t) /\ Moves(stack, stack', r, k) /\ Moves(callee, callee', r, c)
        /\ Moves(raising, raising', r, e) /\ Moves(origin, origin', r, o)
        BY <1>4, <2>5
  <2>7. RequestsHold' /\ TreesGrow
        BY <1>2, <2>2, <2>4, <2>5, <2>6, OneMoves
  <2> QED BY <1>2, <1>12, <2>2, <2>7
<1> QED BY <1>5, <1>6, <1>7, <1>8, <1>9, <1>10, <1>11, <1>12 DEF RequestStep

-----------------------------------------------------------------------------
(* The logs.                                                               *)
LEMMA LogsKept ==
  ASSUME RequestsHold, LogsHold, UNCHANGED logVars, TreesGrow
  PROVE  LogsHold'
<1>1. /\ buffer' = buffer /\ previous' = previous /\ collected' = collected
      /\ entered' = entered /\ nested' = nested
      BY DEF logVars
<1>2. Innermost' = Innermost
      BY <1>1 DEF Innermost
<1>3. ASSUME NEW b \in LogBlocks, NEW i \in DOMAIN collected[b]
      PROVE  RecordHolds(collected[b][i], b)'
  <2>1. PICK x \in LogRecords : x = collected[b][i]
        BY DEF LogsHold
  <2>2. RecordHolds(x, b)
        BY <2>1 DEF LogsHold
  <2>3. x.request \in Requests
        BY DEF LogRecords
  <2>4. Keeps(tree[x.request], tree'[x.request])
        BY <2>3 DEF TreesGrow
  <2>5. RecordHolds(x, b)'
        BY <2>2, <2>4 DEF RecordHolds, Keeps
  <2> QED BY <1>1, <2>1, <2>5
<1> QED BY <1>1, <1>2, <1>3 DEF LogsHold

LEMMA EmitLogs ==
  ASSUME RequestsHold, LogsHold, NEW r \in Requests, EmitRecord(r),
         Top(stack[r]) \in DOMAIN tree[r]
  PROVE  LogsHold'
<1>1. /\ buffer' = buffer /\ previous' = previous /\ tree' = tree
      /\ entered' = entered /\ nested' = nested
      BY DEF EmitRecord
<1>2. Innermost' = Innermost
      BY <1>1 DEF Innermost
<1>3. \A x, b : RecordHolds(x, b)' = RecordHolds(x, b)
      BY <1>1 DEF RecordHolds
<1>4. CASE buffer = "none"
  <2>1. collected' = collected
        BY <1>4 DEF EmitRecord
  <2> QED BY <1>1, <1>2, <1>3, <2>1 DEF LogsHold
<1>5. CASE buffer # "none"
  <2>1. PICK b \in LogBlocks : b = buffer
        BY <1>5 DEF LogsHold
  <2>2. PICK i \in Nat, n \in Nat : i = Top(stack[r]) /\ n = tree[r][i].trace /\ i \in DOMAIN tree[r]
    <3>1. TreeHolds(tree[r])
          BY DEF RequestsHold, RequestHolds
    <3>2. Top(stack[r]) \in 1..Len(tree[r]) /\ Len(tree[r]) \in Nat
          /\ tree[r][Top(stack[r])].trace \in 1..Len(tree[r])
          BY <3>1, TreeFacts
    <3> QED BY <3>2
  <2>3. (IF nested THEN Innermost ELSE buffer) = b
        BY <2>1 DEF LogsHold
  <2>4. ~tree[r][i].ended
    <3>1. PICK s, a, t, k, c, e, o :
            /\ s = script[r] /\ a = at[r] /\ t = tree[r] /\ k = stack[r]
            /\ c = callee[r] /\ e = raising[r] /\ o = origin[r]
          OBVIOUS
    <3>2. RequestHolds(s, a, t, k, c, e, o)
          BY <3>1 DEF RequestsHold
    <3>3. a \in DOMAIN s /\ ~e /\ s[a].op = "emit"
          BY <3>1 DEF EmitRecord, Ready, NextOp
    <3>4. k # << >>
          BY <3>2, <3>3, ScriptFacts
    <3>5. k \in Seq(DOMAIN t) /\ EndsHold(t, k, c)
          BY <3>2 DEF RequestHolds, StackHolds
    <3>6. Len(k) \in DOMAIN k /\ Top(k) = k[Len(k)]
          BY <3>4, <3>5 DEF Top
    <3>7. i \in Unended(t, k, c)
          BY <2>2, <3>1, <3>6 DEF Unended, Range
    <3>8. t[i].ended = (i \notin Unended(t, k, c))
          BY <2>2, <3>1, <3>5 DEF EndsHold
    <3> QED BY <3>1, <3>7, <3>8
  <2>5. PICK x : /\ x = [request |-> r, span |-> i, trace |-> n, open |-> TRUE, due |-> b]
                 /\ x \in LogRecords /\ x.request = r /\ x.span = i /\ x.trace = n
                 /\ x.open /\ x.due = b
    <3>1. PICK y \in BOOLEAN : y
          OBVIOUS
    <3>2. PICK x : x = [request |-> r, span |-> i, trace |-> n, open |-> y, due |-> b]
          OBVIOUS
    <3>3. x \in LogRecords
          BY <3>2 DEF LogRecords
    <3>4. x.request = r /\ x.span = i /\ x.trace = n /\ x.open = y /\ x.due = b
          BY <3>2
    <3>5. x = [request |-> r, span |-> i, trace |-> n, open |-> TRUE, due |-> b]
          BY <3>1, <3>2, Zenon
    <3> QED BY <3>1, <3>3, <3>4, <3>5
  <2>6. RecordHolds(x, b)
        BY <2>2, <2>5 DEF RecordHolds
  <2>7. PICK q \in Seq(LogRecords) : q = collected[b]
        BY DEF LogsHold
  <2>8. collected' = [collected EXCEPT ![b] = Append(q, x)]
        BY <1>5, <2>1, <2>2, <2>3, <2>4, <2>5, <2>7 DEF EmitRecord
  <2>9. /\ Append(q, x) \in Seq(LogRecords) /\ Len(q) \in Nat /\ DOMAIN q = 1..Len(q)
        /\ DOMAIN Append(q, x) = 1..(Len(q) + 1)
        /\ Append(q, x)[Len(q) + 1] = x
        /\ \A j \in 1..Len(q) : Append(q, x)[j] = q[j]
        BY <2>5
  <2>10. \A j \in DOMAIN q : RecordHolds(q[j], b)
         BY <2>7 DEF LogsHold
  <2>11. \A j \in DOMAIN Append(q, x) : RecordHolds(Append(q, x)[j], b)
    <3> TAKE j \in DOMAIN Append(q, x)
    <3>1. j \in 1..Len(q) \/ j = Len(q) + 1
          BY <2>9
    <3> QED BY <2>6, <2>9, <2>10, <3>1
  <2>12. collected \in [LogBlocks -> Seq(LogRecords)]
         BY DEF LogsHold
  <2>13. /\ collected' \in [LogBlocks -> Seq(LogRecords)]
         /\ collected'[b] = Append(q, x) /\ \A d \in LogBlocks : d # b => collected'[d] = collected[d]
         BY <2>8, <2>9, <2>12
  <2>14. ASSUME NEW d \in LogBlocks, NEW j \in DOMAIN collected'[d]
         PROVE  RecordHolds(collected'[d][j], d)
    <3>1. CASE d = b
          BY <2>11, <2>13, <3>1
    <3>2. CASE d # b
          BY <2>13, <3>2 DEF LogsHold
    <3> QED BY <3>1, <3>2
  <2>15. \A d \in LogBlocks : \A j \in DOMAIN collected'[d] : RecordHolds(collected[d][j], d)'
    <3> TAKE d \in LogBlocks
    <3> TAKE j \in DOMAIN collected'[d]
    <3>1. PICK y : y = collected'[d][j]
          OBVIOUS
    <3>2. RecordHolds(y, d)'
          BY <1>3, <2>14, <3>1
    <3> QED BY <3>1, <3>2
  <2> QED BY <1>1, <1>2, <2>13, <2>15 DEF LogsHold
<1> QED BY <1>4, <1>5

LEMMA EnterStep ==
  ASSUME RequestsHold, LogsHold, NEW b \in LogBlocks, EnterLogs(b)
  PROVE  LogsHold'
<1>1. /\ previous[b] = "unused" /\ previous' = [previous EXCEPT ![b] = buffer]
      /\ buffer' = b /\ entered' = Append(entered, b)
      /\ collected' = collected /\ nested' = nested /\ tree' = tree
      BY DEF EnterLogs, requestVars
<1>2. /\ previous \in [LogBlocks -> LogBlocks \cup {"none", "unused"}]
      /\ buffer \in LogBlocks \cup {"none"} /\ nested \in BOOLEAN
      /\ \A i \in DOMAIN entered : previous[entered[i]] # "unused"
      /\ \A i, j \in DOMAIN entered : i # j => entered[i] # entered[j]
      BY DEF LogsHold
<1>3. buffer # "unused"
  <2>1. "unused" \notin LogBlocks
        BY TraceOK
  <2> QED BY <1>2, <2>1
<1>4. PICK q \in Seq(LogBlocks), n \in Nat, m \in Nat : q = entered /\ n = Len(q) /\ m = n + 1
      BY DEF LogsHold
<1>5. PICK z : z = Append(q, b)
      OBVIOUS
<1>6. /\ z \in Seq(LogBlocks) /\ Len(z) = m /\ DOMAIN z = 1..m /\ z[m] = b /\ z # << >>
      /\ DOMAIN q = 1..n /\ \A i \in 1..n : z[i] = q[i] /\ q[i] \in LogBlocks /\ i \in 1..m
      BY <1>4, <1>5
<1>7. \A i \in 1..m : i \in 1..n \/ i = m
      BY <1>4
<1>8. \A i \in 1..n : q[i] # b /\ previous[q[i]] # "unused"
      BY <1>1, <1>2, <1>4, <1>6
<1>9. /\ previous' \in [LogBlocks -> LogBlocks \cup {"none", "unused"}]
      /\ previous'[b] = buffer /\ \A d \in LogBlocks : d # b => previous'[d] = previous[d]
      BY <1>1, <1>2
<1>10. \A i \in 1..m : previous'[z[i]] # "unused"
       BY <1>3, <1>6, <1>7, <1>8, <1>9
<1>11. \A i, j \in 1..m : i # j => z[i] # z[j]
       BY <1>2, <1>4, <1>6, <1>7, <1>8
<1>12. Innermost' = b
       BY <1>1, <1>4, <1>5, <1>6 DEF Innermost
<1>13. nested => \A i \in 1..m : previous'[z[i]] = IF i = 1 THEN "none" ELSE z[i - 1]
  <2> SUFFICES ASSUME nested, NEW i \in 1..m
               PROVE  previous'[z[i]] = IF i = 1 THEN "none" ELSE z[i - 1]
      OBVIOUS
  <2>1. /\ buffer = Innermost
        /\ \A j \in 1..n : previous[q[j]] = IF j = 1 THEN "none" ELSE q[j - 1]
        BY <1>4, <1>6 DEF LogsHold
  <2>2. CASE i \in 1..n
    <3>1. i # 1 => i - 1 \in 1..n
          BY <2>2
    <3>2. i # 1 => z[i - 1] = q[i - 1]
          BY <1>6, <3>1
    <3>3. previous'[z[i]] = previous[q[i]]
          BY <1>6, <1>8, <1>9, <2>2
    <3> QED BY <2>1, <2>2, <3>2, <3>3
  <2>3. CASE i = m
    <3>1. previous'[z[i]] = buffer
          BY <1>6, <1>9, <2>3
    <3>2. CASE n = 0
      <4>1. q = << >> /\ i = 1
        <5>1. q = << >>
          <6>1. q \in Seq(LogBlocks) /\ Len(q) = 0
                BY <1>4, <3>2
          <6> QED BY ONLY <6>1
        <5> QED BY <1>4, <2>3, <3>2, <5>1
      <4> QED BY <1>4, <2>1, <3>1, <4>1 DEF Innermost
    <3>3. CASE n # 0
      <4>1. q # << >> /\ i # 1 /\ i - 1 = n /\ n \in 1..n
            BY <1>4, <2>3, <3>3
      <4>2. buffer = q[n]
            BY <1>4, <2>1, <4>1 DEF Innermost
      <4> QED BY <1>6, <3>1, <4>1, <4>2
    <3> QED BY <3>2, <3>3
  <2> QED BY <1>7, <2>2, <2>3
<1>14. \A x, d : RecordHolds(x, d)' = RecordHolds(x, d)
       BY <1>1 DEF RecordHolds
<1>15. entered' = z
       BY <1>1, <1>4, <1>5
<1>16. \A d \in LogBlocks : \A i \in DOMAIN collected'[d] : RecordHolds(collected[d][i], d)'
       BY <1>1, <1>14 DEF LogsHold
<1>17. collected' \in [LogBlocks -> Seq(LogRecords)]
       BY <1>1 DEF LogsHold
<1>18. buffer' \in LogBlocks \cup {"none"} /\ nested' \in BOOLEAN /\ (nested' => buffer' = Innermost')
       BY <1>1, <1>2, <1>12
<1> QED BY <1>1, <1>6, <1>9, <1>10, <1>11, <1>13, <1>15, <1>16, <1>17, <1>18 DEF LogsHold

(* A sequence without its place i.                                         *)
WithoutPlace(q, i) == SubSeq(q, 1, i - 1) \o SubSeq(q, i + 1, Len(q))

Cut(S, q, z, i, m) ==
  /\ z \in Seq(S) /\ m \in Nat /\ Len(z) = m /\ DOMAIN z = 1..m
  /\ \A j \in 1..m : z[j] = q[IF j < i THEN j ELSE j + 1]

LEMMA WithoutIs ==
  ASSUME NEW S, NEW q \in Seq(S), NEW n \in Nat, n = Len(q), NEW i \in 1..n,
         NEW z, z = WithoutPlace(q, i), NEW m, m = n - 1
  PROVE  Cut(S, q, z, i, m)
<1>1. PICK x, y : x = SubSeq(q, 1, i - 1) /\ y = SubSeq(q, i + 1, n)
      OBVIOUS
<1>2. /\ x \in Seq(S) /\ Len(x) = i - 1 /\ \A j \in 1..(i - 1) : x[j] = q[j]
      BY <1>1
<1>3. /\ y \in Seq(S) /\ Len(y) = n - i /\ \A j \in 1..(n - i) : y[j] = q[i + j]
      BY <1>1
<1>4. z = x \o y
      BY <1>1 DEF WithoutPlace
<1>5. m \in Nat /\ i - 1 \in Nat /\ n - i \in Nat
      OBVIOUS
<1>6. z \in Seq(S) /\ Len(z) = m /\ DOMAIN z = 1..m
  <2>1. z \in Seq(S) /\ Len(z) = Len(x) + Len(y)
    <3>1. x \in Seq(S) /\ y \in Seq(S) /\ z = x \o y
          BY <1>2, <1>3, <1>4
    <3> QED BY ONLY <3>1
  <2>2. Len(z) = m
        BY <1>2, <1>3, <2>1
  <2>3. DOMAIN z = 1..Len(z)
        BY <2>1
  <2> QED BY <2>1, <2>2, <2>3
<1>7. ASSUME NEW j \in 1..m PROVE z[j] = q[IF j < i THEN j ELSE j + 1]
  <2>1. CASE j < i
    <3>1. j \in 1..(i - 1)
          BY <2>1
    <3>2. z[j] = x[j]
          BY <1>2, <1>3, <1>4, <3>1
    <3> QED BY <1>2, <2>1, <3>1, <3>2
  <2>2. CASE ~(j < i)
    <3>1. PICK p \in 1..(n - i) : j = (i - 1) + p /\ i + p = j + 1
          BY <2>2
    <3>2. z[j] = y[p]
          BY <1>2, <1>3, <1>4, <3>1
    <3> QED BY <1>3, <2>2, <3>1, <3>2
  <2> QED BY <2>1, <2>2
<1> QED BY <1>5, <1>6, <1>7 DEF Cut

LEMMA LeaveStep ==
  ASSUME RequestsHold, LogsHold, NEW b \in LogBlocks, LeaveLogs(b)
  PROVE  LogsHold'
<1>1. PICK i \in DOMAIN entered :
        /\ entered[i] = b
        /\ buffer' = previous[b]
        /\ entered' = WithoutPlace(entered, i)
        /\ nested' = (nested /\ i = Len(entered))
        /\ UNCHANGED <<requestVars, previous, collected>>
      BY DEF LeaveLogs, WithoutPlace
<1>2. previous' = previous /\ collected' = collected /\ tree' = tree
      BY <1>1 DEF requestVars
<1>3. /\ previous \in [LogBlocks -> LogBlocks \cup {"none", "unused"}]
      /\ nested \in BOOLEAN
      /\ \A j \in DOMAIN entered : previous[entered[j]] # "unused"
      /\ \A j, k \in DOMAIN entered : j # k => entered[j] # entered[k]
      BY DEF LogsHold
<1>4. PICK q, n, m, z :
        q \in Seq(LogBlocks) /\ n \in Nat /\ q = entered /\ n = Len(q) /\ m = n - 1 /\ z = WithoutPlace(q, i)
      BY DEF LogsHold
<1>5. DOMAIN q = 1..n /\ i \in 1..n
      BY <1>4
<1>6. /\ z \in Seq(LogBlocks) /\ m \in Nat /\ Len(z) = m /\ DOMAIN z = 1..m
      /\ \A j \in 1..m : z[j] = q[IF j < i THEN j ELSE j + 1]
  <2>1. Cut(LogBlocks, q, z, i, m)
        BY <1>4, <1>5, WithoutIs
  <2> QED BY <2>1 DEF Cut
<1>7. \A j \in 1..m : j \in 1..n /\ j + 1 \in 1..n
      BY <1>4, <1>6
<1>8. \A j \in 1..m : previous[z[j]] # "unused"
  <2> TAKE j \in 1..m
  <2>1. PICK x \in 1..n : x = IF j < i THEN j ELSE j + 1
        BY <1>7
  <2>2. z[j] = q[x]
        BY <1>6, <2>1
  <2> QED BY <1>3, <1>4, <1>5, <2>2
<1>9. \A j, k \in 1..m : j # k => z[j] # z[k]
  <2> TAKE j, k \in 1..m
  <2>1. PICK x \in 1..n, y \in 1..n :
          x = (IF j < i THEN j ELSE j + 1) /\ y = (IF k < i THEN k ELSE k + 1)
        BY <1>7
  <2>2. j # k => x # y
        BY <1>5, <1>6, <2>1
  <2>3. z[j] = q[x] /\ z[k] = q[y]
        BY <1>6, <2>1
  <2> QED BY <1>3, <1>4, <1>5, <2>2, <2>3
<1>10. buffer' \in LogBlocks \cup {"none"}
       BY <1>1, <1>3
<1>11. entered' = z
       BY <1>1, <1>4
<1>12. nested' => /\ buffer' = Innermost'
                   /\ \A j \in 1..m : previous[z[j]] = IF j = 1 THEN "none" ELSE z[j - 1]
  <2> SUFFICES ASSUME nested, i = n
               PROVE  /\ buffer' = Innermost'
                      /\ \A j \in 1..m : previous[z[j]] = IF j = 1 THEN "none" ELSE z[j - 1]
      BY <1>1, <1>4
  <2>1. \A j \in 1..n : previous[q[j]] = IF j = 1 THEN "none" ELSE q[j - 1]
        BY <1>4, <1>5 DEF LogsHold
  <2>2. \A j \in 1..m : z[j] = q[j]
        BY <1>4, <1>5, <1>6
  <2>3. ASSUME NEW j \in 1..m PROVE previous[z[j]] = IF j = 1 THEN "none" ELSE z[j - 1]
    <3>1. j # 1 => j - 1 \in 1..m
          BY <1>6
    <3> QED BY <1>7, <2>1, <2>2, <3>1
  <2>4. buffer' = IF n = 1 THEN "none" ELSE q[n - 1]
        BY <1>1, <1>4, <1>5, <2>1
  <2>5. CASE n = 1
    <3>1. z = << >>
          BY <1>4, <1>6, <2>5
    <3> QED BY <1>11, <2>3, <2>4, <2>5, <3>1 DEF Innermost
  <2>6. CASE n # 1
    <3>1. z # << >> /\ m \in 1..m /\ n - 1 = m
          BY <1>4, <1>5, <1>6, <2>6
    <3>2. Innermost' = z[m]
          BY <1>6, <1>11, <3>1 DEF Innermost
    <3> QED BY <2>2, <2>3, <2>4, <2>6, <3>1, <3>2
  <2> QED BY <2>5, <2>6
<1>13. \A x, d : RecordHolds(x, d)' = RecordHolds(x, d)
       BY <1>2 DEF RecordHolds
<1>14. \A d \in LogBlocks : \A j \in DOMAIN collected'[d] : RecordHolds(collected[d][j], d)'
       BY <1>2, <1>13 DEF LogsHold
<1>15. collected' \in [LogBlocks -> Seq(LogRecords)] /\ nested' \in BOOLEAN
       BY <1>1, <1>2, <1>3 DEF LogsHold
<1> QED BY <1>2, <1>3, <1>6, <1>8, <1>9, <1>10, <1>11, <1>12, <1>14, <1>15 DEF LogsHold

-----------------------------------------------------------------------------
LEMMA InitialRequest ==
  ASSUME NEW s \in Scripts
  PROVE  RequestHolds(s, 1, << >>, << >>, Idle, FALSE, 0)
<1>1. Len(s) \in Nat /\ DOMAIN s = 1..Len(s)
      BY InsideASpan
<1>2. PICK t : t = << >>
      OBVIOUS
<1>3. /\ Len(t) = 0 /\ DOMAIN t = {} /\ Range(t) = {}
      /\ \A S : t \in Seq(S)
      BY <1>2 DEF Range
<1>4. TreeHolds(t)
      BY <1>3 DEF TreeHolds
<1>5. StackHolds(t, t)
      BY <1>3 DEF StackHolds
<1>6. Idle \in Callees /\ Idle.state = "idle"
      BY DEF Idle, Callees
<1>7. CalleeHolds(s, 1, t, t, Idle, FALSE)
      BY <1>6 DEF CalleeHolds
<1>8. EndsHold(t, t, Idle)
      BY <1>3 DEF EndsHold
<1>9. DepthHolds(s, 1, t, FALSE)
  <2>1. 1 \in Nat \ {0}
        OBVIOUS
  <2>2. Count(s, "open", 1) = 0 /\ Count(s, "close", 1) = 0
        BY <2>1, CountStep
  <2> QED BY <1>1, <1>3, <2>2 DEF DepthHolds
<1>10. ErrorsHold(s, t, t, FALSE, 0)
       BY <1>3 DEF ErrorsHold, Errors
<1>11. RootsHold(s, 1, t)
  <2>1. Roots(t) = {}
        BY <1>3 DEF Roots
  <2>2. 1 \in Nat \ {0}
        OBVIOUS
  <2>3. PICK n \in Nat : n = Cardinality(OuterBefore(s, 1))
        BY <2>2, OuterStep
  <2>4. Cardinality(Roots(t)) = 0
        BY <2>1, FS_EmptySet
  <2> QED BY <2>3, <2>4 DEF RootsHold
<1> QED BY <1>2, <1>4, <1>5, <1>7, <1>8, <1>9, <1>10, <1>11 DEF RequestHolds

LEMMA TraceInitInv ==
  ASSUME TraceInit
  PROVE  TraceInv
<1>1. RequestsHold
  <2>1. ASSUME NEW r \in Requests
        PROVE  RequestHolds(script[r], at[r], tree[r], stack[r], callee[r], raising[r], origin[r])
    <3>1. /\ script[r] \in Scripts /\ at[r] = 1 /\ tree[r] = << >> /\ stack[r] = << >>
          /\ callee[r] = Idle /\ raising[r] = FALSE /\ origin[r] = 0
          BY DEF TraceInit
    <3> QED BY <3>1, InitialRequest
  <2> QED BY <2>1 DEF TraceInit, RequestsHold
<1>2. LogsHold
  <2>1. Innermost = "none"
        BY DEF TraceInit, Innermost
  <2>2. entered \in Seq(LogBlocks) /\ DOMAIN entered = {}
        BY DEF TraceInit
  <2>3. \A b \in LogBlocks : collected[b] \in Seq(LogRecords) /\ DOMAIN collected[b] = {}
        BY DEF TraceInit
  <2>4. collected \in [LogBlocks -> Seq(LogRecords)]
        BY <2>3 DEF TraceInit
  <2> QED BY <2>1, <2>2, <2>3, <2>4 DEF TraceInit, LogsHold
<1> QED BY <1>1, <1>2 DEF TraceInv

LEMMA TraceStep ==
  ASSUME TraceInv, [TraceNext]_traceVars
  PROVE  TraceInv'
<1> USE DEF TraceInv
<1>1. ASSUME NEW r \in Requests, RequestStep(r) PROVE TraceInv'
  <2>1. /\ RequestsHold' /\ TreesGrow
        /\ \/ UNCHANGED logVars
           \/ EmitRecord(r) /\ Top(stack[r]) \in DOMAIN tree[r]
        BY <1>1, RequestMoves
  <2>2. LogsHold'
        BY <2>1, LogsKept, EmitLogs
  <2> QED BY <2>1, <2>2
<1>2. ASSUME NEW b \in LogBlocks, EnterLogs(b) \/ LeaveLogs(b) PROVE TraceInv'
  <2>1. UNCHANGED requestVars
        BY <1>2 DEF EnterLogs, LeaveLogs
  <2>2. RequestsHold'
        BY <2>1 DEF RequestsHold, requestVars
  <2>3. LogsHold'
        BY <1>2, EnterStep, LeaveStep
  <2> QED BY <2>2, <2>3
<1>3. CASE UNCHANGED traceVars
  <2>1. UNCHANGED requestVars /\ UNCHANGED logVars
        BY <1>3 DEF traceVars
  <2>2. RequestsHold'
        BY <2>1 DEF RequestsHold, requestVars
  <2>3. TreesGrow
        BY <2>1, KeepsItself DEF TreesGrow, requestVars
  <2> QED BY <2>1, <2>2, <2>3, LogsKept
<1> QED BY <1>1, <1>2, <1>3 DEF TraceNext

-----------------------------------------------------------------------------
(* What the state of a request says of its tree.                           *)
LEMMA ParentsOutlive ==
  ASSUME NEW s, NEW a, NEW t, NEW k, NEW c, NEW e, NEW o, RequestHolds(s, a, t, k, c, e, o),
         NEW i \in DOMAIN t, t[i].parent # 0
  PROVE  /\ t[i].trace = t[t[i].parent].trace
         /\ t[t[i].parent].ended => t[i].ended
<1>1. /\ TreeHolds(t) /\ StackHolds(t, k) /\ CalleeHolds(s, a, t, k, c, e) /\ EndsHold(t, k, c)
      BY DEF RequestHolds
<1>2. DOMAIN t = 1..Len(t) /\ t[i].parent \in 0..(i - 1) /\ t[i].trace = t[t[i].parent].trace
      BY <1>1, TreeFacts DEF TreeHolds, Rooted
<1>3. PICK p \in DOMAIN t : p = t[i].parent
      BY <1>2
<1>4. i \in Unended(t, k, c) => p \in Unended(t, k, c)
  <2>1. ASSUME i \in Range(k) PROVE p \in Range(k)
    <3>1. PICK j \in DOMAIN k : i = k[j]
          BY <2>1 DEF Range
    <3>2. p = Beneath(k, j)
          BY <1>1, <1>3, <3>1 DEF StackHolds
    <3>3. j # 1
          BY <1>2, <1>3, <3>2 DEF Beneath
    <3>4. j - 1 \in DOMAIN k
          BY <1>1, <3>3, StackFacts
    <3> QED BY <3>2, <3>3, <3>4 DEF Beneath, Range
  <2>2. ASSUME c.state = "running", i = Len(t) PROVE p \in Range(k)
    <3>1. p = Top(CarriedFrom(k, s[a].carry))
          BY <1>1, <1>3, <2>2 DEF CalleeHolds
    <3>2. CarriedFrom(k, s[a].carry) # << >>
          BY <1>2, <1>3, <3>1 DEF Top
    <3>3. k # << >> /\ p = Top(k)
      <4>1. k # << >>
            BY <3>2 DEF CarriedFrom
      <4> QED BY <1>1, <3>1, <3>2, <4>1, CarriedIs
    <3>4. Top(k) = k[Len(k)] /\ Len(k) \in DOMAIN k
          BY <1>1, <3>3, StackFacts
    <3> QED BY <3>3, <3>4 DEF Range
  <2>3. c.state # "running" => Unended(t, k, c) = Range(k)
        BY UnendedIs
  <2>4. c.state = "running" => Unended(t, k, c) = Range(k) \cup {Len(t)}
        BY UnendedIs
  <2> QED BY <2>1, <2>2, <2>3, <2>4
<1>5. t[i].ended = (i \notin Unended(t, k, c)) /\ t[p].ended = (p \notin Unended(t, k, c))
      BY <1>1, <1>3 DEF EndsHold
<1> QED BY <1>2, <1>3, <1>4, <1>5

Outermost(s) ==
  {i \in DOMAIN s : s[i].op = "open" /\ Count(s, "open", i) = Count(s, "close", i)}

LEMMA TracesAreFew ==
  ASSUME NEW s, NEW a, NEW t, NEW k, NEW c, NEW e, NEW o, RequestHolds(s, a, t, k, c, e, o),
         CarriesAll(s)
  PROVE  Cardinality({t[i].trace : i \in DOMAIN t}) <= Cardinality(Outermost(s))
<1>1. /\ TreeHolds(t) /\ RootsHold(s, a, t)
      /\ Len(s) \in Nat /\ DOMAIN s = 1..Len(s) /\ a \in 1..(Len(s) + 1)
      BY ScriptFacts DEF RequestHolds
<1>2. Len(t) \in Nat /\ DOMAIN t = 1..Len(t)
      BY <1>1, TreeFacts
<1>3. \A n \in Nat : IsFiniteSet(1..n)
  <2> TAKE n \in Nat
  <2>1. 1 \in Int /\ n \in Int
        OBVIOUS
  <2> QED BY ONLY <2>1, FS_Interval
<1>4. IsFiniteSet(Roots(t))
  <2>1. Roots(t) \in SUBSET (1..Len(t))
        BY <1>2 DEF Roots
  <2> QED BY <1>2, <1>3, <2>1, FS_Subset
<1>5. IsFiniteSet(Outermost(s))
  <2>1. Outermost(s) \in SUBSET (1..Len(s))
        BY <1>1 DEF Outermost
  <2> QED BY <1>1, <1>3, <2>1, FS_Subset
<1>6. OuterBefore(s, a) \in SUBSET Outermost(s)
      BY <1>1 DEF OuterBefore, Outermost
<1>7. {t[i].trace : i \in DOMAIN t} \in SUBSET Roots(t)
      BY <1>1 DEF TreeHolds, Rooted
<1> DEFINE T == {t[i].trace : i \in DOMAIN t}
<1> HIDE DEF T
<1>8. PICK x \in Nat, y \in Nat, z \in Nat, w \in Nat :
        /\ x = Cardinality(T) /\ y = Cardinality(Roots(t))
        /\ z = Cardinality(OuterBefore(s, a)) /\ w = Cardinality(Outermost(s))
        /\ x =< y /\ z =< w
  <2>1. T \in SUBSET Roots(t)
        BY <1>7 DEF T
  <2>2. IsFiniteSet(T) /\ Cardinality(T) =< Cardinality(Roots(t))
        BY <1>4, <2>1, FS_Subset
  <2>3. IsFiniteSet(OuterBefore(s, a)) /\ Cardinality(OuterBefore(s, a)) =< Cardinality(Outermost(s))
        BY <1>5, <1>6, FS_Subset
  <2> QED BY <1>4, <1>5, <2>2, <2>3, FS_CardinalityType
<1>9. y =< z
      BY <1>1, <1>8 DEF RootsHold
<1>10. x =< w
       BY <1>8, <1>9
<1> QED BY <1>8, <1>10 DEF T

LEMMA OverIsClosed ==
  ASSUME NEW s, NEW a, NEW t, NEW k, NEW c, NEW e, NEW o, RequestHolds(s, a, t, k, c, e, o),
         k = << >>, c.state = "idle"
  PROVE  /\ \A i \in DOMAIN t : t[i].ended
         /\ CarriesAll(s) => Errors(t) = IF e THEN PathOf(t, o) ELSE {}
<1>1. EndsHold(t, k, c) /\ ErrorsHold(s, t, k, e, o) /\ e \in BOOLEAN
      BY DEF RequestHolds
<1>2. Range(k) = {}
      BY DEF Range
<1>3. Unended(t, k, c) = {}
      BY <1>2, UnendedIs
<1>4. \A i \in DOMAIN t : t[i].ended
      BY <1>1, <1>3 DEF EndsHold
<1>5. ASSUME CarriesAll(s) PROVE Errors(t) = IF e THEN PathOf(t, o) ELSE {}
  <2>1. CASE e
    <3>1. Errors(t) \cup Range(k) = PathOf(t, o)
          BY <1>1, <1>5, <2>1 DEF ErrorsHold
    <3> QED BY <1>2, <2>1, <3>1
  <2>2. CASE ~e
        BY <1>1, <2>2 DEF ErrorsHold
  <2> QED BY <2>1, <2>2
<1> QED BY <1>4, <1>5

LEMMA TreesAreSound ==
  ASSUME RequestsHold
  PROVE  TraceTreeSound
<1> SUFFICES ASSUME NEW r \in Requests
             PROVE  /\ \A i \in DOMAIN tree[r] : LET s == tree[r][i] IN s.parent # 0 =>
                         /\ s.trace = tree[r][s.parent].trace
                         /\ tree[r][s.parent].ended => s.ended
                    /\ CarriesEverywhere(r) =>
                         /\ Cardinality({tree[r][i].trace : i \in DOMAIN tree[r]}) <= OutermostOpens(r)
                         /\ RequestOver(r) =>
                              {i \in DOMAIN tree[r] : tree[r][i].status = "error"} =
                              IF raising[r] THEN PathTo(r, origin[r]) ELSE {}
                    /\ RequestOver(r) => \A i \in DOMAIN tree[r] : tree[r][i].ended
    BY DEF TraceTreeSound
<1>1. PICK s, a, t, k, c, e, o :
        /\ s = script[r] /\ a = at[r] /\ t = tree[r] /\ k = stack[r]
        /\ c = callee[r] /\ e = raising[r] /\ o = origin[r]
      OBVIOUS
<1>2. RequestHolds(s, a, t, k, c, e, o)
      BY <1>1 DEF RequestsHold
<1>3. CarriesEverywhere(r) => CarriesAll(s)
      BY <1>1 DEF CarriesEverywhere, CarriesAll
<1>4. OutermostOpens(r) = Cardinality(Outermost(s))
      BY <1>1 DEF OutermostOpens, Outermost, Count
<1>5. PathTo(r, o) = PathOf(t, o)
      BY <1>1 DEF PathTo, PathOf
<1>6. Errors(t) = {i \in DOMAIN tree[r] : tree[r][i].status = "error"}
      BY <1>1 DEF Errors
<1>7. RequestOver(r) => k = << >> /\ c.state = "idle"
      BY <1>1 DEF RequestOver
<1>8. \A i \in DOMAIN t : t[i].parent # 0 =>
        t[i].trace = t[t[i].parent].trace /\ (t[t[i].parent].ended => t[i].ended)
      BY <1>2, ParentsOutlive
<1>9. CarriesAll(s) => Cardinality({t[i].trace : i \in DOMAIN t}) <= Cardinality(Outermost(s))
      BY <1>2, TracesAreFew
<1>10. RequestOver(r) => /\ \A i \in DOMAIN t : t[i].ended
                         /\ CarriesAll(s) => Errors(t) = IF e THEN PathOf(t, o) ELSE {}
       BY <1>2, <1>7, OverIsClosed
<1> QED BY <1>1, <1>3, <1>4, <1>5, <1>6, <1>8, <1>9, <1>10

LEMMA LogsAreRouted ==
  ASSUME LogsHold
  PROVE  LogsRouted
<1>1. ASSUME NEW b \in LogBlocks, NEW i \in DOMAIN collected[b]
      PROVE  /\ b = collected[b][i].due
             /\ collected[b][i].span \in DOMAIN tree[collected[b][i].request]
             /\ collected[b][i].open
             /\ collected[b][i].trace = tree[collected[b][i].request][collected[b][i].span].trace
      BY DEF LogsHold, RecordHolds
<1> QED BY <1>1 DEF LogsHold, LogsRouted

(* For any scripts in which the ends of spans match and everything else    *)
(* happens inside one, however the requests interleave, wherever their     *)
(* code raises, and whatever the order in which blocks of capture_logs()   *)
(* end: a trace is a tree, a failed request's spans in ERROR lead to where *)
(* it failed, and a record names a span of its request that was open when  *)
(* it was emitted, and that span's trace (src/aiobs/instrument.py,         *)
(* src/aiobs/logging.py).                                                  *)
THEOREM SignalsAreCorrelated == TraceSpec => []SignalsCorrelate
<1>1. TraceInit => TraceInv
      BY TraceInitInv
<1>2. TraceInv /\ [TraceNext]_traceVars => TraceInv'
      BY TraceStep
<1>3. TraceInv => SignalsCorrelate
      BY TreesAreSound, LogsAreRouted DEF TraceInv, SignalsCorrelate
<1> QED BY <1>1, <1>2, <1>3, PTL DEF TraceSpec
=============================================================================
