------------------------------ MODULE TraceTree ------------------------------
(***************************************************************************)
(* Spans as a tree: the context of src/aiobs/instrument.py, its hand-over  *)
(* to a worker thread or to another service (chapters/ch05), the examples  *)
(* that build whole trees, and the structured log of src/aiobs/logging.py, *)
(* whose records carry the current span.                                   *)
(***************************************************************************)
EXTENDS Naturals, Sequences, FiniteSets

CONSTANTS
  Requests,  \* examples or requests that run at the same time
  Scripts,   \* what they may run
  LogBlocks  \* blocks of capture_logs()

VARIABLES
  script,     \* what each request runs
  at,         \* the next operation of its script
  tree,       \* the spans of each request, in the order they start
  stack,      \* the context of its thread: the open spans, innermost last
  callee,     \* the thread or service it waits for
  raising,    \* an exception is on its way up
  origin,     \* the span it was raised in, 0 for none
  buffer,     \* _buffer: the block that collects records, "none" for None
  previous,   \* what each block of capture_logs will restore
  collected,  \* what it collected
  entered,    \* the blocks that are open, oldest first
  nested      \* the blocks have always ended in reverse order

requestVars == <<script, at, tree, stack, callee, raising, origin>>
logVars == <<buffer, previous, collected, entered, nested>>
traceVars == <<requestVars, logVars>>

-----------------------------------------------------------------------------
(* Scripts.  Open and Close are the two ends of a `with' on a span; Hand   *)
(* runs one span elsewhere and waits for it.                               *)
Open(name) == [op |-> "open", name |-> name, carry |-> FALSE]
Close == [op |-> "close", name |-> "", carry |-> FALSE]
Hand(name, carry) == [op |-> "hand", name |-> name, carry |-> carry]
Emit == [op |-> "emit", name |-> "", carry |-> FALSE]

RagPipeline(propagate_context) ==
  <<Open("rag.request"), Open("rag.retrieve"), Hand("rag.rerank", propagate_context), Close,
    Open("rag.generate"), Close, Open("rag.post_process"), Close, Close>>
CrossService == <<Open("rag.retrieve.client"), Hand("rag.retrieve", TRUE), Close>>
TracedAnswer ==
  <<Open("rag.answer"), Open("vector_search"), Close, Open("chat mock"), Close, Close>>
ScopeHierarchy ==
  <<Open("turn_1"), Open("chat"), Close, Close, Open("turn_2"), Open("chat"), Close, Close>>
FourSignals == <<Open("chat"), Emit, Close>>

FiveLayers ==
  <<Open("handle_request"), Open("gpu.allocate"), Close, Open("retrieve"), Close,
    Open("chat"), Close, Open("record_outcome"), Close, Close>>

Operations == [op : {"open", "close", "hand", "emit"}, name : STRING, carry : BOOLEAN]

\* How many of the operations before the i-th are an `op'.
Count(s, op, i) == Cardinality({j \in 1..(i - 1) : s[j].op = op})

(* The two ends of a `with' match, and all that is not one happens inside. *)
ASSUME TraceOK ==
  /\ {"none", "unused"} \cap LogBlocks = {}
  /\ \A s \in Scripts :
       /\ s \in Seq(Operations)
       /\ \A i \in DOMAIN s : s[i].op # "open" => Count(s, "close", i) < Count(s, "open", i)

Idle == [name |-> "", context |-> << >>, state |-> "idle"]

TraceInit ==
  /\ script \in [Requests -> Scripts]
  /\ at = [r \in Requests |-> 1]
  /\ tree = [r \in Requests |-> << >>]
  /\ stack = [r \in Requests |-> << >>]
  /\ callee = [r \in Requests |-> Idle]
  /\ raising = [r \in Requests |-> FALSE]
  /\ origin = [r \in Requests |-> 0]
  /\ buffer = "none"
  /\ previous = [b \in LogBlocks |-> "unused"]
  /\ collected = [b \in LogBlocks |-> << >>]
  /\ entered = << >>
  /\ nested = TRUE

Innermost == IF entered = << >> THEN "none" ELSE entered[Len(entered)]

Top(context) == IF context = << >> THEN 0 ELSE context[Len(context)]
Pop(context) == SubSeq(context, 1, Len(context) - 1)

(* A span without a parent starts a trace of its own.                      *)
SpanUnder(r, name, context) ==
  [name |-> name, parent |-> Top(context),
   trace |-> IF context = << >> THEN Len(tree[r]) + 1 ELSE tree[r][Top(context)].trace,
   status |-> "unset", ended |-> FALSE]

NextOp(r) == script[r][at[r]]
Ready(r, op) ==
  /\ at[r] \in DOMAIN script[r]
  /\ ~raising[r]
  /\ callee[r].state = "idle"
  /\ NextOp(r).op = op
Advance(r) == at' = [at EXCEPT ![r] = @ + 1]

StartOne(r, name, context) == tree' = [tree EXCEPT ![r] = Append(@, SpanUnder(r, name, context))]
EndOne(r, i, status) ==
  tree' = [tree EXCEPT ![r][i] = [@ EXCEPT !.ended = TRUE, !.status = status]]

-----------------------------------------------------------------------------
(* A request                                                               *)
OpenSpan(r) ==
  /\ Ready(r, "open")
  /\ StartOne(r, NextOp(r).name, stack[r])
  /\ stack' = [stack EXCEPT ![r] = Append(@, Len(tree[r]) + 1)]
  /\ Advance(r)
  /\ UNCHANGED <<script, callee, raising, origin, logVars>>

CloseSpan(r) ==
  /\ Ready(r, "close")
  /\ EndOne(r, Top(stack[r]), "unset")
  /\ stack' = [stack EXCEPT ![r] = Pop(@)]
  /\ Advance(r)
  /\ UNCHANGED <<script, callee, raising, origin, logVars>>

(* The code inside a span raises; the span it leaves gets ERROR and is     *)
(* ended, then the one around it, up to the caller of the request.         *)
RaiseInside(r) ==
  /\ at[r] \in DOMAIN script[r]
  /\ ~raising[r]
  /\ stack[r] # << >>
  /\ callee[r].state = "idle"
  /\ raising' = [raising EXCEPT ![r] = TRUE]
  /\ origin' = [origin EXCEPT ![r] = Top(stack[r])]
  /\ UNCHANGED <<script, at, tree, stack, callee, logVars>>

Unwind(r) ==
  /\ raising[r]
  /\ callee[r].state = "idle"
  /\ stack[r] # << >>
  /\ EndOne(r, Top(stack[r]), "error")
  /\ stack' = [stack EXCEPT ![r] = Pop(@)]
  /\ UNCHANGED <<script, at, callee, raising, origin, logVars>>

\* Mutant: get_current() is called by the worker.
CarriedByWorker(r, carry) == << >>

(* rerank_in_pool reads the caller's context before it submits, and the    *)
(* worker attaches it; a service extracts it from the caller's headers.    *)
(* Without it the other side starts from an empty context.                 *)
Carried(r, carry) == IF carry /\ stack[r] # << >> THEN <<Top(stack[r])>> ELSE << >>

HandOver(r) ==
  /\ Ready(r, "hand")
  /\ callee' = [callee EXCEPT ![r] = [name |-> NextOp(r).name,
                                      context |-> Carried(r, NextOp(r).carry),
                                      state |-> "submitted"]]
  /\ UNCHANGED <<script, at, tree, stack, raising, origin, logVars>>

CalleeStarts(r) ==
  /\ callee[r].state = "submitted"
  /\ StartOne(r, callee[r].name, callee[r].context)
  /\ callee' = [callee EXCEPT ![r] = [@ EXCEPT !.state = "running",
                                               !.context = Append(callee[r].context, Len(tree[r]) + 1)]]
  /\ UNCHANGED <<script, at, stack, raising, origin, logVars>>

(* It returns, or result() raises its exception again in the caller.       *)
CalleeEnds(r, failed) ==
  /\ callee[r].state = "running"
  /\ EndOne(r, Top(callee[r].context), IF failed THEN "error" ELSE "unset")
  /\ callee' = [callee EXCEPT ![r] = Idle]
  /\ raising' = [raising EXCEPT ![r] = failed]
  /\ origin' = [origin EXCEPT ![r] = IF failed THEN Top(callee[r].context) ELSE 0]
  /\ Advance(r)
  /\ UNCHANGED <<script, stack, logVars>>

-----------------------------------------------------------------------------
(* Logs                                                                    *)

(* emit appends to the buffer there is now.  A field it sets itself, or    *)
(* one as long as a payload, makes it raise before: RaiseInside.           *)
EmitRecord(r) ==
  /\ Ready(r, "emit")
  /\ collected' = IF buffer = "none" THEN collected
                ELSE [collected EXCEPT ![buffer] =
                  Append(@, [request |-> r, span |-> Top(stack[r]),
                             trace |-> tree[r][Top(stack[r])].trace,
                             open |-> ~tree[r][Top(stack[r])].ended,
                             due |-> IF nested THEN Innermost ELSE buffer])]
  /\ Advance(r)
  /\ UNCHANGED <<script, tree, stack, callee, raising, origin, buffer, previous, entered, nested>>

EnterLogs(b) ==
  /\ previous[b] = "unused"
  /\ previous' = [previous EXCEPT ![b] = buffer]
  /\ buffer' = b
  /\ entered' = Append(entered, b)
  /\ UNCHANGED <<requestVars, collected, nested>>

\* Mutant: the end of a block turns collecting off.
LeaveLogsToNone(b) ==
  \E i \in DOMAIN entered :
    /\ entered[i] = b
    /\ buffer' = "none"
    /\ entered' = SubSeq(entered, 1, i - 1) \o SubSeq(entered, i + 1, Len(entered))
    /\ nested' = (nested /\ i = Len(entered))
    /\ UNCHANGED <<requestVars, previous, collected>>

(* The blocks of one thread end in reverse order, those of two may not.    *)
LeaveLogs(b) ==
  \E i \in DOMAIN entered :
    /\ entered[i] = b
    /\ buffer' = previous[b]
    /\ entered' = SubSeq(entered, 1, i - 1) \o SubSeq(entered, i + 1, Len(entered))
    /\ nested' = (nested /\ i = Len(entered))
    /\ UNCHANGED <<requestVars, previous, collected>>

RequestStep(r) ==
  \/ OpenSpan(r) \/ CloseSpan(r) \/ RaiseInside(r) \/ Unwind(r)
  \/ HandOver(r) \/ CalleeStarts(r)
  \/ \E failed \in BOOLEAN : CalleeEnds(r, failed)
  \/ EmitRecord(r)

TraceNext ==
  \/ \E r \in Requests : RequestStep(r)
  \/ \E b \in LogBlocks : EnterLogs(b) \/ LeaveLogs(b)

TraceSpec == TraceInit /\ [][TraceNext]_traceVars

-----------------------------------------------------------------------------
(* Properties                                                              *)

RequestOver(r) == stack[r] = << >> /\ callee[r].state = "idle" /\
                  (raising[r] \/ at[r] > Len(script[r]))

CarriesEverywhere(r) == \A i \in DOMAIN script[r] : script[r][i].op = "hand" => script[r][i].carry
OutermostOpens(r) ==
  Cardinality({i \in DOMAIN script[r] :
    /\ script[r][i].op = "open"
    /\ Count(script[r], "open", i) = Count(script[r], "close", i)})

PathTo(r, i) ==
  LET path[j \in 0..Len(tree[r])] == IF j = 0 THEN {} ELSE {j} \cup path[tree[r][j].parent]
  IN  path[i]

(* Whatever raises where: a span shares its trace with its parent and ends *)
(* no later than it; a request whose hand-overs all carry the context      *)
(* makes one trace for every outermost span it opened and no orphan; and   *)
(* when it failed, the spans in ERROR are exactly those from the root to   *)
(* the one the exception was raised in, so that a reader can walk down.    *)
TraceTreeSound ==
  \A r \in Requests :
    /\ \A i \in DOMAIN tree[r] : LET s == tree[r][i] IN s.parent # 0 =>
         /\ s.trace = tree[r][s.parent].trace
         /\ tree[r][s.parent].ended => s.ended
    /\ CarriesEverywhere(r) =>
         /\ Cardinality({tree[r][i].trace : i \in DOMAIN tree[r]}) <= OutermostOpens(r)
         /\ RequestOver(r) =>
              {i \in DOMAIN tree[r] : tree[r][i].status = "error"} =
              IF raising[r] THEN PathTo(r, origin[r]) ELSE {}
    /\ RequestOver(r) => \A i \in DOMAIN tree[r] : tree[r][i].ended

(* As long as the blocks of capture_logs end in reverse order, records go  *)
(* to the innermost open block and nowhere else, and nowhere when none is  *)
(* open; and whatever the order, a record names a span of its request that *)
(* was open when it was emitted, and that span's trace.                    *)
LogsRouted ==
  /\ nested => buffer = Innermost
  /\ \A b \in LogBlocks : \A i \in DOMAIN collected[b] : LET e == collected[b][i] IN
       /\ b = e.due
       /\ e.span \in DOMAIN tree[e.request] /\ e.open
       /\ e.trace = tree[e.request][e.span].trace

(* Both: a trace is a tree, and what is logged is found in it.             *)
SignalsCorrelate == TraceTreeSound /\ LogsRouted
=============================================================================
