----------------------------- MODULE CostLedgers -----------------------------
(***************************************************************************)
(* src/aiobs/cost.py and the loops of chapters 7 to 9 that fill a          *)
(* CostLedger: each prices its calls, attributes them to a tenant and a    *)
(* use case and puts a cost on a span.  Money is in tenths of a millionth  *)
(* of a dollar; what the ledger reports, and what a span carries, is       *)
(* rounded to the millionth, and what the ledger keeps is not.             *)
(***************************************************************************)
EXTENDS Integers, Sequences, FiniteSets, FiniteSetsExt, Functions, Rounding

CONSTANTS
  Usages,        \* [input, output] tokens of a reply, over all its attempts
  Questions,     \* number of distinct questions of the cached batch
  SampleEvery,   \* one call in so many is sampled, 10 in the code
  MaxIterations  \* bound on the iterations of a loop

ASSUME LedgersOK ==
  /\ Questions \in Nat \ {0} /\ SampleEvery \in Nat \ {0} /\ MaxIterations \in Nat
  /\ Usages \subseteq [input : Int, output : Int]

VARIABLES
  loop,      \* the loop that runs
  calls,     \* its iterations so far
  records,   \* CostLedger.records
  baseline,  \* the records of a second ledger: of the routing experiment, or
             \* of the sample
  chats,     \* the chat spans: [usd, hit, question]
  answered,  \* the keys of the cache
  resolved   \* tickets resolved

ledgerVars == <<loop, calls, records, baseline, chats, answered, resolved>>

Loops == {"billing", "quarter", "audit", "routing", "cache", "retry", "sampling",
          "other"}

\* PRICE_BOOK, for a token in and a token out.
PriceBook == [m \in {"sonnet", "haiku", "opus"} |->
  CASE m = "sonnet" -> <<30, 150>> [] m = "haiku" -> <<8, 40>> [] OTHER -> <<150, 750>>]

PriceCall(model, usage) ==
  usage.input * PriceBook[model][1] + usage.output * PriceBook[model][2]

LedgersInit ==
  /\ loop \in Loops
  /\ calls = 0
  /\ records = << >> /\ baseline = << >> /\ chats = << >>
  /\ answered = {}
  /\ resolved = 0

-----------------------------------------------------------------------------
(* CostLedger                                                              *)

CostRecord(model, usage, tenant, use_case) ==
  [model |-> model, tenant |-> tenant, use_case |-> use_case,
   tokens |-> usage.input + usage.output, usd |-> PriceCall(model, usage)]

(* round(x, 6); no price of the book leaves a half.                        *)
Rounded(x) == Nearest(x, 10) * 10

UsdOf(rs, chosen) == SumFunctionOnSet([i \in DOMAIN rs |-> rs[i].usd], chosen)

TotalUsd(rs) == Rounded(UsdOf(rs, DOMAIN rs))

Dimensions == {"model", "tenant", "use_case"}

\* Mutant: spend nobody owns is left out of the roll-ups.
ByOwner(dimension) ==
  [v \in {records[i][dimension] : i \in DOMAIN records} \ {"unattributed"} |->
     Rounded(UsdOf(records, {i \in DOMAIN records : records[i][dimension] = v}))]

By(dimension) ==
  [v \in {records[i][dimension] : i \in DOMAIN records} |->
     Rounded(UsdOf(records, {i \in DOMAIN records : records[i][dimension] = v}))]

(* unattributed_share is the quotient of these two, the first not rounded. *)
UnattributedUsd == UsdOf(records, {i \in DOMAIN records : records[i].tenant = "unattributed"})

(* A model the book has no price for, or a negative count, raises before   *)
(* anything is appended.                                                   *)
Record(model, usage, tenant, use_case) ==
  IF model \in DOMAIN PriceBook /\ usage.input >= 0 /\ usage.output >= 0
  THEN records' = Append(records, CostRecord(model, usage, tenant, use_case))
  ELSE UNCHANGED records

(* set_cost_attributes rounds what it puts on the span (instrument.py:84). *)
ChatSpan(usd, hit, question) ==
  chats' = Append(chats, [usd |-> Rounded(usd), hit |-> hit, question |-> question])

-----------------------------------------------------------------------------
(* The loops, one iteration each                                           *)

Iteration(name) == loop = name /\ calls < MaxIterations /\ calls' = calls + 1

(* attributed_cost_ledger: three tenants and two use cases in turn.        *)
BillingCall(usage) ==
  /\ Iteration("billing")
  /\ LET tenant == <<"acme", "globex", "initech">>[1 + (calls % 3)]
         use_case == <<"support", "research">>[1 + (calls % 2)]
     IN  Record("sonnet", usage, tenant, use_case)
  /\ ChatSpan(PriceCall("sonnet", usage), FALSE, calls)
  /\ UNCHANGED <<loop, baseline, answered, resolved>>

(* cost_per_resolution: three tickets in four are resolved.                *)
QuarterCall(usage) ==
  /\ Iteration("quarter")
  /\ Record("sonnet", usage, "acme", "support")
  /\ resolved' = resolved + (IF calls % 4 = 0 THEN 0 ELSE 1)
  /\ UNCHANGED <<loop, baseline, chats, answered>>

(* unattributed_spend_gap: every third job belongs to nobody.              *)
AuditCall(usage) ==
  /\ Iteration("audit")
  /\ Record("sonnet", usage, IF calls % 3 = 0 THEN "unattributed" ELSE "acme", "unattributed")
  /\ UNCHANGED <<loop, baseline, chats, answered, resolved>>

(* model_routing_savings: every request is also billed to the dear model.  *)
RoutedCall(usage, simple) ==
  /\ Iteration("routing")
  /\ LET model == IF simple THEN "haiku" ELSE "opus" IN
       /\ Record(model, usage, "acme", "unattributed")
       /\ ChatSpan(PriceCall(model, usage), FALSE, calls)
  /\ baseline' = Append(baseline, CostRecord("opus", usage, "acme", "unattributed"))
  /\ UNCHANGED <<loop, answered, resolved>>

\* Mutant: a hit goes on to the next request without a span.
CacheHitUnseen(question) ==
  /\ Iteration("cache")
  /\ question \in answered
  /\ UNCHANGED <<loop, records, baseline, chats, answered, resolved>>

(* cache_hit_accounting: a hit costs nothing and emits a span.             *)
CacheHit(question) ==
  /\ Iteration("cache")
  /\ question \in answered
  /\ ChatSpan(0, TRUE, question)
  /\ UNCHANGED <<loop, records, baseline, answered, resolved>>

CacheMiss(question, usage) ==
  /\ Iteration("cache")
  /\ question \notin answered
  /\ answered' = answered \cup {question}
  /\ Record("sonnet", usage, "acme", "unattributed")
  /\ ChatSpan(PriceCall("sonnet", usage), FALSE, question)
  /\ UNCHANGED <<loop, baseline, resolved>>

(* retry_attempt_accounting: the same prompt without and with one retry,   *)
(* whose tokens the reply counts as well.                                  *)
RetryCall(usage) ==
  /\ Iteration("retry")
  /\ calls < 2
  /\ calls = 1 => records[1].usd = PriceCall("sonnet", usage)
  /\ LET billed == [input |-> (calls + 1) * usage.input, output |-> (calls + 1) * usage.output]
     IN  Record("sonnet", billed, "acme", "unattributed") /\ ChatSpan(PriceCall("sonnet", billed), FALSE, 0)
  /\ UNCHANGED <<loop, baseline, answered, resolved>>

(* collector_pipeline_sampling: the first call and every SampleEvery-th    *)
(* after it are in the sampled ledger, too.                                *)
SampledCall(usage) ==
  /\ Iteration("sampling")
  /\ Record("sonnet", usage, "acme", "unattributed")
  /\ baseline' = IF calls % SampleEvery = 0
                 THEN Append(baseline, CostRecord("sonnet", usage, "acme", "unattributed"))
                 ELSE baseline
  /\ UNCHANGED <<loop, chats, answered, resolved>>

(* Any other caller; the defaults of record() leave a call unattributed.   *)
OtherCall(model, usage, tenant, use_case) ==
  /\ Iteration("other")
  /\ Record(model, usage, tenant, use_case)
  /\ UNCHANGED <<loop, baseline, chats, answered, resolved>>

Replies == {u \in Usages : u.input >= 0 /\ u.output >= 0}

LedgersNext ==
  \/ \E u \in Replies :
       \/ BillingCall(u) \/ QuarterCall(u) \/ AuditCall(u) \/ RetryCall(u) \/ SampledCall(u)
       \/ \E simple \in BOOLEAN : RoutedCall(u, simple)
       \/ CacheMiss(calls % Questions, u)
  \/ \E u \in Usages, model \in DOMAIN PriceBook \cup {"unpriced"}, tenant \in {"acme", "unattributed"},
        use_case \in {"support", "unattributed"} : OtherCall(model, u, tenant, use_case)
  \/ CacheHit(calls % Questions)

LedgersSpec == LedgersInit /\ [][LedgersNext]_ledgerVars

-----------------------------------------------------------------------------
(* Properties                                                              *)

Apart(x, y) == IF x > y THEN x - y ELSE y - x

(* Whatever a ledger is rolled up by, no spend is left out: the lines add  *)
(* up to the total, but for half a millionth that rounding may put on each *)
(* of them and on the total; and they agree with one another as closely.   *)
RollUpsReconcile ==
  \A d \in Dimensions :
    Apart(SumFunction(By(d)), TotalUsd(records)) <= 5 * (1 + Cardinality(DOMAIN By(d)))

ChatUsd == SumFunction([i \in DOMAIN chats |-> chats[i].usd])

(* The traffic a loop shows and the spend it shows explain each other      *)
(* (ch08_cost_engineering.py:94): there is a chat span for every request,  *)
(* hits included, their costs add up to the ledger, no question is paid    *)
(* for twice, routing never costs more than it saves, and a retry costs    *)
(* what the first attempt did.  The spans of the routing loop, whose cheap *)
(* model has prices below a millionth, add up to the ledger but for half a *)
(* millionth each.  A sampled ledger never shows more than was spent, and  *)
(* extrapolates to it when all calls cost the same.                        *)
SpansExplainSpend ==
  /\ loop = "sampling" =>
       /\ TotalUsd(baseline) <= TotalUsd(records)
       /\ calls % SampleEvery = 0 /\ (\A i \in DOMAIN records : records[i].usd = records[1].usd) =>
            SampleEvery * UsdOf(baseline, DOMAIN baseline) = UsdOf(records, DOMAIN records)
  /\ loop \in {"billing", "routing", "cache", "retry"} =>
    /\ Len(chats) = calls
    /\ Apart(ChatUsd, UsdOf(records, DOMAIN records)) <= IF loop = "routing" THEN 5 * calls ELSE 0
    /\ loop = "cache" =>
         \A i, j \in DOMAIN chats :
           chats[i].question = chats[j].question /\ ~chats[i].hit /\ ~chats[j].hit => i = j
    /\ loop = "routing" => TotalUsd(records) <= TotalUsd(baseline)
    /\ loop = "retry" /\ calls = 2 => records[2].usd - records[1].usd = records[1].usd

(* "Fraction of spend that cannot be assigned to a tenant" (cost.py:102).  *)
ShareIsFraction ==
  TotalUsd(records) > 0 => UnattributedUsd <= TotalUsd(records)

(* Both: a ledger agrees with its roll-ups and with the spans.             *)
LedgersReconcile == RollUpsReconcile /\ SpansExplainSpend
=============================================================================
