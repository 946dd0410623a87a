----------------------------- MODULE ValueLedger -----------------------------
(***************************************************************************)
(* chapters/ch07_value_ledger.py, and the executive summary that           *)
(* ch09_exec_summary.py makes of two ledgers, prior and current, held to   *)
(* targets that were taken from a third, Table 7.3, at import.  Amounts are*)
(* whole cents; a ratio is a pair of a numerator and a denominator, and a  *)
(* return is rounded to the last digit roi() keeps; layout is left out.    *)
(***************************************************************************)
EXTENDS Integers, Sequences, Functions, Rounding

CONSTANTS
  Table,       \* entries of table_7_3_ledger
  Amounts,     \* amounts of an entry
  Latencies,   \* latency_p95_ms of a period
  LatencySlo,  \* its target, from chapter 4
  Precision,   \* units of a return's last digit in 1, 10^6 in the code
  MaxEntries   \* bound on the entries of a ledger

ASSUME ValueOK ==
  /\ Amounts \subseteq Nat /\ MaxEntries \in Nat /\ Precision \in Nat \ {0}
  /\ Table \in Seq([kind : {"cost", "benefit"}, usd : Nat,
                    confidence : {"direct_cost", "measured", "assumed"}])

VARIABLES
  ledgers,     \* AIValueLedger.entries of each period
  summary      \* the page, << >> until it is rendered

valueVars == <<ledgers, summary>>

Periods == {"prior", "current"}

ValueInit == ledgers = [p \in Periods |-> << >>] /\ summary = << >>

-----------------------------------------------------------------------------
(* AIValueLedger                                                           *)

Entry(kind, usd, confidence) == [kind |-> kind, usd |-> usd, confidence |-> confidence]

(* direct_cost is reserved for costs; a benefit that claims it, a negative *)
(* amount and an empty confidence raise and leave no entry.                *)
Add(period, kind, usd, confidence) ==
  /\ summary = << >>
  /\ Len(ledgers[period]) < MaxEntries
  /\ kind = "benefit" => confidence # "direct_cost"
  /\ ledgers' = [ledgers EXCEPT ![period] = Append(@, Entry(kind, usd, confidence))]
  /\ UNCHANGED summary

AmountOf(entries, chosen) == SumFunctionOnSet([i \in DOMAIN entries |-> entries[i].usd], chosen)
Costs(entries) == AmountOf(entries, {i \in DOMAIN entries : entries[i].kind = "cost"})
Benefits(entries) == AmountOf(entries, {i \in DOMAIN entries : entries[i].kind = "benefit"})
ByConfidence(entries, c) == AmountOf(entries, {i \in DOMAIN entries : entries[i].confidence = c})

\* Mutant: what is not measured is blocked.
MeasuredOnly(entries, blocked) ==
  RestrictValues(entries, LAMBDA e : e.confidence = "measured")

(* The entries of the new ledger; nothing asks for their order.            *)
WithoutConfidence(entries, blocked) ==
  RestrictValues(entries, LAMBDA e : e.confidence # blocked)

(* roi() raises unless the costs are positive, and rounds.                 *)
RoiDefined(entries) == Costs(entries) > 0
Roi(entries) ==
  <<Nearest(Precision * (Benefits(entries) - Costs(entries)), Costs(entries)), Precision>>

AtLeast(q, r) == q[1] * r[2] >= r[1] * q[2]

-----------------------------------------------------------------------------
(* The summary                                                             *)

Metrics == {"roi_ratio", "assumed_value_usd", "latency_p95_ms"}

(* Evaluated once: a ledger that grows later moves no target.              *)
Targets == [m \in Metrics |->
  CASE m = "roi_ratio" -> Roi(WithoutConfidence(Table, "assumed"))
    [] m = "assumed_value_usd" -> <<ByConfidence(Table, "assumed"), 1>>
    [] OTHER -> <<LatencySlo, 1>>]

Goal(m) == IF m = "roi_ratio" THEN "at_least" ELSE "at_most"

Values(entries, latency) == [m \in Metrics |->
  CASE m = "roi_ratio" -> Roi(entries)
    [] m = "assumed_value_usd" -> <<ByConfidence(entries, "assumed"), 1>>
    [] OTHER -> <<latency, 1>>]

OnTarget(m, current) ==
  IF Goal(m) = "at_most" THEN AtLeast(Targets[m], current) ELSE AtLeast(current, Targets[m])

Magnitude(n) == IF n < 0 THEN -n ELSE n

\* Mutant: the change is divided by the prior value, sign and all.
ChangeBySigned(q, r) == <<(q[1] * r[2] - r[1] * q[2]) * (IF r[1] < 0 THEN -1 ELSE 1), Magnitude(r[1]) * q[2]>>

(* The change from r to q, in the magnitude of r.                          *)
Change(q, r) == <<q[1] * r[2] - r[1] * q[2], Magnitude(r[1]) * q[2]>>

(* From zero every move reads +100%, a fall included.                      *)
Trend(current, prior) ==
  IF prior[1] = 0 THEN IF current[1] = 0 THEN "flat" ELSE "up"
  ELSE LET change == Change(current, prior) IN
    IF 100 * Magnitude(change[1]) < 2 * change[2] THEN "flat"
    ELSE IF change[1] > 0 THEN "up" ELSE "down"

(* collect_exec_summary_metrics drops the assumed value of the prior       *)
(* period, so that metric never has a trend.                               *)
Render(current_latency, prior_latency) ==
  /\ summary = << >>
  /\ \A p \in Periods : RoiDefined(ledgers[p]) /\ RoiDefined(WithoutConfidence(ledgers[p], "assumed"))
  /\ LET current == Values(ledgers["current"], current_latency)
         prior == Values(ledgers["prior"], prior_latency)
     IN  summary' =
           [attention |-> {m \in Metrics : ~OnTarget(m, current[m])},
            trend |-> [m \in Metrics |->
              IF m = "assumed_value_usd" THEN "no prior period" ELSE Trend(current[m], prior[m])]]
  /\ UNCHANGED ledgers

ValueNext ==
  \/ \E p \in Periods, usd \in Amounts, c \in {"direct_cost", "measured", "assumed"} :
       Add(p, "cost", usd, c) \/ Add(p, "benefit", usd, c)
  \/ \E l1, l2 \in Latencies : Render(l1, l2)

ValueSpec == ValueInit /\ [][ValueNext]_valueVars

-----------------------------------------------------------------------------
(* Properties                                                              *)

(* The floor that targets are taken from is a floor: as long as no cost is *)
(* labelled an assumption, leaving assumed value out of a ledger leaves    *)
(* every cost in, never raises its return, and takes away exactly what the *)
(* roll-up by confidence calls assumed.                                    *)
MeasuredRoiIsFloor ==
  \A p \in Periods : LET all == ledgers[p]  kept == WithoutConfidence(all, "assumed") IN
    (\A i \in DOMAIN all : all[i].kind = "cost" => all[i].confidence # "assumed") =>
      /\ Costs(kept) = Costs(all)
      /\ RoiDefined(all) => AtLeast(Roi(all), Roi(kept))
      /\ Benefits(all) - Benefits(kept) = ByConfidence(all, "assumed")

(* A page without an entry under "Attention" is of a ledger that returns   *)
(* at least what Table 7.3 does by measured value alone and assumes no     *)
(* more; and an arrow points where the return went, losses included,       *)
(* unless the period before it had none.                                   *)
SummaryIsTrue ==
  summary # << >> =>
    LET now == Roi(ledgers["current"])  before == Roi(ledgers["prior"]) IN
      /\ summary.attention = {} =>
           /\ AtLeast(now, Roi(RestrictValues(Table, LAMBDA e : e.confidence # "assumed")))
           /\ ByConfidence(ledgers["current"], "assumed") <= ByConfidence(Table, "assumed")
      /\ before[1] # 0 =>
           /\ summary.trend["roi_ratio"] = "up" => ~AtLeast(before, now)
           /\ summary.trend["roi_ratio"] = "down" => ~AtLeast(now, before)

(* Both: the page, and the floor it is held to.                            *)
ValueIsEarned == MeasuredRoiIsFloor /\ SummaryIsTrue
=============================================================================
