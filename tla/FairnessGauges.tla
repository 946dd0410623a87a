--------------------------- MODULE FairnessGauges ---------------------------
(***************************************************************************)
(* chapters/ch13/fairness_metrics.py: publish_fairness computes the rates  *)
(* of one window per group and sets gauges on a recorder that is kept from *)
(* window to window.  A rate is a share of Scale.                          *)
(***************************************************************************)
EXTENDS Integers, Sequences, FiniteSets, FiniteSetsExt

CONSTANTS
  Groups,
  Counts,      \* confusion counts a group may have: <<tp, fp, tn, fn>>
  MinN,        \* min_n
  Scale,       \* a multiple of every denominator
  MaxWindows   \* bound on the windows of a behaviour

Size(c) == c[1] + c[2] + c[3] + c[4]
ActualPositives(c) == c[1] + c[4]
ActualNegatives(c) == c[2] + c[3]

ASSUME FairnessOK ==
  /\ MinN \in Nat \ {0} /\ Scale \in Nat /\ IsFiniteSet(Groups)
  /\ Counts \subseteq Nat \X Nat \X Nat \X Nat
  /\ \A c \in Counts : \A d \in {Size(c), ActualPositives(c), ActualNegatives(c)} :
       d = 0 \/ Scale % d = 0

VARIABLES
  gauges,      \* GaugeRecorder.samples: <<name, group>> to value
  window,      \* the groups of the last window, with their counts
  report,      \* the FairnessReport publish_fairness returned
  windows      \* how many there were

fairnessVars == <<gauges, window, report, windows>>

Share(part, whole) == IF whole = 0 THEN 0 ELSE (Scale \div whole) * part

PositiveRate(c) == Share(c[1] + c[2], Size(c))
BaseRate(c) == Share(ActualPositives(c), Size(c))
TruePositiveRate(c) == Share(c[1], ActualPositives(c))
FalsePositiveRate(c) == Share(c[2], ActualNegatives(c))

Spread(rates) == IF rates = {} THEN 0 ELSE Max(rates) - Min(rates)

Measurable(w) == {g \in DOMAIN w : Size(w[g]) >= MinN}

(* Each error rate is guarded by a denominator of its own.                 *)
TprSupports(w) == {g \in Measurable(w) : ActualPositives(w[g]) >= MinN}
FprSupports(w) == {g \in Measurable(w) : ActualNegatives(w[g]) >= MinN}

(* The rates of some groups, as a function; a gap over fewer than two is   *)
(* None, here -1.                                                          *)
Gap(rates) ==
  IF Cardinality(DOMAIN rates) < 2 THEN -1 ELSE Spread({rates[g] : g \in DOMAIN rates})

\* Mutant: a group that is large enough supports every rate.
TprGapGroupWide(w) == Gap([g \in Measurable(w) |-> TruePositiveRate(w[g])])

TprGap(w) == Gap([g \in TprSupports(w) |-> TruePositiveRate(w[g])])
FprGap(w) == Gap([g \in FprSupports(w) |-> FalsePositiveRate(w[g])])
EqualizedOddsGap(w) ==
  IF TprGap(w) = -1 \/ FprGap(w) = -1 THEN -1 ELSE Max({TprGap(w), FprGap(w)})

(* One gauge: the values of some groups under its name.                    *)
Gauge(name, values) == [k \in {name} \X DOMAIN values |-> values[k[2]]]

Merge(f, g) == [k \in DOMAIN f \cup DOMAIN g |-> IF k \in DOMAIN f THEN f[k] ELSE g[k]]

(* The base rates and the equalized odds gap of earlier windows are        *)
(* deleted; every other gauge stays until it is set again.                 *)
Kept ==
  [k \in {k \in DOMAIN gauges : k[1] \notin {"base_rate", "equalized_odds_gap"}} |-> gauges[k]]

Published(w) ==
  LET parity == Spread({PositiveRate(w[g]) : g \in Measurable(w)})
      single == [k \in {<<"parity_gap", "">>} |-> parity]
      odds == [k \in IF EqualizedOddsGap(w) = -1 THEN {} ELSE {<<"equalized_odds_gap", "">>} |->
                 EqualizedOddsGap(w)]
      sizes == Gauge("sample_size", [g \in DOMAIN w |-> Size(w[g])])
      rates == Gauge("positive_rate", [g \in Measurable(w) |-> PositiveRate(w[g])])
      bases == Gauge("base_rate", [g \in Measurable(w) |-> BaseRate(w[g])])
  IN  Merge(odds, Merge(single, Merge(bases, Merge(rates, sizes))))

FairnessInit ==
  /\ gauges = << >>
  /\ window = << >>
  /\ report = << >>
  /\ windows = 0

Publish(w) ==
  /\ windows < MaxWindows
  /\ windows' = windows + 1
  /\ window' = w
  /\ gauges' = Merge(Published(w), Kept)
  /\ report' = [measurable |-> Measurable(w),
                suppressed_rates |->
                  ((Measurable(w) \ TprSupports(w)) \X {"true_positive_rate"})
                  \cup ((Measurable(w) \ FprSupports(w)) \X {"false_positive_rate"}),
                tpr_gap |-> TprGap(w), fpr_gap |-> FprGap(w)]

Windows == UNION {[gs -> Counts] : gs \in SUBSET Groups}

FairnessNext == \E w \in Windows : Publish(w)

FairnessSpec == FairnessInit /\ [][FairnessNext]_fairnessVars

-----------------------------------------------------------------------------
(* Properties                                                              *)

Without(w, gs) == [g \in DOMAIN w \ gs |-> w[g]]
GapGauges(w) == {<<k, Published(w)[k]>> : k \in
  DOMAIN Published(w) \cap {<<"parity_gap", "">>, <<"equalized_odds_gap", "">>}}

(* No gap tells anything of a group too small to publish: taking the small *)
(* groups out of the window leaves the gap gauges as they are, and the two *)
(* error-rate gaps are those of the groups whose own denominators reach    *)
(* min_n; base rates, sizes and the equalized odds gauge are of the last   *)
(* window whatever earlier windows published, and a group that shrank      *)
(* below the floor has no base rate left.                                  *)
GapsAreDisclosable ==
  windows > 0 =>
    LET small == DOMAIN window \ Measurable(window) IN
    /\ GapGauges(window) = GapGauges(Without(window, small))
    /\ LET few == {g \in DOMAIN window : ActualPositives(window[g]) < MinN}
       IN  report.tpr_gap = TprGap(Without(window, few))
    /\ LET few == {g \in DOMAIN window : ActualNegatives(window[g]) < MinN}
       IN  report.fpr_gap = FprGap(Without(window, few))
    /\ {k[2] : k \in {k \in DOMAIN gauges : k[1] = "base_rate"}} = Measurable(window)
    /\ \A g \in DOMAIN window : gauges[<<"sample_size", g>>] = Size(window[g])
    /\ <<"equalized_odds_gap", "">> \in DOMAIN gauges <=>
         report.tpr_gap # -1 /\ report.fpr_gap # -1

(* "Small groups publish a sample size and nothing else"                   *)
(* (fairness_metrics.py:5).                                                *)
SmallGroupsPublishOnlySize ==
  \A g \in DOMAIN window \ Measurable(window) : \A k \in DOMAIN gauges :
    k[2] = g => k[1] = "sample_size"
=============================================================================
