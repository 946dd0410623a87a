----------------------------- MODULE DriftAlerts -----------------------------
(***************************************************************************)
(* src/aiobs/drift.py: the population stability index and the embedding    *)
(* drift of a day's window against a reference, and                        *)
(* chapters/ch06/alerting.py: the tier a day's metrics raise.  Values and  *)
(* embeddings are integers a tenth apart (the neighbour search and the KS  *)
(* test are library code); scores are in units of their last digit.        *)
(***************************************************************************)
EXTENDS Integers, Sequences, FiniteSets, FiniteSetsExt, Functions, StableSort, Rounding

CONSTANTS
  Observations,  \* observations
  References,    \* reference windows
  WindowSizes,   \* sizes of a window
  Bins,
  Unit,          \* units of a score's last digit in 1, 10^6 in the code
  Ln, LnScale,   \* LnScale * ln n, of the products in an index
  MaxDays        \* bound on the days of a behaviour

VARIABLES
  reference,
  days  \* the metrics of each day and the tier they raised

driftVars == <<reference, days>>

WindowsOf == UNION {[1..n -> Observations] : n \in WindowSizes}

BinCounts == UNION {0..n : n \in WindowSizes}

(* Laplace smoothing makes every share of a window of n observations an    *)
(* odd multiple of the same one, 1 / Shares(n).                            *)
Shares(n) == 2 * n + Bins

Products == {(2 * a + 1) * Shares(n) : a \in BinCounts, n \in WindowSizes}

(* _validate wants two observations, and a reference without variance is   *)
(* refused.                                                                *)
ASSUME DriftOK ==
  /\ Bins \in Nat /\ Bins >= 2
  /\ WindowSizes \subseteq Nat \ {0, 1}
  /\ Observations \subseteq Int
  /\ \A w \in References : w \in WindowsOf /\ Cardinality(Range(w)) > 1
  /\ Unit \in Nat \ {0} /\ LnScale \in Nat \ {0}
  /\ \A x \in Products : Ln[x] \in Int
  /\ \A x, y \in Products : x < y => Ln[x] < Ln[y]

-----------------------------------------------------------------------------
(* population_stability_index                                              *)

\* Mutant: the outer bins end where the reference does.
InBinClosed(w, v, i) ==
  LET lo == Min(Range(w))  hi == Max(Range(w))
  IN  (i - 1) * (hi - lo) <= (v - lo) * Bins /\ (v - lo) * Bins < i * (hi - lo)

(* Bin i of 1..Bins, of equal width; the first has no lower and the last   *)
(* no upper edge.                                                          *)
InBin(w, v, i) ==
  LET lo == Min(Range(w))  hi == Max(Range(w))
  IN  /\ i = 1 \/ (i - 1) * (hi - lo) <= (v - lo) * Bins
      /\ i = Bins \/ (v - lo) * Bins < i * (hi - lo)

Histogram(w, values) ==
  [i \in 1..Bins |-> Cardinality({j \in DOMAIN values : InBin(w, values[j], i)})]

(* The index, before it is rounded: the sum over the bins of the gap of    *)
(* the two shares times the logarithm of their ratio.  The shares are over *)
(* a common denominator, so it is in units of 1 / PsiUnits.                *)
Psi(w, values) ==
  LET r == Histogram(w, w)  c == Histogram(w, values)
      term == [i \in 1..Bins |->
        LET p == (2 * c[i] + 1) * Shares(Len(w))  q == (2 * r[i] + 1) * Shares(Len(values))
        IN  (p - q) * (Ln[p] - Ln[q])]
  IN  SumFunctionOnSet(term, 1..Bins)

PsiUnits(w, values) == LnScale * (Shares(Len(w)) * Shares(Len(values)))

(* round(psi, 6)                                                           *)
PsiScore(w, values) == Nearest(Unit * Psi(w, values), PsiUnits(w, values))

(* embedding_drift_score and top_drifting_items: the distance of each item *)
(* to its nearest neighbour in the reference.                              *)
Distance(w, values) ==
  [j \in DOMAIN values |-> Min({IF values[j] > v THEN values[j] - v ELSE v - values[j] : v \in Range(w)})]

EmbeddingDrift(w, values) ==
  Nearest(Unit * SumFunctionOnSet(Distance(w, values), DOMAIN values), 10 * Len(values))

TopDrifting(w, values, k) ==
  LET d == Distance(w, values)
      J == DOMAIN values
      ranked == Ordered(J, {p \in J \X J : d[p[1]] > d[p[2]]})
  IN  [i \in 1..Min({k, Cardinality(J)}) |-> ranked[i]]

-----------------------------------------------------------------------------
(* evaluate_alert_tier                                                     *)

Tiers == <<"none", "informational", "warning", "critical", "retraining_trigger">>

Above(score, thousandths) == 1000 * score > thousandths * Unit

\* Mutant: a single window is enough.
WarningAtOnce(m) == ~m.seasonal /\ (Above(m.psi, 250) \/ Above(m.embedding, 150))

Warning(m) ==
  /\ ~m.seasonal
  /\ \/ Above(m.psi, 250)
     \/ Above(m.previous, 150) /\ Above(m.embedding, 150)

Tier(m) ==
  IF Warning(m)
  THEN IF ~m.regression THEN 3 ELSE IF ~m.confirmed THEN 4 ELSE 5
  ELSE IF m.low_p \/ Above(m.psi, 100) \/ Above(m.embedding, 100) THEN 2 ELSE 1

DriftInit == reference \in References /\ days = << >>

(* One daily window; yesterday's embedding drift is handed in with it, and *)
(* is None, here 0, on the first day.                                      *)
Day(values, low_p, regression, seasonal, confirmed) ==
  /\ Len(days) < MaxDays
  /\ LET m == [values |-> values, psi |-> PsiScore(reference, values),
               embedding |-> EmbeddingDrift(reference, values),
               previous |-> IF days = << >> THEN 0 ELSE days[Len(days)].embedding,
               low_p |-> low_p, regression |-> regression, seasonal |-> seasonal,
               confirmed |-> confirmed, tier |-> 1]
     IN  days' = Append(days, [m EXCEPT !.tier = Tier(m)])
  /\ UNCHANGED reference

DriftNext ==
  \E values \in WindowsOf, low_p, regression, seasonal, confirmed \in BOOLEAN :
    Day(values, low_p, regression, seasonal, confirmed)

DriftSpec == DriftInit /\ [][DriftNext]_driftVars

-----------------------------------------------------------------------------
(* Properties                                                              *)

Newest == days[Len(days)]

(* Every observation falls into exactly one bin, those outside the range   *)
(* of the reference included; and the items reported first are those that  *)
(* moved farthest, the first of them, to the last digit reported, no less  *)
(* than the score.                                                         *)
DriftIsCounted ==
  days # << >> =>
    LET v == Newest.values
        d == Distance(reference, v)
        top == TopDrifting(reference, v, 2)
    IN  /\ SumFunctionOnSet(Histogram(reference, v), 1..Bins) = Len(v)
        /\ \A j \in DOMAIN v \ Range(top) : d[j] <= d[top[2]]
        /\ Nearest(Unit * d[top[1]], 10) >= Newest.embedding

SameShares(w, values) ==
  \A i \in 1..Bins : (2 * Histogram(w, values)[i] + 1) * Shares(Len(w))
                       = (2 * Histogram(w, w)[i] + 1) * Shares(Len(values))

(* Windows of any two sizes: the index is never negative and is 0 exactly  *)
(* when the smoothed shares agree, which they never do when every value of *)
(* a window no smaller than the reference is beyond it (a smaller one, of  *)
(* 2 values against 8 of which 7 are in the last bin, may read 0); and     *)
(* what is reported is within half of its last digit of it.                *)
IndexMeasures ==
  days # << >> =>
    LET v == Newest.values
        exact == Psi(reference, v)
        units == PsiUnits(reference, v)
        gap == Newest.psi * units - Unit * exact
    IN  /\ exact >= 0 /\ Newest.psi >= 0
        /\ exact = 0 <=> SameShares(reference, v)
        /\ /\ Len(v) >= Len(reference)
           /\ \A j \in DOMAIN v : v[j] > Max(Range(reference))
           => exact > 0
        /\ 2 * gap <= units /\ -(2 * gap) <= units

DriftMeasured == DriftIsCounted /\ IndexMeasures

\* The metrics of a day with these four in the place of its own.
Graver(m, psi, emb, reg, low) ==
  [psi |-> psi, embedding |-> emb, previous |-> m.previous, low_p |-> low,
   regression |-> reg, seasonal |-> m.seasonal, confirmed |-> m.confirmed]

ActedOnDrift(i) ==
  LET m == days[i] IN
    /\ m.tier >= 3 =>
         /\ ~m.seasonal
         /\ \/ Above(m.psi, 250)
            \/ i > 1 /\ Above(m.embedding, 150) /\ Above(days[i - 1].embedding, 150)
    /\ m.tier = 5 => m.confirmed /\ m.regression

NeverCalledOff(m) ==
  \A psi \in {m.psi, Unit}, emb \in {m.embedding, Unit}, reg, low \in BOOLEAN :
    /\ psi >= m.psi /\ emb >= m.embedding
    /\ m.regression => reg
    /\ m.low_p => low
    => Tier(Graver(m, psi, emb, reg, low)) >= m.tier

(* Nothing but drift that lasts raises an alert somebody has to act on: a  *)
(* tier of warning or above comes of the stability index, or of embedding  *)
(* drift on this day and the day before, and never under a seasonal        *)
(* baseline; and no metric that is worse lowers the tier, so that more     *)
(* drift or a regression never calls people off.                           *)
AlertsEarned == \A i \in DOMAIN days : ActedOnDrift(i) /\ NeverCalledOff(days[i])

(* Both: the metrics measure drift, and only drift raises an alert.        *)
DriftEarnsAlerts == DriftMeasured /\ AlertsEarned
=============================================================================
