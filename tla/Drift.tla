-------------------------------- MODULE Drift --------------------------------
(***************************************************************************)
(* The drift check of ml/monitoring/drift.py over the searches that are    *)
(* served, stored and deleted meanwhile, and over the feature counters the *)
(* model server keeps (observe_rerank).  Each step of main is an action:   *)
(* the rows, the counters, the baseline written or compared with, the      *)
(* report, the webhook.  A search is of one of a few kinds; a window is    *)
(* how many it holds of each.  Rates, percentiles and stability indexes    *)
(* are computed exactly, scaled to integers.                               *)
(***************************************************************************)
EXTENDS Integers, FiniteSets, Sequences, FiniteSetsExt, Functions

CONSTANTS
  None,
  Kind,          \* what a search of every kind did
  Bins,          \* the bins of top scores, the lowest of them 1
  MinSearches, ZeroDelta, LegRate, LexicalDelta, RrfRate,  \* THRESHOLDS, the rates in per cent
  Floor, PsiLimit, FeatureShift, FeatureMinCount,          \* psi in thousandths, shift in per cent
  Ln,            \* thousandths of the natural logarithm of 1, 2, ...
  MaxWindow,     \* bound on the searches of a window
  MaxHappenings, \* bound on the searches that come and go
  MaxRuns

VARIABLES
  window,    \* the stored searches of the last hours, by kind
  baseline,  \* baseline.json: a summary, None, or HalfWritten
  stage,     \* what main does next
  current,   \* the summary of this run: its window by kind, its features if Prometheus answered
  findings,  \* what the comparison found
  told,      \* whom the run has told: "log", "webhook"
  code,      \* its exit code
  happenings, runs

vars == <<window, baseline, stage, current, findings, told, code, happenings, runs>>

Kinds == DOMAIN Kind
VectorLegs == {"e5", "two_tower"}
Legs == VectorLegs \cup {"lexical"}
HalfWritten == [is |-> "torn"]

DriftAssumption ==
  /\ IsFiniteSet(Kinds) /\ IsFiniteSet(Bins) /\ None \notin Bins
  /\ \A k \in Kinds : /\ Kind[k].ms \in Nat
                      /\ Kind[k].feature \in Seq(Int \cup {None})
  /\ MinSearches \in Nat \ {0}
  /\ {ZeroDelta, LegRate, LexicalDelta, RrfRate} \subseteq 0..99
  /\ {Floor, PsiLimit, FeatureShift, FeatureMinCount, MaxWindow} \subseteq Nat
  /\ \A n \in 1..(Cardinality(Legs) * MaxWindow) : Ln[n] \in Int

Readable == baseline \notin {None, HalfWritten}

Total(w) == SumFunctionOnSet(w, Kinds)

CountOf(w, kinds) == SumFunctionOnSet(w, kinds)

Init ==
  /\ window = [k \in Kinds |-> 0] /\ baseline = None
  /\ stage = "idle" /\ current = None /\ findings = {} /\ told = {} /\ code = None
  /\ happenings = 0 /\ runs = 0

----------------------------------------------------------------------------
(***************************************************************************)
(* Searches are stored, and leave the window by age or by deletion.        *)
(***************************************************************************)
Happens ==
  /\ happenings < MaxHappenings /\ happenings' = happenings + 1
  /\ UNCHANGED <<baseline, stage, current, findings, told, code, runs>>

Serve ==
  /\ Total(window) < MaxWindow
  /\ \E k \in Kinds : window' = [window EXCEPT ![k] = @ + 1]
  /\ Happens

Leave ==
  /\ \E k \in Kinds : window[k] > 0 /\ window' = [window EXCEPT ![k] = @ - 1]
  /\ Happens

----------------------------------------------------------------------------
(***************************************************************************)
(* The server's counters over the window: the finite values of a feature,  *)
(* their sum, and how many were not finite.                                *)
(***************************************************************************)
Finite(k) == {i \in DOMAIN k.feature : k.feature[i] # None}

Observed(w, of) == SumFunctionOnSet([k \in Kinds |-> w[k] * of[k]], Kinds)

Positive(k) ==
  SumFunctionOnSet([i \in Finite(k) |-> IF k.feature[i] > 0 THEN k.feature[i] ELSE 0], Finite(k))

Negative(k) ==
  SumFunctionOnSet([i \in Finite(k) |-> IF k.feature[i] < 0 THEN -k.feature[i] ELSE 0], Finite(k))

NotFinite == [k \in Kinds |-> Len(Kind[k].feature) - Cardinality(Finite(Kind[k]))]

NoFeatures == [sum |-> 0, count |-> 0, nan |-> 0]

\* What Prometheus has of the feature over the window; a feature of which no
\* value was finite is passed over.
LoadFeatures(w) ==
  LET count == Observed(w, [k \in Kinds |-> Cardinality(Finite(Kind[k]))])
  IN IF count <= 0 THEN NoFeatures
     ELSE [sum |-> Observed(w, [k \in Kinds |-> Positive(Kind[k]) - Negative(Kind[k])]),
           count |-> count,
           nan |-> Observed(w, NotFinite)]

----------------------------------------------------------------------------
(***************************************************************************)
(* Fractions are pairs <<part, whole>>; whole is at least 1.               *)
(***************************************************************************)
Whole(n) == IF n = 0 THEN 1 ELSE n

\* Faulty variant: the searches per bin are not divided by their number.
HistogramOfCounts(w) == [b \in Bins |-> <<CountOf(w, {k \in Kinds : Kind[k].top = b}), 1>>]

Histogram(w) ==
  LET scored == CountOf(w, {k \in Kinds : Kind[k].top # None})
  IN [b \in Bins |-> <<CountOf(w, {k \in Kinds : Kind[k].top = b}), Whole(scored)>>]

SourceMix(w) ==
  LET of == [leg \in Legs |-> CountOf(w, {k \in Kinds : leg \in Kind[k].sources})]
  IN [leg \in Legs |-> <<of[leg], Whole(SumFunctionOnSet(of, Legs))>>]

\* The logarithm of a fraction, and of the 1e-4 that stands for none.
Log(f) == IF f[1] = 0 THEN -9210 ELSE Ln[f[1]] - Ln[f[2]]

\* psi(expected, actual) > PsiLimit.
Term(e, a) == ((a[1] * e[2] - e[1] * a[2]) * (Log(a) - Log(e))) \div (a[2] * e[2])

Shifted(expected, actual) ==
  LET bins == DOMAIN expected
  IN SumFunctionOnSet([b \in bins |-> Term(expected[b], actual[b])], bins) > PsiLimit

\* A hundred times the 95th percentile of the times of a window, None of none.
P95(w) ==
  LET times == {Kind[k].ms : k \in {k \in Kinds : w[k] > 0}}
      upTo(t) == CountOf(w, {k \in Kinds : Kind[k].ms <= t})
      nth(i) == Min({t \in times : upTo(t) > i})
      k == (Total(w) - 1) * 95
      lo == nth(k \div 100)
  IN IF times = {} THEN None
     ELSE IF k % 100 = 0 THEN 100 * lo
     ELSE 100 * lo + (nth(k \div 100 + 1) - lo) * (k % 100)

\* Part of the searches of w exceeds part of those of b by delta per cent.
Exceeds(part, w, base, b, delta) ==
  100 * part * Whole(Total(b)) > (100 * base + delta * Whole(Total(b))) * Total(w)

Failed(leg, k) == k.legs[leg] \in {"timeout", "error"}

----------------------------------------------------------------------------
(***************************************************************************)
(* compare, finding by finding; "sample" and "bundle" are informative.     *)
(***************************************************************************)
ZeroResults(b, w) ==
  LET of(x) == CountOf(x, {k \in Kinds : Kind[k].top = None})
  IN {f \in {"zero_results"} : Exceeds(of(w), w, of(b), b, ZeroDelta)}

LegsFailed(b, w) ==
  LET of(leg, x) == CountOf(x, {k \in Kinds : Failed(leg, Kind[k])})
  IN {leg \in VectorLegs : 100 * of(leg, w) > LegRate * Total(w)}
     \cup {leg \in {"lexical"} : Exceeds(of(leg, w), w, of(leg, b), b, LexicalDelta)}

\* Faulty variant: fallback is measured against the baseline.
FallbackOverBaseline(b, w) ==
  LET of(x) == CountOf(x, {k \in Kinds : ~Kind[k].ranked})
  IN {f \in {"rrf_fallback"} : Exceeds(of(w), w, of(b), b, RrfRate)}

Fallback(b, w) ==
  {f \in {"rrf_fallback"} : 100 * CountOf(w, {k \in Kinds : ~Kind[k].ranked}) > RrfRate * Total(w)}

Latency(b, w) ==
  {f \in {"latency"} : /\ P95(w) # None /\ P95(b) # None
                       /\ P95(w) > 100 * Floor /\ P95(w) > 2 * P95(b)}

Distributions(b, w) ==
  {f \in {"top_score_psi"} : Shifted(Histogram(b), Histogram(w))}
  \cup {f \in {"source_mix_psi"} : Shifted(SourceMix(b), SourceMix(w))}

Bundles(b, w) ==
  LET of(x) == {Kind[k].bundle : k \in {k \in Kinds : x[k] > 0}}
  IN {f \in {"bundle"} : of(b) # {} /\ of(w) \ of(b) # {}}

Feature(base, cur) ==
  LET larger == base.count * cur.sum - cur.count * base.sum  \* of the difference of the means
      distance(x) == IF x < 0 THEN -x ELSE x
  IN IF base.count = 0 \/ cur.count = 0 THEN {}
     ELSE IF cur.count < FeatureMinCount THEN {}
     ELSE {f \in {"feature_nan"} : cur.nan > 0}
          \cup {f \in {"feature"} :
                  1000 * 100 * distance(larger) >
                    FeatureShift * cur.count * Max({1000 * distance(base.sum), base.count})}

Compare(b, c) ==
  IF Total(c.rows) < MinSearches THEN {"sample"}
  ELSE ZeroResults(b.rows, c.rows) \cup LegsFailed(b.rows, c.rows)
       \cup Fallback(b.rows, c.rows) \cup Latency(b.rows, c.rows)
       \cup Distributions(b.rows, c.rows) \cup Bundles(b.rows, c.rows)
       \cup Feature(b.features, c.features)

\* The message of the scores formats both means, and one of no scores is None.
Raises(b, c) ==
  LET scored(w) == CountOf(w, {k \in Kinds : Kind[k].top # None})
  IN /\ Total(c.rows) >= MinSearches
     /\ scored(b.rows) = 0 \/ scored(c.rows) = 0
     /\ Shifted(Histogram(b.rows), Histogram(c.rows))

Drifted == findings \ {"sample", "bundle"} # {}

----------------------------------------------------------------------------
(***************************************************************************)
(* main.                                                                   *)
(***************************************************************************)
End(c) == stage' = "ended" /\ code' = c

LoadRows ==
  /\ stage = "idle" /\ runs < MaxRuns
  /\ current' = [rows |-> window, features |-> NoFeatures, asked |-> FALSE]
  /\ stage' = "features" /\ runs' = runs + 1
  /\ UNCHANGED <<window, baseline, findings, told, code, happenings>>

\* Prometheus answers, or the check goes on without it.
AskPrometheus ==
  /\ stage = "features"
  /\ \/ current' = [current EXCEPT !.features = LoadFeatures(window), !.asked = TRUE]
     \/ UNCHANGED current
  /\ stage' \in {"write", "compare"}
  /\ UNCHANGED <<window, baseline, findings, told, code, happenings, runs>>

\* --write-baseline: the file is emptied, then written.
OpenBaseline ==
  /\ stage = "write" /\ baseline' = HalfWritten /\ stage' = "written"
  /\ UNCHANGED <<window, current, findings, told, code, happenings, runs>>

WriteBaseline ==
  /\ stage = "written" /\ baseline' = current /\ End(0)
  /\ UNCHANGED <<window, current, findings, told, happenings, runs>>

Killed ==
  /\ stage = "written" /\ End(137)
  /\ UNCHANGED <<window, baseline, current, findings, told, happenings, runs>>

\* No baseline can be read, or a message cannot be formatted.
CompareFails ==
  /\ stage = "compare"
  /\ Readable => Raises(baseline, current)
  /\ End(1)
  /\ UNCHANGED <<window, baseline, current, findings, told, happenings, runs>>

CompareAndReport ==
  /\ stage = "compare" /\ Readable /\ ~Raises(baseline, current)
  /\ findings' = Compare(baseline, current)
  /\ told' = {"log"} /\ stage' = "notify"
  /\ UNCHANGED <<window, baseline, current, code, happenings, runs>>

\* The webhook is called only for a drift, and where one is configured; a call
\* that fails ends the run.
Notify ==
  /\ stage = "notify"
  /\ \/ Drifted /\ End(1) /\ UNCHANGED told
     \/ \E exitZero \in BOOLEAN, configured \in BOOLEAN :
          /\ End(IF Drifted /\ ~exitZero THEN 2 ELSE 0)
          /\ told' = told \cup {w \in {"webhook"} : Drifted /\ configured}
  /\ UNCHANGED <<window, baseline, current, findings, happenings, runs>>

\* The next run is another process.
Again ==
  /\ stage = "ended" /\ stage' = "idle"
  /\ current' = None /\ findings' = {} /\ told' = {} /\ code' = None
  /\ UNCHANGED <<window, baseline, happenings, runs>>

Next ==
  \/ Serve \/ Leave \/ LoadRows \/ AskPrometheus \/ OpenBaseline \/ WriteBaseline \/ Killed
  \/ CompareFails \/ CompareAndReport \/ Notify \/ Again

Spec == Init /\ [][Next]_vars

----------------------------------------------------------------------------
(***************************************************************************)
(* Properties.                                                             *)
(***************************************************************************)
Compared == stage = "notify"

SameProportions(b, w) ==
  /\ Total(b) > 0
  /\ \A k \in Kinds : b[k] * Total(w) = w[k] * Total(b)

\* A window of any size that holds the same share of every kind of search as the
\* baseline, none of them at fault, and the same mean of the feature, is no drift;
\* a percentile between two searches may differ where the sizes do.
SteadyIsSilent ==
  Compared /\ SameProportions(baseline.rows, current.rows)
    /\ current.features.nan = 0
    /\ baseline.features.sum * current.features.count = current.features.sum * baseline.features.count
    /\ (\A k \in Kinds : current.rows[k] > 0 =>
          Kind[k].ranked /\ \A leg \in VectorLegs : ~Failed(leg, Kind[k]))
    => findings \subseteq {"sample", "bundle"}
                 \cup {f \in {"latency"} : Total(baseline.rows) # Total(current.rows)}

\* A fallback or the loss of a vector leg in every search is found whatever the
\* baseline is, one recorded during the same fault included.
FaultIsFound ==
  Compared /\ Total(current.rows) >= MinSearches
    /\ \/ \A k \in Kinds : current.rows[k] > 0 => ~Kind[k].ranked
       \/ \E leg \in VectorLegs : \A k \in Kinds : current.rows[k] > 0 => Failed(leg, Kind[k])
    => Drifted

\* What railway.ts:169 says, "Findings go to the log (and the webhook when set)":
\* a check does not end in an error before it has reported, given a baseline some
\* search of which had results.  The code raises when none of the window had one.
DriftIsTold ==
  stage = "ended" /\ code = 1 /\ Readable =>
    \/ "log" \in told
    \/ \A k \in Kinds : baseline.rows[k] > 0 => Kind[k].top = None

\* What docs/16-monitoring.md:86 says, "each feature's serving mean [...] and any
\* NaN": where the server counted enough values that are no numbers of a feature
\* the baseline has, and Prometheus answered, the check finds it.
NaNIsFound ==
  Compared /\ current.asked /\ current.rows = window /\ Total(current.rows) >= MinSearches
    /\ baseline.features.count > 0
    /\ Observed(current.rows, NotFinite) >= FeatureMinCount
    => "feature_nan" \in findings

=============================================================================
