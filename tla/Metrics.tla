------------------------------- MODULE Metrics -------------------------------
(***************************************************************************)
(* The ranking metrics of ml/evaluation/metrics.py, as fractions           *)
(* <<numerator, denominator>>.  A behaviour takes any ranking of judged    *)
(* and unjudged episodes and lifts better ones over worse ones.  Discounts *)
(* are the constant weights of the positions: their logarithms matter only *)
(* in that they fall.                                                      *)
(***************************************************************************)
EXTENDS Naturals, Sequences, FiniteSetsExt, Functions

CONSTANTS
  Episodes,
  Grades,    \* the grades a judge gives
  MinGrade,  \* the least that counts as relevant
  Ks,        \* the cuts
  Scale,     \* divisible by the positions
  Weight     \* position -> what a gain counts there, times a common factor

MetricsAssumption ==
  /\ IsFiniteSet(Episodes) /\ Episodes \subseteq Nat
  /\ Grades \subseteq Nat /\ MinGrade \in Nat /\ Ks \subseteq Nat \ {0} /\ Scale \in Nat
  /\ \A i \in 1..Cardinality(Episodes) :
       Scale % i = 0 /\ Weight[i] \in Nat /\ \A j \in 1..i : Weight[i] <= Weight[j]

VARIABLES
  ranked,  \* what a system answers
  grades   \* episode -> its grade, of those judged

vars == <<ranked, grades>>

Relevant == {e \in DOMAIN grades : grades[e] >= MinGrade}
RangeOf(seq) == {seq[i] : i \in DOMAIN seq}
Smaller(a, b) == IF a < b THEN a ELSE b
Top(k) == SubSeq(ranked, 1, Smaller(k, Len(ranked)))
Hits(k) == RangeOf(Top(k)) \cap Relevant

RecallAt(k) == <<Cardinality(Hits(k)), Cardinality(Relevant)>>

PrecisionAt(k) == <<Cardinality(Hits(k)), k>>

ReciprocalRank ==
  LET at == {i \in DOMAIN ranked : ranked[i] \in Relevant}
  IN  <<IF at = {} THEN 0 ELSE Scale \div Min(at), Scale>>

\* 2 ^ grade - 1, and nothing for what is unjudged.
Gain(e) == IF e \in DOMAIN grades THEN 2 ^ grades[e] - 1 ELSE 0

DCG(seq) == SumFunctionOnSet([i \in DOMAIN seq |-> Gain(seq[i]) * Weight[i]], DOMAIN seq)

\* The gain of the judged episodes in the order of their grades.
IdealDCG(k) ==
  LET place(e) == Cardinality({d \in DOMAIN grades : grades[d] > grades[e] \/ (grades[d] = grades[e] /\ d <= e)})
  IN  SumFunctionOnSet([e \in DOMAIN grades |-> Gain(e) * Weight[place(e)]],
                       {e \in DOMAIN grades : place(e) <= k})

NDCG(k) == IF IdealDCG(k) = 0 THEN <<0, 1>> ELSE <<DCG(Top(k)), IdealDCG(k)>>

\* Faulty variant: the mean is over the relevant episodes that were found.
FoundOnly(k) == IF Hits(k) = {} THEN 1 ELSE Cardinality(Hits(k))

PossibleHits(k) == Smaller(Cardinality(Relevant), k)

AveragePrecisionAt(k) ==
  LET at == {i \in DOMAIN Top(k) : ranked[i] \in Relevant}
  IN  <<SumFunctionOnSet([i \in at |-> Cardinality({j \in at : j <= i}) * (Scale \div i)], at),
        Scale * PossibleHits(k)>>

\* Judged pairs of different grades, and those in the right order.
PairwiseAccuracy ==
  LET pairs == {p \in (DOMAIN ranked) \X (DOMAIN ranked) :
                  /\ p[1] < p[2] /\ {ranked[p[1]], ranked[p[2]]} \subseteq DOMAIN grades
                  /\ grades[ranked[p[1]]] # grades[ranked[p[2]]]}
  IN  <<Cardinality({p \in pairs : grades[ranked[p[1]]] > grades[ranked[p[2]]]}),
        Cardinality(pairs)>>

----------------------------------------------------------------------------
\* What is relevant to nothing is skipped by the harness.
Init ==
  /\ ranked \in {s \in [1..Cardinality(Episodes) -> Episodes] :
                   \A i, j \in DOMAIN s : i # j => s[i] # s[j]}
  /\ grades \in UNION {[judged -> Grades] : judged \in SUBSET Episodes}
  /\ Relevant # {}

GradeOf(e) == IF e \in DOMAIN grades THEN grades[e] ELSE 0

\* Another system orders two neighbours better.
Lift ==
  /\ \E i \in 1..Len(ranked) - 1 :
       /\ GradeOf(ranked[i]) < GradeOf(ranked[i + 1])
       /\ ranked' = [ranked EXCEPT ![i] = ranked[i + 1], ![i + 1] = ranked[i]]
  /\ UNCHANGED grades

Next == Lift

Spec == Init /\ [][Next]_vars

----------------------------------------------------------------------------
AtMost(a, b) == a[1] * b[2] <= b[1] * a[2]

\* A system that orders two episodes better is never scored lower by any
\* metric the gates and the reports compare, at any cut.
BetterIsNotLower ==
  [][ranked' # ranked =>
       /\ AtMost(ReciprocalRank, ReciprocalRank')
       /\ AtMost(PairwiseAccuracy, PairwiseAccuracy')
       /\ \A k \in Ks :
            /\ AtMost(RecallAt(k), RecallAt(k)')
            /\ AtMost(PrecisionAt(k), PrecisionAt(k)')
            /\ AtMost(NDCG(k), NDCG(k)')
            /\ AtMost(AveragePrecisionAt(k), AveragePrecisionAt(k)')]_vars

=============================================================================
