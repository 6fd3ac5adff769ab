----------------------------- MODULE MCRelevance -----------------------------
(***************************************************************************)
(* One run over what is done with relevance judgements, in three parts     *)
(* that share nothing but the qrels they are given: collecting them,       *)
(* training and evaluating the ranker with them, and comparing systems by  *)
(* them.  A behaviour takes one part, and the others stand still.          *)
(***************************************************************************)
EXTENDS Naturals, Sequences

CONSTANTS
  None,
  Shows, English, TitleOf, PersonOf, NavigationalCount, EntityCount, Curated,     \* the judgements
  Pooled, Machines, People, MaxArrivals, MaxTasks, MaxPrograms,
  Queries, Folds, Legs, Ranking, Depth, RankerEpisodes, Duration,                 \* the ranker
  MaxExports, MaxDeletes, MaxTrainings, MaxKills,
  Systems, Candidate, Baseline, Topics, TypeOf, Prefers, K, ShowOf, Pools,        \* the comparison
  MinGrade, Positives, Snapshot, Scale, Tolerance, MaxChanges, MaxComparisons

VARIABLES
  part,
  counts, queries, tasks, lines, torn, pending, qrels, verdict, arrivals, judging,
  usable, episodes, cache, models, folds, report, meta, training, whole, scored, exports,
  trainings, kills,
  pool, catalog, evaluating, summaries, champion, expected, outcome, changes, comparisons

judgements == INSTANCE Judgements WITH
  Episodes <- Pooled, MaxRuns <- MaxPrograms, runs <- judging

ranker == INSTANCE Ranker WITH
  Episodes <- RankerEpisodes, MaxRuns <- MaxTrainings, job <- training, runs <- trainings

evaluation == INSTANCE Evaluation WITH
  Queries <- Topics, MaxRuns <- MaxComparisons, job <- evaluating, runs <- comparisons

ASSUME RelevanceAssumption == judgements!JudgementsAssumption /\ ranker!RankerAssumption

\* Values for the check: three shows, one of another language; the publisher of
\* the second has the name of the first; no query written by hand.
MCTitleOf == <<"alpha", "beta", "gamma">>
MCPersonOf == <<None, "alpha", None>>
MCCurated == {}

\* Four queries in two folds.  One episode has no length, each leg misses some
\* that the other finds, and one query finds only one episode.
MCRanking == [lexical |-> <<<<1, 2>>, <<2>>, <<>>, <<3, 1, 2>>>>,
              two_tower |-> <<<<2, 3>>, <<3, 2>>, <<1>>, <<1, 3>>>>]
MCDuration == <<[is |-> "number", value |-> 7], [is |-> "null"], [is |-> "number", value |-> 0]>>

\* Two systems, three queries and four episodes of three shows, one of which
\* arrives later; a second export judges more and takes one grade back.
MCSystems == <<"e5", "two_tower">>
MCTypeOf == <<"entity", "exploratory", "exploratory">>
MCPrefers == [e5 |-> <<<<1, 2>>, <<4, 3>>, <<2>>>>, two_tower |-> <<<<2, 1>>, <<3>>, <<4>>>>]
MCShowOf == <<1, 1, 2, 3>>
MCPools == <<<<[e \in {1, 2} |-> e], [e \in {3, 4} |-> 2]>>,
             <<[e \in {1, 2} |-> 2], [e \in {3, 4} |-> e - 2], [e \in {2, 4} |-> 3]>>>>

judgementVars == <<counts, queries, tasks, lines, torn, pending, qrels, verdict, arrivals, judging>>
rankerVars == <<usable, episodes, cache, models, folds, report, meta, training, whole, scored,
                exports, trainings, kills>>
evaluationVars == <<pool, catalog, evaluating, summaries, champion, expected, outcome, changes,
                    comparisons>>
vars == <<part, judgementVars, rankerVars, evaluationVars>>

Init ==
  /\ part \in {"judgements", "ranker", "evaluation"}
  /\ judgements!Init /\ evaluation!Init
  /\ ranker!Init /\ (part = "ranker" \/ usable = {})

Next ==
  \/ part = "judgements" /\ judgements!Next
     /\ UNCHANGED <<part, rankerVars, evaluationVars>>
  \/ part = "ranker" /\ ranker!Next
     /\ UNCHANGED <<part, judgementVars, evaluationVars>>
  \/ part = "evaluation" /\ evaluation!Next
     /\ UNCHANGED <<part, judgementVars, rankerVars>>

Spec == Init /\ [][Next]_vars

\* See Judgements: no judge is found to have graded a pair twice.
ExportAccepts == judgements!ExportAccepts

\* See Judgements: a person's grade is exported where there is one.
HumanWins == judgements!HumanWins

\* See Judgements: a review offers what only a model has graded.
ReviewOffersMachineGrades == judgements!ReviewOffersMachineGrades

\* See Ranker: the features of the cached table are those of live rows.
SameFeatures == ranker!SameFeatures

\* See Ranker: a whole artifact is evaluated out of fold.
ScoredOutOfFold == ranker!ScoredOutOfFold

\* See Evaluation: the cohorts of training evidence partition the catalogue.
CohortsPartition == evaluation!CohortsPartition

=============================================================================
