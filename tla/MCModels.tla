-------------------------------- MODULE MCModels --------------------------------
(***************************************************************************)
(* One run over the life of a model, in six parts: its training, the       *)
(* embeddings it makes of the episodes, the metrics by which it is         *)
(* compared, its release as a bundle on the developer's machine, the       *)
(* bundle's way to the deployed server, and the drift check of what it     *)
(* serves.  A behaviour takes one part, and the others stand still.        *)
(***************************************************************************)
EXTENDS Integers, Sequences

CONSTANTS
  None, Torn,
  Configs, Scores, MaxKills, MaxInterrupts, MaxStarts,                        \* the training
  Jobs, Ids, Batch, Limits, MaxChanges, MaxLaunches,                          \* the index
  Episodes, Grades, MinGrade, Ks, Scale, Weight,                              \* the metrics
  Lines, OffTowers, MaxTrain, MaxBundles, MaxPromotions, MaxPromotionKills,   \* the release
  Kind, Bins, MinSearches, ZeroDelta, LegRate, LexicalDelta, RrfRate, Floor,
  PsiLimit, FeatureShift, FeatureMinCount, Ln,
  MaxWindow, MaxHappenings, MaxRuns                                           \* the drift check

VARIABLES
  part,
  config, pc, run, weights, artifact, state, kills, interrupts, starts,
  episodes, vectors, indexed, trained, record, jobs, launched, changes,
  ranked, grades,
  tower, booster, bundles, files, temp, active, log, builder, golden, parity, promoter,
  history, interrupted,
  objects, partial, target, pub, fetch, killed,
  window, baseline, stage, current, findings, told, code, happenings, runs

training == INSTANCE Training

index == INSTANCE EmbeddingIndex WITH
  MaxStarts <- MaxLaunches, weights <- trained, job <- jobs, starts <- launched

metrics == INSTANCE Metrics

release == INSTANCE Release WITH MaxKills <- MaxPromotionKills, kills <- interrupted

\* Two files, two publishers, the server and an operator that fetch, two kills.
store == INSTANCE BundleStore WITH
  Names <- {"query_tower.onnx", "ranker.onnx"}, Publishers <- {"p1", "p2"}, Server <- "server",
  Operators <- {"operator"}, MaxKills <- 2, kills <- killed

drift == INSTANCE Drift

ASSUME ModelsAssumption ==
  /\ training!TrainingAssumption /\ index!IndexAssumption /\ metrics!MetricsAssumption
  /\ release!ReleaseAssumption /\ store!StoreAssumption /\ drift!DriftAssumption

trainingVars == <<config, pc, run, weights, artifact, state, kills, interrupts, starts>>
indexVars == <<episodes, vectors, indexed, trained, record, jobs, launched, changes>>
metricVars == <<ranked, grades>>
releaseVars == <<tower, booster, bundles, files, temp, active, log, builder, golden, parity,
                 promoter, history, interrupted>>
storeVars == <<objects, partial, target, pub, fetch, killed>>
driftVars == <<window, baseline, stage, current, findings, told, code, happenings, runs>>
vars == <<part, trainingVars, indexVars, metricVars, releaseVars, storeVars, driftVars>>

\* Values for the check: jobs of four steps and less: two epochs of two steps with
\* accumulation and the pool; one step per chunk, with a cap inside the first
\* epoch; a last chunk of one example; and epochs that leave half a group over.
Job(chunks, single, accumulate, epochs, maxSteps, evalEvery, checkpoint, pooled) ==
  [chunks |-> chunks, single |-> single, accumulate |-> accumulate, epochs |-> epochs,
   maxSteps |-> maxSteps, evalEvery |-> evalEvery, checkpoint |-> checkpoint, pool |-> pooled]

MCConfigs == {Job(4, FALSE, 2, 2, 0, 1, TRUE, TRUE), Job(4, FALSE, 2, 2, 0, 2, TRUE, FALSE),
              Job(2, FALSE, 1, 3, 0, 2, TRUE, TRUE), Job(4, FALSE, 1, 1, 3, 2, TRUE, TRUE),
              Job(3, TRUE, 1, 2, 0, 1, TRUE, FALSE), Job(3, FALSE, 2, 2, 0, 1, FALSE, TRUE)}

\* Hundredths of the discount 1 / log2(position + 1), rounded.
MCWeight == <<100, 63, 50, 43>>

\* Five kinds of search: an answer as usual, one that is slow and scored higher,
\* none, a fallback, and one without the E5 leg, which leaves the ranker no number.
Fine == [lexical |-> "ok", e5 |-> "ok", two_tower |-> "ok"]
Answer == [top |-> 1, sources |-> {"lexical", "e5", "two_tower"}, ranked |-> TRUE, legs |-> Fine,
           ms |-> 300, bundle |-> "b1", feature |-> <<2, -1>>]

MCKind == <<Answer,
            [Answer EXCEPT !.top = 2, !.ms = 3000, !.bundle = "b2"],
            [Answer EXCEPT !.top = None, !.sources = {}, !.feature = <<>>],
            [Answer EXCEPT !.ranked = FALSE, !.feature = <<>>],
            [Answer EXCEPT !.legs.e5 = "timeout", !.sources = {"lexical"}, !.feature = <<None, None>>]>>

MCLn == <<0, 693, 1099, 1386, 1609, 1792, 1946, 2079, 2197>>

Init ==
  /\ part \in {"training", "index", "metrics", "release", "store", "drift"}
  /\ training!Init /\ (part = "training" \/ config = CHOOSE c \in Configs : TRUE)
  /\ index!Init /\ (part = "index" \/ episodes = [e \in Ids |-> [text |-> 0, excerpt |-> 0]])
  /\ IF part = "metrics" THEN metrics!Init ELSE ranked = <<>> /\ grades = <<>>
  /\ release!Init
  /\ store!Init /\ (part = "store" \/ target = store!Absent)
  /\ drift!Init

Next ==
  \/ part = "training" /\ training!Next
     /\ UNCHANGED <<part, indexVars, metricVars, releaseVars, storeVars, driftVars>>
  \/ part = "index" /\ index!Next
     /\ UNCHANGED <<part, trainingVars, metricVars, releaseVars, storeVars, driftVars>>
  \/ part = "metrics" /\ metrics!Next
     /\ UNCHANGED <<part, trainingVars, indexVars, releaseVars, storeVars, driftVars>>
  \/ part = "release" /\ release!Next
     /\ UNCHANGED <<part, trainingVars, indexVars, metricVars, storeVars, driftVars>>
  \/ part = "store" /\ store!Next
     /\ UNCHANGED <<part, trainingVars, indexVars, metricVars, releaseVars, driftVars>>
  \/ part = "drift" /\ drift!Next
     /\ UNCHANGED <<part, trainingVars, indexVars, metricVars, releaseVars, storeVars>>

Others == <<part, trainingVars, indexVars, metricVars, releaseVars, driftVars>>

Spec ==
  /\ Init /\ [][Next]_vars
  /\ \A f \in store!Fetchers : WF_vars(part = "store" /\ store!Fetch(f) /\ UNCHANGED Others)
  /\ WF_vars(part = "store" /\ store!Restart /\ UNCHANGED Others)

\* The same without fairness, for what a counterexample of finite length refutes.
SafetySpec == Init /\ [][Next]_vars

\* See Training: the weights have seen the data in the order of one process.
SameDataOrder == part = "training" => training!SameDataOrder

\* See Training: a kill loses the steps since the last evaluation.
KillLosesLittle == part = "training" => training!KillLosesLittle

\* See EmbeddingIndex: a run alone leaves none of its episodes behind.
RunsMissNothing == part = "index" => index!RunsMissNothing

\* See Metrics: a better order is not scored lower.
BetterIsNotLower == metrics!BetterIsNotLower

\* See Release: what ACTIVE has named was compared with its reference models.
PromotedIsChecked == release!PromotedIsChecked

\* See BundleStore: a published bundle is served in the end.
PublishedIsServed == part = "store" => store!PublishedIsServed

\* See Drift: the same searches as in the baseline are no drift.
SteadyIsSilent == drift!SteadyIsSilent

\* See Drift: a fault of every search is found.
FaultIsFound == drift!FaultIsFound

\* See Drift: a drift is told.
DriftIsTold == drift!DriftIsTold

\* See Drift: values that are no numbers are found.
NaNIsFound == drift!NaNIsFound

=============================================================================
