------------------------------- MODULE Ranker -------------------------------
(***************************************************************************)
(* The second-stage ranker of ml/ranking: train.py collects the candidates *)
(* of the relevance queries, trains one model per fold and one on all of   *)
(* them, and writes the artifact file by file; system.py has each query    *)
(* scored by the model of its fold.                                        *)
(*                                                                         *)
(* A developer runs one program after the other, over judgements and a     *)
(* catalogue that change.  The directory of an artifact is named by its    *)
(* config alone, so that every training of a config writes over the last.  *)
(* A model is the queries it was trained on.  Queries are numbered by type *)
(* and then by the seeded order within it.  What a query's candidates tell *)
(* of themselves is which legs found them and one number, which may be     *)
(* missing; grades, scores and timings are left out.                       *)
(***************************************************************************)
EXTENDS Naturals, Sequences, FiniteSets

CONSTANTS
  None,
  Queries,     \* 1..n
  Folds,
  Legs,
  Ranking,     \* leg -> query -> the episodes the leg finds for it, best first
  Depth,       \* how many of them it returns
  Episodes,
  Duration,    \* episode -> the number of its row, maybe missing
  MaxExports,  \* bound on the changes of the judgements
  MaxDeletes,  \* bound on the episodes deleted
  MaxRuns,     \* bound on the trainings
  MaxKills     \* bound on the trainings killed

RankerAssumption == IsFiniteSet(Queries) /\ Queries \subseteq Nat /\ Folds \in Nat \ {0}

VARIABLES
  usable,    \* the queries with a relevant judgement
  episodes,  \* the catalogue
  cache,     \* candidates.parquet
  models,    \* fold_<k>.txt, and model.txt under "final"
  folds,     \* folds.json
  report,    \* per_query.jsonl
  meta,      \* ranker.json exists
  job,
  whole,     \* nothing was written since the last training that ended
  scored,    \* query -> the model an evaluation scored it with
  exports,
  runs,
  kills

artifact == <<cache, models, folds, report, meta>>
world == <<usable, episodes, exports>>
vars == <<usable, episodes, cache, models, folds, report, meta, job, whole, scored,
          exports, runs, kills>>

Idle == [at |-> "idle"]

Init ==
  /\ usable \in SUBSET Queries /\ episodes = Episodes
  /\ cache = None /\ models = <<>> /\ folds = <<>> /\ report = <<>> /\ meta = FALSE
  /\ job = Idle /\ whole = FALSE /\ scored = <<>>
  /\ exports = 0 /\ runs = 0 /\ kills = 0

\* More is judged, a person overrides a model: another set of queries has a
\* relevant episode.
Export ==
  /\ exports < MaxExports /\ exports' = exports + 1
  /\ usable' \in SUBSET Queries \ {usable}
  /\ UNCHANGED <<episodes, cache, models, folds, report, meta, job, whole, scored, runs, kills>>

Delete ==
  /\ Cardinality(Episodes \ episodes) < MaxDeletes
  /\ \E e \in episodes : episodes' = episodes \ {e}
  /\ UNCHANGED <<usable, artifact, job, whole, scored, exports, runs, kills>>

----------------------------------------------------------------------------
(***************************************************************************)
(* Candidates (candidates.py) and their features (features.py).            *)
(***************************************************************************)

Number(n) == [is |-> "number", value |-> n]
Null == [is |-> "null"]
NaN == [is |-> "nan"]

\* What each leg retrieves: the best of what is left in the catalogue.
Retrieved(q) ==
  [leg \in Legs |->
     LET left == SelectSeq(Ranking[leg][q], LAMBDA e : e \in episodes)
     IN  SubSeq(left, 1, IF Len(left) < Depth THEN Len(left) ELSE Depth)]

RangeOf(seq) == {seq[i] : i \in DOMAIN seq}
Found(answer) == UNION {RangeOf(answer[leg]) : leg \in Legs}

Row(answer, e) ==
  [rank |-> [leg \in Legs |->
               IF e \in RangeOf(answer[leg])
                 THEN Number(CHOOSE i \in DOMAIN answer[leg] : answer[leg][i] = e) ELSE Null],
   duration |-> Duration[e]]

\* A table has no null among numbers.
Stored(v) == IF v = Null THEN NaN ELSE v

Parquet(row) ==
  [rank |-> [leg \in Legs |-> Stored(row.rank[leg])], duration |-> Stored(row.duration)]

\* Faulty variant: the ranks are taken as they are read.
RankAsRead(v) == v

\* features_for: a rank that is not there is None again.
RankOf(v) == IF v = NaN THEN Null ELSE v

Loaded(row) == [row EXCEPT !.rank = [leg \in Legs |-> RankOf(row.rank[leg])]]

\* NaN is true where None is not: of a rank, whatever is true is divided by.
Reciprocal(v) == IF v = Null THEN Number(0) ELSE v

\* Every form of missing is one number.
NumberOf(v) == IF v \in {Null, NaN} THEN Number(0) ELSE v

Featurize(row) ==
  [reciprocal |-> [leg \in Legs |-> Reciprocal(row.rank[leg])],
   legs |-> {leg \in Legs : row.rank[leg] # Null},
   duration |-> NumberOf(row.duration)]

----------------------------------------------------------------------------
(***************************************************************************)
(* train.py.                                                               *)
(***************************************************************************)

\* Dealt round robin within each type, each type going on where the last
\* ended: a query's fold is its position among those usable.
AssignFolds(S) == [q \in S |-> Cardinality({p \in S : p < q}) % Folds]

Start ==
  /\ job = Idle /\ runs < MaxRuns /\ runs' = runs + 1
  /\ job' = IF cache # None
              THEN [at |-> "features", usable |-> usable]
              ELSE [at |-> "legs", usable |-> usable, todo |-> usable, rows |-> <<>>]
  /\ UNCHANGED <<artifact, whole, scored, world, kills>>

NextQuery == CHOOSE p \in job.todo : \A r \in job.todo : p <= r

\* One query's legs, in the order of the queries.
Retrieve ==
  /\ job.at = "legs" /\ job.todo # {}
  /\ job' = [at |-> "evidence", usable |-> job.usable, todo |-> job.todo,
             rows |-> job.rows, answer |-> Retrieved(NextQuery)]
  /\ UNCHANGED <<artifact, whole, scored, world, runs, kills>>

\* The evidence is another statement: an episode deleted meanwhile has none,
\* which ends the program.
Evidence ==
  /\ job.at = "evidence"
  /\ LET q == NextQuery
         found == [e \in Found(job.answer) |-> Row(job.answer, e)]
     IN  \/ Found(job.answer) \subseteq episodes
            /\ job' = [at |-> "legs", usable |-> job.usable, todo |-> job.todo \ {q},
                       rows |-> [p \in DOMAIN job.rows \cup {q} |->
                                   IF p = q THEN found ELSE job.rows[p]]]
         \/ ~Found(job.answer) \subseteq episodes /\ job' = Idle
  /\ UNCHANGED <<artifact, whole, scored, world, runs, kills>>

WriteCache ==
  /\ job.at = "legs" /\ job.todo = {}
  /\ cache' = [q \in {p \in DOMAIN job.rows : job.rows[p] # <<>>} |-> job.rows[q]]
  /\ job' = [at |-> "features", usable |-> job.usable]
  /\ UNCHANGED <<models, folds, report, meta, whole, scored, world, runs, kills>>

\* Faulty variant: a cached query that is no longer usable is in no fold.
AnyCached(features, dealt) == features # {}

\* Every cached query is looked up in the folds, which are dealt anew.
Dealt(features, dealt) == features # {} /\ features \subseteq DOMAIN dealt

Features ==
  /\ job.at = "features"
  /\ LET dealt == AssignFolds(job.usable)
     IN  \/ /\ Dealt(DOMAIN cache, dealt)
            /\ job' = [at |-> "fold", folds |-> dealt, k |-> 0]
         \/ ~Dealt(DOMAIN cache, dealt) /\ job' = Idle
  /\ UNCHANGED <<artifact, whole, scored, world, runs, kills>>

FoldOf(q) == IF q \in DOMAIN job.folds THEN job.folds[q] ELSE Folds
TrainedFor(k) == {q \in DOMAIN cache : FoldOf(q) # k}
Save(name, model) == [n \in DOMAIN models \cup {name} |-> IF n = name THEN model ELSE models[n]]

\* A fold without others to learn from ends the program.
TrainFold ==
  /\ job.at = "fold" /\ job.k < Folds
  /\ \/ TrainedFor(job.k) = {} /\ job' = Idle /\ UNCHANGED <<models, whole>>
     \/ /\ TrainedFor(job.k) # {}
        /\ models' = Save(<<"fold", job.k>>, TrainedFor(job.k))
        /\ job' = [job EXCEPT !.k = @ + 1]
        /\ whole' = FALSE
  /\ UNCHANGED <<cache, folds, report, meta, scored, world, runs, kills>>

TrainFinal ==
  /\ job.at = "fold" /\ job.k = Folds
  /\ models' = Save(<<"final">>, DOMAIN cache)
  /\ job' = [at |-> "folds.json", folds |-> job.folds]
  /\ UNCHANGED <<cache, folds, report, meta, whole, scored, world, runs, kills>>

FoldsToWrite == job.folds

WriteFolds ==
  /\ job.at = "folds.json"
  /\ folds' = FoldsToWrite
  /\ job' = [at |-> "report", folds |-> job.folds]
  /\ UNCHANGED <<cache, models, report, meta, whole, scored, world, runs, kills>>

\* metrics.json and per_query.jsonl: each query by the model of its fold.
WriteReport ==
  /\ job.at = "report"
  /\ report' = [q \in DOMAIN cache \cap DOMAIN job.folds |-> models[<<"fold", job.folds[q]>>]]
  /\ job' = [at |-> "ranker.json"]
  /\ UNCHANGED <<cache, models, folds, meta, whole, scored, world, runs, kills>>

WriteMeta ==
  /\ job.at = "ranker.json"
  /\ meta' = TRUE /\ whole' = TRUE /\ job' = Idle
  /\ UNCHANGED <<cache, models, folds, report, scored, world, runs, kills>>

Kill ==
  /\ job # Idle /\ kills < MaxKills /\ kills' = kills + 1
  /\ job' = Idle
  /\ UNCHANGED <<artifact, whole, scored, world, runs>>

\* The slow part is done once: its result stays until someone deletes it.
DeleteCache ==
  /\ job = Idle /\ cache # None /\ cache' = None
  /\ UNCHANGED <<models, folds, report, meta, job, whole, scored, world, runs, kills>>

Train ==
  \/ Start \/ Retrieve \/ Evidence \/ WriteCache \/ Features \/ TrainFold \/ TrainFinal
  \/ WriteFolds \/ WriteReport \/ WriteMeta \/ Kill \/ DeleteCache

----------------------------------------------------------------------------
(***************************************************************************)
(* system.py: the evaluation of the ranker on the relevance queries.       *)
(***************************************************************************)

ModelFor(q) == IF q \in DOMAIN folds THEN models[<<"fold", folds[q]>>] ELSE models[<<"final">>]

Loads ==
  /\ meta
  /\ <<"final">> \in DOMAIN models
  /\ \A q \in DOMAIN folds : <<"fold", folds[q]>> \in DOMAIN models

Evaluate ==
  /\ job = Idle /\ Loads
  /\ scored' = [q \in Queries |-> ModelFor(q)]
  /\ UNCHANGED <<artifact, job, whole, world, runs, kills>>

Next == Export \/ Delete \/ Train \/ Evaluate

Spec == Init /\ [][Next]_vars

----------------------------------------------------------------------------
\* The evaluation of an artifact whose last training ended scores every query
\* by a model that never saw it, and as that training reported, whatever the
\* cached candidates and the usable queries have become.
ScoredOutOfFold ==
  [][scored' # scored /\ whole =>
       \A q \in Queries :
         /\ q \notin scored'[q]
         /\ q \in DOMAIN report => scored'[q] = report[q]]_vars

\* A candidate has the same features read from the cached table, which trains
\* the ranker, as in the rows of a live query, which it orders: none is changed
\* by a number that is missing.
SameFeatures ==
  cache # None =>
    \A q \in DOMAIN cache : \A e \in DOMAIN cache[q] :
      Featurize(Loaded(Parquet(cache[q][e]))) = Featurize(cache[q][e])

\* What system.py says of every evaluation: each query is scored by the fold
\* model that never saw it.
OutOfFold == \A q \in DOMAIN scored : q \notin scored[q]

=============================================================================
