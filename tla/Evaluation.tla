----------------------------- MODULE Evaluation -----------------------------
(***************************************************************************)
(* The offline comparison of retrieval systems: ml/evaluation/compare.py   *)
(* and reproduce.py evaluate several configs one after the other, run.py   *)
(* reads what one evaluation needs, harness.py scores a system query by    *)
(* query, and ml/registry/register.py puts a candidate to its gates.       *)
(*                                                                         *)
(* Judgements are exported and the catalogue changes meanwhile: each       *)
(* evaluation reads the files anew and asks the live database.  A system   *)
(* answers with the first it prefers of what there is.  A metric is a      *)
(* fraction; recall at K stands for all of them (Metrics has the others).  *)
(* Latencies, coverage and MLflow's bookkeeping are left out.              *)
(***************************************************************************)
EXTENDS Naturals, Sequences, FiniteSets

LOCAL INSTANCE FiniteSetsExt

CONSTANTS
  None,
  Systems,      \* a sequence: the systems of the configs, in their order
  Candidate, Baseline,
  Queries,
  TypeOf,       \* query -> its type
  Prefers,      \* system -> query -> the episodes it finds, best first
  K,            \* how many it is asked for
  ShowOf,       \* episode -> its show
  Pools,        \* the qrels in the order they are exported: query -> episode -> grade
  MinGrade,
  Positives,    \* the training positives of the dataset
  Snapshot,     \* the episodes of its snapshot
  Scale,        \* divisible by the numbers of relevant episodes
  Tolerance,    \* of the cohort gates, in hundredths
  MaxChanges,   \* bound on the changes of the catalogue
  MaxRuns       \* bound on the comparisons

VARIABLES
  pool,       \* which of Pools lies in qrels.txt
  catalog,    \* the episodes in the database
  job,        \* the program at work
  summaries,  \* the last comparison's JSON
  champion,   \* the summaries the registered champion passed its gates with
  expected,   \* reproduce-expected.json
  outcome,    \* what the last reproduction came to
  changes,
  runs

vars == <<pool, catalog, job, summaries, champion, expected, outcome, changes, runs>>
files == <<summaries, champion, expected, outcome>>

Episodes == DOMAIN ShowOf
Idle == [at |-> "idle"]

Init ==
  /\ pool = 1 /\ catalog = Snapshot /\ job = Idle
  /\ summaries = <<>> /\ champion = None /\ expected = None /\ outcome = None
  /\ changes = 0 /\ runs = 0

Export ==
  /\ pool < Len(Pools) /\ pool' = pool + 1
  /\ UNCHANGED <<catalog, job, files, changes, runs>>

Change ==
  /\ changes < MaxChanges /\ changes' = changes + 1
  /\ \/ \E e \in Episodes \ catalog : catalog' = catalog \cup {e}
     \/ \E e \in catalog : catalog' = catalog \ {e}
  /\ UNCHANGED <<pool, job, files, runs>>

----------------------------------------------------------------------------
(***************************************************************************)
(* harness.py.                                                             *)
(***************************************************************************)

Search(system, q) ==
  LET there == SelectSeq(Prefers[system][q], LAMBDA e : e \in catalog)
  IN  SubSeq(there, 1, IF Len(there) < K THEN Len(there) ELSE K)

Relevant(qrels, q) ==
  IF q \in DOMAIN qrels THEN {e \in DOMAIN qrels[q] : qrels[q][e] >= MinGrade} ELSE {}

\* Faulty variant: an episode of a show without positives is one of an unseen
\* show, whatever else is known of it.
CohortsBySnapshot(known) ==
  [seen |-> Positives,
   known_podcast |-> {e \in known : e \in Snapshot /\ e \notin Positives},
   unseen_podcast |-> {e \in known : ShowOf[e] \notin {ShowOf[p] : p \in Positives \cap known}},
   post_snapshot |-> known \ Snapshot]

\* By how much training evidence each known episode had.
ColdStartCohorts(known) ==
  LET shows == {ShowOf[p] : p \in Positives \cap known}
  IN  [seen |-> Positives,
       known_podcast |-> {e \in known : ShowOf[e] \in shows /\ e \notin Positives},
       unseen_podcast |-> {e \in known : ShowOf[e] \notin shows},
       post_snapshot |-> known \ Snapshot]

\* The kinds of relevant episodes whose recall is reported each for itself.
Partitions(relevant, cohorts, known, head) ==
  LET inHead == {e \in relevant : e \in known /\ ShowOf[e] \in head}
  IN  [c \in DOMAIN cohorts \cup {"head", "tail"} |->
         CASE c = "head" -> inHead
           [] c = "tail" -> relevant \ inHead
           [] OTHER -> relevant \cap cohorts[c]]

Skipped(relevant, found) == relevant = {}

RangeOf(seq) == {seq[i] : i \in DOMAIN seq}

\* One query's row, or none.
Row(q, found) ==
  LET relevant == Relevant(job.qrels, q)
      parts == Partitions(relevant, job.cohorts, job.known, job.head)
  IN  [found |-> Cardinality(RangeOf(found) \cap relevant),
       relevant |-> Cardinality(relevant),
       kinds |-> [c \in {d \in DOMAIN parts : parts[d] # {}} |->
                    <<Cardinality(RangeOf(found) \cap parts[c]), Cardinality(parts[c])>>]]

ScoreQuery ==
  /\ job.at = "queries" /\ job.todo # {}
  /\ LET q == CHOOSE p \in job.todo : \A r \in job.todo : p <= r
         found == Search(Systems[job.n], q)
         rest == [job EXCEPT !.todo = @ \ {q}]
     IN  \/ Skipped(Relevant(job.qrels, q), found) /\ job' = rest
         \/ /\ ~Skipped(Relevant(job.qrels, q), found)
            /\ job' = [rest EXCEPT !.rows =
                         [p \in DOMAIN @ \cup {q} |-> IF p = q THEN Row(q, found) ELSE @[p]]]
  /\ UNCHANGED <<pool, catalog, files, changes, runs>>

----------------------------------------------------------------------------
(***************************************************************************)
(* run.py, compare.py and reproduce.py.                                    *)
(***************************************************************************)

Begin(program, n, done) == [at |-> "qrels", program |-> program, n |-> n, done |-> done]

Start ==
  /\ job = Idle /\ runs < MaxRuns /\ runs' = runs + 1
  /\ \E program \in {"compare", "reproduce", "record"} : job' = Begin(program, 1, <<>>)
  /\ UNCHANGED <<pool, catalog, files, changes>>

ReadQrels ==
  /\ job.at = "qrels"
  /\ job' = [at |-> "counts", program |-> job.program, n |-> job.n, done |-> job.done,
             pool |-> pool, qrels |-> Pools[pool]]
  /\ UNCHANGED <<pool, catalog, files, changes, runs>>

\* The show with the most episodes, the first of such.
HeadShows ==
  LET count(s) == Cardinality({e \in catalog : ShowOf[e] = s})
      shows == {ShowOf[e] : e \in catalog}
  IN  {s \in shows : \A t \in shows : t = s \/ count(s) > count(t) \/ (count(s) = count(t) /\ s < t)}

\* catalog_stats: the counts and the episodes are two statements.
ReadCounts ==
  /\ job.at = "counts"
  /\ job' = [at |-> "episodes", program |-> job.program, n |-> job.n, done |-> job.done,
             pool |-> job.pool, qrels |-> job.qrels, head |-> HeadShows]
  /\ UNCHANGED <<pool, catalog, files, changes, runs>>

ReadEpisodes ==
  /\ job.at = "episodes"
  /\ job' = [at |-> "queries", program |-> job.program, n |-> job.n, done |-> job.done,
             pool |-> job.pool, qrels |-> job.qrels, head |-> job.head,
             known |-> catalog, cohorts |-> ColdStartCohorts(catalog),
             todo |-> Queries, rows |-> <<>>]
  /\ UNCHANGED <<pool, catalog, files, changes, runs>>

Summary == [system |-> Systems[job.n], pool |-> job.pool, catalog |-> job.known, rows |-> job.rows]

\* The mean recall of some queries; <<0, 0>> where none was scored.
Recall(part) == (Scale * part[1]) \div part[2]
Mean(part) ==
  <<MapThenSumSet(LAMBDA q : Recall(part[q]), DOMAIN part), Scale * Cardinality(DOMAIN part)>>

OfType(summary, t) == {q \in DOMAIN summary.rows : TypeOf[q] = t}
TypesOf(summary) == {TypeOf[q] : q \in DOMAIN summary.rows}
OfKind(summary, c) == {q \in DOMAIN summary.rows : c \in DOMAIN summary.rows[q].kinds}
KindsOf(summary) == UNION {DOMAIN summary.rows[q].kinds : q \in DOMAIN summary.rows}

Overall(summary, S) ==
  Mean([q \in S |-> <<summary.rows[q].found, summary.rows[q].relevant>>])

\* A missing number fails.
NotBelow(c, b, tolerance) ==
  c[2] > 0 /\ b[2] > 0 /\ 100 * c[1] * b[2] + tolerance * c[2] * b[2] >= 100 * b[1] * c[2]

\* Each number lies within the tolerance of the one recorded.
AsExpected(all) ==
  /\ expected # None
  /\ \A i \in DOMAIN all :
       LET now == Overall(all[i], DOMAIN all[i].rows)
           then == Overall(expected[i], DOMAIN expected[i].rows)
       IN  NotBelow(now, then, 1) /\ NotBelow(then, now, 1)

\* The next config, or the end.
EndSystem ==
  /\ job.at = "queries" /\ job.todo = {}
  /\ LET all == Append(job.done, Summary)
     IN  \/ /\ job.n < Len(Systems)
            /\ job' = Begin(job.program, job.n + 1, all)
            /\ UNCHANGED files
         \/ /\ job.n = Len(Systems) /\ job' = Idle
            /\ summaries' = IF job.program = "compare" THEN all ELSE summaries
            /\ expected' = IF job.program = "record" THEN all ELSE expected
            /\ outcome' = IF job.program # "reproduce" THEN outcome
                          ELSE IF AsExpected(all) THEN "reproduced" ELSE "mismatch"
            /\ UNCHANGED champion
  /\ UNCHANGED <<pool, catalog, changes, runs>>

\* Interrupted, or a system fails: nothing is written.
Stop ==
  /\ job # Idle /\ job' = Idle
  /\ UNCHANGED <<pool, catalog, files, changes, runs>>

----------------------------------------------------------------------------
(***************************************************************************)
(* register.py.                                                            *)
(***************************************************************************)

\* The primary metric, each type of query, and each kind the baseline has.
Gates(c, b) ==
  /\ NotBelow(Overall(c, DOMAIN c.rows), Overall(b, DOMAIN b.rows), 0)
  /\ \A t \in TypesOf(c) \cup TypesOf(b) :
       NotBelow(Overall(c, OfType(c, t)), Overall(b, OfType(b, t)), Tolerance)
  /\ \A k \in KindsOf(b) :
       NotBelow(Mean([q \in OfKind(c, k) |-> c.rows[q].kinds[k]]),
                Mean([q \in OfKind(b, k) |-> b.rows[q].kinds[k]]), Tolerance)

SummaryOf(system) == summaries[CHOOSE i \in DOMAIN summaries : summaries[i].system = system]

Register ==
  /\ job = Idle /\ summaries # <<>>
  /\ champion' = IF Gates(SummaryOf(Candidate), SummaryOf(Baseline))
                   THEN <<SummaryOf(Candidate), SummaryOf(Baseline)>> ELSE champion
  /\ UNCHANGED <<pool, catalog, job, summaries, expected, outcome, changes, runs>>

Next ==
  \/ Export \/ Change
  \/ Start \/ ReadQrels \/ ReadCounts \/ ReadEpisodes \/ ScoreQuery \/ EndSystem \/ Stop
  \/ Register

Spec == Init /\ [][Next]_vars

----------------------------------------------------------------------------
\* Every known episode is in exactly one of the cohorts of training evidence,
\* though positives have been deleted and episodes have arrived since.
CohortsPartition ==
  job.at = "queries" =>
    LET c == job.cohorts
    IN  /\ job.known \subseteq c.seen \cup c.known_podcast \cup c.unseen_podcast
        /\ c.seen \cap c.known_podcast = {} /\ c.seen \cap c.unseen_podcast = {}
        /\ c.known_podcast \cap c.unseen_podcast = {}

\* What register.py says of the gates: both systems share a judgement pool and
\* a catalogue.
SharedPool ==
  champion # None => champion[1].pool = champion[2].pool /\ champion[1].catalog = champion[2].catalog

=============================================================================
