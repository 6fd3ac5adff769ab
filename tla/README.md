# PodFind in TLA+

TLA+ models of PodFind (podcast ingestion, search, and model training), the TLC
runs that check them on small instances, and TLAPS proofs of what matters most
for every instance. Everything is translated from the code, not from its
documentation; each definition's lines are in `PROJECT.json` under `map`.

    tlc -workers 2 -config MCJobQueue.cfg MCJobQueue     # a run
    tlapm JobQueueProofs.tla                             # the proofs of a module

## 1. The system

PodFind is a Go back end (API, catalogue worker) and Python model code around one
PostgreSQL database and an object store. Processes do not call each other except
API -> model server and API -> speech server (HTTP); everything else goes through
rows: jobs, outbox events, podcasts and episodes, embeddings, searches.

| Component | State it keeps | Operations | Interacts with | What is hard |
|---|---|---|---|---|
| Job queue and runner (`internal/jobs`) | `jobs` rows: status, attempts, run_at, lease | enqueue, claim (SKIP LOCKED), renew, complete, fail, reap; N goroutines per replica | runs every catalogue handler | leases that run out under live workers; statements by row id, not by claim |
| Feed refresh (`internal/catalog/worker.go`, `schedule.go`, `rss/fetch.go`) | validators and next_fetch_at of a podcast | schedule, conditional fetch, ingest transaction, record validators, park, defer | queue, ingestion, outbox | two transactions per refresh, no lock between two refreshes |
| Feed ingestion (`internal/catalog/ingest.go`) | `episodes` rows and their two partial unique keys | identity by GUID, enclosure, content; upsert; fallback | called in the refresh transaction; its changes become events | identities that come, go and move between items over many polls |
| Outbox (`internal/outbox`) | `outbox` rows: processed_at, attempts | append in a transaction, list a batch, handle, mark | producers' transactions, handlers | replicas without locks; ids out of commit order; head-of-line blocking |
| Catalogue jobs (rest of `worker.go`, `transcript`, `discovery`) | podcasts, transcripts, transcript objects | discovery and scheduler chains, transcript fetch, deletion | queue, object store | chains that re-enqueue themselves; two stores |
| Online search (`internal/search/retrieve.go`, `service.go`, `modelclient.go`) | a request's candidates; cached show counts; the bundle known at start | three legs in parallel, encode, evidence, rerank or fall back, answer | database, model server, session data | partial failure, goroutines, a model server that changes under it |
| Session data (`service.save`, `voice.go`, `events.go`, `privacy.go`) | searches, interaction_events, voice_recordings, objects | save, retain and undo, impressions, playback, export, delete | search, object store | two stores, contexts that end, deletions racing requests |
| Model training (`ml/training`) | memory of the process; weights.pt, artifact.json, training_state.pt | steps, accumulation, validation, selection, checkpoint, resume, interrupt | datasets; exports | three files in place; restarts at any point |
| Embedding indexes (`ml/embeddings`) | `episode_embeddings` by model and content hash | keyset batches of pending rows, upsert, index | episodes change meanwhile | staleness by hash |
| Serving bundles (`ml/serving`) | bundle directories, golden examples, parity report, ACTIVE and its log; objects and volumes | export, golden, parity, gate, promote; publish, fetch, serve | search (the model server) | programs that overlap over artifacts trained again in place; transfers cut off between two files |
| Datasets (`ml/datasets`, `ml/hard_negatives`) | query files, snapshots, latest, dataset directories and their copies in the bucket | capture, derive, write queries with a model, mine, build, split, validate, publish | training | resumption by what a file holds; one temporary directory; versions that are hashes of rows only |
| Relevance judgements (`ml/relevance`) | queries, pool, one file of judgements, qrels | build, pool, grade by a model and by people, export | ranker, evaluation | two judges that append to one file for hours |
| Ranker (`ml/ranking`) | cached candidates, fold models, folds, ranker.json | retrieve, featurize, train out of fold, evaluate | search's features | caches keyed by less than they depend on; None and NaN |
| Evaluation and registry (`ml/evaluation`, `ml/registry`) | summaries, the champion's alias | evaluate, compare, reproduce, gate | every system | a live catalogue read anew by each evaluation |
| Drift monitoring (`ml/monitoring`) | baseline.json, the server's feature counters | load, compare, report, notify | searches, model server | empty windows, zero rates, NaN |
| Speech test set (`ml/speech/testset.py`) | clips and a manifest | synthesize, degrade, write | speech evaluation (not modelled) | files passed over because they exist |

What makes each correct is what section 3 checks; `PROJECT.json` lists 40 hazards
at their lines, with the properties that would catch each or the reason why none
does. Hazards without a property that did not find room there: the display fields
of an answer are read after ranking (`service.go:219`); show counts are cached
before `rows.Err` is read (`retrieve.go:419`); `registerPodcast` names one of two
unique keys (`worker.go:284`); `main.go:137` does not wait for `Shutdown`;
an arrival during mining may be kept as a sibling's negative (`mine.py:114`).

## 2. Modules

| Module | Models | State and actions |
|---|---|---|
| `JobContract` | what the queue promises one job | state, owner, tries; `Create`, `Take`, `Report`, `Vanish`, `Recover`, `Void` |
| `JobQueue` | `jobs.go`, `runner.go` | every SQL statement is an action (`Enqueue`, `Claim`, `Renew`, `Complete`, `FailDead`, `FailRetry`, `Reap`); a goroutine is `phase/held/snap/outcome/renewIn`; times are kept as what is left of them; `Drop` is a crash or a lost statement |
| `FeedIngest` | `IngestFeed` and its three upserts over the table's two keys | one action per item of the feed (`IngestItem`), `Commit`, `Rollback`; `Publish` releases, edits and rehosts, with any enclosure |
| `FeedRefresh` | `handleFeedRefresh` from load to record, the scheduler, deletion | feeds are version numbers; one action per transaction or request; the queue is reduced to jobs that are ready, running or gone, retried up to `MaxAttempts` |
| `CatalogJobs` | `handleSchedule`, `handleDiscover`, `registerPodcast`, the two chains | jobs are keyed by type and bucket and kept when done; a handler's place, list and clock are fields of its job; `StartWorker` seeds both chains; the queue is reduced to claims, failures and completions |
| `TranscriptFetch` | `enqueueTranscripts`, `handleTranscriptFetch`, `handlePodcastDelete` | a file is its link and version; one action per request and transaction of each link's job; `Replace` is the publisher's |
| `OutboxContract` | what the outbox promises one event | state, counted failures, tried, handled, late; `Begin`, `Commit`, `Abandon`, `Try`, `CountFailure`, `Consume` |
| `OutboxDrain` | `Append`, `Worker.Run`, `Unprocessed`, the marks | rows become visible in any order (`End`); every worker has the rest of its batch and what it will write |
| `Search` | `Service.Search`, `Retriever.Retrieve`, `evidence`, `showCounts`, the answer | a request is a record; a leg's return, the encoding, each read and the reranking are actions; `Swap` and `RestartApi` are deployments |
| `SessionData` | `save`, `retain`, `RecordImpressions`, `DeleteSession` | tables and store as sets of query ids; one action per statement or call; `Leave` ends a context; `ListKeys` may break off and list less |
| `Training` | `train`, `save_artifact`, `TwoTowerModel.save`, `ExampleBatcher.batches` | weights and optimizer state are the lists of micro-batches behind them; one action per micro-batch, per validation pass, per file written; `Interrupt`, `Kill`, `Resume` |
| `EmbeddingIndex` | `embed.py`, `transcripts.py`, `two_tower_index.py` | a vector is what it was computed from; `ReadBatch`, `Upsert`, `UpsertFails`, `EnsureIndex`, `Finish` of each job; `Add`, `Edit`, `Transcribe`, `Delete` change the catalogue, `Train` the artifact |
| `Release` | `export.py`, `bundle.py`, `golden.py`, `parity.py`, `promote.py` | weights are version numbers, a golden example the versions it came from; every file read or written is an action; `Retrain` in place, `Kill` anywhere |
| `BundleStore` | `bundlestore.py`, `runtime.py` and the server's start | a bundle is the set of its files; upload and download file by file; `VerifyPartial`, `Remove`, `Rename`, `Load`; `Restart`, `Kill` |
| `TrainingExamples` | `llm_queries.py`, `name_queries.py`, `mine.py`, `build.py` up to validation | every reply, every mined query and every row is an action; a seeded draw is a choice |
| `DatasetStore` | `snapshot.py`, `build.py`'s splits, `publish.py`, the check in `train.py` | a table is the version read; one program at a time, an action per file written; `Kill` between two |
| `Judgements` | `queries.py`, `pool.py`, `llm_judge.py`, `review.py`, `export.py` | the file is, for each pair, the judges of its lines in their order; the export sorts and drops them (`Sorted`, `Effective`); judges overlap; `JudgeKilled` may tear the last line |
| `Ranker` | `candidates.py`, `features.py`, `train.py`, `system.py` | a model is the queries it was trained on; retrieval, evidence, cache, every fold and every file are actions |
| `Evaluation` | `harness.py`, `run.py`, `compare.py`, `reproduce.py`, `register.py` | one query scored at a time; qrels and catalogue change between the reads |
| `Metrics` | `metrics.py` | fractions; `Next` lifts a better episode over a worse one |
| `Drift` | `drift.py`, `server.observe_rerank` | a window is how many searches of each kind it holds; rates, percentiles and stability indexes are computed in integers; an action per step of `main` |
| `SpeechTestset` | `testset.py`, `synthesize.py`, the writes of `audio.py` and `degrade.py` | a file is its path and all it was made from; `Write`, `Derive`, `WriteManifest`; `Stop` within or between writes |
| `MC*` | | the small instances: the constants' values are in the `.cfg` or, where a `.cfg` cannot write them, in definitions of the module whose name starts with MC |
| `JobQueueProofs`, `OutboxProofs`, `SearchProofs`, `FeedRefreshProofs` | | proofs about the module of that name |
| `RecordsProofs`, `ModelsProofs`, `DataProofs`, `RelevanceProofs` | | proofs about the parts that `MCRecords`, `MCModels`, `MCData` and `MCRelevance` put together, for any values of their constants (section 5) |

`JobQueue` implements `JobContract` (`KeepsContract`: an INSTANCE with a
refinement mapping; a job that was ever renewed or recorded late maps to `void`,
about which the contract promises nothing). `OutboxDrain` implements `OutboxContract`
(`KeepsPromises`: the same rows and attempts without the replicas and their batches; an
event is late when a later one was listed or tried before its transaction committed,
and the order is promised among the others). The modules otherwise compose by
abstraction: `FeedRefresh` has of the queue what `JobQueue` shows of it (a job
ends, completed or dead, and may run twice), and of ingestion that a transaction
replaces the stored version; `SessionData` has of a search only that it is saved.

Definitions that start with "Faulty variant" are plausible wrong versions of the
definition after them. No specification uses them: each property of a passing run
fails when the one named in `PROJECT.json` under `mutants` takes the place of the
definition it varies.

## 3. Runs

| Run | Instance | Question |
|---|---|---|
| `jobs` | 2 jobs (3 and 1 attempts), 2 workers, lease 2, backoff 1 to 2 | attempt numbers are never shared; dead needs a cause; one owner as long as nobody is late; the contract; every job settles |
| `outbox` | 2 replicas, 3 events, batches of 2, 2 attempts, 1 fault | the contract: shown with the transaction, consumed once and for a cause; insertion order; the outbox drains |
| `search` | 1 request slot, 3 episodes, 3 legs, 2 bundles, 2 failures, 1 restart, 1 deletion | no leg outlives its request; results were found by legs that answered; "ranker" means scored by the recorded bundle; every request ends |
| `feed_refresh` | 2 workers, 2 jobs of one podcast, 3 versions of which one is broken, 2 faults, deletion | validators never ahead of the content; content and event commit together; the catalogue becomes fresh |
| `records` | ingestion: 2 episodes, 2 enclosures that both may have, 1 text, feeds of 2 items, polls over up to 2 rows; session data: 2 voice searches, 2 deletions, 2 faults (a listing that breaks off is one); transcripts: 2 links of two formats, 2 versions, 2 attempts, 2 faults; catalogue: 1 show, 2 jobs at a time, 3 scheduler periods, days of two, 2 starts, 1 fault | what only an episode with a steady GUID has been known by names one row; an item whose enclosure no other episode has had is stored and stays; no changed row goes unannounced, and none without cause unless items contend for it; a successful deletion removes all rows it did not race with, and their objects unless its listing broke off; a deletion that fails orphans nothing; a transcript's row was announced and its object is no older than its text; a chain of recurring jobs never ends unless one of its jobs is dead-lettered |
| `models` | training: 6 jobs of at most four steps, 3 starts, 2 kills, 1 interrupt; indexes: 2 jobs over 2 episodes in batches of 1; release: 2 golden queries, 1 retraining, 2 promotions, 1 kill; store: 2 files, 2 publishers, server and operator, 2 kills; drift: 5 kinds of search, windows of 3, 2 checks; metrics: every ranking and grading of 4 episodes | the undisturbed order of the data after a resumption; a kill costs at most `eval_every` steps; an unlimited index run misses nothing; what ACTIVE ever named was compared; a published bundle is served, whatever was killed; equal proportions are no drift, a fault of every search is one; a better order is never scored lower |
| `data` | examples: 4 episodes and an arrival, 3 shows of which two share a name, 1 kill; store: 2 boundaries, 2 changes, 5 programs, 1 kill; speech: 4 queries, 2 languages, 2 stops | built rows pass the validation however their writers were killed; no negative that training reads is the positive or of a show its query names, or of the topic's category; a snapshot's files are of one run; a dataset is trained with a snapshot that has its positives; a stopped build of the test set makes the same clips |
| `relevance` | judgements: 3 shows, a model and a person, 6 programs, no query written by hand; ranker: 4 queries, 2 folds, 2 trainings, 1 kill; evaluation: 2 systems, 3 queries, 2 changes | an export is never refused for a pair judged twice; a person's grade wins in whatever order the lines come, and stays; cached and live features agree; a finished artifact is evaluated out of fold; cohorts partition the catalogue |

The last four runs hold several components that share nothing at the level
they are modelled at: a variable `part` picks one in the initial state and the
others stand still (`MCRecords`, `MCModels`, `MCData`, `MCRelevance`). The sum of
the state spaces is checked, not their product, and nothing is claimed about an
interaction between the parts.

Bounds. Each is as small as still lets the interesting case happen: two workers on
one job with a third claim after the first became stale (3 attempts); a batch
shorter than the outbox, with an event without handler in it; a feed edited,
rehosted and polled three times or more (nothing bounds the number of polls: the
state space is finite; a poll finds up to two rows and may leave four; without that
bound the ingestion was explored once, 2.2 million states, no error); a broken
version between two good ones; candidates more than the answer holds, ranks that agree, disagree and tie; a fault during the
recovery from another; jobs whose epochs come out even and ones that leave a group
or a single example over; golden examples of an old and a new training; a killed
fetch whose partial directory the next one finds; an LLM reply that repeats and
omits; two rows that a boundary assigns differently; a drift check against a
baseline written by an earlier check, of a window of another size. Attempts,
times, versions and faults are the only counters, and each is capped by a named
constant. Drift's thresholds keep their ratios to the window rather than their
values (`MinSearches` is 2). Two request slots were also explored once for
`Search` with smaller bounds (8 million states, no error).

Fairness. `JobQueue!FairSpec`: runner loops run (`Poll`, `Return`, `Record`,
`Renew`) and time passes; none of enqueues, crashes, lost statements. Handlers
return because their calls have timeouts. `FeedRefresh!FairSpec`: windows pass,
the scheduler runs, workers claim and continue; not the publisher, not failures.
`OutboxDrain!FairSpec`: a worker that has something to list, decide or mark does so
(`Worker.Run` is a loop). `Search!FairSpec`: an open request continues: every leg
and call has a timeout (`retrieve.go`, `modelclient.go`). `MCModels!Spec`, for
`PublishedIsServed`: a fetch that runs goes on, and the platform restarts a server
that ended (the container's restart policy); nobody has to publish or to kill.

Some modules state properties that no run checks any more, to keep their number
readable; on the same instances they held: `Training!FinalIsBest`, `EmbeddingIndex!SettledIsCurrent` and `EveryRunEnds`, and
`Release!PromotedOnItsGolden`, `Search!BestServed` and `OutboxDrain!ConsumedForCause`,
which are proved.

### Where the code and its text disagree

Each is a run that expects TLC's counterexample, with one property that states
what a comment, test or document says:

- `regrade`: a review leaves out every pair any judge has graded, the model
  included, so that a person cannot correct a model's grade as
  `data/relevance/README.md` promises, unless the review was already running.
- `published_is_built`: the version of a dataset does not cover the boundaries of
  its splits; a rebuild with other boundaries is "already published" while the
  bucket keeps the old splits.
- `drift_told`: when no search of the window had a result, the check raises while
  it formats a message, before it tells of anything, and exits 1.
- `repoll`: two items of one feed with different GUIDs and one enclosure are no
  repeats to `IngestFeed` (`ingest.go:121` compares enclosures only where the GUID
  is empty), and the fallback (`:237`) stores the second over the first. Polled
  again without any edit, the feed changes the row twice, with an event and
  transcript jobs each time, and so at every poll; `ingest.go:106` says that
  unchanged episodes are left untouched.

Further disagreements, not among the runs. The first fourteen have their property in
the module; to see one, instantiate the module as its MC module does and name the
property in a .cfg:

- `FeedIngest!GuidsAreAdopted`: an item that gains a GUID and nothing else keeps
  `rss_guid` NULL, because the upsert fires on the content hash only;
  `ingest_test.go:135` says the GUID adopts the row.
- `FeedIngest!FeedsAreAccepted`: with the rows (g1, u1) and (g2, u2), an item (g1, u2)
  - a publisher swapped two enclosures, or lists one twice - is refused by the
  enclosure index under its GUID, and by the GUID index when the fallback trusts
  the enclosure instead (`ingest.go:217`). The error ends the transaction: nothing
  of the feed is stored, at this and every later poll, until the item goes.
- `SessionData!FailuresLeaveRows`: `DeleteSession` never reads `rows.Err()`
  (`privacy.go:127`). A stream of keys that breaks off is a short list: the rows are
  deleted, success is reported, and the objects left out stay without a row, against
  `privacy.go:106` ("a failure there leaves the rows (and a retry) rather than an
  orphaned recording").
- `Drift!NaNIsFound`: the count of a feature is that of its finite values
  (`server.py:155`), and a feature without any is passed over before its NaN count is
  looked at (`drift.py:296`): the worst case is the one that is not reported, while
  `docs/16-monitoring.md:86` names "each feature's serving mean against its baseline
  mean [...] and any NaN".
- `FeedRefresh!NotModifiedMeansStored`: two refreshes of one podcast leave the
  validators of a newer version over the items of an older (`worker.go:150`); the
  feed then answers 304 although the catalogue does not have it.
- `SessionData!RecordingsAreReferenced`: a client that leaves between the put of its
  recording and the insert of its row leaves the object without one: the undo
  (`voice.go:114`) runs under the same cancelled context.
- `Search!VersionsAreTrue`: a query encoded by a restarted model server's new bundle
  is searched in the old bundle's indexes and recorded under the old bundle
  (`retrieve.go:253`); only the reranker's bundle is compared.
- `Training!ResumeContinues`: after an interrupt, the best weights are saved beside
  the optimizer state and step count of the last step (`train.py:511`), and
  `--resume` continues from the two together.
- `EmbeddingIndex!OwnIndex`: an index is keyed by the artifact's directory, which a
  second training of the same config writes over; its vectors are then taken for
  current (`two_tower_index.py:77`, against `:9`).
- `DatasetStore!SplitsAreDisjoint`: a rebuild with other boundaries that is killed
  between two files leaves overlapping splits under the old manifest
  (`build.py:461`, against `:17`).
- `Ranker!OutOfFold`: a training over other queries that is killed before it writes
  its folds leaves new fold models under old folds (`ranking/train.py:208`,
  against `system.py:7`).
- `Evaluation!SharedPool`: a comparison reads judgements and catalogue anew for each
  system (`run.py:97`), although `register.py:7` says both share them.
- `CatalogJobs!ChainHealed`: a discovery that was dead-lettered is not healed by a
  restart on the same day (`worker.go:250` says that every startup heals the chain):
  the day's key is taken by the dead row, and only a start on a later day is heard.
- `TranscriptFetch!RawIsRetained`: two links of one format share an object key, and
  the last put need not be the last commit, so that the file "retained in object
  storage" (`0002_catalog.sql:64`) is not the one the text came from. `RowIsBacked`
  speaks of formats with one link.
- A worker whose lease was reaped can put a row another worker dead-lettered back to
  pending (`Fail` updates by id), while `jobs_test.go:151` takes dead rows for
  final; `BoundedAttempts` (proved) and `EveryJobSettles` show what still holds.
- `steps_per_epoch` rounds up and the loop rounds down: with a group left over, a
  resumed run is off by a group per epoch (`EvenEpochs` is the condition of
  `SameDataOrder`). A run capped by `max_steps` trains one step more each time it
  is resumed after its end. A resumed run forgets the best score.
- A killed judge leaves half a line that every later run refuses (`torn` in
  `Judgements`); no program repairs it.
- Items of one feed that share an enclosure end in one row, if the feed is not
  refused: all but one of them are lost, GUIDs or not.
- Of a deletion and a request that overlap, the request may leave a recording's
  object without its row (listed before, inserted after, deleted with the session's
  rows) or events of a search that is gone (`events.go:71`): `raced` in `SessionData`.
- A cached candidate whose query is no longer usable ends every training until the
  cache is deleted (`ranking/train.py:204`); `Ranker` has the action, and no property.
- The four negatives that are drawn in addition make up for filtered ones only where
  the named shows are a small share of the catalogue (`build.py:346` says that
  filtering never leaves an example short).

## 4. What the conditions in the properties mean

`ValidatorNeverAhead` and `EventuallyFresh` hold while no two refreshes of the
podcast overlapped, which `NotModifiedMeansStored` shows to be needed.
`OneRowPerEpisode` speaks of episodes that carried their GUID from the start, and of
rows with an enclosure only if it was never another episode's; `EveryItemStored` of
items whose enclosure never was, since of items that share one a single one is kept;
the second half of `ChangesAreExact` of rows for which no two items of the feed
contend (`Contested`). The changed rows are announced whatever items share.
`ExclusiveWhenPunctual` and `KeepsContract` speak of
jobs nobody was late for. `DeletedMeansGone` leaves out requests that a deletion
raced with, and the objects of recordings whose own retention failed or which the
listing left out; `DeletionOrphansNothing` leaves out the same objects. `SameDataOrder` speaks of
checkpoints whose weights and optimizer state come from the same counted steps.
`RunsMissNothing` speaks of runs without a limit that no other run of the model
overlapped. `NegativesAreForeign` speaks of episodes of the snapshot: training
drops others. `ScoredOutOfFold` speaks of artifacts whose last training ended.
`SameSet` leaves out sets with a clip that a stop cut within its write: it still
decodes, and a test of existence passes it over. `SteadyIsSilent` leaves out
windows with a fault, and a latency finding when the two windows differ in size: one
slow search of 15 and 100 of 1500 are the same proportion, but the 95th percentile is
a slow search in the second only. `FaultIsFound` leaves out windows below the least
number of searches.
In each case the condition is a state the runs reach in both ways.

## 5. Proofs

Every safety property, action property and refinement of the passing runs has a
theorem, which holds for arbitrary constants under the assumptions below. Each
follows from an inductive invariant: the checked property is seldom inductive, and
what had to be added to it says why the code works.

### The invariants

`JobQueueProofs` (`TypeCorrect`, `LeaseMarksRunning`, `DistinctAttempts`,
`BoundedAttempts`, `PunctualExclusion`, `DeadNeedsCause`, `ContractKept`). Added: absent
rows are fresh, how a worker's phase goes with what it holds, a punctual job's lease
still covers its holder's next renewal (`Punctual`), and for the attempts a budget
(`Budget`): a claim beyond `max_attempts` must be paid for by a worker still holding a
retryable attempt, of which, their numbers being distinct and below `max_attempts`,
there are at most `max_attempts - 1`. `AttemptsBounded` alone is not inductive: it does
not say how many stale failures are still to come. The refinement of `JobContract`
needs in addition that a pending job nobody was late for has attempts left
(`PendingHasTries`) and that the one holder of a punctual job is its owner
(`OwnerIsHolder`); each action of the queue then has a step that names the action of
the contract it is, or that it leaves the contract's state alone.

`OutboxProofs` (`AtLeastOnce`, `TriedInOrder`, `PromisesKept`). Added: a worker's copy of a row never has
more attempts than the row (`CopiesLag`), what it is about to write has its cause
(`VerdictHasCause`), and a batch leaves out no event in time before one of its own that
was not tried (`BatchesAreGapless`), which rests on a lemma about ORDER BY ... LIMIT: the
first n pending events are closed downwards. The refinement of `OutboxContract` needs
in addition that what is in a batch or was tried is committed (`ListedAreShown`). Listing,
skipping, a failed update and a crash are stuttering steps of the contract; so is a
mark by a replica that comes second.

`SearchProofs` (`NoLateLegs`, `RankedAnswers`, `CleanAnswers`, `BestAnswers`). The first two
need the fields of a request, that it has no candidates before its evidence, and that
from the reranking to the answer the scores are of the bundle the API knows
(`RankedByInfo`): a restarted API has no open requests. The other two have a second
invariant (`Provenance`): a leg that has not answered, or has failed, has found nothing
(`Sourced`); a candidate has the rank of a leg behind it and what is ordered has its
scores (`Kept`); an answer is the best of the candidates in order (`BestIsServed`). That
there is a best of each length is a lemma by counting the candidates ahead of one.

`FeedRefreshProofs` (`EventsMatchContent`, `ValidatorsLag`). Added: who has ingested holds
the row's lock and its event is that of its own change (`Announcing`); nothing stored or
fetched is newer than the feed (`NothingAhead`); and, while no two refreshes
overlapped, there is one refresher, which knows the row's validators and fetches
nothing older than what is stored (`KnowsTheRow`). The last is what a second, overlapping
refresh breaks (`NotModifiedMeansStored`).

`RecordsProofs`, ingestion (`OneRow`, `ItemsStored`, `ExactChanges`). Added: each row and
each item belongs to some episode that had its GUID or enclosure (`Owned`), both unique indexes hold of the stored and of the uncommitted table
(`Unique`), the feed is of current items, what the loop has seen it has passed
(`SeenIsPassed`), and a passed item is in a row that names its episode (`ItemsKept`). A
step takes one of the code's statements - update by GUID, by enclosure, by content,
insert, fall back - and each is a lemma of its own.
Session data (`SessionTyped`, `DeletionIsFinal`, `NoOrphans`): what ran beside a deletion is
known to have (`InFlightRaced`), the objects it read from the rows cover those it must
remove, unless they are known to be missed (`KeysCover`), its open transaction covers the rows (`DoomedCover`), recordings go
with their searches (`Cascades`), and what was erased is over for good (`ErasedIsOver`).
Transcripts (`BackedRow`): where a format has one link, the object is the file of the
handler between its put and its commit (`PutIsThere`) and never newer than what the
handler fetched (`FetchedIsNewest`).
Chains (`ChainsGoOn`): a recurring job runs in its period or later, its successor is of a
later period and is there before it is done (`TableOK`), so that the latest row of a type
is never a finished one.

`ModelsProofs`, release (`ActiveWasChecked`, `ActiveOnItsGolden`): a golden file that is being
written has been opened (`GoldenIsOpen`), parity has read what is beside the bundle or
overlapped its writing (`ParityReads`), a report that passed says so truly
(`ReportsAreSound`), and a promotion was gated, with ACTIVE.tmp its own by the time it
is renamed, whatever a killed one left there (`PromoterIsGated`).
Training (`KillsLoseLittle`, `DataKeepsItsOrder`): in the loop the distance to the file is at most
`step % eval_every` (`PassesAreSaved`); where epochs come out even, the step count determines
the micro-batches behind it (`StepsAreTrained`), of the process and of the file, and the
chunk the loop is at (`AtItsChunk`), which is where the nonlinear arithmetic of
`FirstChunk` enters.
Indexes (`RunsAreComplete`): what a run owes and has passed is in the rows it holds or up to
date, as long as no other run of its model goes beside it (`Working`); the page of a keyset
query leaves nothing behind below its last id.
Drift (`SteadyIsNoDrift`, `FaultsAreFound`): the invariant is that what can be read of a
baseline is the summary of some window and that the findings are those of this
summary with the current one (`DriftInv`); the rest is about `Compare`. Where every
search has the fault its rate is 100, above every limit; windows in equal proportions
have equal rates, shares and means, by multiplying out each quotient, and those of one
size the same percentile.
Metrics (`BetterScoresNoLower`): a step of `Next` swaps two neighbours. Below the first and from
the second on, the prefixes have the same relevant episodes (by an injection, their
cardinalities agree), so recall and precision can differ at one position only, where
they rise; a reciprocal rank is that of the earliest relevant one; discounted gains
differ by (2^a - 2^b)(w - v), where 2^m is the number of subsets of m elements and
weights fall; average precision differs by the two terms of the swap; of the
pairwise order, one pair changes.

Both rest on sums over finite sets, which the library folds by a recursive function on the
subsets. That there is such a function (`SumsExist`), and so that a sum is one element
and the sum of the rest (`SumUnfolds`), and whatever else is claimed for every finite set
(sums are numbers, are scaled with their summands, fall into two parts, change by what
one element changes), is proved by a minimal counterexample: the strict subsets of a
finite set are well-founded (`SubsetInduction`), which speaks of a set of sets and needs
no theorem with an operator parameter.

`DataProofs`, datasets (`SnapshotsAreOwn`, `TrainingIsReadable`): by the time the directory is
renamed every file in it is of the running program (`TempIsOwn`), a derived snapshot has
the rows of the one it is derived from (`SnapshotsAreWhole`), and a dataset's version is
that of the snapshot its manifest names (`DatasetsAreNamed`).
Examples (`NothingIsRefused`, `NegativesStayForeign`): what is left to a run has no row yet, and the
shows left have no name query (`RowsAreUnique`); a row's negatives are drawn after its
exclusions are known (`BuildIsGrounded`, `QueryRows`).
Speech (`ClipsAreReproduced`): each stage begins with the one before it complete and readable
where it will be read (`StagesAreOrdered`), so that, unless a part that decodes was left,
every file is empty or as one undisturbed build makes it (`FilesAreWhole`).

`RelevanceProofs` (`ExportsGoOn`, `PersonsWin`, `FeaturesAgree`, `OutOfFoldScores`, `EachInOneCohort`). Added: what is
left to a running judge it has not written about, and what was exported is the grade of
a line (`JudgedOnce`): a sorted order ends with a person wherever a person has a line
(`PeopleComeLast`), and lines are only ever added (`LinesStay`); in every
table of candidates, cached or not, a leg that did not find an episode says nothing and
none says what is no number (`LiveRows`); while a training writes, what it has written
is its own, and the artifact does not count as whole (`FoldsKept`); cohorts are those of the
episodes the evaluation knows (`CohortsOfKnown`).

The four modules over `MC...` speak of a composition whose parts stand still but for
one, as in the runs. Each begins with a lemma per part that a behaviour of the
composition is a behaviour of the part (`...Behaviour`); everything after it is about
the part's own specification, which does not know of the others. Initial states in which
an idle part makes a fixed choice are a subset of its own.

### What is assumed

Only the named assumptions, which TLC evaluates on every run. Most are types: bounds
are natural numbers, limits that must be positive are. The others are:

| Assumption | Why the code justifies it |
|---|---|
| `JobQueue`: a lease of at least 2 ticks, finitely many workers | the runner renews after half the lease (`runner.go:97`), which must be a tick at least; replicas are a number |
| `OutboxDrain`, `Search`, `EmbeddingIndex`, `Ranker`: ids are numbers, workers or rows finite | identity columns, integer ids, and tables and files have an end |
| `Search`: a leg's ranking has no repetition and at most `Depth` entries; `Scale` is divisible by `60 + k` | the legs' queries end in LIMIT; fractions 1/(60+k) are multiplied out |
| `FeedIngest`: GUIDs name one episode each | what a GUID is for; an item may come without it, and an episode may get it late. Enclosures may be shared |
| `BundleStore`: the manifest is not one of the other files, the server not an operator | names |
| `Drift`: rates below 100, kinds and bins finite, latencies numbers, features integers or None, logarithms integers | percentages; the table of logarithms is a constant |
| `Metrics`: episodes are finitely many numbers; gains' weights fall with the position; `Scale` is divisible by every position | 1/log2(i + 1) falls; fractions are multiplied out |
| `CatalogJobs`, `DatasetStore`, `Training`, `TranscriptFetch`, `Judgements`: a marker such as `None` is none of the values it stands beside | markers of the model |

### What is only model-checked

- Liveness (`EveryJobSettles`, `EveryEventSettles`, `EverySearchEnds`, `EventuallyFresh`, `PublishedIsServed`):
  fairness and ENABLED are out of the prover's reach.
- That a property of the four violation runs fails is TLC's counterexample; nothing is
  proved about it.

`AttemptsBounded`, `LeaseIffRunning`, `ConsumedForCause`, `BestServed`, `PromotedOnItsGolden`, `SessionData!TypeOK` and the
type invariants of the other modules with a proof are proved rather than checked in a run.
The assumptions on the constants of the modules a merged run instantiates are plain
definitions, which the MC module assumes of its instance.

## 6. Not modelled, and what is left

`PROJECT.json` lists every component with its status. Left out for good: text rules
(query understanding, explanations, suggestions, feed parsing), numeric code
(featurization, losses, gradients, audio), rendering, wiring, observability, and
the reports over finished evaluations (significance, word error rates), which are
pure functions of files.

Left, in this order:

1. `CatalogJobs` composed with `FeedRefresh` and `JobQueue`: what is due is any
   podcast in it, a refresh is only enqueued, and a late worker is left to the queue.
2. `Release` and `BundleStore` composed with `Search`'s `Swap`: an answer's bundle is
   one that was promoted.
3. Diversification of similar episodes, edit distance, the migrations' loop.

Proofs to come: the compositions of 1 and 2, each as a refinement of its parts' own
specifications; an abstract specification of a refresh (the stored version moves
forward, its event with it); `Training!FinalIsBest`.
