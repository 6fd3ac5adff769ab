---------------------------- MODULE FeedRefresh -----------------------------
(***************************************************************************)
(* The refresh of one feed (Worker.handleFeedRefresh, internal/catalog/    *)
(* worker.go): read the row's validators, fetch conditionally, ingest in a *)
(* transaction, record the new validators, by runner goroutines that take  *)
(* refresh jobs of the same podcast from the queue, while the publisher    *)
(* publishes, the feed's host fails and the podcast may be deleted.        *)
(*                                                                         *)
(* A feed is a version number; its ETag (or Last-Modified) names the       *)
(* version.  content is the version whose items the episodes table holds   *)
(* (what ingestion does with the items is FeedIngest).  Time is counted in *)
(* poll windows of MinFetchInterval.                                       *)
(***************************************************************************)
EXTENDS Integers, FiniteSets

CONSTANTS
    Workers,
    Jobs,         \* refresh jobs of this podcast that may exist at a time
    MaxVersion,   \* bound: versions the publisher publishes
    Broken,       \* versions that do not parse
    MaxAttempts,  \* of a job
    Intervals,    \* what NextFetchInterval may return
    MaxInterval,  \* MaxFetchInterval
    MaxFaults,    \* bound: failed requests, statements and crashes
    Deletable,    \* whether somebody deletes the podcast
    NoJob, Nobody

ASSUME FeedRefreshAssumption ==
    /\ MaxVersion \in Nat /\ MaxFaults \in Nat
    /\ MaxAttempts \in Nat \ {0} /\ MaxInterval \in Nat \ {0}
    /\ Broken \subseteq 1 .. MaxVersion
    /\ Intervals \subseteq 1 .. MaxInterval
    /\ Deletable \in BOOLEAN
    /\ NoJob \notin Jobs /\ Nobody \notin Workers

VARIABLES
    origin,     \* the version the publisher serves
    exists,     \* the podcast's row: is there one,
    etag,       \* its validators (0 when empty),
    nextFetch,  \* next_fetch_at - now(), 0 when due or NULL,
    lock,       \* and the transaction that holds its lock
    content,    \* episodes: the version committed
    announced,  \* outbox: the version of the last content-change event
    txEvent,    \* the event appended by the open transaction, 0 when none
    keyed,      \* this window's refresh key is in the jobs table
    job,        \* the state of each job
    attempts,
    pc, held,   \* where each worker is in which job's handler
    seen,       \* the validators it read
    body,       \* the version it fetched
    result,     \* what its handler returned
    faults, overlapped

rowVars == <<exists, etag, nextFetch, lock>>
contentVars == <<content, announced, txEvent>>
queueVars == <<keyed, job, attempts>>
workerVars == <<pc, held, seen, body, result>>
vars == <<origin, rowVars, contentVars, queueVars, workerVars, faults, overlapped>>

Versions == 1 .. MaxVersion
Busy == {w \in Workers : pc[w] # "idle"}
Fault == faults < MaxFaults /\ faults' = faults + 1

\* The next poll after the n-th failed attempt: one window, doubling, capped.
TransientBackoff(n) ==
    IF 2 ^ (n - 1) <= MaxInterval THEN 2 ^ (n - 1) ELSE MaxInterval

Init ==
    /\ origin = 1
    /\ exists = TRUE
    /\ etag = 0
    /\ nextFetch = 0
    /\ lock = Nobody
    /\ content = 0
    /\ announced = 0
    /\ txEvent = 0
    /\ keyed = FALSE
    /\ job \in {f \in [Jobs -> {"none", "ready"}] :
                  Cardinality({j \in Jobs : f[j] = "ready"}) = 1}
    /\ attempts = [j \in Jobs |-> 0]
    /\ pc = [w \in Workers |-> "idle"]
    /\ held = [w \in Workers |-> NoJob]
    /\ seen = [w \in Workers |-> 0]
    /\ body = [w \in Workers |-> 0]
    /\ result = [w \in Workers |-> "none"]
    /\ faults = 0
    /\ overlapped = FALSE

-----------------------------------------------------------------------------
(* The world and the scheduler.                                            *)

Publish ==
    /\ origin < MaxVersion
    /\ origin' = origin + 1
    /\ UNCHANGED <<rowVars, contentVars, queueVars, workerVars, faults, overlapped>>

\* Faulty variant: the refresh key does not name the window.
SameKey ==
    /\ nextFetch' = IF nextFetch > 0 THEN nextFetch - 1 ELSE 0
    /\ UNCHANGED <<origin, exists, etag, lock, contentVars, queueVars, workerVars, faults,
                   overlapped>>

\* The next poll window: another key, and the feed is nearer to its poll.
NextWindow ==
    /\ nextFetch' = IF nextFetch > 0 THEN nextFetch - 1 ELSE 0
    /\ keyed' = FALSE
    /\ UNCHANGED <<origin, exists, etag, lock, contentVars, job, attempts,
                   workerVars, faults, overlapped>>

\* handleSchedule lists the podcast as due and enqueues a refresh under the
\* window's key, whatever other refreshes of it are about.
Schedule(j) ==
    /\ exists
    /\ nextFetch = 0
    /\ ~keyed
    /\ job[j] = "none"
    /\ keyed' = TRUE
    /\ job' = [job EXCEPT ![j] = "ready"]
    /\ attempts' = [attempts EXCEPT ![j] = 0]
    /\ UNCHANGED <<origin, rowVars, contentVars, workerVars, faults, overlapped>>

\* handlePodcastDelete: the DELETE waits for the row's lock; episodes cascade.
Delete ==
    /\ Deletable
    /\ exists
    /\ lock = Nobody
    /\ exists' = FALSE
    /\ content' = 0
    /\ UNCHANGED <<origin, etag, nextFetch, lock, announced, txEvent, queueVars,
                   workerVars, faults, overlapped>>

-----------------------------------------------------------------------------
(* handleFeedRefresh.                                                      *)

\* The handler returns: what is left is the runner's record of the outcome.
Return(w, r) ==
    /\ pc' = [pc EXCEPT ![w] = "returned"]
    /\ result' = [result EXCEPT ![w] = r]

Goto(w, l) == pc' = [pc EXCEPT ![w] = l] /\ UNCHANGED result

\* Claim a job and load the row.
Load(w, j) ==
    /\ pc[w] = "idle"
    /\ job[j] = "ready"
    /\ job' = [job EXCEPT ![j] = "running"]
    /\ attempts' = [attempts EXCEPT ![j] = @ + 1]
    /\ held' = [held EXCEPT ![w] = j]
    /\ IF exists
       THEN seen' = [seen EXCEPT ![w] = etag] /\ Goto(w, "loaded")
       ELSE UNCHANGED seen /\ Return(w, "permanent")
    /\ overlapped' = (overlapped \/ Busy # {})
    /\ UNCHANGED <<origin, rowVars, contentVars, keyed, body, faults>>

\* An UPDATE of the podcast's row: it waits for the lock, and finds no row when
\* the podcast was deleted.
UpdateRow(validators, interval) ==
    /\ lock = Nobody
    /\ etag' = IF exists THEN validators ELSE etag
    /\ nextFetch' = IF exists THEN interval ELSE nextFetch
    /\ UNCHANGED <<exists, lock>>

\* Faulty variant: the validators are recorded before the items are stored.
FetchRecords(w) ==
    /\ pc[w] = "loaded"
    /\ UpdateRow(origin, nextFetch)
    /\ body' = [body EXCEPT ![w] = origin]
    /\ Goto(w, IF origin = seen[w] THEN "record"
               ELSE IF origin \in Broken THEN "park" ELSE "fetched")
    /\ UNCHANGED <<origin, contentVars, queueVars, held, seen, faults, overlapped>>

\* The conditional request: 304 when the validators name the served version.
Fetch(w) ==
    /\ pc[w] = "loaded"
    /\ body' = [body EXCEPT ![w] = origin]
    /\ Goto(w, IF origin = seen[w] THEN "record"
               ELSE IF origin \in Broken THEN "park" ELSE "fetched")
    /\ UNCHANGED <<origin, rowVars, contentVars, queueVars, held, seen, faults, overlapped>>

\* The request fails, for good or for now.
FetchFails(w) ==
    /\ pc[w] = "loaded"
    /\ Fault
    /\ \E l \in {"park", "defer"} : Goto(w, l)
    /\ UNCHANGED <<origin, rowVars, contentVars, queueVars, held, seen, body, overlapped>>

\* Faulty variant: the events go to the pool, not to the transaction.
IngestOutside(w) ==
    /\ pc[w] = "fetched"
    /\ lock = Nobody
    /\ exists
    /\ lock' = w
    /\ announced' = IF content # body[w] THEN body[w] ELSE announced
    /\ Goto(w, "ingested")
    /\ UNCHANGED <<origin, exists, etag, nextFetch, content, txEvent, queueVars, held,
                   seen, body, faults, overlapped>>

\* Begin, UpsertPodcastMetadata (which takes the row's lock), IngestFeed and an
\* event when something changed; nothing of it shows before the commit.
Ingest(w) ==
    /\ pc[w] = "fetched"
    /\ lock = Nobody
    /\ exists
    /\ lock' = w
    /\ txEvent' = IF content # body[w] THEN body[w] ELSE 0
    /\ Goto(w, "ingested")
    /\ UNCHANGED <<origin, exists, etag, nextFetch, content, announced, queueVars, held,
                   seen, body, faults, overlapped>>

\* The podcast is gone: the inserts violate the foreign key.
IngestGone(w) ==
    /\ pc[w] = "fetched"
    /\ ~exists
    /\ Return(w, "error")
    /\ UNCHANGED <<origin, rowVars, contentVars, queueVars, held, seen, body, faults,
                   overlapped>>

Commit(w) ==
    /\ pc[w] = "ingested"
    /\ content' = body[w]
    /\ announced' = IF txEvent # 0 THEN txEvent ELSE announced
    /\ txEvent' = 0
    /\ lock' = Nobody
    /\ Goto(w, "record")
    /\ UNCHANGED <<origin, exists, etag, nextFetch, queueVars, held, seen, body, faults,
                   overlapped>>

\* The transaction ends without a commit.
Unlock(w) ==
    IF lock = w THEN lock' = Nobody /\ txEvent' = 0 ELSE UNCHANGED <<lock, txEvent>>

\* A statement of the transaction, or of recordFetch, parkFeed or deferFeed,
\* fails.
StatementFails(w) ==
    /\ pc[w] \in {"ingested", "record", "park", "defer"}
    /\ Fault
    /\ Unlock(w)
    /\ Return(w, "error")
    /\ UNCHANGED <<origin, exists, etag, nextFetch, content, announced, queueVars, held,
                   seen, body, overlapped>>

Record(w) ==
    /\ pc[w] = "record"
    /\ \E interval \in Intervals : UpdateRow(body[w], interval)
    /\ Return(w, "ok")
    /\ UNCHANGED <<origin, contentVars, queueVars, held, seen, body, faults, overlapped>>

Park(w) ==
    /\ pc[w] = "park"
    /\ UpdateRow(etag, MaxInterval)
    /\ Return(w, "permanent")
    /\ UNCHANGED <<origin, contentVars, queueVars, held, seen, body, faults, overlapped>>

Defer(w) ==
    /\ pc[w] = "defer"
    /\ UpdateRow(etag, TransientBackoff(attempts[held[w]]))
    /\ Return(w, "error")
    /\ UNCHANGED <<origin, contentVars, queueVars, held, seen, body, faults, overlapped>>

-----------------------------------------------------------------------------
(* The runner.                                                             *)

\* Back to an idle goroutine.
Reset(w) ==
    /\ pc' = [pc EXCEPT ![w] = "idle"]
    /\ held' = [held EXCEPT ![w] = NoJob]
    /\ seen' = [seen EXCEPT ![w] = 0]
    /\ body' = [body EXCEPT ![w] = 0]
    /\ result' = [result EXCEPT ![w] = "none"]

\* The job is retried while it has attempts left, unless it is done or the
\* error is permanent; a finished row makes room for another job.
Retried(j, r) == r = "error" /\ attempts[j] < MaxAttempts

Finish(w) ==
    /\ pc[w] = "returned"
    /\ job' = [job EXCEPT ![held[w]] =
                 IF Retried(held[w], result[w]) THEN "ready" ELSE "none"]
    /\ Reset(w)
    /\ UNCHANGED <<origin, rowVars, contentVars, keyed, attempts, faults, overlapped>>

\* The worker dies; the reaper requeues or buries its job.
Crash(w) ==
    /\ pc[w] # "idle"
    /\ Fault
    /\ Unlock(w)
    /\ job' = [job EXCEPT ![held[w]] =
                 IF Retried(held[w], "error") THEN "ready" ELSE "none"]
    /\ Reset(w)
    /\ UNCHANGED <<origin, exists, etag, nextFetch, content, announced, keyed, attempts,
                   overlapped>>

Work(w) ==
    \/ Fetch(w)
    \/ Ingest(w)
    \/ IngestGone(w)
    \/ Commit(w)
    \/ Record(w)
    \/ Park(w)
    \/ Defer(w)
    \/ Finish(w)

Claim == \E w \in Workers, j \in Jobs : Load(w, j)
Scheduler == \E j \in Jobs : Schedule(j)

Next ==
    \/ Publish
    \/ NextWindow
    \/ Scheduler
    \/ Delete
    \/ Claim
    \/ \E w \in Workers : Work(w) \/ FetchFails(w) \/ StatementFails(w) \/ Crash(w)

Spec == Init /\ [][Next]_vars

FairSpec ==
    /\ Spec
    /\ WF_vars(NextWindow)
    /\ WF_vars(Scheduler)
    /\ WF_vars(Claim)
    /\ \A w \in Workers : WF_vars(Work(w))

-----------------------------------------------------------------------------
(* Properties.                                                             *)

\* The types of the variables.
TypeOK ==
    /\ origin \in Versions
    /\ exists \in BOOLEAN
    /\ etag \in 0 .. MaxVersion
    /\ nextFetch \in 0 .. MaxInterval
    /\ lock \in Workers \cup {Nobody}
    /\ content \in 0 .. MaxVersion
    /\ announced \in 0 .. MaxVersion
    /\ txEvent \in 0 .. MaxVersion
    /\ keyed \in BOOLEAN
    /\ job \in [Jobs -> {"none", "ready", "running"}]
    /\ attempts \in [Jobs -> 0 .. MaxAttempts]
    /\ pc \in [Workers -> {"idle", "loaded", "fetched", "ingested", "record", "park",
                           "defer", "returned"}]
    /\ held \in [Workers -> Jobs \cup {NoJob}]
    /\ seen \in [Workers -> 0 .. MaxVersion]
    /\ body \in [Workers -> 0 .. MaxVersion]
    /\ result \in [Workers -> {"none", "ok", "error", "permanent"}]
    /\ faults \in 0 .. MaxFaults
    /\ overlapped \in BOOLEAN

\* The validators never promise more than the catalog holds: wherever a refresh
\* stops or dies, the next one fetches what is missing.  (While no two
\* refreshes of the podcast ran at a time.)
ValidatorNeverAhead == (exists /\ ~overlapped) => etag <= content

\* The last event of the outbox announces the content that is committed: no
\* change without its event and no event without its change, at any failure.
AnnouncedIsStored == exists => announced = content

\* A feed that stops changing, parses and can be fetched is in the catalog in
\* the end, whatever failed before, unless two refreshes of it ran at a time.
EventuallyFresh ==
    <>[](content = origin \/ origin \in Broken \/ ~exists \/ overlapped)

\* rss/fetch.go says that unchanged feeds cost a 304: with no refresh under way,
\* validators that the publisher will answer with a 304 are those of a feed
\* whose items the catalog has.
NotModifiedMeansStored ==
    (Busy = {} /\ exists /\ etag = origin) => content = origin
=============================================================================
