--------------------------- MODULE EmbeddingIndex ---------------------------
(***************************************************************************)
(* The batch jobs that fill episode_embeddings: ml/embeddings/embed.py     *)
(* ("e5"), transcripts.py ("transcript") and two_tower_index.py            *)
(* ("two_tower").  All three walk the catalogue by episode id: read a      *)
(* batch of rows after the last id seen, encode it, upsert the vectors,    *)
(* commit; the first and the last end with their ANN index, the last also  *)
(* with index.json beside the model artifact.  Meanwhile the catalogue     *)
(* changes, other jobs of the same model may run, the artifact may be      *)
(* trained again in place, and a job may be killed.                        *)
(*                                                                         *)
(* A field of an episode is the number of its version: "text" stands for   *)
(* what its content hash covers.  The fields of the show, which no hash    *)
(* covers, are left out.  A vector is what it was computed from.           *)
(***************************************************************************)
EXTENDS Integers, FiniteSets, FiniteSetsExt

CONSTANTS
  Jobs,          \* processes an operator may start
  Ids,           \* episode ids, in the order of the key
  Batch,         \* --batch-size
  Limits,        \* values of --limit; 0 is none
  MaxChanges,    \* bound on the changes of the catalogue and the artifact
  MaxStarts      \* bound on the starts of jobs

IndexAssumption ==
  /\ Ids \subseteq Nat \ {0} /\ IsFiniteSet(Ids)
  /\ Batch \in Nat \ {0} /\ Limits \subseteq Nat
  /\ MaxChanges \in Nat /\ MaxStarts \in Nat

Absent == [none |-> TRUE]
Models == {"e5", "transcript", "two_tower"}

VARIABLES
  episodes,  \* by id: Absent, or what the encoders read of the episode
  vectors,   \* episode_embeddings by model and episode: Absent or a vector
  indexed,   \* models with an ANN index
  weights,   \* how often the artifact's weights were trained
  record,    \* index.json: start of the run that wrote it, 0 if there is none
  job,       \* the processes
  starts,    \* number of jobs started
  changes    \* number of changes around them

vars == <<episodes, vectors, indexed, weights, record, job, starts, changes>>

Versions == 0..(MaxChanges + 1)
Episode == [text: Versions, excerpt: Versions]
Vector == [of: Episode, hash: Versions, weights: Nat]

\* "owed" and "alone" are ghosts: the episodes in place and untouched since
\* the start, and whether no other job of the model ran meanwhile.
Idle == [phase |-> "idle", model |-> "none", limit |-> 0, embedded |-> 0, after |-> 0,
         rows |-> {}, weights |-> 0, built |-> 0, owed |-> {}, alone |-> FALSE]

Exists(e) == episodes[e] # Absent
Stored(m, e) == vectors[m][e] # Absent

\* The row's content_hash: the episode's own for E5 and the two-tower
\* model, that of the excerpt for transcripts.  Excerpt 0 is no transcript.
HashOf(m, row) == IF m = "transcript" THEN row.excerpt ELSE row.text
Stale(m, e) == ~Stored(m, e) \/ vectors[m][e].hash # HashOf(m, episodes[e])

\* PENDING_SQL of each program. The transcript job reads every transcript and
\* leaves out the unchanged ones afterwards.
PendingPassage(e) == Stale("e5", e)
PendingTranscript(e) == episodes[e].excerpt > 0
PendingEpisode(e) == Stale("two_tower", e)

Listed(m, e, after) ==
  /\ Exists(e) /\ e > after
  /\ \/ m = "e5" /\ PendingPassage(e)
     \/ m = "transcript" /\ PendingTranscript(e)
     \/ m = "two_tower" /\ PendingEpisode(e)

Smallest(S, n) == {e \in S : Cardinality({f \in S : f < e}) < n}

\* Faulty variant: the next page by offset into rows that disappear.
PageByOffset(j) ==
  LET S == {e \in Ids : Listed(job[j].model, e, 0)}
      Skip == IF job[j].after = 0 THEN 0 ELSE job[j].embedded
  IN Smallest(S \ Smallest(S, Skip), Batch)

Page(j) == Smallest({e \in Ids : Listed(job[j].model, e, job[j].after)}, Batch)

----------------------------------------------------------------------------
Init ==
  /\ \E n \in Ids, x \in 0..1 :
       episodes = [e \in Ids |-> IF e <= n THEN [text |-> 0, excerpt |-> x] ELSE Absent]
  /\ vectors = [m \in Models |-> [e \in Ids |-> Absent]]
  /\ indexed = {} /\ weights = 1 /\ record = 0
  /\ starts = 0 /\ changes = 0
  /\ job = [j \in Jobs |-> Idle]

Running(m) == {j \in Jobs : job[j].phase # "idle" /\ job[j].model = m}

\* main or build_index up to the loop: the model is loaded, the clock read.
Start(j, m, limit) ==
  /\ job[j].phase = "idle" /\ starts < MaxStarts
  /\ starts' = starts + 1
  /\ job' = [k \in Jobs |->
       IF k = j
       THEN [Idle EXCEPT !.phase = "read", !.model = m, !.limit = limit,
               !.weights = IF m = "two_tower" THEN weights ELSE 0,
               !.built = starts + 1, !.owed = {e \in Ids : Exists(e)},
               !.alone = Running(m) = {}]
       ELSE [job[k] EXCEPT !.alone = @ /\ k \notin Running(m)]]
  /\ UNCHANGED <<episodes, vectors, indexed, weights, record, changes>>

MayRead(j) == job[j].limit = 0 \/ job[j].embedded < job[j].limit

NextAfter(j, ids) == Max(ids)

Rows(j, ids) ==
  {[id |-> e, row |-> episodes[e]] :
     e \in {f \in ids : job[j].model # "transcript" \/ Stale(job[j].model, f)}}

\* One SELECT. A page of unchanged transcripts is skipped without encoding.
ReadBatch(j) ==
  /\ job[j].phase = "read" /\ MayRead(j) /\ Page(j) # {}
  /\ job' = [job EXCEPT ![j].after = NextAfter(j, Page(j)),
                        ![j].rows = Rows(j, Page(j)),
                        ![j].phase = IF Rows(j, Page(j)) = {} THEN "read" ELSE "encoded"]
  /\ UNCHANGED <<episodes, vectors, indexed, weights, record, starts, changes>>

VectorOf(j, r) ==
  [of |-> r.row, hash |-> HashOf(job[j].model, r.row),
   weights |-> job[j].weights]

\* UPSERT_SQL for the whole batch and COMMIT.
Upsert(j) ==
  LET m == job[j].model
      ids == {r.id : r \in job[j].rows}
  IN /\ job[j].phase = "encoded"
     /\ \A e \in ids : Exists(e)
     /\ vectors' = [vectors EXCEPT ![m] =
          [e \in Ids |-> IF e \in ids
                         THEN VectorOf(j, CHOOSE r \in job[j].rows : r.id = e)
                         ELSE @[e]]]
     /\ job' = [job EXCEPT ![j].phase = "read", ![j].rows = {},
                           ![j].embedded = @ + Cardinality(ids)]
     /\ UNCHANGED <<episodes, indexed, weights, record, starts, changes>>

\* An episode of the batch was deleted: its foreign key fails the upsert, and
\* the exception ends the job.
UpsertFails(j) ==
  /\ job[j].phase = "encoded"
  /\ \E r \in job[j].rows : ~Exists(r.id)
  /\ job' = [job EXCEPT ![j] = Idle]
  /\ UNCHANGED <<episodes, vectors, indexed, weights, record, starts, changes>>

Kill(j) ==
  /\ job[j].phase # "idle"
  /\ job' = [job EXCEPT ![j] = Idle]
  /\ UNCHANGED <<episodes, vectors, indexed, weights, record, starts, changes>>

\* CREATE INDEX IF NOT EXISTS; nothing searches the transcript vectors.
EnsureIndex(m) == indexed' = IF m = "transcript" THEN indexed ELSE indexed \cup {m}

\* Nothing left, or the limit reached. The transcript job ends here.
LeaveLoop(j) ==
  /\ job[j].phase = "read"
  /\ ~MayRead(j) \/ Page(j) = {}
  /\ EnsureIndex(job[j].model)
  /\ job' = [job EXCEPT ![j].phase = "counted"]
  /\ UNCHANGED <<episodes, vectors, weights, record, starts, changes>>

\* The two-tower job writes index.json; all report and exit.
Finish(j) ==
  /\ job[j].phase = "counted"
  /\ record' = IF job[j].model = "two_tower" THEN job[j].built ELSE record
  /\ job' = [job EXCEPT ![j] = Idle]
  /\ UNCHANGED <<episodes, vectors, indexed, weights, starts, changes>>

----------------------------------------------------------------------------
\* The catalogue and the trainer.
Change == changes < MaxChanges /\ changes' = changes + 1
Disown(e) == job' = [j \in Jobs |-> [job[j] EXCEPT !.owed = @ \ {e}]]

\* A new episode has the highest id.
Add(e) ==
  /\ Change /\ \A f \in Ids : f >= e => ~Exists(f)
  /\ episodes' = [episodes EXCEPT ![e] = [text |-> 0, excerpt |-> 0]]
  /\ UNCHANGED <<vectors, indexed, weights, record, job, starts>>

\* A refresh changes the episode's own fields, and so its content hash.
Edit(e) ==
  /\ Exists(e) /\ Change
  /\ episodes' = [episodes EXCEPT ![e].text = @ + 1]
  /\ Disown(e)
  /\ UNCHANGED <<vectors, indexed, weights, record, starts>>

\* A transcript arrives or is replaced.
Transcribe(e) ==
  /\ Exists(e) /\ Change
  /\ episodes' = [episodes EXCEPT ![e].excerpt = @ + 1]
  /\ Disown(e)
  /\ UNCHANGED <<vectors, indexed, weights, record, starts>>

\* Vectors go with their episode (ON DELETE CASCADE).
Delete(e) ==
  /\ Exists(e) /\ Change
  /\ episodes' = [episodes EXCEPT ![e] = Absent]
  /\ vectors' = [m \in Models |-> [vectors[m] EXCEPT ![e] = Absent]]
  /\ Disown(e)
  /\ UNCHANGED <<indexed, weights, record, starts>>

\* Training the same config again, or --resume, writes new weights into the
\* directory the model id is made from.
Train ==
  /\ Change
  /\ weights' = weights + 1
  /\ UNCHANGED <<episodes, vectors, indexed, record, job, starts>>

\* The three programs run one loop; what differs is above.
JobStep(j) == ReadBatch(j) \/ Upsert(j) \/ UpsertFails(j) \/ LeaveLoop(j) \/ Finish(j)
Embed(j) == job[j].model = "e5" /\ JobStep(j)
EmbedTranscripts(j) == job[j].model = "transcript" /\ JobStep(j)
BuildIndex(j) == job[j].model = "two_tower" /\ JobStep(j)

Next ==
  \/ \E j \in Jobs : \/ \E m \in Models, l \in Limits : Start(j, m, l)
                     \/ Embed(j) \/ EmbedTranscripts(j) \/ BuildIndex(j) \/ Kill(j)
  \/ \E e \in Ids : Add(e) \/ Edit(e) \/ Transcribe(e) \/ Delete(e)
  \/ Train

Spec == Init /\ [][Next]_vars

\* A job started runs on, or is killed.
FairSpec == Spec /\ \A j \in Jobs : WF_vars(JobStep(j))

----------------------------------------------------------------------------
TypeOK ==
  /\ episodes \in [Ids -> Episode \cup {Absent}]
  /\ vectors \in [Models -> [Ids -> Vector \cup {Absent}]]
  /\ indexed \subseteq Models \ {"transcript"}
  /\ weights \in Nat /\ record \in 0..MaxStarts /\ starts \in 0..MaxStarts
  /\ changes \in 0..MaxChanges
  /\ \A j \in Jobs :
       /\ job[j].phase \in {"idle", "read", "encoded", "counted"}
       /\ job[j].rows \subseteq [id: Ids, row: Episode]
       /\ (job[j].phase = "encoded") = (job[j].rows # {})

\* A vector that no job would compute again was computed from the episode as
\* it is, in every field its hash covers, although rows are read, encoded
\* for long and written back without a lock while the catalogue changes and
\* other jobs write the same rows.
SettledIsCurrent ==
  \A m \in Models, e \in Ids :
    Exists(e) /\ ~Stale(m, e) => HashOf(m, vectors[m][e].of) = HashOf(m, episodes[e])

Required(m, e) == Exists(e) /\ (m = "transcript" => episodes[e].excerpt > 0)

\* A run without a limit that no other run of its model overlapped leaves
\* nothing behind of what was there when it began and did not change: paging by
\* the last id skips no row while the rows already done drop out of the query.
RunsMissNothing ==
  \A j \in Jobs :
    job[j].phase = "counted" /\ job[j].limit = 0 /\ job[j].alone =>
      /\ \A e \in job[j].owed : Required(job[j].model, e) => ~Stale(job[j].model, e)
      /\ job[j].model # "transcript" => job[j].model \in indexed

\* A job that was started ends, also while the catalogue changes and when
\* there is nothing to encode.
EveryRunEnds == \A j \in Jobs : job[j].phase # "idle" ~> job[j].phase = "idle"

\* two_tower_index.py:9: "each trained model gets its own index": after a run
\* that nothing overlapped, what it settled are vectors of the model it loaded.
OwnIndex ==
  \A j \in Jobs :
    job[j].phase = "counted" /\ job[j].model = "two_tower" /\ job[j].alone
    /\ job[j].limit = 0 =>
      \A e \in job[j].owed : vectors["two_tower"][e].weights = job[j].weights
=============================================================================
