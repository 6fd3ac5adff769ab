------------------------------- MODULE MCRecords -------------------------------
(***************************************************************************)
(* One run over four ways in which rows come and go: a feed's episodes, an *)
(* episode's transcript, the catalogue's recurring jobs and podcasts, and  *)
(* a session's searches, recordings and events.  A behaviour takes one of  *)
(* them, and the others stand still.                                       *)
(***************************************************************************)
EXTENDS Naturals, TLC

CONSTANTS
  None, Episodes, GuidOf, Encs, Texts, MaxItems, MaxRows,            \* the ingestion
  Queries, Faults, MaxFaults, MaxDeletions,                          \* the sessions
  Links, FormatOf, MaxVersion, MaxLost,                              \* the transcripts
  Shows, Day, Window, Concurrency, MaxTime, MaxStarts, MaxFailures,  \* the catalogue
  MaxAttempts                                                        \* of a job

VARIABLES
  part,
  item, hosted, steady, rows, feed, pos, work, seenGUIDs, seenEnclosures, changes, error,
  searches, recordings, events, store, req, left, told, imp, del, keys, doomed, faults,
  deletions, raced, leaked, missed, erased,
  version, episode, job, attempts, body, objects, row, announced, lost,
  now, jobs, podcasts, starts, failures

ingest == INSTANCE FeedIngest

session == INSTANCE SessionData

transcripts == INSTANCE TranscriptFetch WITH
  MaxFaults <- MaxLost, event <- announced, faults <- lost

catalog == INSTANCE CatalogJobs WITH MaxFaults <- MaxFailures, faults <- failures

ASSUME RecordsAssumption ==
  /\ ingest!FeedIngestAssumption /\ session!SessionAssumption
  /\ transcripts!TranscriptAssumption /\ catalog!CatalogAssumption

\* Values for the check: each episode and link with its own GUID and format.
MCGuidOf == [e \in Episodes |-> e]
MCFormatOf == [l \in Links |-> l]

ingestVars == <<item, hosted, steady, rows, feed, pos, work, seenGUIDs, seenEnclosures,
                changes, error>>
sessionVars == <<searches, recordings, events, store, req, left, told, imp, del, keys, doomed,
                 faults, deletions, raced, leaked, missed, erased>>
transcriptVars == <<version, episode, job, attempts, body, objects, row, announced, lost>>
catalogVars == <<now, jobs, podcasts, starts, failures>>
vars == <<part, ingestVars, sessionVars, transcriptVars, catalogVars>>

Init ==
  /\ part \in {"ingest", "session", "transcripts", "catalog"}
  /\ ingest!Init /\ session!Init /\ transcripts!Init /\ catalog!Init

Next ==
  \/ part = "ingest" /\ ingest!Next /\ UNCHANGED <<part, sessionVars, transcriptVars, catalogVars>>
  \/ part = "session" /\ session!Next /\ UNCHANGED <<part, ingestVars, transcriptVars, catalogVars>>
  \/ part = "transcripts" /\ transcripts!Next /\ UNCHANGED <<part, ingestVars, sessionVars, catalogVars>>
  \/ part = "catalog" /\ catalog!Next /\ UNCHANGED <<part, ingestVars, sessionVars, transcriptVars>>

Spec == Init /\ [][Next]_vars

Symmetry == Permutations(Episodes) \cup Permutations(Encs) \cup Permutations(Queries)

\* See FeedIngest: an episode with a steady GUID has one row.
OneRowPerEpisode == ingest!OneRowPerEpisode

\* See FeedIngest: an item whose enclosure is its own is in the table.
EveryItemStored == ingest!EveryItemStored

\* See FeedIngest: no row that differs is left out of the changes, and only a row
\* that items contend for is there without need.
ChangesAreExact == ingest!ChangesAreExact

\* See FeedIngest: what ingest.go says of a feed that is polled again.
RepollIsNoop == ingest!RepollIsNoop

\* See SessionData: what a deletion should remove is gone.
DeletedMeansGone == session!DeletedMeansGone

\* See SessionData: a deletion leaves no object without a row.
DeletionOrphansNothing == session!DeletionOrphansNothing

\* See TranscriptFetch: the row was announced and its object is no older.
RowIsBacked == transcripts!RowIsBacked

\* See CatalogJobs: a chain of recurring jobs ends in a dead letter or not at all.
ChainUnbroken == catalog!ChainUnbroken

=============================================================================
