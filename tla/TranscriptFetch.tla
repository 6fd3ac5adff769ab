--------------------------- MODULE TranscriptFetch ---------------------------
(***************************************************************************)
(* The transcripts of one episode (enqueueTranscripts and                  *)
(* handleTranscriptFetch in internal/catalog/worker.go): one job for every *)
(* link of the feed, which fetches the file, puts it into the object store *)
(* under the episode and the format, and stores its text in the episode's  *)
(* only transcripts row, with a content-change event.  Jobs of different   *)
(* links run at the same time; the publisher replaces files, calls fail,   *)
(* workers are lost, and the podcast may be deleted.                       *)
(*                                                                         *)
(* A file is its link and version.  A link's job has one run at a time     *)
(* (what a worker that is late adds is JobQueue's).                        *)
(***************************************************************************)
EXTENDS Naturals, FiniteSets

CONSTANTS
  None,
  Links,        \* of the episode, in a format that DetectFormat knows
  FormatOf,     \* the format of each
  MaxVersion,   \* bound on the versions of a file
  MaxAttempts,  \* of a job
  MaxFaults     \* bound on the calls that fail and the workers that are lost

TranscriptAssumption ==
  /\ DOMAIN FormatOf = Links /\ None \notin [link : Links, version : Nat]
  /\ {MaxVersion, MaxAttempts} \subseteq Nat \ {0} /\ MaxFaults \in Nat

VARIABLES
  version,   \* what the publisher serves under each link
  episode,   \* the episode's row is there
  job,       \* link -> where its job is; "none" is that it has no key yet
  attempts,
  body,      \* link -> the version its handler holds
  objects,   \* format -> the file that was put last, or None
  row,       \* the transcripts row: the file it was parsed from, or None
  event,     \* the file that the last content-change event is about, or None
  faults

vars == <<version, episode, job, attempts, body, objects, row, event, faults>>

File(l) == [link |-> l, version |-> body[l]]
Goto(l, place) == job' = [job EXCEPT ![l] = place]

Init ==
  /\ version = [l \in Links |-> 1] /\ episode = TRUE
  /\ job = [l \in Links |-> "none"] /\ attempts = [l \in Links |-> 0]
  /\ body = [l \in Links |-> 0] /\ objects = [f \in {FormatOf[l] : l \in Links} |-> None]
  /\ row = None /\ event = None /\ faults = 0

----------------------------------------------------------------------------
\* The publisher replaces a file under its link.
Replace(l) ==
  /\ version[l] < MaxVersion /\ version' = [version EXCEPT ![l] = @ + 1]
  /\ UNCHANGED <<episode, job, attempts, body, objects, row, event, faults>>

\* The episode was stored or changed: each link is enqueued, once for good.
EnqueueTranscripts ==
  /\ episode
  /\ \E listed \in SUBSET {l \in Links : job[l] = "none"} \ {{}} :
       job' = [l \in Links |-> IF l \in listed THEN "pending" ELSE job[l]]
  /\ UNCHANGED <<version, episode, attempts, body, objects, row, event, faults>>

\* handlePodcastDelete: the row goes with its episode, the object stays.
DeletePodcast ==
  /\ episode /\ episode' = FALSE /\ row' = None
  /\ UNCHANGED <<version, job, attempts, body, objects, event, faults>>

Claim(l) ==
  /\ job[l] = "pending" /\ Goto(l, "start")
  /\ attempts' = [attempts EXCEPT ![l] = @ + 1]
  /\ UNCHANGED <<version, episode, body, objects, row, event, faults>>

Retried(l) == IF attempts[l] >= MaxAttempts THEN "dead" ELSE "pending"

\* A call fails or the worker is lost; an open transaction is rolled back.
Fail(l) ==
  /\ job[l] \notin {"none", "pending", "done", "dead"}
  /\ faults < MaxFaults /\ faults' = faults + 1
  /\ Goto(l, Retried(l)) /\ body' = [body EXCEPT ![l] = 0]
  /\ UNCHANGED <<version, episode, attempts, objects, row, event>>

\* The file is fetched and parsed; what is gone or has no text ends the job.
Fetch(l) ==
  /\ job[l] = "start"
  /\ \/ Goto(l, "fetched") /\ body' = [body EXCEPT ![l] = version[l]]
     \/ Goto(l, "dead") /\ UNCHANGED body
  /\ UNCHANGED <<version, episode, attempts, objects, row, event, faults>>

\* Faulty variant: an object that is there is not put again.
UploadedOnce(l) == IF objects[FormatOf[l]] = None THEN File(l) ELSE objects[FormatOf[l]]

Uploaded(l) == File(l)

Put(l) ==
  /\ job[l] = "fetched" /\ Goto(l, "put")
  /\ objects' = [objects EXCEPT ![FormatOf[l]] = Uploaded(l)]
  /\ UNCHANGED <<version, episode, attempts, body, row, event, faults>>

\* The transaction reads the episode, ...
Begin(l) ==
  /\ job[l] = "put" /\ Goto(l, IF episode THEN "begun" ELSE "dead")
  /\ UNCHANGED <<version, episode, attempts, body, objects, row, event, faults>>

\* ... and stores the row (ON CONFLICT (episode_id) DO UPDATE) with its event, unless the episode was deleted since.
Commit(l) ==
  /\ job[l] = "begun"
  /\ IF episode
     THEN row' = File(l) /\ event' = File(l) /\ Goto(l, "stored")
     ELSE Goto(l, Retried(l)) /\ UNCHANGED <<row, event>>
  /\ UNCHANGED <<version, episode, attempts, body, objects, faults>>

\* The runner completes the job.
Complete(l) ==
  /\ job[l] = "stored" /\ Goto(l, "done") /\ body' = [body EXCEPT ![l] = 0]
  /\ UNCHANGED <<version, episode, attempts, objects, row, event, faults>>

Handle(l) == Claim(l) \/ Fetch(l) \/ Put(l) \/ Begin(l) \/ Commit(l) \/ Complete(l)

Next ==
  \/ EnqueueTranscripts \/ DeletePodcast
  \/ \E l \in Links : Replace(l) \/ Fail(l) \/ Handle(l)

Spec == Init /\ [][Next]_vars

----------------------------------------------------------------------------
Alone(l) == \A k \in Links : FormatOf[k] = FormatOf[l] => k = l

\* The row tells of the last transcript that was announced, and, where no other
\* link has its format, the object it names is that link's file, not an older
\* one than its text came from, however puts, commits and failures fall.
RowIsBacked ==
  row # None =>
    /\ row = event
    /\ Alone(row.link) =>
         LET object == objects[FormatOf[row.link]]
         IN  object # None /\ object.link = row.link /\ object.version >= row.version

\* "Raw upstream file retained in object storage" (0002_catalog.sql:64).  Not so
\* when two links share a format: their objects do, and the last put need not
\* be the last commit.
RawIsRetained ==
  row # None => LET object == objects[FormatOf[row.link]] IN object # None /\ object.link = row.link

=============================================================================
