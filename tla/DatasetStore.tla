----------------------------- MODULE DatasetStore -----------------------------
(***************************************************************************)
(* Where training data lies: the snapshots of ml/datasets/snapshot.py, the *)
(* datasets that ml/datasets/build.py writes and publish.py uploads, and   *)
(* the check of ml/training that both belong together.                     *)
(*                                                                         *)
(* A developer runs one program after the other, any of which may be       *)
(* killed, while the catalogue and its transcripts change.  A table is the *)
(* version of it that was read, so a snapshot's id, which is the hash of   *)
(* its files, is the versions they were written from.  A dataset's rows    *)
(* are a pure function of both tables and never of the transcripts; its    *)
(* version is the hash of the rows, and a split is given by the boundaries *)
(* that cut it.                                                            *)
(***************************************************************************)
EXTENDS Naturals, Sequences, FiniteSets

CONSTANTS
  None,
  Boundaries,      \* the <<validation_start, test_start>> of the configs
  MaxEdits,        \* bound on the changes of the catalogue
  MaxTranscripts,  \* bound on the changes of the transcripts
  MaxPrograms,     \* bound on the programs run
  MaxKills         \* bound on the programs killed

\* A snapshot is never taken for none.
DatasetAssumption ==
  None \notin [episodes : [catalog : Nat, excerpts : Nat], podcasts : Nat]

VARIABLES
  db,         \* the versions in the database
  snapshots,  \* snapshot directory -> its manifest
  tmp,        \* .snapshot-tmp: file -> what it holds
  latest,
  dirs,       \* data/datasets: version -> file -> what it holds
  store,      \* the datasets bucket, likewise
  job,        \* the program being run
  answer,     \* what the last publication told the developer
  runs,
  kills

vars == <<db, snapshots, tmp, latest, dirs, store, job, answer, runs, kills>>

Idle == [program |-> "none"]
Files == <<"train", "validation", "test", "manifest">>
NoFiles == [f \in {"train", "validation", "test", "manifest"} |-> None]
NoSnapshot == [episodes |-> None, podcasts |-> None, manifest |-> None]
Set(f, x, value) == [y \in DOMAIN f \cup {x} |-> IF y = x THEN value ELSE f[y]]

Init ==
  /\ db = [catalog |-> 0, transcripts |-> 0]
  /\ snapshots = <<>> /\ tmp = NoSnapshot /\ latest = None
  /\ dirs = <<>> /\ store = <<>>
  /\ job = Idle /\ answer = None /\ runs = 0 /\ kills = 0

\* The crawler at work.
Edit ==
  /\ \/ db.catalog < MaxEdits /\ db' = [db EXCEPT !.catalog = @ + 1]
     \/ db.transcripts < MaxTranscripts /\ db' = [db EXCEPT !.transcripts = @ + 1]
  /\ UNCHANGED <<snapshots, tmp, latest, dirs, store, job, answer, runs, kills>>

----------------------------------------------------------------------------
(***************************************************************************)
(* snapshot.capture and derive_with_transcripts.                           *)
(***************************************************************************)
EpisodesNow == [catalog |-> db.catalog, excerpts |-> db.transcripts]

\* The two statements of a capture see the catalogue of two moments.
CaptureEpisodes ==
  /\ job = Idle /\ runs < MaxPrograms /\ runs' = runs + 1
  /\ job' = [program |-> "capture", tables |-> [episodes |-> EpisodesNow], left |-> <<>>]
  /\ UNCHANGED <<db, snapshots, tmp, latest, dirs, store, answer, kills>>

Write(tables, parent) ==
  [program |-> "snapshot", tables |-> tables, derived |-> parent,
   left |-> <<"episodes", "podcasts", "manifest">>]

CapturePodcasts ==
  /\ job.program = "capture"
  /\ job' = Write([episodes |-> job.tables.episodes, podcasts |-> db.catalog], None)
  /\ UNCHANGED <<db, snapshots, tmp, latest, dirs, store, answer, runs, kills>>

Capture == CaptureEpisodes \/ CapturePodcasts

\* Faulty variant: the catalogue's current rows.
WithCurrentRows(episodes) == EpisodesNow

\* The parent's rows, and the excerpts of now.
WithTranscripts(episodes) == [episodes EXCEPT !.excerpts = db.transcripts]

Derive ==
  /\ job = Idle /\ runs < MaxPrograms /\ runs' = runs + 1
  /\ \E parent \in DOMAIN snapshots :
       job' = Write([episodes |-> WithTranscripts(parent.episodes), podcasts |-> parent.podcasts], parent)
  /\ UNCHANGED <<db, snapshots, tmp, latest, dirs, store, answer, kills>>

\* The id is the hash of what the temporary directory holds.
IdOf(files) == [episodes |-> files.episodes, podcasts |-> files.podcasts]

SnapshotManifest == [id |-> IdOf(tmp), derived |-> job.derived]

\* Faulty variant: what a killed run left is not written again.
TempFileKept(file) ==
  IF tmp[file] # None THEN tmp[file]
  ELSE IF file = "manifest" THEN SnapshotManifest ELSE job.tables[file]

TempFile(file) == IF file = "manifest" THEN SnapshotManifest ELSE job.tables[file]

\* The files go one by one into the temporary directory that all runs share.
WriteTemp ==
  /\ job.program = "snapshot" /\ job.left # <<>>
  /\ tmp' = [tmp EXCEPT ![Head(job.left)] = TempFile(Head(job.left))]
  /\ job' = [job EXCEPT !.left = Tail(@)]
  /\ UNCHANGED <<db, snapshots, latest, dirs, store, answer, runs, kills>>

\* A snapshot that exists is kept, with its manifest.
Rename ==
  /\ job.program = "snapshot" /\ job.left = <<>>
  /\ LET id == tmp.manifest.id
     IN /\ snapshots' = IF id \in DOMAIN snapshots THEN snapshots ELSE Set(snapshots, id, tmp)
        /\ job' = IF job.derived # None THEN Idle ELSE [program |-> "latest", id |-> id]
  /\ tmp' = NoSnapshot
  /\ UNCHANGED <<db, latest, dirs, store, answer, runs, kills>>

Point ==
  /\ job.program = "latest"
  /\ latest' = job.id /\ job' = Idle
  /\ UNCHANGED <<db, snapshots, tmp, dirs, store, answer, runs, kills>>

TakeSnapshot == Capture \/ Derive \/ WriteTemp \/ Rename \/ Point

----------------------------------------------------------------------------
(***************************************************************************)
(* build.build_dataset's output, publish_dataset and what training reads.  *)
(***************************************************************************)
\* The rows, and their hash: both tables, and neither excerpts nor boundaries.
VersionOf(id) == [episodes |-> id.episodes.catalog, podcasts |-> id.podcasts]

StartBuild ==
  /\ job = Idle /\ runs < MaxPrograms /\ runs' = runs + 1
  /\ \E id \in DOMAIN snapshots, cut \in Boundaries :
       job' = [program |-> "build", version |-> VersionOf(id), left |-> Files,
               manifest |-> [snapshot |-> id, splits |-> cut]]
  /\ UNCHANGED <<db, snapshots, tmp, latest, dirs, store, answer, kills>>

\* split_by_time: what the boundaries leave in every split; the manifest is last.
Written(file) == IF file = "manifest" THEN job.manifest ELSE job.manifest.splits

\* A directory that exists is written over, file by file.
WriteSplit ==
  /\ job.program = "build" /\ job.left # <<>>
  /\ LET file == Head(job.left)
         old == IF job.version \in DOMAIN dirs THEN dirs[job.version] ELSE NoFiles
     IN dirs' = Set(dirs, job.version, [old EXCEPT ![file] = Written(file)])
  /\ job' = [job EXCEPT !.left = Tail(@)]
  /\ UNCHANGED <<db, snapshots, tmp, latest, store, answer, runs, kills>>

Build == StartBuild \/ WriteSplit

UploadOrder == Files

\* A version whose manifest is in the store.
RemoteManifest(version) == version \in DOMAIN store /\ store[version]["manifest"] # None

\* With --publish: such a version is taken for published. That its manifest names
\* another content hash is impossible, for the hash is part of the version.
Publish ==
  /\ job.program = "build" /\ job.left = <<>>
  /\ LET there == RemoteManifest(job.version)
     IN /\ job' = IF there THEN Idle
                  ELSE [job EXCEPT !.program = "publish", !.left = UploadOrder]
        /\ answer' = IF there THEN job ELSE answer
  /\ UNCHANGED <<db, snapshots, tmp, latest, dirs, store, runs, kills>>

Upload ==
  /\ job.program = "publish" /\ job.left # <<>>
  /\ LET file == Head(job.left)
         old == IF job.version \in DOMAIN store THEN store[job.version] ELSE NoFiles
         new == IF file = "manifest" THEN job.manifest ELSE dirs[job.version][file]
     IN store' = Set(store, job.version, [old EXCEPT ![file] = new])
  /\ job' = [job EXCEPT !.left = Tail(@)]
  /\ answer' = IF Len(job.left) = 1 THEN job ELSE answer
  /\ UNCHANGED <<db, snapshots, tmp, latest, dirs, runs, kills>>

\* The program ends, here without --publish.
End ==
  /\ job.program \in {"build", "publish"} /\ job.left = <<>>
  /\ job' = Idle
  /\ UNCHANGED <<db, snapshots, tmp, latest, dirs, store, answer, runs, kills>>

Kill ==
  /\ job # Idle /\ kills < MaxKills
  /\ kills' = kills + 1 /\ job' = Idle
  /\ UNCHANGED <<db, snapshots, tmp, latest, dirs, store, answer, runs>>

Next == Edit \/ TakeSnapshot \/ Build \/ Publish \/ Upload \/ End \/ Kill

Spec == Init /\ [][Next]_vars

\* A dataset can be read with its own snapshot or one derived from it.
Compatible(id, dataset) ==
  dirs[dataset]["manifest"].snapshot \in {id, snapshots[id].manifest.derived}

\* Training begins: the manifest is there, and its snapshot is the one given.
Trains(id, dataset) == dirs[dataset]["manifest"] # None /\ Compatible(id, dataset)

\* ExampleBatcher refuses a positive without a row in the snapshot.
PositivesAreThere(id, dataset) == id.episodes.catalog = dataset.episodes

----------------------------------------------------------------------------
\* A new snapshot holds what its own run read, under the id of just that, and
\* latest moves to a snapshot that is there: whatever a killed run left in the
\* temporary directory, no run passes on another one's files.
SnapshotIsOfOneRun ==
  [][/\ \A id \in DOMAIN snapshots' \ DOMAIN snapshots :
          /\ id = IdOf(snapshots'[id]) /\ snapshots'[id].manifest = [id |-> id, derived |-> job.derived]
          /\ id = IdOf(job.tables)
     /\ latest' # latest => latest' \in DOMAIN snapshots]_vars

\* Training that passes the compatibility check never misses a positive, and
\* trains the rows the version was hashed from.
CompatibleIsReadable ==
  \A dataset \in DOMAIN dirs : \A id \in DOMAIN snapshots :
    Trains(id, dataset) => PositivesAreThere(id, dataset)

\* "re-publishing the same version with identical content is a no-op, and
\* attempting to overwrite it with different content is an error"
\* (publish.py:3-5): a publication that ends well leaves the built splits there.
PublishedIsBuilt ==
  answer # None => store[answer.version]["manifest"].splits = answer.manifest.splits

\* "Splits are time-based ... so later interactions never leak into earlier
\* predictions" (build.py:17): what training reads was cut at one boundary.
SplitsAreDisjoint ==
  \A dataset \in DOMAIN dirs :
    dirs[dataset]["manifest"] # None /\ job = Idle => dirs[dataset]["train"] = dirs[dataset]["validation"]
=============================================================================
