------------------------------- MODULE DataProofs -------------------------------
(***************************************************************************)
(* Proofs about the files that models are trained and tested with          *)
(* (MCData): for any number of changes, snapshots, derivations, builds and *)
(* kills, any episodes, shows and names, any queries, voices and samples.  *)
(***************************************************************************)
EXTENDS MCData, FiniteSets, Sequences, SequenceTheorems, WellFoundedInduction, TLAPS

-----------------------------------------------------------------------------
(* Snapshots and datasets (DatasetStore).                                  *)

LEMMA DatasetBehaviour == Spec => datasets!Spec
  <1>1. Init => datasets!Init
    BY DEF Init
  <1>2. [Next]_vars => [datasets!Next]_(datasets!vars)
    BY DEF Next, vars, datasetVars, datasets!vars
  <1>3. QED
    BY <1>1, <1>2, PTL DEF Spec, datasets!Spec

EpisodeTables == [catalog : Nat, excerpts : Nat]
Ids == [episodes : EpisodeTables, podcasts : Nat]
DatasetFiles == {"train", "validation", "test", "manifest"}

Captures == [program : {"capture"}, tables : [episodes : EpisodeTables], left : {<<>>}]

Snapshotting ==
  [program : {"snapshot"}, tables : Ids, derived : Ids \cup {None},
   left : {<<"episodes", "podcasts", "manifest">>, <<"podcasts", "manifest">>, <<"manifest">>, <<>>}]

Pointings == [program : {"latest"}, id : Ids]

Datasetting ==
  [program : {"build", "publish"}, version : [episodes : Nat, podcasts : Nat], left : Seq(DatasetFiles),
   manifest : [snapshot : Ids, splits : Boundaries]]

\* A snapshot's rows are those of the one it is derived from.
DerivedFrom(id, d) == d = None \/ (d \in Ids /\ d.episodes.catalog = id.episodes.catalog)

StoreTyped ==
  /\ db \in [catalog : Nat, transcripts : Nat]
  /\ DOMAIN tmp = {"episodes", "podcasts", "manifest"}
  /\ job \in {datasets!Idle} \cup Captures \cup Snapshotting \cup Pointings \cup Datasetting

\* The files a snapshot's run has written so far are of what it read, whatever
\* was in the temporary directory before.
TempIsOwn ==
  job.program = "snapshot" =>
    /\ DerivedFrom(job.tables, job.derived)
    /\ job.left # <<"episodes", "podcasts", "manifest">> => tmp.episodes = job.tables.episodes
    /\ job.left \in {<<"manifest">>, <<>>} => tmp.podcasts = job.tables.podcasts
    /\ job.left = <<>> => tmp.manifest = [id |-> job.tables, derived |-> job.derived]

\* What latest is about to name, and what a dataset is built for.
JobIsGrounded ==
  /\ job.program = "latest" => job.id \in DOMAIN snapshots
  /\ job.program \in {"build", "publish"} => job.version = datasets!VersionOf(job.manifest.snapshot)

SnapshotsAreWhole ==
  \A id \in DOMAIN snapshots : id \in Ids /\ DerivedFrom(id, snapshots[id].manifest.derived)

\* A dataset's manifest names a snapshot whose rows give the dataset's version.
DatasetsAreNamed ==
  \A v \in DOMAIN dirs :
    /\ DOMAIN dirs[v] = DatasetFiles
    /\ dirs[v]["manifest"] # None =>
         dirs[v]["manifest"].snapshot \in Ids /\ v = datasets!VersionOf(dirs[v]["manifest"].snapshot)

StoreInv == StoreTyped /\ TempIsOwn /\ JobIsGrounded /\ SnapshotsAreWhole /\ DatasetsAreNamed

LEMMA StoreInit == datasets!Init => StoreInv
  BY DEF datasets!Init, StoreInv, StoreTyped, TempIsOwn, JobIsGrounded, SnapshotsAreWhole,
         DatasetsAreNamed, datasets!Idle, datasets!NoSnapshot

LEMMA EditStep ==
  ASSUME StoreInv, datasets!Edit
  PROVE  StoreInv'
  BY DEF datasets!Edit, StoreInv, StoreTyped, TempIsOwn, JobIsGrounded, SnapshotsAreWhole,
     DatasetsAreNamed

LEMMA CaptureStep ==
  ASSUME StoreInv, datasets!Capture \/ datasets!Derive
  PROVE  StoreInv' /\ snapshots' = snapshots /\ latest' = latest
  <1>1. UNCHANGED <<db, snapshots, tmp, latest, dirs>>
    BY DEF datasets!Capture, datasets!CaptureEpisodes, datasets!CapturePodcasts, datasets!Derive
  <1>2. job' \in Captures \/ (job' \in Snapshotting /\ DerivedFrom(job'.tables, job'.derived)
                              /\ job'.left = <<"episodes", "podcasts", "manifest">>)
    <2>1. CASE datasets!CaptureEpisodes
      BY <2>1 DEF datasets!CaptureEpisodes, datasets!EpisodesNow, Captures, EpisodeTables,
         StoreInv, StoreTyped
    <2>2. CASE datasets!CapturePodcasts
      <3>1. job \in Captures
        BY <2>2 DEF datasets!CapturePodcasts, StoreInv, StoreTyped, datasets!Idle, Snapshotting,
           Pointings, Datasetting
      <3>2. [episodes |-> job.tables.episodes, podcasts |-> db.catalog] \in Ids
        BY <3>1 DEF Captures, Ids, StoreInv, StoreTyped
      <3>3. QED
        BY <2>2, <3>2 DEF datasets!CapturePodcasts, datasets!Write, Snapshotting, DerivedFrom
    <2>3. CASE datasets!Derive
      <3>1. PICK parent \in DOMAIN snapshots :
              job' = datasets!Write([episodes |-> datasets!WithTranscripts(parent.episodes),
                                     podcasts |-> parent.podcasts], parent)
        BY <2>3 DEF datasets!Derive
      <3>2. parent \in Ids /\ db.transcripts \in Nat
        BY DEF StoreInv, SnapshotsAreWhole, StoreTyped
      <3>3. /\ datasets!WithTranscripts(parent.episodes) \in EpisodeTables
            /\ datasets!WithTranscripts(parent.episodes).catalog = parent.episodes.catalog
        BY <3>2 DEF datasets!WithTranscripts, Ids, EpisodeTables
      <3> DEFINE episodes == datasets!WithTranscripts(parent.episodes)
      <3> HIDE DEF episodes
      <3>4. [episodes |-> episodes, podcasts |-> parent.podcasts] \in Ids
        BY <3>2, <3>3 DEF Ids, episodes
      <3>5. job' = datasets!Write([episodes |-> episodes, podcasts |-> parent.podcasts], parent)
        BY <3>1 DEF episodes
      <3>6. episodes.catalog = parent.episodes.catalog
        BY <3>3 DEF episodes
      <3>7. QED
        BY <3>2, <3>4, <3>5, <3>6 DEF datasets!Write, Snapshotting, DerivedFrom
    <2>4. QED
      BY <2>1, <2>2, <2>3 DEF datasets!Capture
  <1>3. StoreTyped'
    BY <1>1, <1>2 DEF StoreInv, StoreTyped
  <1>4. TempIsOwn' /\ JobIsGrounded'
    BY <1>2 DEF TempIsOwn, JobIsGrounded, Captures, Snapshotting
  <1>5. QED
    BY <1>1, <1>3, <1>4 DEF StoreInv, SnapshotsAreWhole, DatasetsAreNamed

LEMMA WriteTempStep ==
  ASSUME StoreInv, datasets!WriteTemp
  PROVE  StoreInv' /\ snapshots' = snapshots /\ latest' = latest
  <1>1. UNCHANGED <<db, snapshots, latest, dirs>>
    BY DEF datasets!WriteTemp
  <1>2. job \in Snapshotting /\ job.left # <<>>
    BY DEF datasets!WriteTemp, StoreInv, StoreTyped, datasets!Idle, Captures, Pointings, Datasetting
  <1>3. DerivedFrom(job.tables, job.derived)
    BY <1>2 DEF StoreInv, TempIsOwn, Snapshotting
  <1> DEFINE file == Head(job.left)
  <1>4. /\ job' = [job EXCEPT !.left = Tail(job.left)]
        /\ tmp' = [tmp EXCEPT ![file] = datasets!TempFile(file)]
    BY DEF datasets!WriteTemp
  <1>5. DOMAIN tmp = {"episodes", "podcasts", "manifest"} /\ DOMAIN tmp' = DOMAIN tmp
    BY <1>4 DEF StoreInv, StoreTyped
  <1> DEFINE rest == Tail(job.left)
  <1>6. CASE job.left = <<"episodes", "podcasts", "manifest">>
    <2>1. file = "episodes" /\ rest = <<"podcasts", "manifest">>
      BY <1>6
    <2>2. tmp'.episodes = job.tables.episodes
      BY <1>4, <1>5, <2>1 DEF datasets!TempFile
    <2> HIDE DEF rest
    <2>3. job' \in Snapshotting /\ job'.tables = job.tables /\ job'.derived = job.derived /\ job'.left = rest
      BY <1>2, <1>4, <2>1 DEF Snapshotting, rest
    <2>4. TempIsOwn'
      BY <1>3, <2>1, <2>2, <2>3 DEF TempIsOwn
    <2>5. QED
      BY <1>1, <1>5, <2>3, <2>4 DEF StoreInv, StoreTyped, JobIsGrounded, SnapshotsAreWhole,
         DatasetsAreNamed, Snapshotting
  <1>7. CASE job.left = <<"podcasts", "manifest">>
    <2>1. file = "podcasts" /\ rest = <<"manifest">>
      BY <1>7
    <2>2. tmp'.podcasts = job.tables.podcasts /\ tmp'.episodes = tmp.episodes
      BY <1>4, <1>5, <2>1 DEF datasets!TempFile
    <2> HIDE DEF rest
    <2>3. job' \in Snapshotting /\ job'.tables = job.tables /\ job'.derived = job.derived /\ job'.left = rest
      BY <1>2, <1>4, <2>1 DEF Snapshotting, rest
    <2>4. tmp.episodes = job.tables.episodes
      BY <1>2, <1>7 DEF StoreInv, TempIsOwn, Snapshotting
    <2>5. TempIsOwn'
      BY <1>3, <2>1, <2>2, <2>3, <2>4 DEF TempIsOwn
    <2>6. QED
      BY <1>1, <1>5, <2>3, <2>5 DEF StoreInv, StoreTyped, JobIsGrounded, SnapshotsAreWhole,
         DatasetsAreNamed, Snapshotting
  <1>8. CASE job.left = <<"manifest">>
    <2>1. file = "manifest" /\ rest = <<>>
      BY <1>8
    <2>2. /\ tmp'.podcasts = tmp.podcasts /\ tmp'.episodes = tmp.episodes
          /\ tmp'.manifest = [id |-> datasets!IdOf(tmp), derived |-> job.derived]
      BY <1>4, <1>5, <2>1 DEF datasets!TempFile, datasets!SnapshotManifest
    <2> HIDE DEF rest
    <2>3. job' \in Snapshotting /\ job'.tables = job.tables /\ job'.derived = job.derived /\ job'.left = rest
      BY <1>2, <1>4, <2>1 DEF Snapshotting, rest
    <2>4. tmp.episodes = job.tables.episodes /\ tmp.podcasts = job.tables.podcasts
      BY <1>2, <1>8 DEF StoreInv, TempIsOwn, Snapshotting
    <2>5. datasets!IdOf(tmp) = job.tables
      BY <1>2, <2>4 DEF datasets!IdOf, Snapshotting, Ids
    <2>6. TempIsOwn'
      BY <1>3, <2>1, <2>2, <2>3, <2>4, <2>5 DEF TempIsOwn
    <2>7. QED
      BY <1>1, <1>5, <2>3, <2>6 DEF StoreInv, StoreTyped, JobIsGrounded, SnapshotsAreWhole,
         DatasetsAreNamed, Snapshotting
  <1>9. QED
    BY <1>1, <1>2, <1>6, <1>7, <1>8 DEF Snapshotting

\* The step of SnapshotIsOfOneRun.
NewSnapshotsAreOwn ==
  /\ \A id \in DOMAIN snapshots' \ DOMAIN snapshots :
       /\ id = datasets!IdOf(snapshots'[id])
       /\ snapshots'[id].manifest = [id |-> id, derived |-> job.derived]
       /\ id = datasets!IdOf(job.tables)
  /\ latest' # latest => latest' \in DOMAIN snapshots

LEMMA RenameStep ==
  ASSUME StoreInv, datasets!Rename
  PROVE  StoreInv' /\ NewSnapshotsAreOwn
  <1>1. UNCHANGED <<db, latest, dirs>> /\ tmp' = datasets!NoSnapshot
    BY DEF datasets!Rename
  <1>2. job \in Snapshotting /\ job.left = <<>>
    BY DEF datasets!Rename, StoreInv, StoreTyped, datasets!Idle, Captures, Pointings, Datasetting
  <1> DEFINE id == job.tables
  <1>3. /\ tmp.episodes = id.episodes /\ tmp.podcasts = id.podcasts
        /\ tmp.manifest = [id |-> id, derived |-> job.derived]
        /\ DerivedFrom(id, job.derived) /\ id \in Ids
    BY <1>2 DEF StoreInv, TempIsOwn, Snapshotting
  <1>4. /\ snapshots' = IF id \in DOMAIN snapshots THEN snapshots ELSE datasets!Set(snapshots, id, tmp)
        /\ job' = IF job.derived # None THEN datasets!Idle ELSE [program |-> "latest", id |-> id]
    BY <1>3 DEF datasets!Rename
  <1>5. /\ DOMAIN snapshots' = DOMAIN snapshots \cup {id}
        /\ \A x \in DOMAIN snapshots : snapshots'[x] = snapshots[x]
        /\ id \notin DOMAIN snapshots => snapshots'[id] = tmp
    BY <1>4 DEF datasets!Set
  <1>6. datasets!IdOf(tmp) = id /\ datasets!IdOf(id) = id
    BY <1>3 DEF datasets!IdOf, Ids
  <1> HIDE DEF id
  <1>7. NewSnapshotsAreOwn
    BY <1>1, <1>3, <1>5, <1>6 DEF NewSnapshotsAreOwn, id
  <1>8. job' \in {datasets!Idle} \cup Pointings /\ (job'.program = "latest" => job'.id = id)
    BY <1>3, <1>4 DEF Pointings, datasets!Idle
  <1>9. StoreTyped'
    BY <1>1, <1>8 DEF StoreInv, StoreTyped, datasets!NoSnapshot
  <1>10. TempIsOwn' /\ JobIsGrounded'
    BY <1>5, <1>8 DEF TempIsOwn, JobIsGrounded, datasets!Idle, Pointings
  <1>11. SnapshotsAreWhole'
    BY <1>3, <1>5 DEF StoreInv, SnapshotsAreWhole
  <1>12. QED
    BY <1>1, <1>7, <1>9, <1>10, <1>11 DEF StoreInv, DatasetsAreNamed

LEMMA PointStep ==
  ASSUME StoreInv, datasets!Point
  PROVE  StoreInv' /\ NewSnapshotsAreOwn
  <1>1. UNCHANGED <<db, snapshots, tmp, dirs>> /\ job' = datasets!Idle /\ latest' \in DOMAIN snapshots
    BY DEF datasets!Point, StoreInv, JobIsGrounded
  <1>2. QED
    BY <1>1 DEF StoreInv, StoreTyped, TempIsOwn, JobIsGrounded, SnapshotsAreWhole, DatasetsAreNamed,
                NewSnapshotsAreOwn, datasets!Idle

LEMMA StartBuildStep ==
  ASSUME StoreInv, datasets!StartBuild
  PROVE  StoreInv' /\ snapshots' = snapshots /\ latest' = latest
  <1>1. UNCHANGED <<db, snapshots, tmp, latest, dirs>>
    BY DEF datasets!StartBuild
  <1>2. PICK id \in DOMAIN snapshots, cut \in Boundaries :
          job' = [program |-> "build", version |-> datasets!VersionOf(id), left |-> datasets!Files,
                  manifest |-> [snapshot |-> id, splits |-> cut]]
    BY DEF datasets!StartBuild
  <1>3. id \in Ids
    BY DEF StoreInv, SnapshotsAreWhole
  <1>4. datasets!VersionOf(id) \in [episodes : Nat, podcasts : Nat]
    BY <1>3 DEF datasets!VersionOf, Ids, EpisodeTables
  <1>5. datasets!Files \in Seq(DatasetFiles)
    BY DEF datasets!Files, DatasetFiles
  <1>6. job' \in Datasetting
    BY <1>2, <1>3, <1>4, <1>5 DEF Datasetting
  <1>7. QED
    BY <1>1, <1>2, <1>6
       DEF StoreInv, StoreTyped, TempIsOwn, JobIsGrounded, SnapshotsAreWhole, DatasetsAreNamed

LEMMA WriteSplitStep ==
  ASSUME StoreInv, datasets!WriteSplit
  PROVE  StoreInv' /\ snapshots' = snapshots /\ latest' = latest
  <1>1. UNCHANGED <<db, snapshots, tmp, latest>>
    BY DEF datasets!WriteSplit
  <1>2. job \in Datasetting /\ job.program = "build" /\ job.left # <<>>
    BY DEF datasets!WriteSplit, StoreInv, StoreTyped, datasets!Idle, Captures, Pointings,
       Snapshotting
  <1> DEFINE file == Head(job.left)
             v == job.version
             old == IF v \in DOMAIN dirs THEN dirs[v] ELSE datasets!NoFiles
  <1>3. dirs' = datasets!Set(dirs, v, [old EXCEPT ![file] = datasets!Written(file)])
    BY DEF datasets!WriteSplit
  <1>4. job' = [job EXCEPT !.left = Tail(@)]
    BY DEF datasets!WriteSplit
  <1>5. Tail(job.left) \in Seq(DatasetFiles)
    BY <1>2 DEF Datasetting
  <1>6. job' \in Datasetting /\ job'.version = v /\ job'.manifest = job.manifest
    BY <1>2, <1>4, <1>5 DEF Datasetting
  <1>7. /\ DOMAIN old = DatasetFiles
        /\ old["manifest"] # None =>
             old["manifest"].snapshot \in Ids /\ v = datasets!VersionOf(old["manifest"].snapshot)
    BY DEF StoreInv, DatasetsAreNamed, datasets!NoFiles, DatasetFiles
  <1>8. job.manifest.snapshot \in Ids /\ v = datasets!VersionOf(job.manifest.snapshot)
    BY <1>2 DEF StoreInv, JobIsGrounded, Datasetting
  <1> DEFINE new == [old EXCEPT ![file] = datasets!Written(file)]
  <1>9. /\ DOMAIN new = DatasetFiles
        /\ new["manifest"] # None =>
             new["manifest"].snapshot \in Ids /\ v = datasets!VersionOf(new["manifest"].snapshot)
    <2> HIDE DEF old, file, v
    <2>1. file = "manifest" => datasets!Written(file) = job.manifest
      BY DEF datasets!Written
    <2>2. QED
      BY <1>7, <1>8, <2>1 DEF DatasetFiles
  <1> HIDE DEF new, old, file, v
  <1>10. DOMAIN dirs' = DOMAIN dirs \cup {v} /\ \A x \in DOMAIN dirs' : dirs'[x] = IF x = v THEN new ELSE dirs[x]
    BY <1>3 DEF datasets!Set, new
  <1>11. DatasetsAreNamed'
    <2> SUFFICES ASSUME NEW x \in DOMAIN dirs', NEW d, d = dirs'[x]
                 PROVE  /\ DOMAIN d = DatasetFiles
                        /\ d["manifest"] # None =>
                             d["manifest"].snapshot \in Ids /\ x = datasets!VersionOf(d["manifest"].snapshot)
      BY DEF DatasetsAreNamed, datasets!VersionOf
    <2>1. CASE x = v
      BY <1>9, <1>10, <2>1
    <2>2. CASE x # v
      BY <1>10, <2>2 DEF StoreInv, DatasetsAreNamed
    <2>3. QED
      BY <2>1, <2>2
  <1>12. StoreTyped' /\ TempIsOwn'
    BY <1>1, <1>6 DEF StoreInv, StoreTyped, TempIsOwn, Datasetting
  <1>13. JobIsGrounded'
    BY <1>6, <1>8 DEF JobIsGrounded, Datasetting, v
  <1>14. QED
    BY <1>1, <1>11, <1>12, <1>13 DEF StoreInv, SnapshotsAreWhole

\* Uploads, ends and kills leave the directories alone.
LEMMA OtherSteps ==
  ASSUME StoreInv,
         datasets!Publish \/ datasets!Upload \/ datasets!End \/ datasets!Kill \/ UNCHANGED datasets!vars
  PROVE  StoreInv' /\ snapshots' = snapshots /\ latest' = latest
  <1>1. UNCHANGED <<db, snapshots, tmp, latest, dirs>>
    BY DEF datasets!Publish, datasets!Upload, datasets!End, datasets!Kill, datasets!vars
  <1>2. \/ job' \in {datasets!Idle, job}
        \/ /\ job \in Datasetting
           /\ job' \in Datasetting /\ job'.version = job.version /\ job'.manifest = job.manifest
    <2>1. CASE datasets!Publish \/ datasets!Upload
      <3>1. job \in Datasetting
        BY <2>1 DEF datasets!Publish, datasets!Upload, StoreInv, StoreTyped, datasets!Idle,
           Captures,
                    Pointings, Snapshotting
      <3>2. datasets!UploadOrder \in Seq(DatasetFiles)
        BY DEF datasets!UploadOrder, datasets!Files, DatasetFiles
      <3>3. job.left # <<>> => Tail(job.left) \in Seq(DatasetFiles)
        BY <3>1 DEF Datasetting
      <3>4. CASE datasets!Publish
        <4>1. job' \in {datasets!Idle, [job EXCEPT !.program = "publish", !.left = datasets!UploadOrder]}
          BY <3>4 DEF datasets!Publish
        <4>2. QED
          BY <3>1, <3>2, <4>1 DEF Datasetting
      <3>5. CASE datasets!Upload
        <4>1. job' = [job EXCEPT !.left = Tail(job.left)] /\ job.left # <<>>
          BY <3>5 DEF datasets!Upload
        <4>2. QED
          BY <3>1, <3>3, <4>1 DEF Datasetting
      <3>6. QED
        BY <2>1, <3>4, <3>5
    <2>2. CASE datasets!End \/ datasets!Kill \/ UNCHANGED datasets!vars
      BY <2>2 DEF datasets!End, datasets!Kill, datasets!vars
    <2>3. QED
      BY <2>1, <2>2
  <1>3. StoreTyped' /\ TempIsOwn'
    BY <1>1, <1>2 DEF StoreInv, StoreTyped, TempIsOwn, Datasetting, datasets!Idle
  <1>4. JobIsGrounded'
    BY <1>1, <1>2 DEF StoreInv, JobIsGrounded, Datasetting, datasets!Idle
  <1>5. QED
    BY <1>1, <1>3, <1>4 DEF StoreInv, SnapshotsAreWhole, DatasetsAreNamed

LEMMA StoreStep == StoreInv /\ [datasets!Next]_(datasets!vars) => StoreInv' /\ NewSnapshotsAreOwn
  <1>1. snapshots' = snapshots /\ latest' = latest => NewSnapshotsAreOwn
    BY DEF NewSnapshotsAreOwn
  <1>2. datasets!Edit => snapshots' = snapshots /\ latest' = latest
    BY DEF datasets!Edit
  <1>3. QED
    BY <1>1, <1>2, EditStep, CaptureStep, WriteTempStep, RenameStep, PointStep, StartBuildStep,
       WriteSplitStep, OtherSteps
       DEF datasets!Next, datasets!TakeSnapshot, datasets!Build

LEMMA StoreInvariance == Spec => []StoreInv
  BY DatasetBehaviour, StoreInit, StoreStep, PTL DEF datasets!Spec

\* snapshot.py: a new snapshot is what its own run read, under the id of just
\* that, whatever killed runs have left in the directory all of them share, and
\* latest moves to a snapshot that is there.
THEOREM SnapshotsAreOwn == Spec => SnapshotIsOfOneRun
  <1>1. StoreInv /\ [datasets!Next]_(datasets!vars) =>
          [/\ \A id \in DOMAIN snapshots' \ DOMAIN snapshots :
                 /\ id = datasets!IdOf(snapshots'[id]) /\ snapshots'[id].manifest = [id |-> id, derived |-> job.derived]
                 /\ id = datasets!IdOf(job.tables)
           /\ latest' # latest => latest' \in DOMAIN snapshots]_(datasets!vars)
    BY StoreStep DEF NewSnapshotsAreOwn
  <1>2. QED
    BY DatasetBehaviour, StoreInvariance, <1>1, PTL
       DEF datasets!Spec, datasets!SnapshotIsOfOneRun, SnapshotIsOfOneRun

\* training's compatibility check (a dataset with its snapshot, or with one
\* derived from it) never lets a positive through that the snapshot lacks.
THEOREM TrainingIsReadable == Spec => []CompatibleIsReadable
  <1>1. StoreInv => datasets!CompatibleIsReadable
    <2> SUFFICES ASSUME StoreInv, NEW v \in DOMAIN dirs, NEW id \in DOMAIN snapshots, datasets!Trains(id, v)
                 PROVE  datasets!PositivesAreThere(id, v)
      BY DEF datasets!CompatibleIsReadable
    <2> DEFINE made == dirs[v]["manifest"].snapshot
    <2>1. made \in Ids /\ v = datasets!VersionOf(made)
      BY DEF StoreInv, DatasetsAreNamed, datasets!Trains
    <2>2. made # None
      BY <2>1, DataAssumption DEF Ids, EpisodeTables, datasets!DatasetAssumption
    <2>3. made = id \/ made = snapshots[id].manifest.derived
      BY DEF datasets!Trains, datasets!Compatible
    <2>4. made.episodes.catalog = id.episodes.catalog
      BY <2>2, <2>3 DEF StoreInv, SnapshotsAreWhole, DerivedFrom
    <2>5. QED
      BY <2>1, <2>4 DEF datasets!PositivesAreThere, datasets!VersionOf
  <1>2. QED
    BY StoreInvariance, <1>1, PTL DEF CompatibleIsReadable

-----------------------------------------------------------------------------
(* The training examples (TrainingExamples).                               *)

LEMMA ExamplesBehaviour == Spec => examples!Spec
  <1>1. Init => examples!Init
    BY DEF Init
  <1>2. [Next]_vars => [examples!Next]_(examples!vars)
    BY DEF Next, vars, exampleVars, examples!vars
  <1>3. QED
    BY <1>1, <1>2, PTL DEF Spec, examples!Spec

LEMMA LeastOf ==
  ASSUME NEW S \in SUBSET Nat, S # {}
  PROVE  examples!Min(S) \in S
  <1>1. PICK x \in S : \A y \in S : ~(<<y, x>> \in OpToRel(<, Nat))
    BY NatLessThanWellFounded, WFMin
  <1>2. \A y \in S : ~(y < x)
    BY <1>1 DEF OpToRel
  <1>3. \E z \in S : \A y \in S : z <= y
    BY <1>2
  <1>4. QED
    BY <1>3 DEF examples!Min

LEMMA Drawing ==
  ASSUME NEW n, NEW S, NEW T \in examples!Take(n, S)
  PROVE  T \subseteq S
  BY DEF examples!Take

\* No query file has two rows of an episode, and what is left to a run has none.
RowsAreUnique ==
  /\ llm \in [Snapshot -> {0, 1}]
  /\ stage = "llm" =>
       /\ run \in [picked : SUBSET Snapshot, pending : SUBSET Snapshot]
       /\ \A e \in run.pending : llm[e] = 0
       /\ names = {}
  /\ \A q \in names, r \in names : q.episode = r.episode => q = r
  /\ stage = "name" =>
       /\ run \in [pending : SUBSET Shows]
       /\ \A q \in names : ShowOf[q.episode] \notin run.pending
  /\ stage # "refused"

\* There is no row before the build, whose topics are of episodes of the category.
BuildIsGrounded ==
  /\ stage \in {"llm", "name", "mine"} => last = None
  /\ stage = "build" =>
       /\ DOMAIN run = {"pending"}
       /\ \A t \in run.pending : t[1] = "topic" => ShowOf[t[2]] \in Category
  /\ examples!NegativesAreForeign

ExamplesInv == RowsAreUnique /\ BuildIsGrounded

LEMMA ExamplesInit == examples!Init => ExamplesInv
  <1> SUFFICES ASSUME examples!Init PROVE ExamplesInv
    OBVIOUS
  <1>1. PICK S \in examples!Samples : run = [picked |-> S, pending |-> S]
    BY DEF examples!Init
  <1>2. S \subseteq Snapshot
    BY Drawing DEF examples!Samples
  <1>3. /\ llm = [e \in Snapshot |-> 0] /\ names = {} /\ stage = "llm" /\ last = None
    BY DEF examples!Init
  <1>4. QED
    BY <1>1, <1>2, <1>3 DEF ExamplesInv, RowsAreUnique, BuildIsGrounded, examples!NegativesAreForeign

\* Rows for episodes that have none.
LEMMA AppendedOnce ==
  ASSUME llm \in [Snapshot -> {0, 1}], NEW batch \in SUBSET Snapshot, NEW reply,
         \A e \in batch : llm[e] = 0,
         examples!AppendRows(examples!Accept(reply, batch))
  PROVE  /\ llm' \in [Snapshot -> {0, 1}]
         /\ \A e \in Snapshot : e \notin batch => llm'[e] = llm[e]
  <1> DEFINE rows == examples!Accept(reply, batch)
  <1>1. /\ \A e \in Snapshot : rows[e] \in {0, 1}
        /\ \A e \in Snapshot : e \notin batch => rows[e] = 0
    BY DEF examples!Accept
  <1>2. llm' = [e \in Snapshot |-> llm[e] + rows[e]]
    BY DEF examples!AppendRows
  <1> HIDE DEF rows
  <1>3. \A e \in Snapshot : llm'[e] \in {0, 1} /\ (e \notin batch => llm'[e] = llm[e])
    <2> SUFFICES ASSUME NEW e \in Snapshot
                 PROVE  llm'[e] \in {0, 1} /\ (e \notin batch => llm'[e] = llm[e])
      OBVIOUS
    <2>1. llm'[e] = llm[e] + rows[e] /\ llm[e] \in {0, 1}
      BY <1>2
    <2>2. CASE e \in batch
      BY <1>1, <2>1, <2>2
    <2>3. CASE e \notin batch
      BY <1>1, <2>1, <2>3
    <2>4. QED
      BY <2>2, <2>3
  <1>4. QED
    BY <1>2, <1>3

LEMMA GenerateStep ==
  ASSUME ExamplesInv, examples!Generate
  PROVE  ExamplesInv'
  <1>1. stage = "llm" /\ names' = names /\ last' = last /\ names = {} /\ last = None
    BY DEF examples!Generate, examples!LLMBatch, examples!LLMKilled, examples!LLMAgain,
       examples!LLMEnds, ExamplesInv, RowsAreUnique, BuildIsGrounded
  <1>2. /\ run \in [picked : SUBSET Snapshot, pending : SUBSET Snapshot]
        /\ llm \in [Snapshot -> {0, 1}] /\ \A e \in run.pending : llm[e] = 0
    BY <1>1 DEF ExamplesInv, RowsAreUnique
  <1>3. CASE examples!LLMBatch \/ examples!LLMKilled \/ examples!LLMAgain
    <2>1. /\ llm' \in [Snapshot -> {0, 1}] /\ stage' = "llm"
          /\ run' \in [picked : SUBSET Snapshot, pending : SUBSET Snapshot]
          /\ \A e \in run'.pending : llm'[e] = 0
      <3>1. CASE examples!LLMBatch
        <4> DEFINE batch == examples!Smallest(BatchSize, run.pending)
        <4>1. batch \subseteq run.pending
          BY DEF examples!Smallest
        <4>2. /\ llm' = llm \/ \E reply \in examples!Replies :
                                 examples!AppendRows(examples!Accept(reply, batch))
              /\ run' = [run EXCEPT !.pending = run.pending \ batch] /\ stage' = stage
          BY <3>1 DEF examples!LLMBatch
        <4> HIDE DEF batch
        <4>3. /\ llm' \in [Snapshot -> {0, 1}]
              /\ \A e \in Snapshot : e \notin batch => llm'[e] = llm[e]
          BY <1>2, <4>1, <4>2, AppendedOnce
        <4>4. run'.pending = run.pending \ batch /\ run' \in [picked : SUBSET Snapshot, pending : SUBSET Snapshot]
          BY <1>2, <4>2
        <4>5. QED
          BY <1>1, <1>2, <4>2, <4>3, <4>4
      <3>2. CASE examples!LLMKilled
        <4>1. PICK flushed \in SUBSET examples!Smallest(BatchSize, run.pending), reply \in examples!Replies :
                examples!AppendRows(examples!Accept(reply, flushed))
          BY <3>2 DEF examples!LLMKilled
        <4>2. flushed \in SUBSET run.pending
          BY DEF examples!Smallest
        <4>3. llm' \in [Snapshot -> {0, 1}]
          BY <1>2, <4>1, <4>2, AppendedOnce
        <4>4. run' = [run EXCEPT !.pending = {}] /\ stage' = stage
          BY <3>2 DEF examples!LLMKilled
        <4>5. QED
          BY <1>1, <1>2, <4>3, <4>4
      <3>3. CASE examples!LLMAgain
        <4>1. /\ run' = [run EXCEPT !.pending = run.picked \ examples!Answered]
              /\ llm' = llm /\ stage' = stage
          BY <3>3 DEF examples!LLMAgain
        <4>2. \A e \in Snapshot : e \notin examples!Answered => llm[e] = 0
          BY <1>2 DEF examples!Answered
        <4>3. QED
          BY <1>1, <1>2, <4>1, <4>2
      <3>4. QED
        BY <1>3, <3>1, <3>2, <3>3
    <2>2. QED
      BY <1>1, <2>1 DEF ExamplesInv, RowsAreUnique, BuildIsGrounded, examples!NegativesAreForeign
  <1>4. CASE examples!LLMEnds
    <2>1. llm' = llm /\ stage' = "name" /\ run' = [pending |-> Shows]
      BY <1>4 DEF examples!LLMEnds
    <2>2. QED
      BY <1>1, <1>2, <2>1 DEF ExamplesInv, RowsAreUnique, BuildIsGrounded, examples!NegativesAreForeign
  <1>5. QED
    BY <1>3, <1>4 DEF examples!Generate

\* The rows of one show are of its episodes, each of which gets one.
LEMMA NameShowStep ==
  ASSUME ExamplesInv, examples!NameShow
  PROVE  ExamplesInv'
  <1>1. /\ stage = "name" /\ run \in [pending : SUBSET Shows] /\ run.pending # {}
        /\ \A q \in names : ShowOf[q.episode] \notin run.pending
        /\ \A q \in names, r \in names : q.episode = r.episode => q = r
        /\ UNCHANGED <<llm, stage, last>> /\ last = None
    BY DEF ExamplesInv, RowsAreUnique, BuildIsGrounded, examples!NameShow
  <1> DEFINE s == examples!Min(run.pending)
  <1>2. s \in run.pending
    BY <1>1, LeastOf, DataAssumption DEF examples!ExamplesAssumption
  <1>3. run' = [run EXCEPT !.pending = run.pending \ {s}]
    BY DEF examples!NameShow
  <1>4. /\ \A q \in names' : q \in names \/ ShowOf[q.episode] = s
        /\ \A q \in names', r \in names' : q.episode = r.episode => q = r
    <2>1. CASE names' = names
      BY <1>1, <2>1
    <2>2. CASE \E byTitle \in SUBSET examples!PoolOfShow(s, {}) :
               \E byPublisher \in SUBSET examples!PoolOfShow(s, byTitle) :
                 names' = names \cup {examples!NameRow(e, Title[s], Title) : e \in byTitle}
                                \cup {examples!NameRow(e, Publisher[s], Publisher) : e \in byPublisher}
      <3>0. PICK byTitle \in SUBSET examples!PoolOfShow(s, {}) :
               \E byPublisher \in SUBSET examples!PoolOfShow(s, byTitle) :
                 names' = names \cup {examples!NameRow(e, Title[s], Title) : e \in byTitle}
                                \cup {examples!NameRow(e, Publisher[s], Publisher) : e \in byPublisher}
        BY <2>2
      <3>1. PICK byPublisher \in SUBSET examples!PoolOfShow(s, byTitle) :
                 names' = names \cup {examples!NameRow(e, Title[s], Title) : e \in byTitle}
                                \cup {examples!NameRow(e, Publisher[s], Publisher) : e \in byPublisher}
        BY <3>0
      <3> DEFINE T == {examples!NameRow(e, Title[s], Title) : e \in byTitle}
                 P == {examples!NameRow(e, Publisher[s], Publisher) : e \in byPublisher}
      <3>2. /\ \A e \in byTitle : ShowOf[e] = s
            /\ \A e \in byPublisher : ShowOf[e] = s /\ e \notin byTitle
        BY DEF examples!PoolOfShow
      <3>3. /\ \A q \in T : q.episode \in byTitle
            /\ \A q \in T, r \in T : q.episode = r.episode => q = r
        BY DEF examples!NameRow
      <3>4. /\ \A q \in P : q.episode \in byPublisher
            /\ \A q \in P, r \in P : q.episode = r.episode => q = r
        BY DEF examples!NameRow
      <3>5. names' = names \cup T \cup P
        BY <3>1
      <3> HIDE DEF T, P, s
      <3>6. \A q \in names : ShowOf[q.episode] # s
        BY <1>1, <1>2
      <3>7. QED
        BY <1>1, <3>2, <3>3, <3>4, <3>5, <3>6
    <2>3. CASE \E byTitle \in (IF Title[s] = "" THEN {{}} ELSE examples!Take(PerShow, examples!PoolOfShow(s, {}))) :
               \E byPublisher \in (IF Publisher[s] \in {"", Title[s]} THEN {{}}
                                   ELSE examples!Take(PerPublisher, examples!PoolOfShow(s, byTitle))) :
                 names' = names \cup {examples!NameRow(e, Title[s], Title) : e \in byTitle}
                                \cup {examples!NameRow(e, Publisher[s], Publisher) : e \in byPublisher}
      <3>1. PICK byTitle \in (IF Title[s] = "" THEN {{}} ELSE examples!Take(PerShow, examples!PoolOfShow(s, {}))) :
              \E byPublisher \in (IF Publisher[s] \in {"", Title[s]} THEN {{}}
                                  ELSE examples!Take(PerPublisher, examples!PoolOfShow(s, byTitle))) :
                names' = names \cup {examples!NameRow(e, Title[s], Title) : e \in byTitle}
                               \cup {examples!NameRow(e, Publisher[s], Publisher) : e \in byPublisher}
        BY <2>3
      <3>2. PICK byPublisher \in (IF Publisher[s] \in {"", Title[s]} THEN {{}}
                                  ELSE examples!Take(PerPublisher, examples!PoolOfShow(s, byTitle))) :
                names' = names \cup {examples!NameRow(e, Title[s], Title) : e \in byTitle}
                               \cup {examples!NameRow(e, Publisher[s], Publisher) : e \in byPublisher}
        BY <3>1
      <3> HIDE DEF s
      <3>3. byTitle \subseteq examples!PoolOfShow(s, {})
        BY Drawing
      <3>4. byPublisher \subseteq examples!PoolOfShow(s, byTitle)
        BY Drawing
      <3>5. QED
        BY <2>2, <3>2, <3>3, <3>4
    <2>4. QED
      BY <2>1, <2>2, <2>3 DEF examples!NameShow
  <1> HIDE DEF s
  <1>5. run' \in [pending : SUBSET Shows] /\ run'.pending = run.pending \ {s}
    BY <1>1, <1>3
  <1>6. \A q \in names' : ShowOf[q.episode] \notin run'.pending
    BY <1>1, <1>4, <1>5
  <1>7. QED
    BY <1>1, <1>4, <1>5, <1>6
       DEF ExamplesInv, RowsAreUnique, BuildIsGrounded, examples!NegativesAreForeign

LEMMA MineStep ==
  ASSUME ExamplesInv, examples!NamesEnd \/ examples!Mine \/ examples!Arrive
  PROVE  ExamplesInv'
  <1>1. UNCHANGED <<llm, names, last>> /\ last = None
    BY DEF examples!NamesEnd, examples!Mine, examples!MineQuery, examples!MineKilled,
       examples!MineEnds, examples!Arrive, ExamplesInv, BuildIsGrounded
  <1>2. \/ stage' = "mine"
        \/ stage' = "build" /\ run' = [pending |-> examples!Tasks]
    BY DEF examples!NamesEnd, examples!Mine, examples!MineQuery, examples!MineKilled,
       examples!MineEnds, examples!Arrive
  <1>3. \A t \in examples!Tasks : t[1] = "topic" => ShowOf[t[2]] \in Category
    BY DEF examples!Tasks
  <1>4. RowsAreUnique'
    BY <1>1, <1>2 DEF ExamplesInv, RowsAreUnique
  <1>5. BuildIsGrounded'
    BY <1>1, <1>2, <1>3 DEF BuildIsGrounded, examples!NegativesAreForeign
  <1>6. QED
    BY <1>4, <1>5 DEF ExamplesInv

\* What a query's negatives are drawn from, whichever way they are made up.
LEMMA QueryRows ==
  ASSUME NEW e, NEW candidates, NEW shows, NEW N \in examples!QueryNegatives(e, candidates, shows)
  PROVE  \A n \in N : n # e /\ n \in examples!Allowed(shows)
  <1> DEFINE allowed == examples!Allowed(shows)
  <1>1. PICK chosen \in examples!Chosen(e, candidates, shows) : N \in examples!FilledUp(e, chosen, shows)
    BY DEF examples!QueryNegatives
  <1>2. \A n \in chosen : n # e /\ n \in allowed
    <2>1. PICK hard \in examples!Take(Hard, (candidates \ {e}) \cap allowed) :
            chosen \in {hard \cup popular : popular \in examples!PopularNegatives(e, hard, shows)}
      BY <1>1 DEF examples!Chosen
    <2>2. PICK popular \in examples!PopularNegatives(e, hard, shows) : chosen = hard \cup popular
      BY <2>1
    <2>3. hard \subseteq (candidates \ {e}) \cap allowed
      BY Drawing
    <2>4. PICK T \in examples!PopularUnfiltered(e, hard, shows) : popular = T \cap allowed
      BY DEF examples!PopularNegatives
    <2>5. PICK n \in 0..Popular : T \in examples!SampleNegatives(n, {e} \cup hard)
      BY DEF examples!PopularUnfiltered
    <2>6. T \subseteq Snapshot \ ({e} \cup hard)
      BY <2>5, Drawing DEF examples!SampleNegatives
    <2> HIDE DEF allowed
    <2>7. QED
      BY <2>2, <2>3, <2>4, <2>6
  <1> DEFINE wanted == Negatives - examples!Cardinality(chosen)
             drawn == examples!SampleNegatives(examples!Drawn(wanted, shows), {e} \cup chosen)
  <1>3. \/ N \in examples!Take(Negatives, chosen)
        \/ N \in UNION {{chosen \cup cut : cut \in examples!Take(wanted, T \cap allowed)} : T \in drawn}
    BY <1>1, Zenon DEF examples!FilledUp
  <1>4. \A T \in drawn : T \subseteq Snapshot \ ({e} \cup chosen)
    BY Drawing DEF examples!SampleNegatives
  <1> HIDE DEF allowed, wanted, drawn
  <1>5. CASE N \in examples!Take(Negatives, chosen)
    <2>1. N \subseteq chosen
      BY <1>5, Drawing
    <2>2. QED
      BY <1>2, <2>1 DEF allowed
  <1>6. CASE N \in UNION {{chosen \cup cut : cut \in examples!Take(wanted, T \cap allowed)} : T \in drawn}
    <2>1. PICK T \in drawn : N \in {chosen \cup cut : cut \in examples!Take(wanted, T \cap allowed)}
      BY <1>6
    <2>2. PICK cut \in examples!Take(wanted, T \cap allowed) : N = chosen \cup cut
      BY <2>1
    <2>3. cut \subseteq T \cap allowed
      BY Drawing
    <2>4. QED
      BY <1>2, <1>4, <2>2, <2>3 DEF allowed
  <1>7. QED
    BY <1>3, <1>5, <1>6

LEMMA RowsAreForeign ==
  ASSUME NEW task, task[1] = "topic" => ShowOf[task[2]] \in Category,
         task[2] \in Snapshot, NEW N \in examples!Generators(task)
  PROVE  \A e \in N \cap Snapshot :
           e # task[2] /\ ShowOf[e] \notin (IF task[1] = "topic" THEN Category ELSE examples!Named(task))
  <1>1. CASE task[1] = "syn"
    <2>1. N \in examples!SampleNegatives(Negatives, {task[2]})
      BY <1>1 DEF examples!Generators, examples!Synthetic
    <2>2. N \subseteq Snapshot \ {task[2]}
      BY <2>1, Drawing DEF examples!SampleNegatives
    <2>3. examples!Named(task) = {}
      BY <1>1 DEF examples!Named
    <2>4. QED
      BY <1>1, <2>2, <2>3
  <1>2. CASE task[1] = "topic"
    <2>1. N \in examples!SampleNegatives(Negatives, {c \in Snapshot : ShowOf[c] \in Category})
      BY <1>2 DEF examples!Generators, examples!Topic
    <2>2. N \subseteq Snapshot \ {c \in Snapshot : ShowOf[c] \in Category}
      BY <2>1, Drawing DEF examples!SampleNegatives
    <2>3. QED
      BY <1>2, <2>2
  <1>3. CASE task[1] \notin {"syn", "topic"}
    <2>1. PICK candidates : N \in examples!QueryNegatives(task[2], candidates, examples!Named(task))
      BY <1>3 DEF examples!Generators
    <2>2. \A n \in N : n # task[2] /\ n \in examples!Allowed(examples!Named(task))
      BY <2>1, QueryRows
    <2>3. QED
      BY <1>3, <2>2 DEF examples!Allowed
  <1>4. QED
    BY <1>1, <1>2, <1>3

LEMMA BuildStep ==
  ASSUME ExamplesInv, examples!Build
  PROVE  ExamplesInv'
  <1>1. stage = "build" /\ UNCHANGED <<llm, names>>
    BY DEF examples!Build, examples!BuildRow, examples!Validate
  <1>2. CASE examples!BuildRow
    <2> DEFINE task == CHOOSE t \in run.pending : TRUE
    <2>1. /\ run.pending # {} /\ stage' = stage
          /\ run' = [run EXCEPT !.pending = run.pending \ {task}]
          /\ \/ last' = last
             \/ /\ task[2] \in Snapshot
                /\ \E N \in examples!Generators(task) : last' = [task |-> task, negatives |-> N]
      BY <1>2 DEF examples!BuildRow
    <2>2. task \in run.pending
      BY <2>1
    <2> HIDE DEF task
    <2>3. task[1] = "topic" => ShowOf[task[2]] \in Category
      BY <1>1, <2>2 DEF ExamplesInv, BuildIsGrounded
    <2>4. DOMAIN run' = {"pending"} /\ run'.pending \subseteq run.pending
      BY <1>1, <2>1 DEF ExamplesInv, BuildIsGrounded
    <2>5. examples!NegativesAreForeign'
      <3>1. CASE last' = last
        BY <1>1, <3>1 DEF ExamplesInv, BuildIsGrounded, examples!NegativesAreForeign, examples!Named
      <3>2. CASE task[2] \in Snapshot /\ \E N \in examples!Generators(task) :
                   last' = [task |-> task, negatives |-> N]
        <4>1. PICK N \in examples!Generators(task) : last' = [task |-> task, negatives |-> N]
          BY <3>2
        <4>2. \A e \in N \cap Snapshot :
                e # task[2] /\ ShowOf[e] \notin (IF task[1] = "topic" THEN Category ELSE examples!Named(task))
          BY <2>3, <3>2, RowsAreForeign
        <4>3. \A t : examples!Named(t)' = examples!Named(t)
          BY <1>1 DEF examples!Named
        <4>4. last'.task = task /\ last'.negatives = N
          BY <4>1
        <4>5. QED
          BY <4>2, <4>3, <4>4 DEF examples!NegativesAreForeign
      <3>3. QED
        BY <2>1, <3>1, <3>2
    <2>6. RowsAreUnique'
      BY <1>1, <2>1 DEF ExamplesInv, RowsAreUnique
    <2>7. BuildIsGrounded'
      BY <1>1, <2>1, <2>4, <2>5 DEF ExamplesInv, BuildIsGrounded
    <2>8. QED
      BY <2>6, <2>7 DEF ExamplesInv
  <1>3. CASE examples!Validate
    <2>1. examples!Valid
      BY DEF examples!Valid, ExamplesInv, RowsAreUnique
    <2>2. stage' = "built" /\ UNCHANGED <<run, last>>
      BY <1>3, <2>1 DEF examples!Validate
    <2>3. QED
      BY <1>1, <2>2 DEF ExamplesInv, RowsAreUnique, BuildIsGrounded, examples!NegativesAreForeign,
         examples!Named
  <1>4. QED
    BY <1>2, <1>3 DEF examples!Build

LEMMA ExamplesStep == ExamplesInv /\ [examples!Next]_(examples!vars) => ExamplesInv'
  <1> SUFFICES ASSUME ExamplesInv, [examples!Next]_(examples!vars) PROVE ExamplesInv'
    OBVIOUS
  <1>1. CASE UNCHANGED examples!vars
    <2>1. RowsAreUnique'
      BY <1>1 DEF examples!vars, ExamplesInv, RowsAreUnique
    <2>2. examples!NegativesAreForeign' <=> examples!NegativesAreForeign
      BY <1>1 DEF examples!vars, examples!NegativesAreForeign, examples!Named
    <2>3. BuildIsGrounded'
      BY <1>1, <2>2 DEF examples!vars, ExamplesInv, BuildIsGrounded
    <2>4. QED
      BY <2>1, <2>3 DEF ExamplesInv
  <1>2. QED
    BY <1>1, GenerateStep, NameShowStep, MineStep, BuildStep
       DEF examples!Next, examples!NameQueries, examples!Done

\* llm_queries.py, name_queries.py and validate.py: no run, killed or not, writes two
\* queries for one episode, so that what was built passes the validation of its ids.
THEOREM NothingIsRefused == Spec => []ValidationPasses
  <1>1. ExamplesInv => ValidationPasses
    BY DEF ExamplesInv, RowsAreUnique, ValidationPasses, examples!ValidationPasses
  <1>2. QED
    BY ExamplesBehaviour, ExamplesInit, ExamplesStep, <1>1, PTL DEF examples!Spec

\* build.py: no negative of a row is its positive or of a show that its query names,
\* whatever the model answered, the miner found and the generators drew.
THEOREM NegativesStayForeign == Spec => []NegativesAreForeign
  <1>1. ExamplesInv => NegativesAreForeign
    BY DEF ExamplesInv, BuildIsGrounded, NegativesAreForeign
  <1>2. QED
    BY ExamplesBehaviour, ExamplesInit, ExamplesStep, <1>1, PTL DEF examples!Spec

-----------------------------------------------------------------------------
(* The speech test set (SpeechTestset).                                    *)

LEMMA SpeechBehaviour == Spec => speech!Spec
  <1>1. Init => speech!Init
    BY DEF Init
  <1>2. [Next]_vars => [speech!Next]_(speech!vars)
    BY DEF Next, vars, speechVars, speech!vars
  <1>3. QED
    BY <1>1, <1>2, PTL DEF Spec, speech!Spec

PathsOf(s) ==
  CASE s = "references" -> speech!References
    [] s = "clips" -> speech!Rows
    [] s = "derived" -> speech!Derived
    [] OTHER -> {}

\* What one undisturbed build puts at a path.
Whole(path) == IF path[1] = "reference" THEN speech!Reference(path) ELSE speech!Made(path)

NoCuts == \A path \in DOMAIN files : files[path].is # "cut"

\* What is left to write is of the stage and not there; what the earlier stages were
\* to make is there, and can be read where the next one reads it.
StagesAreOrdered ==
  /\ subset \subseteq Spoken /\ conversational \subseteq Spoken
  /\ building \in {"idle", "references", "clips", "derived"}
  /\ todo \subseteq PathsOf(building) /\ todo \cap DOMAIN files = {}
  /\ building = "references" => speech!References \subseteq DOMAIN files \cup todo
  /\ building \in {"clips", "derived"} => speech!References \subseteq DOMAIN files
  /\ building = "derived" => speech!AllReadable({speech!Base(q) : q \in Spoken})
  /\ manifest => speech!AllReadable(speech!Rows \cup speech!Derived)

\* Every file is empty or as one undisturbed build makes it, as long as none is cut.
FilesAreWhole ==
  NoCuts => \A path \in DOMAIN files : files[path] \in {speech!Empty, Whole(path)}

SpeechInv == StagesAreOrdered /\ FilesAreWhole

LEMMA SpeechInit == speech!Init => SpeechInv
  <1> SUFFICES ASSUME speech!Init PROVE SpeechInv
    OBVIOUS
  <1>1. subset \subseteq Spoken /\ conversational \subseteq Spoken
    BY DEF speech!Init, speech!Samples, speech!English
  <1>2. /\ files = <<>> /\ manifest = FALSE /\ building = "idle" /\ todo = {}
    BY DEF speech!Init
  <1>3. DOMAIN files = {}
    BY <1>2
  <1>4. QED
    BY <1>1, <1>2, <1>3 DEF SpeechInv, StagesAreOrdered, FilesAreWhole

\* What a path is made to be does not change.
LEMMA SamePaths ==
  ASSUME UNCHANGED <<synthesizer, subset, conversational>>
  PROVE  /\ speech!References' = speech!References /\ speech!Rows' = speech!Rows
         /\ speech!Derived' = speech!Derived
         /\ \A path : Whole(path)' = Whole(path)
         /\ \A s : PathsOf(s)' = PathsOf(s)
  <1>1. /\ speech!References' = speech!References /\ speech!Rows' = speech!Rows
        /\ speech!Derived' = speech!Derived
    BY DEF speech!References, speech!Rows, speech!Derived
  <1>2. \A path : speech!Made(path)' = speech!Made(path)
    BY DEF speech!Made, speech!MadeClip, speech!Base, speech!Clip
  <1>3. QED
    BY <1>1, <1>2 DEF Whole, PathsOf, speech!Reference

\* What is written where nothing was, and leaves the rest.
LEMMA Written ==
  ASSUME NEW path, path \notin DOMAIN files, NEW content, speech!Put(path, content)
  PROVE  /\ DOMAIN files' = DOMAIN files \cup {path} /\ files'[path] = content
         /\ \A p \in DOMAIN files : files'[p] = files[p]
  BY DEF speech!Put

LEMMA StayReadable ==
  ASSUME NEW paths, speech!AllReadable(paths),
         \A p \in DOMAIN files : files[p] # speech!Empty => p \in DOMAIN files' /\ files'[p] = files[p]
  PROVE  speech!AllReadable(paths)'
  BY DEF speech!AllReadable

\* A file that can be read and is not cut is what one build makes.
LEMMA ReadWhole ==
  ASSUME SpeechInv, NoCuts, NEW path, path \in DOMAIN files, files[path] # speech!Empty
  PROVE  files[path] = Whole(path)
  BY DEF SpeechInv, FilesAreWhole

\* What a stage writes is what one undisturbed build writes there.
LEMMA ContentIsWhole ==
  ASSUME SpeechInv, NoCuts, NEW path \in todo, speech!Possible(path)
  PROVE  speech!Content(path) = Whole(path)
  <1>1. path \in PathsOf(building)
    BY DEF SpeechInv, StagesAreOrdered
  <1>2. CASE building = "references"
    <2>1. path[1] = "reference"
      BY <1>1, <1>2 DEF PathsOf, speech!References
    <2>2. QED
      BY <2>1 DEF speech!Content, Whole
  <1>3. CASE building = "clips"
    <2>1. path[1] = "clip" /\ (synthesizer = "chatterbox" => <<"reference", path[4]>> \in speech!References)
      <3>1. path \in speech!Rows
        BY <1>1, <1>3 DEF PathsOf
      <3>2. \A q, phrasing, voice : speech!Clip(q, phrasing, voice)[1] = "clip"
                                     /\ speech!Clip(q, phrasing, voice)[4] = voice
        BY DEF speech!Clip
      <3>3. path[1] = "clip" /\ path[4] \in speech!Voices
        <4>1. CASE path \in {speech!Base(q) : q \in Spoken}
          BY <3>2, <4>1 DEF speech!Base, speech!Voices
        <4>2. CASE path \in {speech!Clip(q, "terse", accent) : q \in subset, accent \in Accents}
          BY <3>2, <4>2 DEF speech!Voices
        <4>3. CASE path \in {speech!Clip(q, "conversational", VoiceOf[LanguageOf[q]]) : q \in conversational}
          <5>1. conversational \subseteq Spoken
            BY DEF SpeechInv, StagesAreOrdered
          <5>2. QED
            BY <3>2, <4>3, <5>1 DEF speech!Voices
        <4>4. QED
          BY <3>1, <4>1, <4>2, <4>3 DEF speech!Rows
      <3>4. QED
        BY <3>3 DEF speech!References
    <2> DEFINE voice == <<"reference", path[4]>>
    <2>2. synthesizer = "chatterbox" => files[voice] = [is |-> "reference", voice |-> path[4]]
      <3> SUFFICES ASSUME synthesizer = "chatterbox"
                   PROVE  files[voice] = [is |-> "reference", voice |-> path[4]]
        OBVIOUS
      <3>1. voice \in DOMAIN files
        BY <1>3, <2>1 DEF SpeechInv, StagesAreOrdered
      <3>2. files[voice] # speech!Empty
        BY <2>1 DEF speech!Possible
      <3>3. files[voice] = Whole(voice)
        BY <3>1, <3>2, ReadWhole
      <3>4. voice[1] = "reference" /\ voice[2] = path[4]
        OBVIOUS
      <3>5. QED
        BY <3>3, <3>4 DEF Whole, speech!Reference
    <2>3. speech!Content(path) = speech!Speech(path)
      BY <2>1 DEF speech!Content
    <2>4. Whole(path) = speech!Made(path)
      BY <2>1 DEF Whole
    <2>5. speech!Speech(path) = speech!Made(path)
      BY <2>1, <2>2 DEF speech!Speech, speech!Made, speech!MadeClip, speech!Text, speech!Template, speech!SeedOf
    <2>6. QED
      BY <2>3, <2>4, <2>5
  <1>4. CASE building = "derived"
    <2>1. PICK q \in subset, by \in Noises \cup {"babble"} : path = <<"derived", q, by>>
      BY <1>1, <1>4 DEF PathsOf, speech!Derived
    <2>2. \A p \in subset : files[speech!Base(p)] = speech!Made(speech!Base(p))
      <3> SUFFICES ASSUME NEW p \in subset
                   PROVE  files[speech!Base(p)] = speech!Made(speech!Base(p))
        OBVIOUS
      <3>1. p \in Spoken
        BY DEF SpeechInv, StagesAreOrdered
      <3>2. speech!Base(p) \in DOMAIN files /\ files[speech!Base(p)] # speech!Empty
        BY <1>4, <3>1 DEF SpeechInv, StagesAreOrdered, speech!AllReadable
      <3>3. speech!Base(p)[1] = "clip"
        BY DEF speech!Base, speech!Clip
      <3>4. QED
        BY <3>2, <3>3, ReadWhole DEF Whole
    <2>3. path[1] = "derived" /\ path[2] = q /\ path[3] = by
      BY <2>1
    <2>4. speech!Content(path) = speech!Degraded(path) /\ Whole(path) = speech!Made(path)
      BY <2>3 DEF speech!Content, Whole
    <2>5. \A p : speech!Base(p)[1] = "clip"
      BY DEF speech!Base, speech!Clip
    <2>6. speech!Made(path) =
            [is |-> "degraded", by |-> by, from |-> speech!Made(speech!Base(q)), seed |-> path,
             others |-> {speech!Made(speech!Base(p)) : p \in {p \in subset \ {q} : by = "babble"}}]
      <3>1. \A p : speech!Made(speech!Base(p)) = speech!MadeClip(speech!Base(p))
        BY <2>5 DEF speech!Made
      <3>2. speech!Made(path) =
              [is |-> "degraded", by |-> by, from |-> speech!MadeClip(speech!Base(q)), seed |-> path,
               others |-> {speech!MadeClip(speech!Base(p)) : p \in {p \in subset \ {q} : by = "babble"}}]
        BY <2>3 DEF speech!Made
      <3>3. QED
        BY <3>1, <3>2
    <2>7. speech!Degraded(path) =
            [is |-> "degraded", by |-> by, from |-> speech!Made(speech!Base(q)), seed |-> path,
             others |-> IF by = "babble" THEN {speech!Made(speech!Base(p)) : p \in subset \ {q}} ELSE {}]
      <3>1. files[speech!Base(q)] = speech!Made(speech!Base(q))
        BY <2>1, <2>2
      <3>2. {files[speech!Base(p)] : p \in subset \ {q}} = {speech!Made(speech!Base(p)) : p \in subset \ {q}}
        BY <2>2
      <3>3. QED
        BY <2>3, <3>1, <3>2 DEF speech!Degraded, speech!SeedOf
    <2>8. {speech!Made(speech!Base(p)) : p \in {p \in subset \ {q} : by = "babble"}} =
            IF by = "babble" THEN {speech!Made(speech!Base(p)) : p \in subset \ {q}} ELSE {}
      OBVIOUS
    <2>9. QED
      BY <2>4, <2>6, <2>7, <2>8
  <1>5. QED
    BY <1>1, <1>2, <1>3, <1>4 DEF SpeechInv, StagesAreOrdered, PathsOf

\* A step that writes a file, whole or not, and goes on or ends.
LEMMA FileStep ==
  ASSUME SpeechInv, NEW path \in todo, NEW content,
         UNCHANGED <<synthesizer, subset, conversational, manifest>>,
         speech!Put(path, content),
         content = Whole(path) \/ content = speech!Empty \/ content.is = "cut" \/ ~NoCuts,
         \/ building' = building /\ todo' = todo \ {path}
         \/ building' = "idle" /\ todo' = {}
  PROVE  SpeechInv'
  <1>1. path \notin DOMAIN files
    BY DEF SpeechInv, StagesAreOrdered
  <1>2. /\ DOMAIN files' = DOMAIN files \cup {path} /\ files'[path] = content
        /\ \A p \in DOMAIN files : files'[p] = files[p]
    BY <1>1, Written
  <1>3. \A paths : speech!AllReadable(paths) => speech!AllReadable(paths)'
    BY <1>2, StayReadable
  <1>4. StagesAreOrdered'
    <2>1. \A q : speech!Base(q)' = speech!Base(q)
      BY DEF speech!Base, speech!Clip
    <2>2. speech!AllReadable({speech!Base(q) : q \in Spoken})
            => speech!AllReadable({speech!Base(q) : q \in Spoken})'
      BY <1>3, <2>1
    <2>3. speech!AllReadable(speech!Rows \cup speech!Derived)
            => speech!AllReadable(speech!Rows \cup speech!Derived)'
      BY <1>3, SamePaths
    <2>4. QED
      BY <1>2, <2>2, <2>3, SamePaths DEF SpeechInv, StagesAreOrdered
  <1>5. FilesAreWhole'
    <2> SUFFICES ASSUME NoCuts', NEW p \in DOMAIN files'
                 PROVE  files'[p] \in {speech!Empty, Whole(p)'}
      BY DEF FilesAreWhole, speech!Empty
    <2>1. NoCuts
      BY <1>2 DEF NoCuts
    <2>2. CASE p = path
      BY <1>2, <2>1, <2>2, SamePaths DEF NoCuts
    <2>3. CASE p # path
      BY <1>2, <2>1, <2>3, SamePaths DEF SpeechInv, FilesAreWhole
    <2>4. QED
      BY <2>2, <2>3
  <1>6. QED
    BY <1>4, <1>5 DEF SpeechInv

\* A step to another stage.
LEMMA StageStep ==
  ASSUME SpeechInv, speech!Start \/ speech!WriteJobs \/ speech!Derive \/ speech!WriteManifest \/ speech!Raise
  PROVE  SpeechInv'
  <1>1. UNCHANGED <<synthesizer, subset, conversational, files>>
    BY DEF speech!Start, speech!WriteJobs, speech!Derive, speech!WriteManifest, speech!Raise
  <1>2. FilesAreWhole' /\ subset' \subseteq Spoken /\ conversational' \subseteq Spoken
    BY <1>1, SamePaths DEF SpeechInv, StagesAreOrdered, FilesAreWhole, NoCuts, speech!Empty
  <1>3. \A paths : speech!AllReadable(paths)' <=> speech!AllReadable(paths)
    BY <1>1 DEF speech!AllReadable
  <1>4. \A q : speech!Base(q)' = speech!Base(q)
    BY DEF speech!Base, speech!Clip
  <1>5. StagesAreOrdered'
    <2>1. CASE speech!Start
      <3>1. building' = "references" /\ todo' = speech!References \ DOMAIN files /\ manifest' = manifest
        BY <2>1 DEF speech!Start, speech!Go, speech!Missing
      <3>2. QED
        BY <1>1, <1>2, <1>3, <3>1, SamePaths DEF SpeechInv, StagesAreOrdered, PathsOf
    <2>2. CASE speech!WriteJobs
      <3>1. /\ building = "references" /\ todo = {} /\ building' = "clips" /\ manifest' = manifest
            /\ todo' \subseteq speech!Rows \ DOMAIN files
        BY <2>2 DEF speech!WriteJobs, speech!Go, speech!Missing
      <3>2. QED
        BY <1>1, <1>2, <1>3, <3>1, SamePaths DEF SpeechInv, StagesAreOrdered, PathsOf
    <2>3. CASE speech!Derive
      <3>1. /\ building = "clips" /\ todo = {} /\ building' = "derived" /\ manifest' = manifest
            /\ todo' = speech!Derived \ DOMAIN files
            /\ speech!AllReadable({speech!Base(q) : q \in Spoken})
        BY <2>3 DEF speech!Derive, speech!Go, speech!Missing
      <3>2. QED
        BY <1>1, <1>2, <1>3, <1>4, <3>1, SamePaths DEF SpeechInv, StagesAreOrdered, PathsOf
    <2>4. CASE speech!WriteManifest
      <3>1. /\ todo = {} /\ building' = "idle" /\ todo' = {}
            /\ speech!AllReadable(speech!Rows \cup speech!Derived)
        BY <2>4 DEF speech!WriteManifest
      <3>2. QED
        BY <1>1, <1>2, <1>3, <3>1, SamePaths DEF SpeechInv, StagesAreOrdered, PathsOf
    <2>5. CASE speech!Raise
      <3>1. building' = "idle" /\ todo' = {} /\ manifest' = manifest
        BY <2>5 DEF speech!Raise
      <3>2. QED
        BY <1>1, <1>2, <1>3, <3>1, SamePaths DEF SpeechInv, StagesAreOrdered, PathsOf
    <2>6. QED
      BY <2>1, <2>2, <2>3, <2>4, <2>5
  <1>6. QED
    BY <1>2, <1>5 DEF SpeechInv

LEMMA DiscardStep ==
  ASSUME SpeechInv, speech!Discard
  PROVE  SpeechInv'
  <1>1. /\ UNCHANGED <<synthesizer, subset, conversational, manifest, building, todo>>
        /\ building = "idle"
    BY DEF speech!Discard
  <1>2. PICK path \in DOMAIN files :
          files[path] = speech!Empty /\ files' = [p \in DOMAIN files \ {path} |-> files[p]]
    BY DEF speech!Discard
  <1>3. \A paths : speech!AllReadable(paths) => speech!AllReadable(paths)'
    BY <1>2, StayReadable
  <1>4. StagesAreOrdered'
    <2>1. speech!AllReadable(speech!Rows \cup speech!Derived)
            => speech!AllReadable(speech!Rows \cup speech!Derived)'
      BY <1>1, <1>3, SamePaths
    <2>2. QED
      BY <1>1, <1>2, <2>1, SamePaths DEF SpeechInv, StagesAreOrdered
  <1>5. FilesAreWhole'
    <2>1. NoCuts' => NoCuts
      BY <1>2 DEF NoCuts, speech!Empty
    <2>2. QED
      BY <1>1, <1>2, <2>1, SamePaths DEF SpeechInv, FilesAreWhole, speech!Empty
  <1>6. QED
    BY <1>4, <1>5 DEF SpeechInv

LEMMA SpeechStep == SpeechInv /\ [speech!Next]_(speech!vars) => SpeechInv'
  <1> SUFFICES ASSUME SpeechInv, [speech!Next]_(speech!vars) PROVE SpeechInv'
    OBVIOUS
  <1>1. CASE UNCHANGED speech!vars
    <2>1. \A q : speech!Base(q)' = speech!Base(q)
      BY DEF speech!Base, speech!Clip
    <2>2. \A paths : speech!AllReadable(paths)' <=> speech!AllReadable(paths)
      BY <1>1 DEF speech!vars, speech!AllReadable
    <2>3. QED
      BY <1>1, <2>1, <2>2, SamePaths
         DEF speech!vars, SpeechInv, StagesAreOrdered, FilesAreWhole, NoCuts, speech!Empty
  <1>2. CASE speech!Write
    <2>1. PICK path \in todo : /\ speech!Possible(path)
                               /\ speech!Put(path, speech!Content(path))
                               /\ todo' = todo \ {path}
      BY <1>2 DEF speech!Write, speech!NextOf
    <2>2. UNCHANGED <<synthesizer, subset, conversational, manifest, building>>
      BY <1>2 DEF speech!Write
    <2>3. NoCuts => speech!Content(path) = Whole(path)
      BY <2>1, ContentIsWhole
    <2>4. QED
      BY <2>1, <2>2, <2>3, FileStep
  <1>3. CASE speech!Stop
    <2>1. /\ UNCHANGED <<synthesizer, subset, conversational, manifest>>
          /\ building' = "idle" /\ todo' = {}
      BY <1>3 DEF speech!Stop
    <2>2. CASE UNCHANGED files
      <3>1. \A paths : speech!AllReadable(paths)' <=> speech!AllReadable(paths)
        BY <2>2 DEF speech!AllReadable
      <3>2. QED
        BY <2>1, <2>2, <3>1, SamePaths
           DEF SpeechInv, StagesAreOrdered, FilesAreWhole, NoCuts, speech!Empty
    <2>3. CASE \E path \in todo : \E left \in {speech!Empty, speech!Cut(speech!Content(path))} :
                 speech!Put(path, left)
      <3>1. PICK path \in todo :
              \E left \in {speech!Empty, speech!Cut(speech!Content(path))} : speech!Put(path, left)
        BY <2>3
      <3>2. PICK left \in {speech!Empty, speech!Cut(speech!Content(path))} : speech!Put(path, left)
        BY <3>1
      <3>3. left = speech!Empty \/ left.is = "cut"
        BY DEF speech!Cut
      <3>4. QED
        BY <2>1, <3>2, <3>3, FileStep
    <2>4. QED
      BY <1>3, <2>2, <2>3 DEF speech!Stop, speech!NextOf
  <1>4. QED
    BY <1>1, <1>2, <1>3, StageStep, DiscardStep DEF speech!Next

\* testset.py: a manifest's clips are those of one undisturbed build of the same
\* configuration, however often the build stopped and was run again, for any queries,
\* voices, conditions and samples, unless a part that still decodes was left.
THEOREM ClipsAreReproduced == Spec => []SameSet
  <1>1. SpeechInv => SameSet
    <2> SUFFICES ASSUME SpeechInv, manifest, NoCuts, NEW path \in speech!Rows \cup speech!Derived
                 PROVE  files[path] = speech!Made(path)
      BY DEF SameSet, speech!SameSet, NoCuts
    <2>1. path \in DOMAIN files /\ files[path] # speech!Empty
      BY DEF SpeechInv, StagesAreOrdered, speech!AllReadable
    <2>2. path[1] # "reference"
      BY DEF speech!Rows, speech!Derived, speech!Base, speech!Clip
    <2>3. QED
      BY <2>1, <2>2, ReadWhole DEF Whole
  <1>2. QED
    BY SpeechBehaviour, SpeechInit, SpeechStep, <1>1, PTL DEF speech!Spec

=============================================================================
