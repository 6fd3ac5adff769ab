--------------------------------- MODULE MCData ---------------------------------
(***************************************************************************)
(* One run over the files that models are trained and measured with, in    *)
(* three parts: the training examples, the store of snapshots and datasets *)
(* around them, and the speech test set.  A behaviour takes one part, and  *)
(* the others stand still.                                                 *)
(***************************************************************************)
EXTENDS Naturals, Sequences

CONSTANTS
  None,
  Snapshot, Arriving, Shows, ShowOf, Published, SampleSize, Title, Publisher, HeldOut, \* the examples
  Category, BatchSize, MaxNamed, PerShow, PerPublisher, Negatives, Hard, Popular, Extra, Depth, MaxKills,
  Boundaries, MaxEdits, MaxTranscripts, MaxPrograms, MaxKilled,                         \* the datasets
  Spoken, LanguageOf, VoiceOf, Accents, SubsetSize, ConversationalSize, Noises, MaxStops \* the speech

VARIABLES
  part,
  live, llm, names, mined, stage, run, last, kills,
  db, snapshots, tmp, latest, dirs, store, job, answer, runs, killed,
  synthesizer, subset, conversational, files, manifest, building, todo, stops

examples == INSTANCE TrainingExamples

datasets == INSTANCE DatasetStore WITH MaxKills <- MaxKilled, kills <- killed

speech == INSTANCE SpeechTestset WITH Queries <- Spoken, stage <- building

ASSUME DataAssumption ==
  examples!ExamplesAssumption /\ datasets!DatasetAssumption /\ speech!SpeechAssumption

\* Values for the check: four episodes of the snapshot in three shows, two of which
\* share a name and one of which the relevance set names; a fifth arrives while mining.
MCShowOf == <<1, 1, 2, 3, 2>>
MCPublished == <<1, 2, 3, None, 3>>
MCTitle == <<"a", "a", "held">>
MCPublisher == <<"p", "", "">>

\* Four queries, one of them Spanish; two of the others have variants.
MCLanguageOf == <<"en", "es", "en", "en">>
MCVoiceOf == [en |-> "us", es |-> "mx"]

exampleVars == <<live, llm, names, mined, stage, run, last, kills>>
datasetVars == <<db, snapshots, tmp, latest, dirs, store, job, answer, runs, killed>>
speechVars == <<synthesizer, subset, conversational, files, manifest, building, todo, stops>>
vars == <<part, exampleVars, datasetVars, speechVars>>

Init ==
  /\ part \in {"examples", "datasets", "speech"}
  /\ examples!Init /\ (part = "examples" \/ run.picked = CHOOSE S \in examples!Samples : TRUE)
  /\ datasets!Init
  /\ speech!Init
  /\ \/ part = "speech"
     \/ /\ synthesizer = "chatterbox"
        /\ subset = (CHOOSE S \in speech!Samples(SubsetSize) : TRUE)
        /\ conversational = (CHOOSE S \in speech!Samples(ConversationalSize) : TRUE)

Next ==
  \/ part = "examples" /\ examples!Next /\ UNCHANGED <<part, datasetVars, speechVars>>
  \/ part = "datasets" /\ datasets!Next /\ UNCHANGED <<part, exampleVars, speechVars>>
  \/ part = "speech" /\ speech!Next /\ UNCHANGED <<part, exampleVars, datasetVars>>

Spec == Init /\ [][Next]_vars

\* See TrainingExamples: a row that is built passes the validation.
ValidationPasses == examples!ValidationPasses

\* See TrainingExamples: no negative is of the positive's show.
NegativesAreForeign == examples!NegativesAreForeign

\* See DatasetStore: a dataset is trained with a snapshot that has its episodes.
CompatibleIsReadable == datasets!CompatibleIsReadable

\* See DatasetStore: a snapshot's files are of one run.
SnapshotIsOfOneRun == datasets!SnapshotIsOfOneRun

\* See DatasetStore: "published" is said of what was built.
PublishedIsBuilt == datasets!PublishedIsBuilt

\* See SpeechTestset: a build that stopped makes the same clips.
SameSet == part = "speech" => speech!SameSet

=============================================================================
