\* Datasets as in MCData.cfg.
CONSTANTS
  None = None
  Snapshot = {1, 2, 3, 4}
  Arriving = {5}
  Shows = {1, 2, 3}
  ShowOf <- MCShowOf
  Published <- MCPublished
  SampleSize = 2
  Title <- MCTitle
  Publisher <- MCPublisher
  HeldOut = {"held"}
  Category = {1}
  BatchSize = 1
  MaxNamed = 2
  PerShow = 1
  PerPublisher = 1
  Negatives = 2
  Hard = 1
  Popular = 1
  Extra = 2
  Depth = 1
  MaxKills = 1
  Boundaries = {"early", "late"}
  MaxEdits = 1
  MaxTranscripts = 1
  MaxPrograms = 5
  MaxKilled = 1
  Spoken = {1, 2, 3, 4}
  LanguageOf <- MCLanguageOf
  VoiceOf <- MCVoiceOf
  Accents = {"gb"}
  SubsetSize = 2
  ConversationalSize = 1
  Noises = {"fast"}
  MaxStops = 2
SPECIFICATION Spec
CHECK_DEADLOCK FALSE
INVARIANT PublishedIsBuilt
