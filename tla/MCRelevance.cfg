\* A model and a person who judge, six programs of theirs; see MCRelevance for the shows, the queries
\* of the ranker and the systems that are compared.
CONSTANTS
  None = None
  Shows = {1, 2, 3}
  English = {1, 2}
  TitleOf <- MCTitleOf
  PersonOf <- MCPersonOf
  NavigationalCount = 1
  EntityCount = 1
  Curated <- MCCurated
  Pooled = {1, 2}
  Machines = {"llm"}
  People = {"ann"}
  MaxArrivals = 1
  MaxTasks = 2
  MaxPrograms = 6
  Queries = {1, 2, 3, 4}
  Folds = 2
  Legs = {"lexical", "two_tower"}
  Ranking <- MCRanking
  Depth = 2
  RankerEpisodes = {1, 2, 3}
  Duration <- MCDuration
  MaxExports = 1
  MaxDeletes = 1
  MaxTrainings = 2
  MaxKills = 1
  Systems <- MCSystems
  Candidate = "two_tower"
  Baseline = "e5"
  Topics = {1, 2, 3}
  TypeOf <- MCTypeOf
  Prefers <- MCPrefers
  K = 1
  ShowOf <- MCShowOf
  Pools <- MCPools
  MinGrade = 2
  Positives = {1}
  Snapshot = {1, 2, 3}
  Scale = 12
  Tolerance = 5
  MaxChanges = 2
  MaxComparisons = 2
SPECIFICATION Spec
CHECK_DEADLOCK FALSE
INVARIANTS ExportAccepts SameFeatures CohortsPartition
PROPERTIES HumanWins ScoredOutOfFold
