CONSTANTS
  None = None
  Torn = Torn
  Configs <- MCConfigs
  Scores = {1, 2}
  MaxKills = 2
  MaxInterrupts = 1
  MaxStarts = 3
  Jobs = {"j1", "j2"}
  Ids = {1, 2}
  Batch = 1
  Limits = {0, 1}
  MaxChanges = 1
  MaxLaunches = 2
  Episodes = {1, 2, 3, 4}
  Grades = {0, 1, 2, 3}
  MinGrade = 2
  Ks = {1, 2, 3}
  Scale = 12
  Weight <- MCWeight
  Lines = 2
  OffTowers = {1}
  MaxTrain = 1
  MaxBundles = 1
  MaxPromotions = 2
  MaxPromotionKills = 1
  Kind <- MCKind
  Bins = {1, 2}
  MinSearches = 2
  ZeroDelta = 15
  LegRate = 10
  LexicalDelta = 30
  RrfRate = 5
  Floor = 1000
  PsiLimit = 250
  FeatureShift = 50
  FeatureMinCount = 2
  Ln <- MCLn
  MaxWindow = 3
  MaxHappenings = 4
  MaxRuns = 2
SPECIFICATION SafetySpec
CHECK_DEADLOCK FALSE
INVARIANT DriftIsTold
