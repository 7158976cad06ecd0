\* Bounded by MaxTime and MaxVersions, every Job comes to its end.
CHECK_DEADLOCK FALSE
SPECIFICATION RetrainSpec
CONSTANTS
  Handlers = {h1}
  AlertJobs = {a1}
  CronJobs = {c1}
  Runs = {a1, c1}
  MinGap = 1
  BackoffLimit = 1
  Costs = {1, 2}
  Persistence = 4
  Seasonal = 3
  NoCost = NoCost
  baseline = "best"
  Channels = {"cpu", "cpu,rps"}
  Contract <- MCContract
  Legacy = "cpu"
  MinImprovement <- MCMinImprovement
  DryRun = {}
  Refit = TRUE
  Points = 4
  Holdout = 2
  Length = 1
  Horizon = 1
  MinFresh = 1
  MaxTime = 5
  MaxVersions = 2
INVARIANTS Fair
PROPERTIES BeatsCompared AlertAnswered
