CONSTANTS
  Target = 2
  MaxDemand = 3
  MaxSteps = 5
  Day = 6
  Trainings <- TrainingCases
  Comparisons <- ComparisonCases
  Retrainings <- RetrainingCases
  Channels <- ChannelCases
  Holdouts <- HoldoutCases
  Rankings <- RankingCases
  Polls <- PollCases
SPECIFICATION CaseSpec
INVARIANTS
  Judged
  SeasonAligned
  SameHoldout
  FreshCount
  OpenNeverUsed
  GridsAgree
  CostCovers
  WinnerFollows
  Answered
CHECK_DEADLOCK FALSE
