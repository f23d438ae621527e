CONSTANTS
  KeepRecent = 4
  MaxMessages = 8
  Budgets = {1, 3}
  MaxTurns = 2
  MaxToolUses = 3
  MaxBatch = 2
  Texts = {1}
SPECIFICATION Spec
CHECK_DEADLOCK FALSE
INVARIANTS LoopInv OnlyAuthorisedToolsRun ToolRunsAtMostOnce HistoryTellsTheTruth PairsSurviveCompaction
PROPERTIES TurnAdvances
