CONSTANTS
  Delegations = {"d1", "d2"}
  Runs = {"r1"}
  runOf <- MCRunOf
  Configs <- MCConfigs
  Modes = {"auto", "rag", "web"}
  MaxTasks = 1
  MaxRetries = 1
  MaxReviewRounds = 1
  HasDeadline = TRUE
SPECIFICATION FairSpec
CHECK_DEADLOCK FALSE
INVARIANTS BudgetsHold ReportMatchesProtocol SubagentsKeepRoleAndMode
PROPERTIES DelegationsReturn
