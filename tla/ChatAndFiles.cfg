CONSTANTS
  Conversations = {c1, c2}
  Runs = {r1, r2}
  Calls = {t1, t2}
  NoRun = NoRun
  NoConversation = NoConversation
  SerialClients = FALSE
  MaxQuestions = 2
  MaxCalls = 2
  Names = {"n1", "n2", "n3"}
  MaxMemories = 2
  Writers = {"w1", "w2"}
  MaxRevision = 2
  Documents = {"d1", "d2"}
  versionsOf <- MCVersionsOf
  Absent = "absent"
  Indexers = {"i1", "i2"}
  modelOf <- MCModelOf
  OneAtATime = TRUE
  Reports = {u1, u2, u3}
  Paths = {"p1"}
  NoReport = NoReport
SPECIFICATION PartsSpec
CHECK_DEADLOCK FALSE
SYMMETRY Symmetry
INVARIANTS TerminalsAreServed LedgerIsComplete RevisionsAreAudited IndexIsCurrent PromptIsConsistent IndexedStaysVisible IndexMatchesManifest ReportsStay
