CONSTANTS
  Conversations = {c1}
  Runs = {r1, r2}
  Calls = {k1, k2}
  NoRun = NoRun
  NoConversation = NoConversation
  SerialClients = FALSE
SPECIFICATION FairSpec
CHECK_DEADLOCK FALSE
INVARIANTS RunningHasHandler
PROPERTIES DeletedIsFinal RowSettles CallsAnswered
