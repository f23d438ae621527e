CONSTANTS
  Conversations = {c1}
  Runs = {r1, r2, r3}
  Calls = {k1}
  NoRun = NoRun
  NoConversation = NoConversation
  SerialClients = FALSE
SPECIFICATION Spec
CHECK_DEADLOCK FALSE
INVARIANTS OneRunPerConversation
