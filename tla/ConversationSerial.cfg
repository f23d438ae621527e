CONSTANTS
  Conversations = {c1, c2}
  Runs = {r1, r2, r3}
  Calls = {k1, k2}
  NoRun = NoRun
  NoConversation = NoConversation
  SerialClients = TRUE
SPECIFICATION Spec
CHECK_DEADLOCK FALSE
SYMMETRY Symmetry
INVARIANTS NothingAfterDelete SerialInv
PROPERTIES WaitingLeftByItsRun CancelAnswerIsTrue ImplementsRunLock
