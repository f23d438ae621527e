CONSTANTS
  Conversations = {c1, c2}
  Runs = {r1}
  Calls = {t1, t2}
  NoRun = NoRun
  NoConversation = NoConversation
  SerialClients = FALSE
  MaxQuestions = 2
  MaxCalls = 1
SPECIFICATION ChatSpec
CHECK_DEADLOCK FALSE
PROPERTIES SecondAnswerIsRefused
