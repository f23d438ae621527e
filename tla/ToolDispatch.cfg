CONSTANTS
  N = 4
  Groups = {g1, g2}
  NoGroup = NoGroup
  ThreadedGroups = {g1}
SPECIFICATION FairSpec
CHECK_DEADLOCK FALSE
INVARIANTS DispatchInv LastSuccessWins
PROPERTIES BatchReturns
