CONSTANTS
  N = 2
  Groups = {g1}
  NoGroup = NoGroup
  ThreadedGroups = {g1}
SPECIFICATION Spec
CHECK_DEADLOCK FALSE
INVARIANTS GroupsAreExclusive
