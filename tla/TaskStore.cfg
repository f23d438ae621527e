CONSTANTS
  Tasks = {t1, t2, t3}
  Owners = {lead, helper}
  Clients = {web, cli}
  NoOwner = NoOwner
  Nobody = Nobody
SPECIFICATION FairSpec
CHECK_DEADLOCK FALSE
INVARIANTS StoreInv
PROPERTIES ImplementsTaskBoard LockComesBack
