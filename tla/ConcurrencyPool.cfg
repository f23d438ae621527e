CONSTANTS
  server = server
  cli = cli
  a = a
  b = b
  c = c
  d = d
  Procs = {server, cli}
  Callers = {a, b, c, d}
  procOf <- MCProcOf
  maxConcurrency <- MCMaxConcurrency
  Nobody = Nobody
SPECIFICATION FairSpec
CHECK_DEADLOCK FALSE
INVARIANTS ActiveSlotsAreUsed LeaseHoldsItsFile
PROPERTIES ImplementsQuota SlotsComeBack
