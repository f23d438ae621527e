CONSTANTS
  Calls = {c1, c2}
  kimi = kimi
  deepseek = deepseek
  routes <- TwoRoutes
  scopeOf <- MCScopeOf
  limitOf <- MCLimitOf
  RequiredToolRoutes = {kimi}
  MaxRetries = 2
  RateLimitMaxRetries = 1
  NoModel = NoModel
  UnknownModel = UnknownModel
SPECIFICATION FairSpec
CHECK_DEADLOCK FALSE
INVARIANTS GatewayInv UnavailableAfterAllRoutes
PROPERTIES CallsEnd
