SPECIFICATION GetSpec
CONSTANTS
  CfgMaxRetries = 0
  CfgBaseDelay = 0
  CfgBudget = 0
  RetryAfters = {1}
  CtxDeadlines = {0}
  Half = 1024
  MaxTime = 2
INVARIANT ZeroMeansThreeRetries
