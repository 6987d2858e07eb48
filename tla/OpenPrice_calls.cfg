SPECIFICATION FetchSpec
CONSTANTS
  CfgMaxRetries = 7
  CfgBaseDelay = 1
  CfgBudget = 14
  RetryAfters = {0, 1, 7, 20}
  CtxDeadlines = {0, 4, 9}
  Half = 32
  MaxTime = 5
  RunDeadlines = {0, 4, 9}
INVARIANTS GetTypeOK SleptWithinBudget WaitEndsBeforeCtx EndedContextStopsRetries
PROPERTIES CallReturns
