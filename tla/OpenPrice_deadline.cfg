SPECIFICATION FetchSpec
CONSTANTS
  CfgMaxRetries = 4
  CfgBaseDelay = 1
  CfgBudget = 9
  RetryAfters = {0, 1, 7}
  CtxDeadlines = {0, 3}
  Half = 64
  MaxTime = 4
  RunDeadlines = {0, 3}
INVARIANT RunDeadlineBoundsFetch
