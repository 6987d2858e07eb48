SPECIFICATION GetSpec
CONSTANTS
  CfgMaxRetries = 2
  CfgBaseDelay = 1
  CfgBudget = 9
  RetryAfters = {40}
  CtxDeadlines = {0}
  Half = 64
  MaxTime = 3
PROPERTY LongRetryAfterTruncated
