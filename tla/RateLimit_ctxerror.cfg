SPECIFICATION GetSpec
CONSTANTS
  CfgMaxRetries = 2
  CfgBaseDelay = 1
  CfgBudget = 9
  RetryAfters = {0}
  CtxDeadlines = {3}
  Half = 64
  MaxTime = 4
INVARIANT BudgetErrorMeansSpent
