SPECIFICATION Spec
CONSTANTS
  Providers = {core, bing, google}
  InExecutor = {core, google}
  FastBudget = 1
  DeepBudget = 2
  MinRetry = 2
  Horizon = 5
INVARIANTS
  AnsweredInBudget
CHECK_DEADLOCK FALSE
