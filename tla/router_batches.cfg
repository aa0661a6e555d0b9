SPECIFICATION FairSpec
CONSTANTS
  Providers = {core, bing, google}
  InExecutor = {core, google}
  FastBudget = 1
  DeepBudget = 2
  MinRetry = 2
  Horizon = 5
INVARIANTS
  TypeOK
  EveryAnswerUsed
  
  RoutedInBudget
PROPERTY
  RequestAnswered
CHECK_DEADLOCK FALSE
