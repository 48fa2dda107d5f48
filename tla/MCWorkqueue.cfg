CONSTANTS
  NumWorkers = 2
  Works = {k1, k2}
  NoWork = NoWork
  Readded = {k1, k2}
  Cancellable = {}
  TokensPerRead = 2
  PipeTokens = 2
  MayFail = {}
  DestroyWhen = "never"
SPECIFICATION Spec
CHECK_DEADLOCK FALSE
INVARIANTS TypeOK OnePlace CompleteMeansDone
PROPERTIES ServedWhileDraining PoolSpec
