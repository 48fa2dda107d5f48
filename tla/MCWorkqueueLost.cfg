CONSTANTS
  NumWorkers = 1
  Works = {k1, k2}
  NoWork = NoWork
  Readded = {}
  Cancellable = {}
  TokensPerRead = 8
  PipeTokens = 2
  MayFail = {}
  DestroyWhen = "never"
SPECIFICATION Spec
CHECK_DEADLOCK FALSE
INVARIANT NextFreeWorkerPicksUp
