CONSTANTS
  NumWorkers = 1
  Works = {k1}
  NoWork = NoWork
  Readded = {}
  Cancellable = {}
  TokensPerRead = 8
  PipeTokens = 2
  MayFail = {}
  DestroyWhen = "returned"
SPECIFICATION Spec
CHECK_DEADLOCK FALSE
INVARIANT NoUseAfterDestroy
