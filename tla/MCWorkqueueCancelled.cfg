CONSTANTS
  NumWorkers = 1
  Works = {k1}
  NoWork = NoWork
  Readded = {}
  Cancellable = {k1}
  TokensPerRead = 8
  PipeTokens = 2
  MayFail = {}
  DestroyWhen = "never"
SPECIFICATION Spec
CHECK_DEADLOCK FALSE
INVARIANT CompleteMeansDone
