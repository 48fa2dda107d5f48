CONSTANTS
  NumWorkers = 2
  Works = {k1, k2}
  NoWork = NoWork
  Readded = {}
  Cancellable = {k1}
  TokensPerRead = 8
  PipeTokens = 2
  MayFail = {1}
  DestroyWhen = "quiet"
SPECIFICATION Spec
CHECK_DEADLOCK FALSE
INVARIANTS DestroyCompletesAll
PROPERTIES ServedOnceSignalled CancelEndsWork WorkersEnd
