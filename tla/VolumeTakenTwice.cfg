SPECIFICATION Safe
CONSTANTS
  Orders = {o1, o2}
  Ids = {i1, i2, i3}
  ExpiredWorkers = {e1}
  FailedWorkers = {f1}
  Volume = 2
  MinVolume = 1
  Poloniex = FALSE
  Lookalike <- NoPairs
  ErrorBodies = FALSE
  LateEffects = FALSE
  MaxRestarts = 0
  NoOrder = NoOrder
  NoId = NoId
INVARIANT RemainingVolumeKept
CHECK_DEADLOCK FALSE
