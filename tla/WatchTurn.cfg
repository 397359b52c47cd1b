SPECIFICATION Spec
CONSTANTS
  Orders = {o1, o2}
  Ids = {i1, i2}
  ExpiredWorkers = {e1, e2}
  FailedWorkers = {f1}
  Volume = 1
  MinVolume = 1
  Poloniex = FALSE
  Lookalike <- NoPairs
  ErrorBodies = FALSE
  LateEffects = FALSE
  MaxRestarts = 0
  NoOrder = NoOrder
  NoId = NoId
PROPERTY WatchTurn
CHECK_DEADLOCK FALSE
