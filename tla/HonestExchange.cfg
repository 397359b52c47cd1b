SPECIFICATION Safe
CONSTANTS
  Orders = {o1, o2}
  Ids = {i1, i2, i3}
  ExpiredWorkers = {e1, e2}
  FailedWorkers = {f1}
  Volume = 2
  MinVolume = 1
  Poloniex = TRUE
  Lookalike <- NoPairs
  ErrorBodies = FALSE
  LateEffects = FALSE
  MaxRestarts = 0
  NoOrder = NoOrder
  NoId = NoId
INVARIANTS TypeOK OneLiveOrder LiveOrdersTracked PoloniexVolumeKept
PROPERTY Recovers
SYMMETRY Symmetry
CHECK_DEADLOCK FALSE
