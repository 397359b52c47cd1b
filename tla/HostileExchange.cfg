SPECIFICATION Safe
CONSTANTS
  Orders = {o1, o2}
  Ids = {i1, i2, i3}
  ExpiredWorkers = {e1, e2}
  FailedWorkers = {f1}
  Volume = 1
  MinVolume = 1
  Poloniex = FALSE
  Lookalike <- AllAlike
  ErrorBodies = TRUE
  LateEffects = TRUE
  MaxRestarts = 1
  NoOrder = NoOrder
  NoId = NoId
INVARIANTS OneCustodian ForgottenNeverLive
SYMMETRY Symmetry
CHECK_DEADLOCK FALSE
