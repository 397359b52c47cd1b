SPECIFICATION Spec
CONSTANTS
  Lot = 2
  Tiny = 2
  Misread = {4}
  SellWriters = {w1, w2}
  BuyWriters = {w3}
  Holdings <- OneHolding
  Bids <- FewBids
  Asks <- FewAsks
  Fresh = 1
  Threshold = 1000
  ReverseThreshold = 500
  BalanceThreshold = 1000
  MinCaps = {2}
  Missing = Missing
  NoPair = NoPair
PROPERTY StopsWithoutBalances
CHECK_DEADLOCK FALSE
