SPECIFICATION Safe
CONSTANTS
  Lot = 2
  Tiny = 2
  Misread = {4}
  SellWriters = {}
  BuyWriters = {}
  Holdings <- ManyHoldings
  Bids <- ManyBids
  Asks <- ManyAsks
  Fresh = 0
  Threshold = 1000
  ReverseThreshold = 500
  BalanceThreshold = 1000
  MinCaps = {2, 3}
  Missing = Missing
  NoPair = NoPair
INVARIANTS TypeOK BothFill Covered NeverOvershoots MinimumKeepsOut CapLifted
CHECK_DEADLOCK FALSE
