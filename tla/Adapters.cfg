SPECIFICATION Spec
CONSTANTS
  o1 = o1
  o2 = o2
  Orders = {o1, o2}
  Coins = 2
  NoOrder = NoOrder
  Null = Null
  Nothing = Nothing
  NoDoc = NoDoc
  NoCall = NoCall
  Used = {"binance", "bittrex", "huobi", "kraken", "poloniex"}
  SoftErrors = {"bittrex", "huobi", "kraken"}
SYMMETRY Interchangeable
INVARIANTS TypeOK IdsAgree PlacedOnce ConfirmedIsCancelled
PROPERTY Promise
