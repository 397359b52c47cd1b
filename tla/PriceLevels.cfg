SPECIFICATION Spec
CONSTANTS
  Prices <- FivePrices
  MaxVolume = 3
  Dust = 1
INVARIANTS TypeOK BestFirst
PROPERTY KeepsMap
