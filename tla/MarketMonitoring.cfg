SPECIFICATION Spec
CONSTANTS
  Lists <- MCLists
  Quotes <- MCQuotes
  Topics <- MCTopics
  PoolSize = 2
  Threshold = 1500
  MaxPasses = 1
  MaxSaid = 1
  MaxKills = 1
INVARIANTS TypeOK OwnMarket WholeOrNothing NoGapMissed BotsKnowTheirPair LegsFit InOrder
PROPERTIES Delivered
CHECK_DEADLOCK FALSE
