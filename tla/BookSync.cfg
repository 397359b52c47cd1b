SPECIFICATION Spec
CONSTANTS
  Configs <- Mixed
  MaxVersion = 2
  MaxResets = 2
  Slow = FALSE
  None = None
INVARIANTS TypeOK BookExact DecisionsOnSyncedBooks
PROPERTIES Mirrors StopLeadsToReset
CHECK_DEADLOCK FALSE
