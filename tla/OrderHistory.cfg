SPECIFICATION Spec
CONSTANTS
  Orders = {o1, o2, o3}
  o1 = o1
  o2 = o2
  o3 = o3
  Numbers = {n1, n2}
  n1 = n1
  n2 = n2
  Settings <- MCSettings
  Day = 2
  MaxClock = 4
  MaxTrades = 2
  MaxKills = 2
SYMMETRY Symmetry
INVARIANTS TypeOK Complete OneRow
CHECK_DEADLOCK FALSE
