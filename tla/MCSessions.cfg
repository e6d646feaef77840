SPECIFICATION SessionsSpec
CONSTANTS
  MaxConns = 2
  Viewers = {1, 2}
  Starters = {a1}
  Nobody = 0
  MaxShares = 2
  MaxOthers = 1
  MaxLosses = 1
  Readers = {"viewer", "share", "headless"}
  Depth = 5
  MaxEvents = 4
INVARIANTS EndIsShown AuthorityIsCurrent AllowIsServed SlotIsTheShare
PROPERTY EndsReachAll
CHECK_DEADLOCK FALSE
