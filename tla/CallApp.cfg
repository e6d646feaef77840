CONSTANTS
  A = A
  B = B
  Callers = {A}
  Offers = {"voice"}
  MaxPlaced = 1
SPECIFICATION FairSpec
INVARIANT NothingBeforeTheAnswer
PROPERTY EndedCallStopsCapturing HangUpIsHeard
CHECK_DEADLOCK FALSE
