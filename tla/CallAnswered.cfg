CONSTANTS
  A = A
  B = B
  Callers = {A}
  Offers = {"voice"}
  MaxPlaced = 1
SPECIFICATION FairSpec
PROPERTY AnsweredCallConnects
CHECK_DEADLOCK FALSE
