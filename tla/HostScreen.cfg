SPECIFICATION ScreenSpec
CONSTANTS
  Pages = {"shell"}
  Prompts = {1, 2}
  MaxEvents = 1
INVARIANT PendingIsShown
CHECK_DEADLOCK FALSE
