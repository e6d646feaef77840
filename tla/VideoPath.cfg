SPECIFICATION Spec
CONSTANTS
  Dims = {Small, Large}
  NoDims = NoDims
  MaxFrames = 4
  Slots = 2
  MaxCmds = 1
  MaxConns = 2
  MaxAttach = 1
  RestartsIds = FALSE
SYMMETRY DimsSymmetry
CHECK_DEADLOCK FALSE
INVARIANT LossRepaired
PROPERTY GateChain
