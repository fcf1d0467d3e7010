SPECIFICATION Spec
CONSTANTS
  Clients = {c1}
  Max = 3
  Window = 2
  Jumps <- JumpsBoth
  MaxTime = 6
  MaxSkew = 2
  None = None
CHECK_DEADLOCK FALSE
INVARIANTS TypeOK AtMostMax RefusalJustified
