CONSTANTS
  IdBits = 2
  ResvBits = 1
  CountBits = 8
  Luns = {0}
  Fails = {FALSE}
SPECIFICATION Spec
INVARIANT NextIdEndsWalk
