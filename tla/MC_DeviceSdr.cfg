CONSTANTS
  IdBits = 2
  ResvBits = 2
  CountBits = 8
  Luns = {0, 1}
  Fails = {FALSE, TRUE}
SPECIFICATION Spec
INVARIANT TypeOK
