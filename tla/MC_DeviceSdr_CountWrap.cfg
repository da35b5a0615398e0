CONSTANTS
  IdBits = 3
  ResvBits = 1
  CountBits = 2
  Luns = {0}
  Fails = {FALSE}
SPECIFICATION Spec
INVARIANT PopulationReported
