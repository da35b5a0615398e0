CONSTANTS
  IdBits = 2
  ConfigSdrs <- MCConfigSdrs
  TimeBits = 2
  MaxTime = 2
  BootTimes <- MCBootTimes
  MaxNumSdrs = 1024
  Fails = {FALSE, TRUE}
  ClearOps = {0, 170, 1}
SPECIFICATION Spec
INVARIANT SdrAllocTerminates
