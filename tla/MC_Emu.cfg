CONSTANTS
  Addrs = {32, 130, 131}
  Configs <- MCConfigs
  MaxMcs = 3
  SelIdSpace = 1
  SelMax = 2
  MaxSdrs = 1
  Fails = {FALSE, TRUE}
SPECIFICATION Spec
INVARIANT TypeOK
INVARIANT SlotsOwnMcs
VIEW EmuView
