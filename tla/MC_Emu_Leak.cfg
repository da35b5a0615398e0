CONSTANTS
  Addrs = {32, 130, 131}
  Configs <- MCConfigs
  MaxMcs = 2
  SelIdSpace = 1
  SelMax = 2
  MaxSdrs = 1
  Fails = {FALSE}
SPECIFICATION Spec
INVARIANT ChildrenOwned
VIEW EmuView
