CONSTANTS
  IdBits = 2
  ResvBits = 1
  MaxCounts <- MCMaxCounts
  RecordTypes <- MCRecordTypes
  Values <- MCValues
  Hysteresis <- MCHysteresis
  Supported <- MCSupported
  EnableBits <- MCEnableBitsAll
  Configs <- MCConfigs
  Addrs <- MCAddrs
INIT MCInit
NEXT Next
VIEW MCView
PROPERTY StatusTransitionsJustified
