CONSTANTS
  IdBits = 2
  ResvBits = 1
  MaxCounts <- MCMaxCounts
  RecordTypes <- MCRecordTypes
  Values <- MCValues
  Hysteresis <- MCHysteresis
  Supported <- MCSupported
  EnableBits <- MCEnableBits
  Configs <- MCConfigs
  Addrs <- MCAddrs
INIT MCInit
NEXT Next
INVARIANT SetEventEnableAnswers
