CONSTANTS
  IdBits = 2
  ResvBits = 2
  MaxCounts <- MCMaxCounts
  RecordTypes <- MCRecordTypes
SPECIFICATION Spec
INVARIANT NoUseAfterFree
