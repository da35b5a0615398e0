CONSTANTS
  BmcAddr <- MCBmcAddr
  McAddrs <- MCMcAddrs
  Responses <- MCFullResponses
  Requests <- MCRequests
  ChanBytes <- MCChanBytes
  Slaves <- MCSlaves
  NetFnLuns <- MCNetFnLuns
  SeqLuns <- MCSeqLuns
  InnerData <- MCInnerData
  Cuts <- MCCuts
  CodecSamples <- MCCodecSamples
  RdataCap <- MCRdataCap
SPECIFICATION Spec
INVARIANT ResponseFitsBuffer
