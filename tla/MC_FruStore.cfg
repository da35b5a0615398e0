CONSTANTS
  DevIds = {0, 1}
  RdataCap = 4
  Requests <- MCRequests
  Adds <- MCAdds
  AllocFails = {FALSE}
SPECIFICATION Spec
INVARIANT TypeOK
PROPERTY FruAreaSpec
