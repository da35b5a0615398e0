CONSTANTS
  DevIds = {0, 1}
  RdataCap = 4
  Requests <- MCRequests
  Adds <- MCAdds
  AllocFails = {FALSE, TRUE}
SPECIFICATION Spec
PROPERTY FruAreaSpec
