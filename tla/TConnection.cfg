SPECIFICATION FairSpec
CONSTANTS
  Apdu = {a}
  End = End
  SerNoMod = 3
  MaxRep = 3
  MaxSend = 2
  MaxRecv = 1
  MaxBuf = 1
  MaxOut = 1
INVARIANTS
  Consistent
  NoQueueUnderflow
  BoundedTransmissions
  StopAndWait
  ReadInOrderThenEnd
  SendQueueConserved
PROPERTIES
  DeleteReturns
  SilenceCloses
CHECK_DEADLOCK FALSE
