SPECIFICATION BusFairSpec
CONSTANTS
  Apdu = {1, 2, 3, 4, 5, 6}
  End = End
  SerNoMod = 2
  MaxRep = 1
  MaxSend = 3
  MaxRecv = 1
  MaxBuf = 1
  MaxOut = 2
  MaxDup = 1
  Exchanges <- MCExchanges
INVARIANTS
  EndToEnd
PROPERTIES
  ContractSpec
  SentOrClosed
CHECK_DEADLOCK FALSE
