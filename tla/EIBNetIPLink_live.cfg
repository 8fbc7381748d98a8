SPECIFICATION FairSpec
CONSTANTS
  NumMod = 4
  Ahead = 2
  MaxRetry = 1
  MaxDrop = 2
  MaxBeat = 1
  NoQueue = TRUE
  MaxChannel = 2
  MaxSend = 1
  MaxTel = 2
  MaxInd = 1
  MaxMonitor = 1
  MaxWork = 2
  Overlap = FALSE
  MaxFault = 1
  MaxNet = 2
PROPERTIES
  Recovers
  Drains
