SPECIFICATION InterfacesSpec
CONSTANTS
  NumMod = 4
  Ahead = 2
  MaxRetry = 1
  MaxDrop = 2
  MaxBeat = 1
  NoQueue = FALSE
  MaxChannel = 2
  MaxSend = 2
  MaxTel = 2
  MaxInd = 2
  MaxMonitor = 2
  MaxWork = 3
  Overlap = FALSE
  MaxFault = 1
  MaxNet = 2
  MaxSubmit = 2
  PacketSize = 2
  MaxUnit = 2
  MaxMishap = 3
  Urls <- MCUrls
  Alternates <- MCAlternates
  Features = {{}, {1, 2}, {3}}
  MaxAsk = 2
  MaxReports = 2
  MaxBroken = 1
  MaxBus = 3
  MaxSwitch = 2
INVARIANTS
  CrossesInStep
  ChannelsAgree
  TelegramsInOrder
  LossOnlyAfterDrop
PROPERTIES
  PipeKept
  PacketsLeave
CHECK_DEADLOCK FALSE
