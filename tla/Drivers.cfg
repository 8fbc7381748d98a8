SPECIFICATION DriversSpec
CONSTANTS
  MaxSubmit = 2
  UpData <- MCUp
  Short = Short
  LostAfter = 1
  MaxWork = 2
  MaxTrouble = 1
  MaxLine = 1
  Cuts = {"exact", "short", "long"}
  MaxTelegram = 2
  MaxFrame = 2
  MaxLoad = 2
  MaxFault = 1
  MaxQueued = 1
  NackLimit = 3
  TimeoutLimit = 3
  Users = {"u", "v"}
  Versions = {1, 2}
  Noqueue = TRUE
  MaxChange = 4
  MaxFrames = 2
  MaxRestarts = 1
  MaxEvents = 4
INVARIANTS CrossInOrder TelegramsAccounted ModesAgree
PROPERTIES PipeContract EverythingLeaves HangIsNoticed
CHECK_DEADLOCK FALSE
