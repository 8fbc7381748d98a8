SPECIFICATION EMISpec
CONSTANTS
  Users = {"u", "v"}
  Noqueue = TRUE
  Versions = {1}
  MaxChange = 3
  MaxFrames = 0
  MaxRestarts = 0
  MaxEvents = 3
INVARIANT SuccessMeansMonitor
CHECK_DEADLOCK FALSE
