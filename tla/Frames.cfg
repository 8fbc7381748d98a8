SPECIFICATION FramesSpec
CONSTANTS
  Lengths = {1}
  MaxHops = 1
INVARIANTS
  PriorityKept
CHECK_DEADLOCK FALSE
