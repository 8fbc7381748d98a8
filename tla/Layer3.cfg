SPECIFICATION MCSpec
CONSTANTS
  Cb = {c1, c2, c3}
  YieldingCb = {c1}
  GroupAddr = {1}
  IndAddr = {1, 2}
  DefaultAddr = 1
  MaxReg = 3
  MaxIgnore = 2
  FrameKind = {"individual", "busmonitor", "broadcast", "group"}
  RegKind = {"busmonitor", "vbusmonitor", "broadcast", "group", "individual"}
INVARIANTS MonitorExclusive FiltersFollowCallbacks AddresseesGetIt
PROPERTY RepeatsFiltered
SYMMETRY Symmetry
CHECK_DEADLOCK FALSE
