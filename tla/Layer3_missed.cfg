SPECIFICATION Spec
CONSTANTS
  Cb = {c1, c2, c3}
  YieldingCb = {c1}
  GroupAddr = {1}
  IndAddr = {1, 2}
  DefaultAddr = 1
  MaxReg = 3
  MaxIgnore = 2
  FrameKind = {"group"}
  RegKind = {"group"}
INVARIANT StayingGet
CHECK_DEADLOCK FALSE
