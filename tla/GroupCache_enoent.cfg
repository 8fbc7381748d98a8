SPECIFICATION Spec
CONSTANTS
  Addr = {1}
  Val = {v}
  Reader = {r1}
  MaxTel = 3
  MaxAdmin = 2
PROPERTIES
  EnoentMeansAsked
CHECK_DEADLOCK FALSE
