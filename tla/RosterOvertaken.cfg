SPECIFICATION Spec
CONSTANTS
  Device = {a, b, n, m}
  Founders = {a, b}
  Item = {1}
  None = None
  Faults = {}
  MaxSeq = 4
SYMMETRY Alike
CONSTRAINT NoneRevoked
INVARIANT NothingSkipped
CHECK_DEADLOCK FALSE
