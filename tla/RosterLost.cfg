CONSTANTS
  Device = {a, b, n}
  Founders = {a, b}
  Item = {1}
  None = None
  Faults = {}
  MaxSeq = 3
SPECIFICATION Spec
INVARIANT JoinedStaysListed
CHECK_DEADLOCK FALSE
