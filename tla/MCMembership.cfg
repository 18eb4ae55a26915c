CONSTANTS
  Device = {a, b, n}
  Founders = {a, b}
  Item = {1}
  None = None
  Faults = {"reply"}
  MaxSeq = 3
SPECIFICATION Spec
SYMMETRY Alike
INVARIANTS
  NothingSkippedSinceRoster
  ListedWhileHeeded
  ReopensUnlessEpochMet
CHECK_DEADLOCK FALSE
