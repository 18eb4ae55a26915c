SPECIFICATION WritesSpec
CONSTANTS
  NoEnvelope = NoEnvelope
  Device = {1, 2}
  Item = {1, 2}
  PageLimit = 2
  MaxRetries = 1
  Operations = {"create", "edit"}
  Faults = {"request", "reply", "merge", "crash"}
  MaxWrites = 3
  MaxPurges = 1
  MaxSeals = 8
  MaxSeq = 9
INVARIANTS
  ConfirmedIsDurable
  CursorCoversMerged
PROPERTIES
  Replicates
  EventuallyConverged
