SPECIFICATION Spec
CONSTANTS
  NoEnvelope = NoEnvelope
  Device = {1, 2}
  Item = {1}
  PageLimit = 1
  MaxRetries = 1
  Operations = {"create", "edit", "delete", "purge"}
  Faults = {"reply", "sweep"}
  MaxWrites = 3
  MaxPurges = 1
  MaxSeals = 8
  MaxSeq = 5
INVARIANTS
  ConfirmedIsDurable
