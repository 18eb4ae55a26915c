SPECIFICATION MCSpec
CONSTANTS
  NoEnvelope = NoEnvelope
  Device = {1, 2}
  Item = {1, 2}
  PageLimit = 2
  MaxRetries = 1
  Operations = {"create", "edit", "delete", "purge", "rewrap", "reset"}
  Faults = {"request", "reply", "crash", "merge", "save", "sweep"}
  MaxWrites = 3
  MaxPurges = 1
  MaxSeals = 8
  MaxSeq = 5
INVARIANTS
  CursorCoversMerged
  

  
