SPECIFICATION FairSpec
CONSTANTS
  NoEnvelope = NoEnvelope
  Device = {1, 2}
  Item = {1}
  PageLimit = 1
  MaxRetries = 1
  Operations = {"create", "delete", "purge"}
  Faults = {}
  MaxWrites = 2
  MaxPurges = 1
  MaxSeals = 8
  MaxSeq = 9
PROPERTIES
  KeepsCatchingUp
