CONSTANTS
  Operations = {"unlock", "status", "sync"}
  Timeout = 1
  Horizon = 2
  MaxCalls = 3
  Rare = {"status"}
  MaxRare = 1
  NoAnswer = NoAnswer
SPECIFICATION MCSpec
CHECK_DEADLOCK FALSE
PROPERTIES
  SyncKeepsDeadline
