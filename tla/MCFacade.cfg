CONSTANTS
  Operations = {"unlock", "bad_key", "lock", "background", "status", "poll", "activity", "vault", "sync", "revoke", "approve", "shutdown"}
  Timeout = 1
  Horizon = 2
  MaxCalls = 4
  Rare = {"poll", "bad_key", "background", "status", "activity", "revoke", "approve", "shutdown"}
  MaxRare = 1
  NoAnswer = NoAnswer
SPECIFICATION MCSpec
CHECK_DEADLOCK FALSE
INVARIANTS
  VaultCommandsInOrder
PROPERTIES
  ServedOnlyWhenOpened
  DispatchHonoursDeadline
  LockPreemptsSync
  EveryCallIsAnswered
