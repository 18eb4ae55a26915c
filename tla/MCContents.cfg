SPECIFICATION MCSpec
CONSTANTS
  Device = {1, 2}
  MinWall = 1
  MaxWall = 3
  MaxCounter = 1
  Retention = 1
  HostWall <- HostWalls
  Replica = {0, 1}
  Field = {f}
  Value = {1, 2}
  Tag = {t}
  Hotp = Hotp
  NoItem = NoItem
  MaxStamp = 4
  Stamp <- Stamps
  Owner <- OwnerOf
  MaxCount = 2
  Peers = {a, b}
  SecretBytes = {1, 2, 3}
  OriginalId = 0
  MaxMergeSteps = 3
  MaxRepairs = 2
  MaxOthers = 1
  NoLabel = NoLabel
  EntryIds = {1, 2}
  GroupIds = {"g"}
  NewItems <- AddedItems
  EditInputs <- GivenEdits
  MaxSetEntries = 2
  MaxCommands = 4
  MaxWritesOfOne = 4
  None = None
  MaxSecretLen = 3
  PrefixLen = 2
  MaxU64 = 125000
  MaxResyncWindow = 11
  MaxUriLen = 11
  Width <- Places
  OtpSecrets <- BuiltSecrets
  OtpPins <- BuiltPins
  Unprintable <- ControlPins
  OtpInputs <- ScannedUris
  Instants <- Times
  Offsets <- Shifts
  MaxTags = 2
  MaxKdfCost = 20000
  MaxSlotsTried = 3
  MaxRows = 4
  MaxNameLen = 3
  MaxInserts = 1
  Files <- SealedFiles
  Passphrases = {None, "p", "q"}
INVARIANTS
  ReissuedOnlyAfterPurge
  NextStampWins
  Converges
  NoClockCollision
  DeleteHoldsUntilEdit
  TagsFollowWrites
  UseIsCountedOnce
  ForksKeepCredentials
  ForksSettle
  EntriesInOrder
  UpdateDoesItsPart
  CodesAreRight
  UrisKeepCodes
  EveryRowIsAccounted
  FilesAreReadAsWritten
CHECK_DEADLOCK FALSE
