SPECIFICATION MCSpec
SYMMETRY Symmetry
CONSTANTS
  Client = {a, b}
  Nil = Nil
  AuthFaults = {"request", "reply", "duplicate", "dropped", "turned_away"}
  ChallengeTtl = 1
  AccessTtl = 1
  RefreshTtl = 2
  MaxTime = 2
  MaxNonce = 2
  MaxToken = 3
  Unset = Unset
  KeyOrigins = {"File", "Ephemeral"}
  BackwardsTolerance = 1
  DriftWarning = 1
  DriftStale = 1
  SetBack <- Steps
  MaxClock = 3
  MaxReplies = 3
  MaxAsked = 3
  MaxRestarts = 2
  LocalStarts <- Starts
  Nothing = Nothing
  IpRate <- PerAddress
  VaultRate <- PerVault
  MaxBuckets = 2
  MaxBodyLen = 5
  MaxEnvelopeLen = 3
  MinNonceLen = 2
  MaxNonceLen = 4
  MaxLimit = 4
  MaxSeqNumber = 7
  HttpRequests <- AskedRequests
  HttpTokens <- TokenOf
  BaseDelay = 1
  MaxDelay = 3
  Multiplier = 2
  Jitter = "Equal"
  Entropy = {0, 2}
  RunAttempts = 3
  RunKey <- OwnVault
  MaxSeconds = 2
  small = small
  large = large
  NoEnvelope = NoEnvelope
  Item = {1, 2, 3}
  FeedClient = {c1, c2}
  Envelope <- Envelopes
  SizeOf <- Sizes
  MaxRows = 2
  MaxBytes = 3
  MaxSeq = 4
  PageLimit = 1
INVARIANTS
  FeedIsComplete
  VersionNamesContent
  WithinLimits
  NoReuseWithoutDuplicate
  MemberIsServed
  SessionsAreSound
  TimeIsSound
  ServedWithinRate
  RetriesSucceed
CHECK_DEADLOCK FALSE
