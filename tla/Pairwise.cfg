SPECIFICATION PairwiseSpec
CONSTANTS
  WindowSize = 2
  Device = {1, 2}
  Offset <- Aligned
  Skew = 1
  ReplayTtl = 2
  SeenCap = 4
  PendingTtl = 0
  SessionTtl = 0
  RetryInterval = 1
  QueueCapacity = 1
  MaxSequence = 2
  InOrder = FALSE
  Duplicates = TRUE
  MaxLosses = 0
  MaxFresh = 3
  MaxPackets = 4
  MaxClock = 1
  MaxReloads = 1
  MaxLapses = 0
INVARIANTS NonceUnique AtMostOnce
PROPERTY OpensOnce
CHECK_DEADLOCK FALSE
