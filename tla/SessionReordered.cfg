SPECIFICATION Spec
CONSTANTS
  WindowSize = 2
  Device = {1, 2}
  Offset <- Aligned
  Skew = 2
  ReplayTtl = 2
  SeenCap = 4
  PendingTtl = 2
  SessionTtl = 9
  RetryInterval = 1
  QueueCapacity = 1
  MaxSequence = 2
  InOrder = FALSE
  Duplicates = FALSE
  MaxLosses = 0
  MaxFresh = 4
  MaxPackets = 3
  MaxClock = 0
  MaxReloads = 0
  MaxLapses = 0
INVARIANT Converged
