SPECIFICATION Spec
CONSTANTS
  WindowSize = 2
  Device = {1, 2}
  Offset <- Apart
  Skew = 2
  ReplayTtl = 5
  SeenCap = 4
  PendingTtl = 9
  SessionTtl = 9
  RetryInterval = 9
  QueueCapacity = 1
  MaxSequence = 2
  InOrder = FALSE
  Duplicates = TRUE
  MaxLosses = 0
  MaxFresh = 3
  MaxPackets = 2
  MaxClock = 0
  MaxReloads = 1
  MaxLapses = 0
INVARIANT AnsweredOnce
