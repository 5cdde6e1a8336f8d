SPECIFICATION FairSpec
CONSTANTS
  Worlds <- TlsOnly
  Policies = {"preferred"}
  HealthTtl = 2
  PeerTtl = 4
  TransactionTtl = 1
  MaxDelay = 4
  MaxLosses = 0
  MaxReconnects = 0
  MaxRestarts = 0
PROPERTY FramesGetThrough
