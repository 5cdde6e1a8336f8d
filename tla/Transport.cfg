SPECIFICATION TransportSpec
CONSTANTS
  None = None
  Kinds = {"udp", "tls"}
  Grants = {2, 20}
  MinLife = 2
  MaxLife = 4
  PermissionLife = 5
  PermissionTtl = 4
  PermissionMargin = 1
  QueueCapacity = 1
  MaxLosses = 1
  MaxStale = 1
  MaxRestarts = 1
INVARIANTS Converged SendsArePermitted LeaseHeld
PROPERTIES HandshakeCompletes  FramesArrive
PROPERTIES  PathSettles MappingRecovers
CHECK_DEADLOCK FALSE
