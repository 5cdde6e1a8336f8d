SPECIFICATION Spec
CONSTANTS
  NetworkId = {n1}
  DeviceId = {d1, d2}
  Prefix = {{1, 2}, {1}}
  Own = {0}
  ExitDevice = {}
  Pool4 = 2
  Pool6 = 0
  TokenTtl = 0
  MaxClock = 0
  MaxFresh = 4
  MaxEpoch = 4
  MaxPolicyEpoch = 3
  MaxFailures = 0
  MaxCrashes = 0
SYMMETRY Devices
CHECK_DEADLOCK FALSE
INVARIANT Reopens
