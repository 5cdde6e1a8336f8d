SPECIFICATION Spec
CONSTANTS
  NetworkId = {n1}
  DeviceId = {d1, d2, d3}
  Prefix = {{1}}
  Own = {0}
  ExitDevice = {}
  Pool4 = 2
  Pool6 = 2
  TokenTtl = 0
  MaxClock = 1
  MaxFresh = 6
  MaxEpoch = 4
  MaxPolicyEpoch = 2
  MaxFailures = 1
  MaxCrashes = 1
SYMMETRY Devices
CHECK_DEADLOCK FALSE
INVARIANTS AllocationSound TokenForOneDevice RotationExcludes MembershipDurable EpochNamesContent
