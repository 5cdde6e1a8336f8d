CONSTANTS
    g = g
    me = me
    None = None
    Gateway <- Gateways
    Self = me
    MaxFaults <- NoFaults
    MaxEpoch = 2
    MaxEra = 1
    MaxCalls = 1
SPECIFICATION Spec
PROPERTY KillSwitchStays
CHECK_DEADLOCK FALSE
