CONSTANTS
    g = g
    me = me
    None = None
    Gateway <- Gateways
    Self = me
    MaxFaults <- OneKind
    MaxEpoch = 2
    MaxEra = 1
    MaxCalls = 2
SPECIFICATION Spec
INVARIANT TypeOK SelectionBacked
PROPERTY WithdrawalFailsClosed Converges
CHECK_DEADLOCK FALSE
