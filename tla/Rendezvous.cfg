SPECIFICATION Spec
CONSTANTS
    a = a
    b = b
    Device = {a, b}
    Nonce = {n1, n2}
    Epoch = 1
    World <- Worlds
    Lease = 2
    TransactionTtl = 1
    HealthTtl = 2
    RootTtl = 1
    DirectoryTtl = 0
    PeerTtl = 1
    NonceTtl = 2
    Skew = 1
    ClockError <- Ahead
    AckLife = 1
    BaseDelay = 1
    MaxDelay = 1
    MaxExponent = 0
INVARIANTS EnteredOnce HealthyIsHeld DirectoryAuthorized
CHECK_DEADLOCK FALSE
SYMMETRY Nonces
