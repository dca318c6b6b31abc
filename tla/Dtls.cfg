SPECIFICATION FairSpec
CONSTANTS
    Object = {1, 2, 3}
    Peer = {a1, a2}
    HandshakeTimeouts = {0, 1}
    IdleTimeout = 2
    MaxRetries = 1
    MaxQueue = 1
    None = None
INVARIANTS
    TablesAgree
    NeverOversleeps
PROPERTIES
    SilentIsRemoved
    RecordsAreRead
    WritesEnd
CHECK_DEADLOCK FALSE
