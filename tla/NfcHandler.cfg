SPECIFICATION HandlerSpec
CONSTANTS
    front = front
    back = back
    r1 = r1
    r2 = r2
    Lock = {front, back}
    Reader = {r1, r2}
    LockOf <- MCLockOf
    FabricIndex = {fab1, fab2}
    MaxUserIndex = 2
    CredentialType = {issuer, evictable}
    CredentialIndex = {1}
    EveryIndex = 2
    MaxFailures = 1
    None = None
SYMMETRY Symmetry
CONSTRAINT Bound
INVARIANTS
    ClearedSoonUseless
    CredentialsBelongToUsers
PROPERTIES
    BoltIsReported
    StartsAsSaved
CHECK_DEADLOCK FALSE
