SPECIFICATION Spec
CONSTANTS
    Exchange = {x1}
    MaxSessionId = 2
    MaxFabricIndex = 1
    FabricIdentity = {fabA, fabB}
    MaxDetached = 1
    None = None
    MaxCancelTasks = 2
    WrittenModes = {"CASE"}
SYMMETRY FabricSymmetry
INVARIANTS
    WindowHasTimeout
    VerifierFollowsWindow
    EmptyIsCommissionable
    OneOwnerPerId
    SessionsHaveTheirFabric
    GrantsAreNotInherited
    RemovedStaysRemoved
CHECK_DEADLOCK FALSE
