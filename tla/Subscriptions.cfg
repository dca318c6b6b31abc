SPECIFICATION Spec
CONSTANTS
    FabricIndex = {f1, f2}
    NodeId = {n1}
    Attribute = {state}
    Event = {alarm}
    state = state
    alarm = alarm
    Request <- MCRequest
    MaxSid = 2
    Object = {s1, s2}
    MaxTasks = 1
    None = None
SYMMETRY Symmetry
INVARIANTS
    ReportedInTime
    KeepsAlive
    StrayTimersAreKnown
PROPERTIES
    ReportsPaced
CHECK_DEADLOCK FALSE
