\* the root node and two locks, two fabrics
SPECIFICATION Spec
CONSTANTS
    None = None
    Malformed = Malformed
    Broken = Broken
    FabricIndex = {1, 2}
    ISD <- MCISD
    Servers <- MCServers
    DeviceTypes <- MCDeviceTypes
    Attributes <- MCAttributes
    Commands <- MCCommands
    Events <- MCEvents
    ReadPaths <- MCReadPaths
    Request <- MCRequest
    AdminSubject <- MCAdminSubject
    WrittenEntries <- MCWrittenEntries
    MaxWritten = 2
    MaxEntries = 3
INVARIANTS
    GrantsMatchReference
    CallsAreDeserved
    WildcardsMatchConcrete
    RequestsAreAnswered
