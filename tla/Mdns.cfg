SPECIFICATION MdnsFairSpec
CONSTANTS
    FabricIndex = {1, 2}
    Fabric <- MCFabric
    Discriminator = {1, 2}
    BasicDiscriminator = 1
    PartialOf <- MCPartialOf
    Interface <- MCInterface
    Address <- MCAddress
    Query <- MCQuery
    MaxCount = 1
    None = None
INVARIANTS
    AnswersSuffice
    PacketsAreTrue
PROPERTIES
    AnnouncedInTheEnd
