SPECIFICATION Spec
CONSTANTS
    Compositions <- MCCompositions
    Width <- MCWidth
    WithNul <- MCWithNul
    MaxPayload = 20
    MaxNameLen = 12
    MaxGroups = 4
    MaxSources = 3
INVARIANTS
    TypeOK
    DescribesDevice
    WriteReaches
PROPERTIES
    DiscoverySucceeds
