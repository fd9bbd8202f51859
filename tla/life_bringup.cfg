SPECIFICATION Spec
CONSTANTS
    FwBlocks = 24
    RamBlocks = 32
    MaxFaults = 2
INVARIANTS
    TypeOK
    AccessesLand
    InterfacesMatch
    UpMeansBooted
