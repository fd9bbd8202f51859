SPECIFICATION Spec
CONSTANTS
    ClmLen = 4
    ChunkLen = 2
    ApConfigs <- SomeConfigs
    PmWords <- SomeWords
    Stations = 1
    MaxStations = 2
    MaxFaults = 1
    Unset = Unset
    Junk = Junk
    Nothing = Nothing
INVARIANTS
    TypeOK
    ClmWhole
    BaselineHolds
    ApAsConfigured
    AnswersRight
PROPERTIES
    ApLeftAlone
