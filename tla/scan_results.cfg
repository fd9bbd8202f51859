SPECIFICATION FairSpec
CONSTANTS
    Networks <- SomeNetworks
    MaxScans = 3
    MaxResults = 2
    MaxQueue = 2
    MaxDamage = 1
INVARIANTS
    TypeOK
    ResultsTrue
    ActiveIsTrue
PROPERTIES
    ScanEnds
