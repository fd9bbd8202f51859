SPECIFICATION FairSpec
CONSTANTS
    MaxWrite = 6
    MaxRead = 2
    MaxFaults = 1
INVARIANTS
    TypeOK
    TransfersExact
PROPERTIES
    ClockedOnlySelected
    CallsEnd
    Initializes
\* After Initialize nobody needs to call; a call that is stuck violates CallsEnd.
CHECK_DEADLOCK FALSE
