SPECIFICATION Spec
CONSTANTS
    QueueMax = 1
    ChipEvents <- Events
INVARIANTS
    UpMeansLinked
