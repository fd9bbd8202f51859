SPECIFICATION FairSpec
CONSTANTS
    QueueMax = 1
    ChipEvents <- Events
INVARIANTS
    TypeOK
    ApLinkTold
PROPERTIES
    RejoinUsesWpa
    LinkSpec
    UpNeedsAll
    RequestsServed
