SPECIFICATION FairSpec
CONSTANTS
    SeqMod = 2
    IdMod = 2
    CreditJump = 1
    IoctlTimeout = 1
    StallTimeout = 1
    Window = 1
    QueueMax = 1
    ChipShapes <- OtherShapes
    FlowBits <- AnyFlow
    Leftovers <- FewLeftovers
PROPERTIES
    CallsReturn
