SPECIFICATION Spec
CONSTANTS
    SeqMod = 4
    IdMod = 2
    CreditJump = 2
    IoctlTimeout = 0
    StallTimeout = 0
    Window = 2
    QueueMax = 2
    ChipShapes <- CreditShapes
    FlowBits <- NoFlow
    Leftovers <- CreditLeftovers
INVARIANTS
    TypeOK
    WithinGrant
PROPERTIES
    AcceptsEveryGrant
    CreditsSpec
CONSTRAINT
    NotMisled
