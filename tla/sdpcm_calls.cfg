SPECIFICATION Spec
CONSTANTS
    SeqMod = 2
    IdMod = 2
    CreditJump = 1
    IoctlTimeout = 1
    StallTimeout = 1
    Window = 1
    QueueMax = 2
    ChipShapes <- CallShapes
    FlowBits <- NoFlow
    Leftovers <- CallLeftovers
INVARIANTS
    ReplyNeedsRequest
    ReplyNotLost
    EventsHandled
    SentIfOk
