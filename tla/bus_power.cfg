SPECIFICATION PowerFairSpec
CONSTANTS
    FwBlocks = 1
    RamBlocks = 2
    MaxFaults = 0
    SleepMax = 2
    KsoTries = 2
    MaxFrames = 2
INVARIANTS
    PowerTypeOK
    TransfersAwake
    BusNeedsChip
PROPERTIES
    SleepsWhenIdle
    FramesRead
    LoopsEnd
