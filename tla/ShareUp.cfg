SPECIFICATION FairSpec
CONSTANTS
    d1 = d1
    d2 = d2
    d3 = d3
    NoDev = NoDev
    Devs <- AllThree
    LpDevs <- JustD1
    ExclDevs <- D2D3
    Yielders <- AllThree
    Closers <- AllThree
    Interruptible <- None
    Preemptive = FALSE
INVARIANTS
    UpInv
    WaitlistOK
    NoSelfWait
    NoUseAfterFree
    AllCanBeWoken
    NoOrphan
    ExclusiveFlag
PROPERTIES
    FifoGrant
    ClaimReturns
