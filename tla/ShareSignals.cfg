SPECIFICATION Spec
CONSTANTS
    d1 = d1
    d2 = d2
    d3 = d3
    NoDev = NoDev
    Devs <- D1D2
    LpDevs <- JustD1
    ExclDevs <- None
    Yielders <- D1D2
    Closers <- D1D2
    Interruptible <- D1D2
    Preemptive = TRUE
INVARIANTS
    IInv
    HeldIsOwner
PROPERTIES
    ImplementsLock
CHECK_DEADLOCK FALSE
