SPECIFICATION Spec
CONSTANTS
    d1 = d1
    d2 = d2
    d3 = d3
    NoDev = NoDev
    Devs <- AllThree
    LpDevs <- JustD1
    ExclDevs <- None
    Yielders <- None
    Closers <- None
    Interruptible <- None
    Preemptive = TRUE
INVARIANTS
    NoSelfWait
CHECK_DEADLOCK FALSE
