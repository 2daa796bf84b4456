SPECIFICATION Spec
CONSTANTS
    Callers = {c1, c2}
    Ports = {0, 1}
    Settings <- AllSettings
    MaxCalls = 3
SYMMETRY Symmetry
CHECK_DEADLOCK FALSE
INVARIANTS
    IInv
    TypeKept
    FlashKept
