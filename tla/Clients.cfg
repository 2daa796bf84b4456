SPECIFICATION Spec
CONSTANTS
    Files = {f1, f2}
    Lp = lp
    NoDev = none
    Settings <- Combinations
SYMMETRY Symmetry
CONSTRAINT Followed
INVARIANTS
    IInv
    UsesAsOwner
    RegistersKept
    ModesPaired
    LpHearsAskers
CHECK_DEADLOCK FALSE
