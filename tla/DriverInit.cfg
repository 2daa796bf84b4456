SPECIFICATION Spec
CONSTANTS
    Systems <- MCSystems
    SNX_BOARDS_MAX = 4
    SNX_SER_TOTAL_MAX = 32
    SNX_PAR_SUPPORT_MAX = 2
    SNX_PAR_TOTAL_MAX = 4
    SNX_LP_NO = 4
    MaxUse = 2
INVARIANTS
    IInv
    KnownCardsFound
    PortsApart
    UndoneWhenFailed
    UpIsComplete
    PortRefsMatch
CHECK_DEADLOCK FALSE
