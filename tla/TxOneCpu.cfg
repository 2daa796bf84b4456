SPECIFICATION FairSpec
CONSTANTS
    w1 = w1
    w2 = w2
    Writers <- Two
    Size = 4
    Fifo = 2
    MaxBytes = 5
    Settings <- PlainOneCpu
INVARIANTS
    IInv
    TxStream
    ShadowIsTrue
    NoLostStart
PROPERTIES
    Drains
