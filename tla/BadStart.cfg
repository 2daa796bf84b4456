SPECIFICATION Spec
CONSTANTS
    w1 = w1
    w2 = w2
    Writers <- One
    Size = 2
    Fifo = 1
    MaxBytes = 2
    Settings <- PlainSmp
INVARIANTS
    NoLostStart
