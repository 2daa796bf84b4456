SPECIFICATION Spec
CONSTANTS
    w1 = w1
    w2 = w2
    Writers <- One
    Size = 2
    Fifo = 1
    MaxBytes = 3
    Settings <- FlowControl
INVARIANTS
    IInv
    ModemIrqKept
