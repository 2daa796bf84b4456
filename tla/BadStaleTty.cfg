SPECIFICATION Spec
CONSTANTS
    f1 = f1
    f2 = f2
    f3 = f3
    Files <- All
    Envs <- SignalAndHangup
INVARIANTS
    QuietWhenClosed
