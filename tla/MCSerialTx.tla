----------------------------- MODULE MCSerialTx -----------------------------
(* Instances of SerialTx for TLC: one or two writers, flow control settings. *)
EXTENDS SerialTx, TLC

CONSTANTS w1, w2

One == {w1}
Two == {w1, w2}

\* No flow control; XON/XOFF on two processors; CRTSCTS on one processor.
Setting(s, h, c) == [soft |-> s, hard |-> h, oneCpu |-> c]
PlainOneCpu == {Setting(FALSE, FALSE, TRUE)}
PlainSmp == {Setting(FALSE, FALSE, FALSE)}
FlowControl == {Setting(TRUE, FALSE, FALSE), Setting(FALSE, TRUE, TRUE)}

=============================================================================
