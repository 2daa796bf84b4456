---------------------------- MODULE MCSerialOpen ----------------------------
(* Instances of SerialOpen for TLC: three files, and the environments. *)
EXTENDS SerialOpen, TLC

CONSTANTS f1, f2, f3

All == {f1, f2, f3}

E(blockless, admins, setters, signals, failing, hangups) ==
    [nonBlocking |-> blockless, admins |-> admins, setters |-> setters,
     signals |-> signals, failing |-> failing, hangups |-> hangups]

\* One file waits for carrier, and the tty is hung up; or two wait, with
\* signals; or opens fail wherever they can.
Passing == {E({f1, f2}, {}, {}, {}, FALSE, TRUE),
            E({f1}, {}, {f1}, {"wait"}, FALSE, FALSE),
            E({f1}, {f1}, All, {"get", "wait"}, TRUE, FALSE)}

SignalAndHangup == {E({f1}, {}, {}, {"wait"}, FALSE, TRUE)}

SignalInGet == {E({f1, f2}, {}, {f1}, {"get"}, FALSE, FALSE)}

=============================================================================
