---------------------------- MODULE MCPortClients ----------------------------
(* Two files and the printer on one port.  All that the clients may do at  *)
(* once is too much, so a setting chosen in the initial state says which   *)
(* of it happens: two files with everything but signals; two files with    *)
(* modes or directions, writes and signals; two files and the printer with *)
(* writes; and with signals; and, on more than one CPU, two files with     *)
(* modes, directions and writes, with directions and signals, and two      *)
(* files and the printer.                                                  *)
EXTENDS PortClients, TLC

Combinations == {{"mode", "direction", "write"}, {"mode", "write", "signal"},
                 {"direction", "write", "signal"}, {"print", "write"},
                 {"print", "signal"}, {"smp", "mode", "direction", "write"},
                 {"smp", "direction", "signal"}, {"smp", "print"}}

\* With the printer a behaviour is followed up to the first claim whose
\* interruption nobody looks at.
Followed == cut => "print" \notin uses

Symmetry == Permutations(Files)
=============================================================================
