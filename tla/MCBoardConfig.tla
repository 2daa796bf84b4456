---------------------------- MODULE MCBoardConfig ----------------------------
(* One board of each sort in the table of boards (snx_devtable.c:409-640)  *)
(* whose calls differ, with two ports of a group: each with calls of every  *)
(* kind one at a time, and two of them with calls that overlap, where the   *)
(* last call finds what the first two left.                                 *)
EXTENDS BoardConfig, TLC

Board(uart, far, gpio, t0, t1) ==
    [uart |-> uart, far |-> far, gpio |-> gpio, came |-> (0 :> t0 @@ 1 :> t1)]

CDK1056 == Board(0, FALSE, "six", 0, 0)
DIO1604 == Board(0, FALSE, "banks", 0, 0)
P2108   == Board(1, FALSE, "none", 1, 2)
P2116   == Board(1, TRUE, "none", 2, 3)    \* ports 9 and 10
P3108   == Board(2, FALSE, "none", 0, 3)

InTurn == [types |-> 0..3, acs |-> BOOLEAN, together |-> 1, troubles |-> 1]

AllSettings ==
    [board : {CDK1056, DIO1604, P2108, P2116, P3108}, use : {InTurn}]
    \union {[board |-> CDK1056, use |-> [types |-> {0}, acs |-> {TRUE},
                                        together |-> 2, troubles |-> 1]],
            [board |-> P2108, use |-> [types |-> {2}, acs |-> {TRUE},
                                       together |-> 2, troubles |-> 0]]}

Symmetry == Permutations(Callers)
=============================================================================
