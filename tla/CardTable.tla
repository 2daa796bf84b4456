----------------------------- MODULE CardTable -----------------------------
(***************************************************************************)
(* The cards the driver knows (driver/snx_devtable.c, and the PCI id table *)
(* of driver/snx_main.c, whose entries are in the same order).             *)
(*                                                                         *)
(* A card has its subdevice id, what the table says of BAR 3 (part number, *)
(* GPIO card type and number of GPIO channels), its UARTs and parallel     *)
(* ports with their places in the BARs, and the place of its interrupt     *)
(* vector.  A remapped card has no vector.                                 *)
(***************************************************************************)
EXTENDS Integers, Sequences

Uart(bar, offset, chip) == [bar |-> bar, offset |-> offset, chip |-> chip]

\* Changed definition: the third and fourth UART stay in BAR 0.
GoldenUartOneBar(j) ==
    IF j < 4 THEN Uart(0, 8 * (j % 2), IF j < 2 THEN "SUN1889" ELSE "SUN1699")
             ELSE Uart(j - 2, 0, "SUN1699")

\* Two 16-byte UARTs in each of BAR 0 and BAR 1, then one in each BAR.
GoldenUart(j) ==
    IF j < 4 THEN Uart(j \div 2, 8 * (j % 2), IF j < 2 THEN "SUN1889" ELSE "SUN1699")
             ELSE Uart(j - 2, 0, "SUN1699")

RemapUart(j) == Uart(j + 2, 0, "SUN1699")

MatrixUart(j) == Uart(0, 8 * j, "SUNMATX")

\* Groups of four: the first in BAR 0, the others at 0, 64 and 128 of BAR 1.
Sun1999Uart(j) ==
    IF j < 4 THEN Uart(0, 8 * j, "SUN1999")
             ELSE Uart(1, 64 * (j \div 4 - 1) + 8 * (j % 4), "SUN1999")

\* A card of the older families has no part number; bars are the first BARs
\* of its parallel ports, each of which has the next BAR, too.
OldCard(sub, remap, uarts, bars, vector) ==
    [sub |-> sub, part |-> 0, type |-> 0, gpio |-> 0, remap |-> remap, uarts |-> uarts,
     lpts |-> bars, chip |-> "SUN1689", vector |-> vector]

Golden(sub, ser, bars) ==
    OldCard(sub, FALSE, [j \in 1 .. ser |-> GoldenUart(j - 1)], bars, <<0, 28>>)

Remap(sub, ser) ==
    OldCard(sub, TRUE, [j \in 1 .. ser |-> RemapUart(j - 1)], <<>>, <<0, 0>>)

Matrix(sub, ser) ==
    OldCard(sub, FALSE, [j \in 1 .. ser |-> MatrixUart(j - 1)], <<>>, <<1, 0>>)

Sun1999(sub, ser, bars, part, type, gpio) ==
    [sub |-> sub, part |-> part, type |-> type, gpio |-> gpio, remap |-> FALSE,
     uarts |-> [j \in 1 .. ser |-> Sun1999Uart(j - 1)], lpts |-> bars,
     chip |-> "SUN1999", vector |-> IF ser = 0 THEN <<0, 0>> ELSE <<3, 0>>]

----------------------------------------------------------------------------
\* The first entry is GOLDEN_BOARD_TEST, which has no ports.
Golden4000 ==
    <<Golden(\h9999, 0, <<>>), Golden(\h4027, 1, <<>>), Remap(\h5027, 1),
      Golden(\h4037, 2, <<>>), Remap(\h5037, 2), Golden(\h0002, 2, <<>>),
      Golden(\h4056, 4, <<>>), Remap(\h6056, 4), Golden(\h4055, 4, <<>>),
      Golden(\h4066, 8, <<>>), Golden(\h5066, 8, <<>>)>>

Golden8000 ==
    <<Golden(\h8138, 2, <<>>), Golden(\h9138, 2, <<>>), Golden(\h8156, 4, <<>>),
      Golden(\h9156, 4, <<>>), Golden(\h8166, 8, <<>>), Golden(\h9166, 8, <<>>)>>

GoldenMulti ==
    <<Golden(\h5079, 2, <<2>>), Golden(\h4089, 2, <<2, 4>>), Golden(\h4096, 4, <<2, 4>>)>>

MatrixP1000 ==
    <<Matrix(\h1002, 2), Matrix(\h1004, 4), Matrix(\h1008, 8), Matrix(\h1016, 16)>>

MatrixP2000 ==
    <<Matrix(\h2002, 2), Matrix(\h2004, 4), Matrix(\h2008, 8), Matrix(\h3002, 2),
      Matrix(\h3004, 4), Matrix(\h3008, 8)>>

Sun1999Serial ==
    <<Sun1999(\h0001, 1, <<>>, \h01, 0, 0), Sun1999(\h0002, 2, <<>>, \h02, 0, 0),
      Sun1999(\h0004, 4, <<>>, \h04, 0, 0), Sun1999(\h0008, 8, <<>>, \h08, 0, 0),
      Sun1999(\h0010, 16, <<>>, \h10, 0, 0)>>

Sun1999Multi ==
    <<Sun1999(\h0101, 1, <<1>>, \h01, 0, 0), Sun1999(\h0102, 2, <<1>>, \h02, 0, 0),
      Sun1999(\h0104, 4, <<1>>, \h04, 0, 0), Sun1999(\h0100, 0, <<1>>, 0, 0, 0)>>

Sun1999Rs485 ==
    <<Sun1999(\h0002, 2, <<>>, \h42, 0, 0), Sun1999(\h0004, 4, <<>>, \h44, 0, 0),
      Sun1999(\h0008, 8, <<>>, \h48, 0, 0), Sun1999(\h0010, 16, <<>>, \h50, 0, 0)>>

\* Three-in-one cards, cash drawer cards and digital I/O cards.
Sun1999Special ==
    <<Sun1999(\h0084, 4, <<>>, \h84, 0, 0), Sun1999(\h0088, 8, <<>>, \h88, 0, 0),
      Sun1999(\h0002, 2, <<>>, \h02, 1, 6), Sun1999(\h0004, 4, <<>>, \h04, 1, 6),
      Sun1999(\h0002, 2, <<>>, \h02, 2, 8), Sun1999(\h0004, 4, <<>>, \h04, 2, 16),
      Sun1999(\h0004, 4, <<>>, \h04, 2, 32)>>

snx_pci_board_conf ==
    Golden4000 \o Golden8000 \o GoldenMulti \o MatrixP1000 \o MatrixP2000 \o
    Sun1999Serial \o Sun1999Multi \o Sun1999Rs485 \o Sun1999Special

\* The PCI vendor and device of entry e.
IdOf(e) ==
    LET golden == Len(Golden4000) + Len(Golden8000) + Len(GoldenMulti)
        matrix == golden + Len(MatrixP1000) + Len(MatrixP2000)
    IN IF e <= golden THEN "golden" ELSE IF e <= matrix THEN "matrix" ELSE "sun1999"

=============================================================================
