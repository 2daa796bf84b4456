-------------------------- MODULE CardProbe_proofs --------------------------
(***************************************************************************)
(* Facts about CardProbe and its table: no entry of the table has ports    *)
(* that overlap, and the tables of ports give every port of every board a  *)
(* place of its own.                                                       *)
(***************************************************************************)
EXTENDS CardProbe, FiniteSetTheorems, WellFoundedInduction, TLAPS

----------------------------------------------------------------------------
(* The table of known cards.                                               *)

Chips == {"SUN1889", "SUN1699", "SUN1689", "SUNMATX", "SUN1999"}
Uarts == [bar : Nat, offset : Nat, chip : Chips]

Described ==
    [sub : Nat, part : Nat, type : Nat, gpio : Nat, remap : BOOLEAN,
     uarts : Seq(Uarts), lpts : Seq(Nat), chip : Chips, vector : Nat \X Nat]

\* Two places of eight bytes in the BARs do not overlap.
Clear(b, o, c, p) == b # c \/ o + 8 <= p \/ p + 8 <= o

UartsClear(u) ==
    \A j, k \in DOMAIN u : j # k => Clear(u[j].bar, u[j].offset, u[k].bar, u[k].offset)
\* A parallel port has BAR l[k] and the next.
LptsClear(u, l) ==
    /\ \A j \in DOMAIN u, k \in DOMAIN l :
          u[j].bar # l[k] /\ u[j].bar # l[k] + 1
    /\ \A j, k \in DOMAIN l : j # k => l[j] + 1 < l[k] \/ l[k] + 1 < l[j]
Outside(b, o, v) == v[1] # b \/ v[2] \notin o .. o + 7
VectorClear(u, l, v) ==
    u # <<>> => /\ \A j \in DOMAIN u : Outside(u[j].bar, u[j].offset, v)
                /\ \A k \in DOMAIN l : Outside(l[k], 0, v) /\ Outside(l[k] + 1, 0, v)

\* An entry of the table whose ports do not overlap each other or the vector.
Sound ==
    {e \in Described : /\ UartsClear(e.uarts) /\ LptsClear(e.uarts, e.lpts)
                       /\ e.remap \/ VectorClear(e.uarts, e.lpts, e.vector)}

\* A place of the table.
LEMMA UartIs ==
    ASSUME NEW b \in Nat, NEW o \in Nat, NEW c \in Chips
    PROVE  Uart(b, o, c) \in Uarts /\ Uart(b, o, c).bar = b /\ Uart(b, o, c).offset = o
BY DEF Uart, Uarts

\* The places of the four families.
LEMMA GoldenUartIs ==
    ASSUME NEW j \in Nat
    PROVE  /\ GoldenUart(j) \in Uarts
           /\ GoldenUart(j).bar = IF j < 4 THEN j \div 2 ELSE j - 2
           /\ GoldenUart(j).offset = IF j < 4 THEN 8 * (j % 2) ELSE 0
<1>1. CASE j < 4
  <2>1. (IF j < 2 THEN "SUN1889" ELSE "SUN1699") \in Chips
    BY DEF Chips
  <2>2. j \div 2 \in Nat /\ 8 * (j % 2) \in Nat
    OBVIOUS
  <2> QED BY <1>1, <2>1, <2>2, UartIs DEF GoldenUart
<1>2. CASE ~(j < 4)
  <2>1. j - 2 \in Nat /\ 0 \in Nat /\ "SUN1699" \in Chips
    BY <1>2 DEF Chips
  <2> QED BY <1>2, <2>1, UartIs DEF GoldenUart
<1> QED BY <1>1, <1>2

\* A remapped card has one UART in each BAR from 2 on.
LEMMA RemapUartIs ==
    ASSUME NEW j \in Nat
    PROVE  RemapUart(j) \in Uarts /\ RemapUart(j).bar = j + 2 /\ RemapUart(j).offset = 0
<1>1. j + 2 \in Nat /\ 0 \in Nat /\ "SUN1699" \in Chips
  BY DEF Chips
<1> QED BY <1>1, UartIs DEF RemapUart

\* A matrix card has all its UARTs in BAR 0.
LEMMA MatrixUartIs ==
    ASSUME NEW j \in Nat
    PROVE  MatrixUart(j) \in Uarts /\ MatrixUart(j).bar = 0 /\ MatrixUart(j).offset = 8 * j
<1>1. 8 * j \in Nat /\ 0 \in Nat /\ "SUNMATX" \in Chips
  BY DEF Chips
<1> QED BY <1>1, UartIs DEF MatrixUart

\* A SUN1999 card has its first four UARTs in BAR 0.
LEMMA Sun1999UartIs ==
    ASSUME NEW j \in Nat
    PROVE  /\ Sun1999Uart(j) \in Uarts
           /\ Sun1999Uart(j).bar = IF j < 4 THEN 0 ELSE 1
           /\ Sun1999Uart(j).offset = IF j < 4 THEN 8 * j ELSE 64 * (j \div 4 - 1) + 8 * (j % 4)
<1>0. "SUN1999" \in Chips /\ 0 \in Nat /\ 1 \in Nat
  BY DEF Chips
<1>1. CASE j < 4
  <2>2. 8 * j \in Nat
    OBVIOUS
  <2> QED BY <1>0, <1>1, <2>2, UartIs DEF Sun1999Uart
<1>2. CASE ~(j < 4)
  <2>1. 64 * (j \div 4 - 1) + 8 * (j % 4) \in Nat
    BY <1>2
  <2> QED BY <1>0, <1>2, <2>1, UartIs DEF Sun1999Uart
<1> QED BY <1>1, <1>2

\* The ports of a golden card do not overlap, whatever number of UARTs it has, if it
\* has no more than four when it has parallel ports.
LEMMA GoldenIs ==
    ASSUME NEW sub \in Nat, NEW ser \in Nat, NEW bars \in Seq(Nat),
           bars # <<>> => ser <= 4,
           \A j \in DOMAIN bars : bars[j] >= 2,
           \A j, k \in DOMAIN bars : j # k => bars[j] + 1 < bars[k] \/ bars[k] + 1 < bars[j]
    PROVE  Golden(sub, ser, bars) \in Sound
<1> DEFINE u == [j \in 1 .. ser |-> GoldenUart(j - 1)]
<1> DEFINE g == [sub |-> sub, part |-> 0, type |-> 0, gpio |-> 0, remap |-> FALSE,
                 uarts |-> u, lpts |-> bars, chip |-> "SUN1689", vector |-> <<0, 28>>]
<1>1. \A j \in 1 .. ser :
        /\ u[j] \in Uarts
        /\ u[j].bar = IF j - 1 < 4 THEN (j - 1) \div 2 ELSE j - 3
        /\ u[j].offset = IF j - 1 < 4 THEN 8 * ((j - 1) % 2) ELSE 0
  BY GoldenUartIs
<1>2. u \in Seq(Uarts) /\ DOMAIN u = 1 .. ser
  BY <1>1
<1> HIDE DEF u
<1>3. g \in Described
  <2>1. <<0, 28>> \in Nat \X Nat
    OBVIOUS
  <2>2. "SUN1689" \in Chips
    BY DEF Chips
  <2> QED BY <1>2, <2>1, <2>2 DEF Described
<1>4. \A j \in 1 .. ser :
        \/ j = 1 /\ u[j].bar = 0 /\ u[j].offset = 0
        \/ j = 2 /\ u[j].bar = 0 /\ u[j].offset = 8
        \/ j = 3 /\ u[j].bar = 1 /\ u[j].offset = 0
        \/ j = 4 /\ u[j].bar = 1 /\ u[j].offset = 8
        \/ j > 4 /\ u[j].bar = j - 3 /\ u[j].offset = 0
  BY <1>1
<1>5. UartsClear(u)
  <2>1. SUFFICES ASSUME NEW j \in 1 .. ser, NEW k \in 1 .. ser, j # k
                 PROVE  Clear(u[j].bar, u[j].offset, u[k].bar, u[k].offset)
    BY <1>2 DEF UartsClear
  <2>2. CASE j <= 4 /\ k <= 4
    BY <1>4, <2>1, <2>2 DEF Clear
  <2>3. CASE j > 4 \/ k > 4
    BY <1>4, <2>1, <2>3 DEF Clear
  <2> QED BY <2>2, <2>3
<1>6. LptsClear(u, bars)
  <2>1. \A j \in DOMAIN u, k \in DOMAIN bars : u[j].bar # bars[k] /\ u[j].bar # bars[k] + 1
    <3>1. SUFFICES ASSUME NEW j \in 1 .. ser, NEW k \in DOMAIN bars
                   PROVE  u[j].bar # bars[k] /\ u[j].bar # bars[k] + 1
      BY <1>2
    <3>2. bars # <<>>
      OBVIOUS
    <3>3. u[j].bar \in {0, 1}
      BY <1>4, <3>2
    <3>4. bars[k] \in Nat /\ bars[k] >= 2
      OBVIOUS
    <3> QED BY <3>3, <3>4
  <2> QED BY <2>1 DEF LptsClear
<1>7. VectorClear(u, bars, <<0, 28>>)
  <2>1. \A j \in DOMAIN u : Outside(u[j].bar, u[j].offset, <<0, 28>>)
    BY <1>4, <1>2 DEF Outside
  <2>2. \A k \in DOMAIN bars : Outside(bars[k], 0, <<0, 28>>) /\ Outside(bars[k] + 1, 0, <<0, 28>>)
    <3>1. \A k \in DOMAIN bars : bars[k] \in Nat /\ bars[k] >= 2
      OBVIOUS
    <3> QED BY <3>1 DEF Outside
  <2> QED BY <2>1, <2>2 DEF VectorClear
<1>8. Golden(sub, ser, bars) = g
  BY DEF Golden, OldCard, u
<1> QED BY <1>3, <1>5, <1>6, <1>7, <1>8 DEF Sound

\* The ports of a remapped card do not overlap.
LEMMA RemapIs ==
    ASSUME NEW sub \in Nat, NEW ser \in Nat
    PROVE  Remap(sub, ser) \in Sound
<1> DEFINE u == [j \in 1 .. ser |-> RemapUart(j - 1)]
<1> DEFINE g == [sub |-> sub, part |-> 0, type |-> 0, gpio |-> 0, remap |-> TRUE,
                 uarts |-> u, lpts |-> <<>>, chip |-> "SUN1689", vector |-> <<0, 0>>]
<1>1. \A j \in 1 .. ser : u[j] \in Uarts /\ u[j].bar = j + 1 /\ u[j].offset = 0
  BY RemapUartIs
<1>2. u \in Seq(Uarts) /\ DOMAIN u = 1 .. ser
  BY <1>1
<1> HIDE DEF u
<1>3. g \in Described
  <2>1. <<0, 0>> \in Nat \X Nat /\ <<>> \in Seq(Nat)
    OBVIOUS
  <2>2. "SUN1689" \in Chips
    BY DEF Chips
  <2> QED BY <1>2, <2>1, <2>2 DEF Described
<1>4. UartsClear(u)
  BY <1>1, <1>2 DEF UartsClear, Clear
<1>5. LptsClear(u, <<>>)
  BY DEF LptsClear
<1>6. Remap(sub, ser) = g
  BY DEF Remap, OldCard, u
<1> QED BY <1>3, <1>4, <1>5, <1>6 DEF Sound

\* The ports of a matrix card do not overlap each other or its vector in BAR 1.
LEMMA MatrixIs ==
    ASSUME NEW sub \in Nat, NEW ser \in Nat
    PROVE  Matrix(sub, ser) \in Sound
<1> DEFINE u == [j \in 1 .. ser |-> MatrixUart(j - 1)]
<1> DEFINE g == [sub |-> sub, part |-> 0, type |-> 0, gpio |-> 0, remap |-> FALSE,
                 uarts |-> u, lpts |-> <<>>, chip |-> "SUN1689", vector |-> <<1, 0>>]
<1>1. \A j \in 1 .. ser : u[j] \in Uarts /\ u[j].bar = 0 /\ u[j].offset = 8 * (j - 1)
  BY MatrixUartIs
<1>2. u \in Seq(Uarts) /\ DOMAIN u = 1 .. ser
  BY <1>1
<1> HIDE DEF u
<1>3. g \in Described
  <2>1. <<1, 0>> \in Nat \X Nat /\ <<>> \in Seq(Nat)
    OBVIOUS
  <2>2. "SUN1689" \in Chips
    BY DEF Chips
  <2> QED BY <1>2, <2>1, <2>2 DEF Described
<1>4. UartsClear(u)
  BY <1>1, <1>2 DEF UartsClear, Clear
<1>5. LptsClear(u, <<>>)
  BY DEF LptsClear
<1>6. VectorClear(u, <<>>, <<1, 0>>)
  BY <1>1, <1>2 DEF VectorClear, Outside
<1>7. Matrix(sub, ser) = g
  BY DEF Matrix, OldCard, u
<1> QED BY <1>3, <1>4, <1>5, <1>6, <1>7 DEF Sound

\* Groups of four places of eight bytes, 64 bytes apart.
LEMMA GroupsOfFour ==
    ASSUME NEW a \in Nat, NEW b \in Nat, b < 4, NEW c \in Nat, NEW d \in Nat, d < 4,
           a # c \/ b # d,
           NEW x, x = 64 * (a - 1) + 8 * b, NEW y, y = 64 * (c - 1) + 8 * d
    PROVE  x + 8 <= y \/ y + 8 <= x
<1>1. CASE a < c
  BY <1>1
<1>2. CASE c < a
  BY <1>2
<1>3. CASE a = c /\ b < d
  BY <1>3
<1>4. CASE a = c /\ d < b
  BY <1>4
<1> QED BY <1>1, <1>2, <1>3, <1>4

\* The ports of a SUN1999 card do not overlap each other or its vector in BAR 3.
LEMMA Sun1999Is ==
    ASSUME NEW sub \in Nat, NEW ser \in Nat, NEW bars \in Seq(Nat),
           NEW part \in Nat, NEW type \in Nat, NEW gpio \in Nat,
           bars # <<>> => ser <= 4,
           \A j \in DOMAIN bars : bars[j] = 1,
           \A j, k \in DOMAIN bars : j = k
    PROVE  Sun1999(sub, ser, bars, part, type, gpio) \in Sound
<1> DEFINE u == [j \in 1 .. ser |-> Sun1999Uart(j - 1)]
<1> DEFINE v == IF ser = 0 THEN <<0, 0>> ELSE <<3, 0>>
<1> DEFINE g == [sub |-> sub, part |-> part, type |-> type, gpio |-> gpio, remap |-> FALSE,
                 uarts |-> u, lpts |-> bars, chip |-> "SUN1999", vector |-> v]
<1>1. \A j \in 1 .. ser :
        /\ u[j] \in Uarts
        /\ u[j].bar = IF j - 1 < 4 THEN 0 ELSE 1
        /\ u[j].offset = IF j - 1 < 4 THEN 8 * (j - 1)
                         ELSE 64 * ((j - 1) \div 4 - 1) + 8 * ((j - 1) % 4)
  BY Sun1999UartIs
<1>2. u \in Seq(Uarts) /\ DOMAIN u = 1 .. ser
  BY <1>1
<1> HIDE DEF u
<1>3. v \in Nat \X Nat
  OBVIOUS
<1>4. g \in Described
  <2>1. "SUN1999" \in Chips
    BY DEF Chips
  <2> HIDE DEF v
  <2> QED BY <1>2, <1>3, <2>1 DEF Described
<1>5. UartsClear(u)
  <2>1. SUFFICES ASSUME NEW j \in 1 .. ser, NEW k \in 1 .. ser, j # k
                 PROVE  Clear(u[j].bar, u[j].offset, u[k].bar, u[k].offset)
    BY <1>2 DEF UartsClear
  <2>2. CASE j <= 4 /\ k <= 4
    <3>1. u[j].offset = 8 * (j - 1) /\ u[k].offset = 8 * (k - 1)
      BY <1>1, <2>2
    <3>2. 8 * (j - 1) + 8 <= 8 * (k - 1) \/ 8 * (k - 1) + 8 <= 8 * (j - 1)
      BY <2>1
    <3> QED BY <3>1, <3>2 DEF Clear
  <2>4. CASE j <= 4 /\ k > 4
    <3>1. u[j].bar = 0 /\ u[k].bar = 1
      BY <1>1, <2>4
    <3> QED BY <3>1 DEF Clear
  <2>5. CASE j > 4 /\ k <= 4
    <3>1. u[j].bar = 1 /\ u[k].bar = 0
      BY <1>1, <2>5
    <3> QED BY <3>1 DEF Clear
  <2>3. CASE j > 4 /\ k > 4
    <3>1. /\ u[j].offset = 64 * ((j - 1) \div 4 - 1) + 8 * ((j - 1) % 4)
          /\ u[k].offset = 64 * ((k - 1) \div 4 - 1) + 8 * ((k - 1) % 4)
      BY <1>1, <2>3
    <3>2. PICK a, b, c, d \in Nat :
            /\ j - 1 = 4 * a + b /\ b < 4 /\ (j - 1) \div 4 = a /\ (j - 1) % 4 = b
            /\ k - 1 = 4 * c + d /\ d < 4 /\ (k - 1) \div 4 = c /\ (k - 1) % 4 = d
      OBVIOUS
    <3>3. u[j].offset = 64 * (a - 1) + 8 * b /\ u[k].offset = 64 * (c - 1) + 8 * d
      BY <3>1, <3>2
    <3>4. u[j].offset + 8 <= u[k].offset \/ u[k].offset + 8 <= u[j].offset
      <4>1. a # c \/ b # d
        BY <3>2, <2>1
      <4> QED BY <4>1, <3>2, <3>3, GroupsOfFour
    <3> QED BY <3>4 DEF Clear
  <2> QED BY <2>2, <2>3, <2>4, <2>5
<1>6. LptsClear(u, bars)
  <2>1. ASSUME NEW j \in DOMAIN u, NEW k \in DOMAIN bars
        PROVE  u[j].bar # bars[k] /\ u[j].bar # bars[k] + 1
    <3>1. bars # <<>>
      OBVIOUS
    <3>2. u[j].bar = 0
      BY <1>1, <1>2, <3>1
    <3>3. bars[k] = 1
      OBVIOUS
    <3> QED BY <3>2, <3>3
  <2> QED BY <2>1 DEF LptsClear
<1>7. VectorClear(u, bars, v)
  <2>1. SUFFICES ASSUME ser # 0 PROVE VectorClear(u, bars, <<3, 0>>)
    BY <1>2 DEF VectorClear
  <2>2. \A j \in DOMAIN u : Outside(u[j].bar, u[j].offset, <<3, 0>>)
    BY <1>1, <1>2 DEF Outside
  <2>3. \A k \in DOMAIN bars : Outside(bars[k], 0, <<3, 0>>) /\ Outside(bars[k] + 1, 0, <<3, 0>>)
    BY DEF Outside
  <2> QED BY <2>2, <2>3 DEF VectorClear
<1>8. Sun1999(sub, ser, bars, part, type, gpio) = g
  BY DEF Sun1999, u
<1> HIDE DEF v
<1> QED BY <1>4, <1>5, <1>6, <1>7, <1>8 DEF Sound

\* Every entry of the table of known cards is sound.
LEMMA TableIs == snx_pci_board_conf \in Seq(Sound) /\ Len(snx_pci_board_conf) > 0
<1>0. <<>> \in Seq(Nat) /\ DOMAIN <<>> = {}
  OBVIOUS
<1>1. ASSUME NEW sub \in Nat, NEW ser \in Nat PROVE Golden(sub, ser, <<>>) \in Sound
  BY GoldenIs, <1>0
<1>2. \A sub, ser \in Nat : Remap(sub, ser) \in Sound
  BY RemapIs
<1>3. \A sub, ser \in Nat : Matrix(sub, ser) \in Sound
  BY MatrixIs
<1>4. ASSUME NEW sub \in Nat, NEW ser \in Nat, NEW part \in Nat, NEW type \in Nat, NEW gpio \in Nat
      PROVE  Sun1999(sub, ser, <<>>, part, type, gpio) \in Sound
  BY Sun1999Is, <1>0
<1>5. ASSUME NEW sub \in Nat, NEW ser \in 0 .. 4
      PROVE  Golden(sub, ser, <<2>>) \in Sound
  <2> DEFINE l == <<2>>
  <2>1. /\ l \in Seq(Nat) /\ ser <= 4 /\ ser \in Nat
        /\ \A j \in DOMAIN l : l[j] >= 2
        /\ \A j, k \in DOMAIN l : j # k => l[j] + 1 < l[k] \/ l[k] + 1 < l[j]
    OBVIOUS
  <2> HIDE DEF l
  <2>2. Golden(sub, ser, l) \in Sound
    BY <2>1, GoldenIs
  <2> QED BY <2>2 DEF l
<1>6. ASSUME NEW sub \in Nat, NEW ser \in 0 .. 4
      PROVE  Golden(sub, ser, <<2, 4>>) \in Sound
  <2> DEFINE l == <<2, 4>>
  <2>1. /\ l \in Seq(Nat) /\ ser <= 4 /\ ser \in Nat
        /\ \A j \in DOMAIN l : l[j] >= 2
        /\ \A j, k \in DOMAIN l : j # k => l[j] + 1 < l[k] \/ l[k] + 1 < l[j]
    OBVIOUS
  <2> HIDE DEF l
  <2>2. Golden(sub, ser, l) \in Sound
    BY <2>1, GoldenIs
  <2> QED BY <2>2 DEF l
<1>7. ASSUME NEW sub \in Nat, NEW part \in Nat, NEW ser \in 0 .. 4
      PROVE  Sun1999(sub, ser, <<1>>, part, 0, 0) \in Sound
  <2> DEFINE l == <<1>>
  <2>1. /\ l \in Seq(Nat) /\ ser <= 4 /\ ser \in Nat
        /\ \A j \in DOMAIN l : l[j] = 1
        /\ \A j, k \in DOMAIN l : j = k
    OBVIOUS
  <2> HIDE DEF l
  <2>2. Sun1999(sub, ser, l, part, 0, 0) \in Sound
    BY <2>1, Sun1999Is
  <2> QED BY <2>2 DEF l
<1>a. Golden4000 \in Seq(Sound)
  BY <1>1, <1>2 DEF Golden4000
<1>b. Golden8000 \in Seq(Sound)
  BY <1>1 DEF Golden8000
<1>c. GoldenMulti \in Seq(Sound)
  BY <1>5, <1>6 DEF GoldenMulti
<1>d. MatrixP1000 \in Seq(Sound)
  BY <1>3 DEF MatrixP1000
<1>e. MatrixP2000 \in Seq(Sound)
  BY <1>3 DEF MatrixP2000
<1>f. Sun1999Serial \in Seq(Sound)
  BY <1>4 DEF Sun1999Serial
<1>g. Sun1999Multi \in Seq(Sound)
  BY <1>7 DEF Sun1999Multi
<1>h. Sun1999Rs485 \in Seq(Sound)
  BY <1>4 DEF Sun1999Rs485
<1>i. Sun1999Special \in Seq(Sound)
  BY <1>4 DEF Sun1999Special
<1>l. Len(Golden4000) > 0
  BY DEF Golden4000
<1>j. snx_pci_board_conf \in Seq(Sound)
  BY <1>a, <1>b, <1>c, <1>d, <1>e, <1>f, <1>g, <1>h, <1>i DEF snx_pci_board_conf
<1>k. Len(snx_pci_board_conf) > 0
  BY <1>l, <1>a, <1>b, <1>c, <1>d, <1>e, <1>f, <1>g, <1>h, <1>i DEF snx_pci_board_conf
<1> QED BY <1>j, <1>k

----------------------------------------------------------------------------
(* Numbers and counts.                                                     *)

\* A set of numbers has a least element.
LEMMA LeastOf ==
    ASSUME NEW S \in SUBSET Nat, S # {}
    PROVE  \E x \in S : \A y \in S : x <= y
<1>1. PICK x \in S : \A y \in S : <<y, x>> \notin OpToRel(<, Nat)
  BY WFMin, NatLessThanWellFounded
<1>2. \A y \in S : ~(y < x)
  BY <1>1 DEF OpToRel
<1> QED BY <1>2

\* A bounded one has a greatest element.
LEMMA GreatestOf ==
    ASSUME NEW b \in Nat, NEW S \in SUBSET (0 .. b), S # {}
    PROVE  \E x \in S : \A y \in S : y <= x
<1> DEFINE T == {b - y : y \in S}
<1>1. T \in SUBSET Nat /\ T # {}
  <2>1. \A y \in S : b - y \in Nat
    OBVIOUS
  <2>2. T \subseteq Nat
    BY <2>1
  <2>3. PICK y \in S : TRUE
    OBVIOUS
  <2>4. b - y \in T
    OBVIOUS
  <2> QED BY <2>2, <2>4
<1>2. PICK t \in T : \A u \in T : t <= u
  BY <1>1, LeastOf
<1>3. PICK x \in S : t = b - x
  OBVIOUS
<1>4. \A y \in S : b - x <= b - y
  BY <1>2, <1>3
<1> QED BY <1>4

\* Min chooses from the set.
LEMMA MinIs ==
    ASSUME NEW S \in SUBSET Nat, S # {}
    PROVE  Min(S) \in S
BY LeastOf DEF Min

\* Max chooses from the set.
LEMMA MaxIs ==
    ASSUME NEW b \in Nat, NEW S \in SUBSET (0 .. b), S # {}
    PROVE  Max(S) \in S
<1>1. PICK x \in S : \A y \in S : x >= y
  BY GreatestOf
<1> QED BY <1>1 DEF Max

\* The places on the boards bs, of which board i has c[i].
Places(c, bs) == UNION {{i} \X (1 .. c[i]) : i \in bs}

\* No boards, no ports.
LEMMA PlacesOfNone ==
    ASSUME NEW c
    PROVE  Cardinality(Places(c, {})) = 0
BY FS_EmptySet DEF Places

\* A board with n ports has n places.
LEMMA OneBoard ==
    ASSUME NEW i, NEW n \in Nat
    PROVE  IsFiniteSet({i} \X (1 .. n)) /\ Cardinality({i} \X (1 .. n)) = n
<1>1. IsFiniteSet({i}) /\ Cardinality({i}) = 1
  BY FS_Singleton
<1>2. IsFiniteSet(1 .. n) /\ Cardinality(1 .. n) = n
  BY FS_Interval
<1>3. IsFiniteSet({i} \X (1 .. n)) /\ Cardinality({i} \X (1 .. n)) = Cardinality({i}) * Cardinality(1 .. n)
  BY <1>1, <1>2, FS_Product
<1> QED BY <1>1, <1>2, <1>3

\* Finitely many boards have finitely many ports.
LEMMA PlacesFinite ==
    ASSUME NEW B, IsFiniteSet(B), NEW c \in [B -> Nat]
    PROVE  IsFiniteSet(Places(c, B)) /\ Cardinality(Places(c, B)) \in Nat
<1> DEFINE T == {{i} \X (1 .. c[i]) : i \in B}
           f == [i \in B |-> {i} \X (1 .. c[i])]
<1>1. f \in Surjection(B, T)
  BY DEF Surjection
<1>2. IsFiniteSet(T)
  BY <1>1, FS_Surjection
<1>3. \A i \in B : IsFiniteSet({i} \X (1 .. c[i]))
  <2>1. ASSUME NEW i \in B PROVE IsFiniteSet({i} \X (1 .. c[i]))
    BY OneBoard
  <2> QED BY <2>1
<1>4. \A t \in T : IsFiniteSet(t)
  BY <1>3
<1>5. IsFiniteSet(UNION T)
  BY <1>2, <1>4, FS_UNION
<1> QED BY <1>5, FS_CardinalityType DEF Places

\* A board more adds its ports.
LEMMA PlacesOfOneMore ==
    ASSUME NEW B, IsFiniteSet(B), NEW i, i \notin B, NEW c \in [B \cup {i} -> Nat]
    PROVE  Cardinality(Places(c, B \cup {i})) = Cardinality(Places(c, B)) + c[i]
<1> DEFINE P == {i} \X (1 .. c[i])
           b == [k \in B |-> c[k]]
<1>1. Places(c, B \cup {i}) = Places(c, B) \cup P
  BY DEF Places
<1>2. Places(c, B) = Places(b, B)
  BY DEF Places
<1>3. IsFiniteSet(Places(c, B)) /\ Cardinality(Places(c, B)) \in Nat
  <2>1. b \in [B -> Nat]
    OBVIOUS
  <2> HIDE DEF b
  <2> QED BY <1>2, <2>1, PlacesFinite
<1>4. IsFiniteSet(P) /\ Cardinality(P) = c[i]
  <2>1. c[i] \in Nat
    OBVIOUS
  <2> QED BY <2>1, OneBoard
<1>5. Places(c, B) \cap P = {}
  BY DEF Places
<1>6. Cardinality(Places(c, B) \cap P) = 0
  BY <1>5, FS_EmptySet
<1> HIDE DEF P, b
<1>7. Cardinality(Places(c, B) \cup P) = Cardinality(Places(c, B)) + Cardinality(P) - 0
  BY <1>3, <1>4, <1>6, FS_Union
<1>8. c[i] \in Nat
  OBVIOUS
<1>9. PICK x \in Nat : x = Cardinality(Places(c, B))
  BY <1>3
<1>10. PICK y \in Nat : y = c[i]
  BY <1>8
<1>11. Cardinality(P) = y
  BY <1>4, <1>10
<1>12. Cardinality(Places(c, B) \cup P) = x + y
  BY <1>7, <1>9, <1>11
<1> QED BY <1>1, <1>9, <1>10, <1>12

\* Every number up to the number of all ports is a place on one of the boards, when the
\* boards are counted in their order.
LEMMA BoardAt ==
    ASSUME NEW b \in Nat, NEW L \in SUBSET (0 .. b), NEW c \in [L -> Nat],
           NEW n \in 1 .. Cardinality(Places(c, L))
    PROVE  \E i \in L : n - Cardinality(Places(c, {k \in L : k < i})) \in 1 .. c[i]
<1> DEFINE F(i) == Cardinality(Places(c, {k \in L : k < i}))
           T == {i \in L : n <= F(i) + c[i]}
<1>a. L \subseteq Nat
  OBVIOUS
<1>0. \A S \in SUBSET L : IsFiniteSet(S)
  <2>1. IsFiniteSet(0 .. b)
    BY FS_Interval
  <2> QED BY <2>1, FS_Subset
<1>1. ASSUME NEW i \in L PROVE F(i) \in Nat
  <2> DEFINE S == {k \in L : k < i}
             d == [k \in S |-> c[k]]
  <2>1. Places(c, S) = Places(d, S)
    BY DEF Places
  <2>2. IsFiniteSet(S) /\ d \in [S -> Nat]
    BY <1>0
  <2> HIDE DEF S, d
  <2>3. Cardinality(Places(d, S)) \in Nat
    BY <2>2, PlacesFinite
  <2> QED BY <2>1, <2>3 DEF S
\* The boards up to the last one below a bound.
<1>2. ASSUME NEW S \in SUBSET L, NEW m \in S, \A k \in S : k <= m, \A k \in L : k < m => k \in S
      PROVE  Cardinality(Places(c, S)) = F(m) + c[m]
  <2> DEFINE B == {k \in L : k < m}
             d == [k \in S |-> c[k]]
  <2>1. S = B \cup {m} /\ m \notin B
    <3>1. \A k \in S : k <= m /\ k \in Nat /\ m \in Nat
      BY <1>2, <1>a
    <3>2. \A k \in S : k = m \/ k < m
      BY <3>1
    <3>3. ~(m < m)
      BY <3>1
    <3> QED BY <1>2, <3>2, <3>3
  <2>2. IsFiniteSet(B)
    BY <1>0
  <2>3. d \in [B \cup {m} -> Nat]
    BY <2>1
  <2>4. Places(c, S) = Places(d, S) /\ Places(c, B) = Places(d, B) /\ d[m] = c[m]
    BY <2>1 DEF Places
  <2>5. Cardinality(Places(d, B \cup {m})) = Cardinality(Places(d, B)) + d[m]
    <3> HIDE DEF B, d
    <3> QED BY <2>1, <2>2, <2>3, PlacesOfOneMore
  <2> QED BY <2>1, <2>4, <2>5
<1>3. L # {}
  <2>1. SUFFICES ASSUME L = {} PROVE FALSE
    OBVIOUS
  <2>2. Cardinality(Places(c, L)) = 0
    BY <2>1, PlacesOfNone
  <2> QED BY <2>2
<1>4. PICK m \in L : \A k \in L : k <= m
  BY <1>3, GreatestOf
<1>5. Cardinality(Places(c, L)) = F(m) + c[m]
  BY <1>2, <1>4
<1>6. m \in T
  BY <1>5
<1>7. PICK i \in T : \A k \in T : i <= k
  <2>1. T \in SUBSET Nat
    BY <1>a
  <2> HIDE DEF T
  <2> QED BY <1>6, <2>1, LeastOf
<1> DEFINE B == {k \in L : k < i}
<1>8. F(i) < n
  <2>1. CASE B = {}
    BY <2>1, PlacesOfNone
  <2>2. CASE B # {}
    <3>1. B \in SUBSET (0 .. b)
      OBVIOUS
    <3>2. PICK j \in B : \A k \in B : k <= j
      <4> HIDE DEF B
      <4> QED BY <2>2, <3>1, GreatestOf
    <3>3. \A k \in L : k < j => k \in B
      OBVIOUS
    <3>4. F(i) = F(j) + c[j]
      <4>1. B \in SUBSET L /\ j \in B
        OBVIOUS
      <4>2. Cardinality(Places(c, B)) = F(j) + c[j]
        BY <4>1, <3>2, <3>3, <1>2
      <4> QED BY <4>2
    <3>5. j \in L /\ j \notin T
      BY <1>7
    <3>6. F(j) \in Nat /\ c[j] \in Nat
      BY <3>5, <1>1
    <3> QED BY <3>4, <3>5, <3>6
  <2> QED BY <2>1, <2>2
<1>9. F(i) \in Nat /\ c[i] \in Nat /\ n <= F(i) + c[i] /\ i \in L
  BY <1>1, <1>7
<1>10. n - F(i) \in 1 .. c[i]
  <2> HIDE DEF F
  <2> QED BY <1>8, <1>9
<1> QED BY <1>9, <1>10

----------------------------------------------------------------------------
(* The boards listed, and their ports.                                     *)

\* What a sequence is.
LEMMA SequenceIs ==
    ASSUME NEW S, NEW q \in Seq(S)
    PROVE  Len(q) \in Nat /\ DOMAIN q = 1 .. Len(q) /\ \A i \in DOMAIN q : q[i] \in S
OBVIOUS

\* The entry of a board is one of the table, and sound.
LEMMA LiveIs ==
    ASSUME boards \in Listings
    PROVE  /\ Live \in SUBSET (0 .. Len(boards)) /\ Len(boards) \in Nat
           /\ DOMAIN boards = 1 .. Len(boards)
           /\ \A i \in DOMAIN boards : boards[i].dev \in DOMAIN cards
           /\ \A i \in DOMAIN boards : ConfOf(i) \in Sound
           /\ \A i \in DOMAIN boards : SerPorts(i) \in Nat /\ ParPorts(i) \in Nat
           /\ \A i \in DOMAIN boards : /\ DOMAIN ConfOf(i).uarts = 1 .. SerPorts(i)
                                       /\ DOMAIN ConfOf(i).lpts = 1 .. ParPorts(i)
<1>1. /\ Len(boards) \in Nat /\ DOMAIN boards = 1 .. Len(boards)
      /\ \A i \in DOMAIN boards : boards[i] \in [dev : DOMAIN cards, enum : 0 .. Len(Conf) - 1]
  BY SequenceIs DEF Listings
<1>2. Live \in SUBSET (0 .. Len(boards))
  BY <1>1 DEF Live
<1>3. \A i \in DOMAIN boards : boards[i].dev \in DOMAIN cards /\ boards[i].enum \in 0 .. Len(Conf) - 1
  BY <1>1
<1>4. Conf \in Seq(Sound)
  BY TableIs DEF Conf
<1>5. \A i \in DOMAIN boards : ConfOf(i) \in Sound
  BY <1>3, <1>4 DEF ConfOf
<1>6. \A e \in Sound : e.uarts \in Seq(Uarts) /\ e.lpts \in Seq(Nat)
  BY DEF Sound, Described
<1>7. \A i \in DOMAIN boards : ConfOf(i).uarts \in Seq(Uarts) /\ ConfOf(i).lpts \in Seq(Nat)
  BY <1>5, <1>6
<1>8. \A i \in DOMAIN boards : SerPorts(i) \in Nat /\ ParPorts(i) \in Nat
  BY <1>7 DEF SerPorts, ParPorts
<1>9. \A i \in DOMAIN boards : /\ DOMAIN ConfOf(i).uarts = 1 .. SerPorts(i)
                               /\ DOMAIN ConfOf(i).lpts = 1 .. ParPorts(i)
  BY <1>7 DEF SerPorts, ParPorts
<1> QED BY <1>1, <1>2, <1>3, <1>5, <1>8, <1>9

\* Both counts, as places of the boards that count.
SerCounts == [i \in Live |-> SerPorts(i)]
ParCounts == [i \in Live |-> ParPorts(i)]

\* SerPlaces and ParPlaces are the places of those counts.
LEMMA PortsArePlaces ==
    ASSUME boards \in Listings
    PROVE  /\ SerCounts \in [Live -> Nat] /\ ParCounts \in [Live -> Nat]
           /\ \A bs \in SUBSET Live : SerPlaces(bs) = Places(SerCounts, bs)
           /\ \A bs \in SUBSET Live : ParPlaces(bs) = Places(ParCounts, bs)
<1>1. Live \subseteq DOMAIN boards
  BY DEF Live
<1>2. SerCounts \in [Live -> Nat] /\ ParCounts \in [Live -> Nat]
  BY <1>1, LiveIs DEF SerCounts, ParCounts
<1>3. \A i \in Live : SerCounts[i] = SerPorts(i) /\ ParCounts[i] = ParPorts(i)
  BY DEF SerCounts, ParCounts
<1>4. ASSUME NEW bs \in SUBSET Live PROVE SerPlaces(bs) = Places(SerCounts, bs)
  BY <1>3 DEF SerPlaces, Places
<1>5. ASSUME NEW bs \in SUBSET Live PROVE ParPlaces(bs) = Places(ParCounts, bs)
  BY <1>3 DEF ParPlaces, Places
<1> QED BY <1>2, <1>4, <1>5

\* The totals are numbers, and every port has a board.
LEMMA PortsHaveBoards ==
    ASSUME boards \in Listings
    PROVE  /\ SerTotal \in Nat /\ ParTotal \in Nat
           /\ \A n \in 1 .. SerTotal :
                 /\ SerBoard(n) \in Live
                 /\ n - SerFirst(SerBoard(n)) \in 1 .. SerPorts(SerBoard(n))
           /\ \A n \in 1 .. ParTotal :
                 /\ ParBoard(n) \in Live
                 /\ n - ParFirst(ParBoard(n)) \in 1 .. ParPorts(ParBoard(n))
<1>1. IsFiniteSet(Live)
  <2>1. IsFiniteSet(0 .. Len(boards))
    BY LiveIs, FS_Interval
  <2> QED BY <2>1, LiveIs, FS_Subset
<1>2. SerTotal = Cardinality(Places(SerCounts, Live)) /\ ParTotal = Cardinality(Places(ParCounts, Live))
  BY PortsArePlaces DEF SerTotal, ParTotal
<1>3. SerTotal \in Nat /\ ParTotal \in Nat
  BY <1>1, <1>2, PortsArePlaces, PlacesFinite
<1>4. \A i : Before(i) \in SUBSET Live
  BY DEF Before
<1>5. ASSUME NEW n \in 1 .. SerTotal
      PROVE  \E i \in Live : n - SerFirst(i) \in 1 .. SerPorts(i)
  <2>1. \E i \in Live : n - Cardinality(Places(SerCounts, {k \in Live : k < i})) \in 1 .. SerCounts[i]
    BY <1>2, LiveIs, PortsArePlaces, BoardAt
  <2>2. \A i \in Live : SerFirst(i) = Cardinality(Places(SerCounts, {k \in Live : k < i}))
    BY PortsArePlaces DEF SerFirst, Before
  <2>3. \A i \in Live : SerCounts[i] = SerPorts(i)
    BY DEF SerCounts
  <2> QED BY <2>1, <2>2, <2>3
<1>6. ASSUME NEW n \in 1 .. ParTotal
      PROVE  \E i \in Live : n - ParFirst(i) \in 1 .. ParPorts(i)
  <2>1. \E i \in Live : n - Cardinality(Places(ParCounts, {k \in Live : k < i})) \in 1 .. ParCounts[i]
    BY <1>2, LiveIs, PortsArePlaces, BoardAt
  <2>2. \A i \in Live : ParFirst(i) = Cardinality(Places(ParCounts, {k \in Live : k < i}))
    BY PortsArePlaces DEF ParFirst, Before
  <2>3. \A i \in Live : ParCounts[i] = ParPorts(i)
    BY DEF ParCounts
  <2> QED BY <2>1, <2>2, <2>3
<1>7. \A n \in 1 .. SerTotal :
        /\ SerBoard(n) \in Live
        /\ n - SerFirst(SerBoard(n)) \in 1 .. SerPorts(SerBoard(n))
  BY <1>5 DEF SerBoard
<1>8. \A n \in 1 .. ParTotal :
        /\ ParBoard(n) \in Live
        /\ n - ParFirst(ParBoard(n)) \in 1 .. ParPorts(ParBoard(n))
  BY <1>6 DEF ParBoard
<1> QED BY <1>3, <1>7, <1>8

\* What the boards and cards determine does not change while they stay.
LEMMA CountsSame ==
    ASSUME boards' = boards, system' = system
    PROVE  Live' = Live /\ SerTotal' = SerTotal /\ ParTotal' = ParTotal
<1>1. Live' = Live
  BY DEF Live
<1>2. SerTotal' = SerTotal /\ ParTotal' = ParTotal
  BY <1>1 DEF SerTotal, ParTotal, Live, SerPlaces, ParPlaces, SerPorts, ParPorts, ConfOf
<1> QED BY <1>1, <1>2

\* The same of the entries of the two tables.
LEMMA EntriesSame ==
    ASSUME boards' = boards, system' = system
    PROVE  /\ \A n : SerAssigned(n)' = SerAssigned(n)
           /\ \A n : ParAssigned(n)' = ParAssigned(n)
           /\ \A p, n : SerPortEntry(p, n)' = SerPortEntry(p, n)
           /\ \A p, n : ParPortEntry(p, n)' = ParPortEntry(p, n)
<1>1. \A n : SerAssigned(n)' = SerAssigned(n)
  BY DEF SerAssigned, AssignSerial, SerBoard, SerFirst, Before, Live, SerPlaces, SerPorts, ConfOf, Address
<1>2. \A n : ParAssigned(n)' = ParAssigned(n)
  BY DEF ParAssigned, AssignParallel, ParBoard, ParFirst, Before, Live, ParPlaces, ParPorts, ConfOf, Address
<1>3. ASSUME NEW p, NEW n PROVE SerPortEntry(p, n)' = SerPortEntry(p, n)
  <2>1. \A i : SerFirst(i)' = SerFirst(i)
    BY DEF SerFirst, Before, Live, SerPlaces, SerPorts, ConfOf
  <2>2. \A i : VectorMask(i)' = VectorMask(i) /\ ConfOf(i)' = ConfOf(i) /\ CardOf(i)' = CardOf(i)
    BY DEF VectorMask, SerPorts, ConfOf, CardOf, cards
  <2> QED BY <2>1, <2>2 DEF SerPortEntry
<1>4. \A p, n : ParPortEntry(p, n)' = ParPortEntry(p, n)
  BY DEF ParPortEntry
<1> QED BY <1>1, <1>2, <1>3, <1>4

=============================================================================
