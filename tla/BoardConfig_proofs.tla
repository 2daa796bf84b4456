------------------------- MODULE BoardConfig_proofs -------------------------
(***************************************************************************)
(* Proofs about the configuration calls of a board (BoardConfig), for any  *)
(* set of callers and of ports, any boards and any number of calls.        *)
(*                                                                         *)
(* BoardConfig's IInv is inductive.  It has three parts besides the        *)
(* ranges: a call nothing came in between is alone (CleanAlone); the       *)
(* controller has of its access what it should (AccessFits); and what it   *)
(* has read, changed, written and saved so far agrees with registers,      *)
(* cache and EEPROM (EepromFits), or with the flash (FlashFits).  A step   *)
(* of a disturbed call keeps it because nothing is claimed any more; a     *)
(* step of a clean one is followed action by action, the EEPROM and the    *)
(* flash apart.                                                            *)
(***************************************************************************)
EXTENDS BoardConfig, TLAPS

----------------------------------------------------------------------------
(* The operators of the model *)

\* The orders list the registers, or the bytes of the flash, once each.
LEMMA OrdersAre ==
    /\ Flash = {"head", "dir", "sig", "tail"}
    /\ \A i \in 1..4 : RegOrder[i] \in Regs /\ EepromOrder[i] \in Regs /\ FlashOrder[i] \in Flash
    /\ \A i, j \in 1..4 : /\ RegOrder[i] = RegOrder[j] => i = j
                          /\ EepromOrder[i] = EepromOrder[j] => i = j
                          /\ FlashOrder[i] = FlashOrder[j] => i = j
    /\ \A r \in Regs : \E i \in 1..4 : RegOrder[i] = r
    /\ \A r \in Regs : \E i \in 1..4 : EepromOrder[i] = r
    /\ \A f \in Flash : \E i \in 1..4 : FlashOrder[i] = f
<1>1. /\ RegOrder[1] = "ahdc" /\ RegOrder[2] = "rs422" /\ RegOrder[3] = "gpio" /\ RegOrder[4] = "gctl"
      /\ EepromOrder[1] = "ahdc" /\ EepromOrder[2] = "rs422" /\ EepromOrder[3] = "gctl"
      /\ EepromOrder[4] = "gpio"
      /\ FlashOrder[1] = "head" /\ FlashOrder[2] = "dir" /\ FlashOrder[3] = "sig"
      /\ FlashOrder[4] = "tail" /\ DOMAIN FlashOrder = 1..4
  BY DEF RegOrder, EepromOrder, FlashOrder
<1>2. \A i \in 1..4 : i = 1 \/ i = 2 \/ i = 3 \/ i = 4
  OBVIOUS
<1>3. Flash = {"head", "dir", "sig", "tail"}
  BY <1>1, <1>2 DEF Flash
<1>4. /\ \A r \in Regs : r = "ahdc" \/ r = "rs422" \/ r = "gpio" \/ r = "gctl"
      /\ \A f \in Flash : f = "head" \/ f = "dir" \/ f = "sig" \/ f = "tail"
  BY <1>3 DEF Regs
<1>5. 1 \in 1..4 /\ 2 \in 1..4 /\ 3 \in 1..4 /\ 4 \in 1..4
  OBVIOUS
<1>6. \A r \in Regs : \E i \in 1..4 : RegOrder[i] = r
  BY <1>1, <1>4, <1>5
<1>7. \A r \in Regs : \E i \in 1..4 : EepromOrder[i] = r
  BY <1>1, <1>4, <1>5
<1>8. \A f \in Flash : \E i \in 1..4 : FlashOrder[i] = f
  BY <1>1, <1>4, <1>5
<1>9. \A i \in 1..4 : RegOrder[i] \in Regs /\ EepromOrder[i] \in Regs /\ FlashOrder[i] \in Flash
  BY <1>1, <1>2, <1>3 DEF Regs
<1>10. \A i, j \in 1..4 : /\ RegOrder[i] = RegOrder[j] => i = j
                          /\ EepromOrder[i] = EepromOrder[j] => i = j
                          /\ FlashOrder[i] = FlashOrder[j] => i = j
  BY <1>1, <1>2
<1> QED BY <1>3, <1>6, <1>7, <1>8, <1>9, <1>10

\* The cells a board's calls go over.
LEMMA CellsAre ==
    /\ Len(Cells) = 4
    /\ \A i \in 1..4 : Cells[i] \in Places
    /\ \A i, j \in 1..4 : Cells[i] = Cells[j] => i = j
    /\ \A x \in Places : \E i \in 1..4 : Cells[i] = x
    /\ FlashCount = 4
<1>1. Len(FlashOrder) = 4 /\ Len(EepromOrder) = 4
  BY DEF FlashOrder, EepromOrder
<1>2. CASE Banks
  BY <1>1, <1>2, OrdersAre DEF Cells, Places, FlashCount
<1>3. CASE ~Banks
  <2>1. Cells = EepromOrder /\ Places = Regs
    BY <1>3 DEF Cells, Places
  <2>2. FlashCount = 4
    BY <1>1 DEF FlashCount
  <2> QED BY <1>1, <2>1, <2>2, OrdersAre
<1> QED BY <1>2, <1>3

\* A register's bits may be saved as they are or inverted.
LEMMA SavedBits ==
    ASSUME NEW r, NEW v \in SUBSET Bits
    PROVE  Saved(r, v) \in SUBSET Bits
BY DEF Saved

\* Blank copies.
LEMMA BlankIs ==
    /\ Blank \in [Regs -> SUBSET Bits] /\ \A r \in Regs : Blank[r] = {}
    /\ \A v \in SUBSET Bits : /\ [Blank EXCEPT !.gctl = v] \in [Regs -> SUBSET Bits]
                              /\ [Blank EXCEPT !.gpio = v] \in [Regs -> SUBSET Bits]
    /\ [f \in Flash |-> "none"] \in [Flash -> Flash \union {"new", "erased", "none"}]
BY DEF Blank

\* What SET_TYPE makes of the registers: they are registers, and no other
\* port's bits change.
LEMMA TypeSet ==
    ASSUME NEW uart \in 0..2, NEW t \in 0..3, NEW p \in Ports, NEW v \in [Regs -> SUBSET Bits]
    PROVE  /\ WithType(uart, t, p, v) \in [Regs -> SUBSET Bits]
           /\ \A r \in Regs : WithType(uart, t, p, v)[r] \ Own(p) = v[r] \ Own(p)
<1> DEFINE w == WithType(uart, t, p, v)
           lo == <<p, "lo">>
           hi == <<p, "hi">>
           yes == Supported(uart, t)
<1>1. lo \in Bits /\ hi \in Bits /\ lo # hi
  BY DEF Bits
<1>2. /\ w.ahdc = ((v.ahdc \ {lo}) \union (IF yes /\ t \in {2, 3} THEN {lo} ELSE {}))
                  \union (IF yes /\ uart = 1 THEN {hi} ELSE {})
      /\ w.rs422 = ((v.rs422 \ {hi}) \ (IF yes /\ t \in {0, 1} THEN {lo} ELSE {}))
                   \union (IF yes /\ t \in {1, 3} THEN {hi} ELSE {})
      /\ w.gpio = (v.gpio \ {lo, hi}) \union (IF yes /\ t = 0 THEN {lo} ELSE {})
      /\ w.gctl = (v.gctl \ {lo}) \union (IF yes THEN {lo} ELSE {})
      /\ DOMAIN w = Regs
      /\ w = [r \in Regs |-> w[r]]
  BY DEF WithType, Regs
<1>3. /\ v.ahdc \subseteq Bits /\ v.rs422 \subseteq Bits /\ v.gpio \subseteq Bits /\ v.gctl \subseteq Bits
      /\ \A r \in Regs : r = "ahdc" \/ r = "rs422" \/ r = "gpio" \/ r = "gctl"
  BY DEF Regs
<1> HIDE DEF w, lo, hi
<1>4. /\ w.ahdc \subseteq Bits /\ w.rs422 \subseteq Bits /\ w.gpio \subseteq Bits /\ w.gctl \subseteq Bits
  BY <1>1, <1>2, <1>3
<1>5. w \in [Regs -> SUBSET Bits]
  BY <1>2, <1>3, <1>4
<1>6. /\ w.ahdc \ {lo, hi} = v.ahdc \ {lo, hi} /\ w.rs422 \ {lo, hi} = v.rs422 \ {lo, hi}
      /\ w.gpio \ {lo, hi} = v.gpio \ {lo, hi} /\ w.gctl \ {lo, hi} = v.gctl \ {lo, hi}
  BY <1>2
<1>7. \A r \in Regs : w[r] \ Own(p) = v[r] \ Own(p)
  BY <1>3, <1>6 DEF Own, lo, hi
<1> QED BY <1>5, <1>7 DEF w

\* Of a type the board can be, the port's own bits mean the type.
LEMMA TypeMeant ==
    ASSUME NEW uart, NEW t, NEW p, NEW v, Supported(uart, t)
    PROVE  LET w == WithType(uart, t, p, v) IN CacheFrom(p, w.ahdc, w.rs422) = Cached(t)
<1> DEFINE w == WithType(uart, t, p, v)
           lo == <<p, "lo">>
           hi == <<p, "hi">>
<1>1. lo # hi
  OBVIOUS
<1>2. /\ w.ahdc = ((v.ahdc \ {lo}) \union (IF t \in {2, 3} THEN {lo} ELSE {}))
                  \union (IF uart = 1 THEN {hi} ELSE {})
      /\ w.rs422 = ((v.rs422 \ {hi}) \ (IF t \in {0, 1} THEN {lo} ELSE {}))
                   \union (IF t \in {1, 3} THEN {hi} ELSE {})
  BY DEF WithType, Regs
<1> HIDE DEF w, lo, hi
<1>3. (lo \in w.ahdc <=> t \in {2, 3}) /\ (hi \in w.rs422 <=> t \in {1, 3})
  BY <1>1, <1>2
<1>4. CacheFrom(p, w.ahdc, w.rs422) = Cached(t)
  BY <1>3 DEF CacheFrom, Cached, Bit, lo, hi
<1> QED BY <1>4 DEF w

\* What SET_ACS makes of them.
LEMMA AcsSet ==
    ASSUME NEW p \in Ports, NEW yes, NEW v \in [Regs -> SUBSET Bits]
    PROVE  /\ WithAcs(p, yes, v) \in [Regs -> SUBSET Bits]
           /\ \A q \in Ports : <<q, "hi">> \in WithAcs(p, yes, v).rs422 <=> <<q, "hi">> \in v.rs422
<1>1. <<p, "lo">> \in Bits /\ "rs422" \in Regs /\ v.rs422 \subseteq Bits
  BY DEF Bits, Regs
<1>2. WithAcs(p, yes, v).rs422 = (v.rs422 \ {<<p, "lo">>}) \union (IF yes THEN {<<p, "lo">>} ELSE {})
  BY <1>1 DEF WithAcs
<1>3. \A q \in Ports : <<q, "hi">> # <<p, "lo">>
  OBVIOUS
<1>4. WithAcs(p, yes, v) \in [Regs -> SUBSET Bits]
  BY <1>1 DEF WithAcs
<1> QED BY <1>2, <1>3, <1>4

\* GET_TYPE answers what SET_TYPE noted.
LEMMA TypeAnswered ==
    ASSUME NEW uart \in 0..2, NEW t \in 0..3, Supported(uart, t)
    PROVE  UartType(uart, Cached(t)) = t
<1>1. t = 0 \/ t = 1 \/ t = 2 \/ t = 3
  OBVIOUS
<1>2. uart = 0 \/ uart = 1 \/ uart = 2
  OBVIOUS
<1>3. /\ Cached(t).ahdc = IF t \in {2, 3} THEN 1 ELSE 0
      /\ Cached(t).rs422 = IF t \in {1, 3} THEN 1 ELSE 0
  BY DEF Cached
<1>4. CASE uart = 0
  BY <1>4 DEF Supported, UartType
<1>5. CASE uart = 1
  BY <1>1, <1>3, <1>5 DEF Supported, UartType
<1>6. CASE uart = 2
  BY <1>1, <1>3, <1>6 DEF Supported, UartType
<1> QED BY <1>2, <1>4, <1>5, <1>6

\* The cache holds bits.
LEMMA CachedBits ==
    /\ \A t : Cached(t) \in [ahdc : {0, 1, 2, 4, 8}, rs422 : {0, 1}]
    /\ \A p, a, r : CacheFrom(p, a, r) \in [ahdc : {0, 1, 2, 4, 8}, rs422 : {0, 1}]
BY DEF Cached, CacheFrom, Bit

----------------------------------------------------------------------------
(* What the type invariant says, and the initial states *)

BoardType == [uart : 0..2, far : BOOLEAN, gpio : {"none", "six", "banks"}, came : [Ports -> 0..3]]
CacheType == [ahdc : {0, 1, 2, 4, 8}, rs422 : {0, 1}]
GhostType == [asked : [Ports -> 0..3], want : [dir : {"dir", "new"}, sig : {"sig", "new"}],
              doubt : SUBSET Ports, differs : SUBSET Regs, torn : BOOLEAN,
              clean : [Callers -> BOOLEAN]]

\* The settings, as the assumption has them.
LEMMA SettingIs ==
    ASSUME NEW s \in Settings
    PROVE  /\ s.board \in BoardType
           /\ \A p \in Ports : s.board.far \/ Supported(s.board.uart, s.board.came[p])
           /\ s.use.types \subseteq 0..3 /\ s.use.troubles \in Nat /\ s.use.together \in Nat
BY BoardConfigAssumption DEF BoardType

\* What the invariant says when no call is clean and nobody relies on anything.
LEMMA FitsInit ==
    ASSUME Init
    PROVE  TypeOK
<1>1. PICK s \in Settings : board = s.board /\ use = s.use
  BY DEF Init
<1>2. board \in BoardType /\ use.troubles \in Nat
  BY <1>1, SettingIs
<1>3. \A p \in Ports : WithType(board.uart, board.came[p], p, Blank) \in [Regs -> SUBSET Bits]
  BY <1>2, BlankIs, TypeSet DEF BoardType
<1>4. reg \in [Regs -> SUBSET Bits]
  <2>1. \A r \in Regs : reg[r] = UNION {WithType(board.uart, board.came[p], p, Blank)[r] : p \in Ports}
    BY DEF Init
  <2>2. \A r \in Regs : reg[r] \in SUBSET Bits
    BY <1>3, <2>1
  <2>3. reg = [r \in Regs |-> UNION {WithType(board.uart, board.came[p], p, Blank)[r] : p \in Ports}]
    BY DEF Init
  <2> QED BY <2>1, <2>2, <2>3
<1>5. mem \in [Places -> CellValues]
  <2>1. CASE Banks
    BY <2>1 DEF Init, Places, CellValues
  <2>2. CASE ~Banks
    BY <1>4, <2>2, SavedBits DEF Init, Places, CellValues
  <2> QED BY <2>1, <2>2
<1>6. /\ dev.addr \in Places /\ dev.data \in CellValues /\ dev.failed \in BOOLEAN
      /\ ~Busy
  <2>1. Cells[1] \in Places
    BY CellsAre
  <2>2. dev.addr = Cells[1] /\ dev.data = mem[Cells[1]] /\ dev.job = NoJob /\ dev.failed = FALSE
    BY DEF Init, Controller
  <2> QED BY <1>5, <2>1, <2>2 DEF Busy
<1>7. cache \in [Ports -> CacheType]
  <2>1. CASE board.far
    <3>1. \A p \in Ports : Shifted(p) \in {0, 1, 2, 4, 8}
      BY BoardConfigAssumption DEF Shifted
    <3>2. \A p \in Ports : FarCache[p] \subseteq CacheType
      BY <3>1 DEF FarCache, CacheType
    <3>3. cache \in {f \in [Ports -> UNION {FarCache[p] : p \in Ports}] :
                       \A p \in Ports : f[p] \in FarCache[p]}
      <4>1. cache \in IF board.far
                      THEN {f \in [Ports -> UNION {FarCache[p] : p \in Ports}] :
                               \A p \in Ports : f[p] \in FarCache[p]}
                      ELSE {[p \in Ports |-> CacheFrom(p, reg.ahdc, reg.rs422)]}
        BY Zenon DEF Init
      <4> QED BY <2>1, <4>1
    <3> QED BY <3>2, <3>3, Zenon
  <2>2. CASE ~board.far
    <3>1. cache = [p \in Ports |-> CacheFrom(p, reg.ahdc, reg.rs422)]
      BY <2>2 DEF Init
    <3> DEFINE read(p) == CacheFrom(p, reg.ahdc, reg.rs422)
    <3>2. \A p \in Ports : read(p) \in CacheType
      BY CachedBits DEF CacheType
    <3>3. cache = [p \in Ports |-> read(p)]
      BY <3>1
    <3> HIDE DEF read
    <3> QED BY <3>2, <3>3, Zenon
  <2> QED BY <2>1, <2>2
<1>8. DOMAIN call = Callers /\ \A c \in Callers : ~InCall(c)
  BY DEF Init, InCall
<1>9. begun \in 0..MaxCalls /\ troubles \in 0..use.troubles
  BY <1>2, BoardConfigAssumption DEF Init
<1>10. ghost \in GhostType
  BY <1>2 DEF Init, GhostType, BoardType
<1> QED BY <1>1, <1>4, <1>5, <1>6, <1>7, <1>8, <1>9, <1>10 DEF TypeOK, CacheType, GhostType

\* The initial states satisfy the invariant.
LEMMA InitHolds == Init => IInv
<1> SUFFICES ASSUME Init PROVE IInv
  OBVIOUS
<1>1. TypeOK
  BY FitsInit
<1>2. PICK s \in Settings : board = s.board /\ use = s.use
  BY DEF Init
<1>3. board \in BoardType /\ \A p \in Ports : board.far \/ Supported(board.uart, board.came[p])
  BY <1>2, SettingIs
<1>4. \A c \in Callers : ~ghost.clean[c] /\ ~InCall(c)
  BY DEF Init, InCall
<1>5. ~Busy
  BY DEF Init, Controller, Busy
<1>6. CleanAlone
  BY <1>4 DEF CleanAlone
<1>7. ASSUME Banks PROVE FlashFits
  <2>1. mem = [f \in Flash |-> f] /\ ghost.want.dir = "dir" /\ ghost.want.sig = "sig"
    BY <1>7 DEF Init
  <2>2. mem = FlashWanted
    BY <2>1, OrdersAre DEF FlashWanted
  <2> QED BY <1>4, <1>5, <2>2 DEF FlashFits
<1>8. ASSUME ~Banks PROVE EepromFits
  <2>1. \A r \in Regs : mem[r] = Saved(r, reg[r])
    BY <1>8 DEF Init
  <2>2. ASSUME NEW p \in Ports \ ghost.doubt PROVE TypeIs(p)
    <3>1. ~board.far /\ ghost.asked = board.came
      <4>1. /\ ghost.doubt = IF board.far THEN Ports ELSE {}
            /\ ghost.asked = board.came
        BY DEF Init
      <4> QED BY <2>2, <4>1
    <3>2. Supported(board.uart, board.came[p])
      BY <1>3, <3>1, Zenon
    <3>3. cache[p] = CacheFrom(p, reg.ahdc, reg.rs422)
      BY <3>1 DEF Init
    <3>4. CacheFrom(p, reg.ahdc, reg.rs422) = Cached(board.came[p])
      <4> DEFINE w(q) == WithType(board.uart, board.came[q], q, Blank)
      <4>1. /\ \A q \in Ports, r \in Regs : w(q)[r] \ Own(q) = {}
            /\ CacheFrom(p, w(p).ahdc, w(p).rs422) = Cached(board.came[p])
        <5>1. board.uart \in 0..2 /\ \A q \in Ports : board.came[q] \in 0..3
          BY <1>3 DEF BoardType
        <5>2. \A q \in Ports, r \in Regs : w(q)[r] \ Own(q) = Blank[r] \ Own(q)
          BY <5>1, BlankIs, TypeSet
        <5>3. CacheFrom(p, w(p).ahdc, w(p).rs422) = Cached(board.came[p])
          BY <3>2, TypeMeant
        <5> HIDE DEF w
        <5> QED BY <5>2, <5>3, BlankIs
      <4>2. /\ reg.ahdc = UNION {w(q).ahdc : q \in Ports}
            /\ reg.rs422 = UNION {w(q).rs422 : q \in Ports}
        <5>1. reg = [r \in Regs |-> UNION {w(q)[r] : q \in Ports}]
          BY Zenon DEF Init
        <5> HIDE DEF w
        <5> QED BY <5>1 DEF Regs
      <4>3. \A q \in Ports : /\ w(q).ahdc \subseteq Own(q)
                             /\ w(q).rs422 \subseteq Own(q)
        BY <4>1 DEF Regs, Blank
      <4> HIDE DEF w
      <4>4. \A b \in Own(p) : /\ b \in reg.ahdc <=> b \in w(p).ahdc
                              /\ b \in reg.rs422 <=> b \in w(p).rs422
        BY <4>2, <4>3 DEF Own
      <4> QED BY <4>1, <4>4 DEF CacheFrom, Bit, Own
    <3>5. UartType(board.uart, Cached(board.came[p])) = board.came[p]
      BY <1>3, <3>2, TypeAnswered DEF BoardType
    <3> QED BY <3>1, <3>3, <3>4, <3>5 DEF TypeIs
  <2> QED BY <1>4, <1>5, <2>1, <2>2 DEF EepromFits
<1> QED BY <1>1, <1>4, <1>6, <1>7, <1>8 DEF IInv

----------------------------------------------------------------------------
(* The type invariant *)

\* What a board's memory holds changes with the board only.
LEMMA BoardStays ==
    ASSUME UNCHANGED board
    PROVE  Banks' = Banks /\ Cells' = Cells /\ Places' = Places /\ CellValues' = CellValues
BY DEF Banks, Cells, Places, CellValues

\* One call begins, goes on or ends, and the rest stays in its range.
LEMMA TypeStays ==
    ASSUME TypeOK, UNCHANGED <<board, use>>,
           NEW c \in Callers, NEW k, k = NoCall \/ CallFits(k), call' = [call EXCEPT ![c] = k],
           reg' \in [Regs -> SUBSET Bits], mem' \in [Places -> CellValues],
           dev'.addr \in Places, dev'.data \in CellValues, dev'.failed \in BOOLEAN,
           dev'.job # NoJob =>
               /\ dev'.job.do \in IF Banks THEN {"read", "erase", "write"} ELSE {"write"}
               /\ dev'.job.cell \in Places /\ dev'.job.data \in CellValues,
           cache' \in [Ports -> CacheType],
           begun' \in 0..MaxCalls, troubles' \in 0..use.troubles, ghost' \in GhostType
    PROVE  TypeOK'
<1>1. Banks' = Banks /\ Places' = Places /\ CellValues' = CellValues
  BY BoardStays
<1>2. DOMAIN call' = Callers
  BY DEF TypeOK
<1>3. ASSUME NEW d \in Callers, InCall(d)' PROVE CallFits(call[d])'
  <2>1. CallFits(call'[d])
    <3>1. CASE d = c
      BY <1>3, <3>1 DEF TypeOK, InCall
    <3>2. CASE d # c
      BY <1>3, <3>2 DEF TypeOK, InCall
    <3> QED BY <3>1, <3>2
  <2> QED BY <1>1, <2>1 DEF CallFits
<1>4. (\E s \in Settings : board = s.board /\ use = s.use)'
  BY DEF TypeOK
<1> QED BY <1>1, <1>2, <1>3, <1>4 DEF TypeOK, Busy, CacheType, GhostType

\* What the type invariant says of a call in progress.
LEMMA CallIs ==
    ASSUME TypeOK, NEW c \in Callers, InCall(c)
    PROVE  /\ CallFits(call[c]) /\ call[c].at \in 1..4 /\ call[c].val \in [Places -> CellValues]
           /\ Cells[call[c].at] \in Places /\ call[c].val[Cells[call[c].at]] \in CellValues
           /\ (Banks <=> call[c].op = "banks")
<1>1. CallFits(call[c])
  BY DEF TypeOK
<1> QED BY <1>1, CellsAre DEF CallFits

\* A call that goes on is one of the same kind.
LEMMA GoesOn ==
    ASSUME NEW c, NEW pc, NEW phase, NEW at, NEW val, GoTo(c, pc, phase, at, val)
    PROVE  call' = [call EXCEPT ![c] = Call(call[c].op, call[c].port, call[c].arg, pc, phase, at, val)]
BY DEF GoTo

\* The fields of a call.
LEMMA CallFields ==
    ASSUME NEW op, NEW p, NEW arg, NEW pc, NEW phase, NEW at, NEW val
    PROVE  LET k == Call(op, p, arg, pc, phase, at, val)
           IN  /\ k.op = op /\ k.port = p /\ k.arg = arg /\ k.pc = pc
               /\ k.phase = phase /\ k.at = at /\ k.val = val
BY DEF Call

\* The fields of the controller.
LEMMA ControllerFields ==
    ASSUME NEW a, NEW d, NEW j, NEW f
    PROVE  LET x == Controller(a, d, j, f)
           IN  x.addr = a /\ x.data = d /\ x.job = j /\ x.failed = f
BY DEF Controller

\* A call that ends: what it asked is noted if it was clean.
LEMMA FulfilledIs ==
    ASSUME TypeOK, NEW c \in Callers, InCall(c), NEW g \in GhostType
    PROVE  LET h == Fulfilled(c, g)
               k == call[c]
           IN  /\ h \in GhostType /\ h.differs = g.differs /\ h.torn = g.torn
               /\ h.clean = [g.clean EXCEPT ![c] = FALSE]
               /\ ~g.clean[c] => h.asked = g.asked /\ h.want = g.want /\ h.doubt = g.doubt
               /\ k.op # "type" => h.asked = g.asked /\ h.doubt = g.doubt
               /\ k.op # "banks" => h.want = g.want
               /\ g.clean[c] /\ k.op = "banks" => h.want = [g.want EXCEPT ![k.arg] = "new"]
               /\ g.clean[c] /\ k.op = "type" =>
                     IF Supported(board.uart, k.arg)
                     THEN h.asked = [g.asked EXCEPT ![k.port] = k.arg] /\ h.doubt = g.doubt \ {k.port}
                     ELSE h.asked = g.asked /\ h.doubt = g.doubt \union {k.port}
<1> DEFINE h == Fulfilled(c, g)
           k == call[c]
<1>1. /\ k.op = "type" => k.arg \in 0..3 /\ k.port \in Ports
      /\ k.op = "banks" => k.arg \in {"dir", "sig"}
  BY CallIs DEF CallFits
<1>2. /\ h.differs = g.differs /\ h.torn = g.torn
      /\ h.clean = [g.clean EXCEPT ![c] = FALSE]
      /\ h.asked = IF g.clean[c] /\ k.op = "type" /\ Supported(board.uart, k.arg)
                   THEN [g.asked EXCEPT ![k.port] = k.arg] ELSE g.asked
      /\ h.want = IF g.clean[c] /\ k.op = "banks" THEN [g.want EXCEPT ![k.arg] = "new"] ELSE g.want
      /\ h.doubt = IF g.clean[c] /\ k.op = "type"
                   THEN IF Supported(board.uart, k.arg) THEN g.doubt \ {k.port}
                        ELSE g.doubt \union {k.port}
                   ELSE g.doubt
      /\ h = [asked |-> h.asked, want |-> h.want, doubt |-> h.doubt, differs |-> h.differs,
              torn |-> h.torn, clean |-> h.clean]
  BY DEF Fulfilled
<1>3. /\ g.asked \in [Ports -> 0..3] /\ g.want \in [dir : {"dir", "new"}, sig : {"sig", "new"}]
      /\ g.doubt \in SUBSET Ports /\ g.differs \in SUBSET Regs /\ g.torn \in BOOLEAN
      /\ g.clean \in [Callers -> BOOLEAN]
  BY DEF GhostType
<1> HIDE DEF h, k
<1>4. h.want \in [dir : {"dir", "new"}, sig : {"sig", "new"}]
  <2>1. CASE g.clean[c] /\ k.op = "banks"
    BY <1>1, <1>2, <1>3, <2>1
  <2>2. CASE ~(g.clean[c] /\ k.op = "banks")
    BY <1>2, <1>3, <2>2
  <2> QED BY <2>1, <2>2
<1>5. h.asked \in [Ports -> 0..3] /\ h.doubt \in SUBSET Ports
  BY <1>1, <1>2, <1>3
<1>6. h \in GhostType
  <2>1. h.differs \in SUBSET Regs /\ h.torn \in BOOLEAN
    BY <1>2, <1>3
  <2>2. h.clean \in [Callers -> BOOLEAN]
    BY <1>2, <1>3
  <2>3. h = [asked |-> h.asked, want |-> h.want, doubt |-> h.doubt, differs |-> h.differs,
             torn |-> h.torn, clean |-> h.clean]
    BY <1>2
  <2> QED BY <1>4, <1>5, <2>1, <2>2, <2>3 DEF GhostType
<1> QED BY <1>2, <1>6 DEF h, k

\* Cell i as a clean call leaves it.
LEMMA CellDoneIs ==
    ASSUME TypeOK, ~Banks, NEW c \in Callers, InCall(c)
    PROVE  LET h == CellDone(c)
               cell == Cells[call[c].at]
           IN  /\ h \in GhostType /\ h.asked = ghost.asked /\ h.want = ghost.want
               /\ h.doubt = ghost.doubt /\ h.torn = ghost.torn /\ h.clean = ghost.clean
               /\ ~ghost.clean[c] => h.differs = ghost.differs
               /\ ghost.clean[c] => h.differs = IF call[c].op = "six"
                                                THEN ghost.differs \union {cell}
                                                ELSE ghost.differs \ {cell}
<1>1. ghost \in GhostType /\ Cells[call[c].at] \in Regs
  BY CallIs DEF TypeOK, GhostType, Places
<1> QED BY <1>1 DEF CellDone, GhostType

\* A cell whose writing was given up.
LEMMA MissedIs ==
    ASSUME TypeOK, NEW x \in Regs
    PROVE  LET h == [ghost EXCEPT !.differs = @ \union {x}]
           IN  /\ h \in GhostType /\ h.asked = ghost.asked /\ h.want = ghost.want
               /\ h.doubt = ghost.doubt /\ h.torn = ghost.torn /\ h.clean = ghost.clean
               /\ h.differs = ghost.differs \union {x}
<1>1. ghost \in GhostType
  BY DEF TypeOK, GhostType
<1> QED BY <1>1 DEF GhostType

\* A call begins.
LEMMA BeginTypes ==
    ASSUME TypeOK, NEW c \in Callers, NEW k, CallFits(k), Begin(c, k)
    PROVE  TypeOK'
<1>1. ghost' \in GhostType
  <2>1. ghost \in GhostType
    BY DEF TypeOK, GhostType
  <2>2. CASE Quiet
    <3>1. ghost' = [ghost EXCEPT !.clean = [@ EXCEPT ![c] = TRUE]]
      BY <2>2 DEF Begin
    <3> QED BY <2>1, <3>1 DEF GhostType
  <2>3. CASE ~Quiet
    <3>1. ghost' = Disturbed
      BY <2>3 DEF Begin
    <3> QED BY <2>1, <3>1 DEF GhostType, Disturbed
  <2> QED BY <2>2, <2>3
<1>2. begun' \in 0..MaxCalls
  BY BoardConfigAssumption DEF Begin, MayBegin, TypeOK
<1>3. UNCHANGED <<board, use, reg, mem, dev, cache, troubles>> /\ call' = [call EXCEPT ![c] = k]
  BY DEF Begin
<1> QED BY <1>1, <1>2, <1>3, TypeStays DEF TypeOK, CacheType, Busy

\* A GPIO call writes one register.
LEMMA OutTypes ==
    ASSUME TypeOK, NEW c \in Callers, NEW r, NEW v, GpioOut(c, r, v),
           reg' \in [Regs -> SUBSET Bits], ghost' \in GhostType
    PROVE  TypeOK'
<1>1. begun' \in 0..MaxCalls
  BY BoardConfigAssumption DEF GpioOut, MayBegin, TypeOK
<1>2. UNCHANGED <<board, use, mem, dev, cache, call, troubles>>
  BY DEF GpioOut
<1>3. Banks' = Banks /\ Places' = Places /\ CellValues' = CellValues
  BY <1>2, BoardStays
<1> QED BY <1>1, <1>2, <1>3 DEF TypeOK, GhostType, Busy, InCall, CallFits

\* The calls that go through the EEPROM or the flash, as they begin.
Begins(c) ==
    \/ \E p \in Ports, t \in use.types : SetType(c, p, t)
    \/ \E p \in Ports, yes \in use.acs : SetAcs(c, p, yes)
    \/ \E v \in {{}, Bits} : GpioSetDefault(c, v) \/ GpioWriteDefault(c, v)

\* A call begins with a step that is right for the board.
BegunAs(k) ==
    /\ CallFits(k) /\ k.op # "none"
    /\ IF k.op \in {"type", "acs"} THEN k.pc = "read" ELSE k.pc = "wait"
    /\ k.op = "type" => k.at = 1
    /\ k.op = "banks" => k.phase = "read" /\ k.at = 1

\* Each of them begins as such a call, alone or not.
LEMMA BeginsAs ==
    ASSUME TypeOK, NEW c \in Callers, Begins(c)
    PROVE  \E k : BegunAs(k) /\ Begin(c, k)
<1>1. use.types \subseteq 0..3
  BY SettingIs DEF TypeOK
<1>2. ASSUME NEW p \in Ports, NEW t \in use.types, SetType(c, p, t)
      PROVE  \E k : BegunAs(k) /\ Begin(c, k)
  <2> DEFINE k == Call("type", p, t, "read", "write", 1, Blank)
  <2>1. ~Banks /\ Begin(c, k)
    BY <1>2 DEF SetType
  <2>2. /\ k.op = "type" /\ k.port = p /\ k.arg = t /\ k.pc = "read" /\ k.phase = "write"
        /\ k.at = 1 /\ k.val = Blank
    BY CallFields
  <2> HIDE DEF k
  <2>3. BegunAs(k)
    BY <1>1, <2>1, <2>2, BlankIs DEF BegunAs, CallFits, Places, CellValues, InMemory
  <2> QED BY <2>1, <2>3
<1>3. ASSUME NEW p \in Ports, NEW yes, SetAcs(c, p, yes)
      PROVE  \E k : BegunAs(k) /\ Begin(c, k)
  <2> DEFINE k == Call("acs", p, yes, "read", "write", 2, Blank)
  <2>1. ~Banks /\ Begin(c, k)
    BY <1>3 DEF SetAcs
  <2>2. /\ k.op = "acs" /\ k.port = p /\ k.pc = "read" /\ k.phase = "write"
        /\ k.at = 2 /\ k.val = Blank
    BY CallFields
  <2> HIDE DEF k
  <2>3. BegunAs(k)
    BY <2>1, <2>2, BlankIs DEF BegunAs, CallFits, Places, CellValues, InMemory
  <2> QED BY <2>1, <2>3
<1>4. ASSUME ~Banks, NEW at \in {3, 4}, NEW v, NEW w \in [Regs -> SUBSET Bits],
             Begin(c, Call("six", 0, v, "wait", "write", at, w))
      PROVE  \E k : BegunAs(k) /\ Begin(c, k)
  <2> DEFINE k == Call("six", 0, v, "wait", "write", at, w)
  <2>1. Begin(c, k)
    BY <1>4
  <2>2. k.op = "six" /\ k.pc = "wait" /\ k.phase = "write" /\ k.at = at /\ k.val = w
    BY CallFields
  <2> HIDE DEF k
  <2>3. BegunAs(k)
    BY <1>4, <2>2 DEF BegunAs, CallFits, Places, CellValues, InMemory
  <2> QED BY <2>1, <2>3
<1>5. ASSUME Banks, NEW a \in {"dir", "sig"},
             Begin(c, Call("banks", 0, a, "wait", "read", 1, [f \in Flash |-> "none"]))
      PROVE  \E k : BegunAs(k) /\ Begin(c, k)
  <2> DEFINE k == Call("banks", 0, a, "wait", "read", 1, [f \in Flash |-> "none"])
  <2>1. Begin(c, k)
    BY <1>5
  <2>2. /\ k.op = "banks" /\ k.arg = a /\ k.pc = "wait" /\ k.phase = "read" /\ k.at = 1
        /\ k.val = [f \in Flash |-> "none"]
    BY CallFields
  <2> HIDE DEF k
  <2>3. BegunAs(k)
    BY <1>5, <2>2, BlankIs DEF BegunAs, CallFits, Places, CellValues, InMemory
  <2> QED BY <2>1, <2>3
<1>6. ASSUME NEW v \in {{}, Bits}, GpioSetDefault(c, v)
      PROVE  \E k : BegunAs(k) /\ Begin(c, k)
  <2>1. v \in SUBSET Bits
    OBVIOUS
  <2>2. CASE /\ board.gpio = "six"
             /\ Begin(c, Call("six", 0, v, "wait", "write", 3, [Blank EXCEPT !.gctl = v]))
    <3>1. ~Banks /\ [Blank EXCEPT !.gctl = v] \in [Regs -> SUBSET Bits]
      BY <2>1, <2>2, BlankIs DEF Banks
    <3> QED BY <2>2, <3>1, <1>4
  <2>3. CASE /\ Banks
             /\ Begin(c, Call("banks", 0, "dir", "wait", "read", 1, [f \in Flash |-> "none"]))
    BY <2>3, <1>5
  <2> QED BY <1>6, <2>2, <2>3 DEF GpioSetDefault
<1>7. ASSUME NEW v \in {{}, Bits}, GpioWriteDefault(c, v)
      PROVE  \E k : BegunAs(k) /\ Begin(c, k)
  <2>1. v \in SUBSET Bits
    OBVIOUS
  <2>2. CASE /\ board.gpio = "six"
             /\ Begin(c, Call("six", 0, v, "wait", "write", 4, [Blank EXCEPT !.gpio = v]))
    <3>1. ~Banks /\ [Blank EXCEPT !.gpio = v] \in [Regs -> SUBSET Bits]
      BY <2>1, <2>2, BlankIs DEF Banks
    <3> QED BY <2>2, <3>1, <1>4
  <2>3. CASE /\ Banks
             /\ Begin(c, Call("banks", 0, "sig", "wait", "read", 1, [f \in Flash |-> "none"]))
    BY <2>3, <1>5
  <2> QED BY <1>7, <2>2, <2>3 DEF GpioWriteDefault
<1> QED BY <1>2, <1>3, <1>6, <1>7 DEF Begins

\* SET_TYPE and SET_ACS read, change and write the registers.
LEMMA RegisterTypes ==
    ASSUME TypeOK, NEW c \in Callers, ReadReg(c) \/ Change(c) \/ WriteReg(c)
    PROVE  TypeOK'
<1> DEFINE k == call[c]
<1>1. InCall(c) /\ k.pc \in {"read", "change", "out"}
  BY DEF ReadReg, Change, WriteReg, At
<1>2. /\ CallFits(k) /\ k.op \in {"type", "acs"} /\ ~Banks
      /\ k.at \in 1..4 /\ k.val \in [Regs -> SUBSET Bits] /\ k.phase = "write" /\ k.port \in Ports
  <2>1. CallFits(k)
    BY <1>1, CallIs
  <2>2. k.op \in {"type", "acs"} /\ k.at \in 1..4 /\ k.val \in [Places -> CellValues]
    BY <1>1, <2>1 DEF CallFits, InMemory
  <2>3. ~Banks /\ k.port \in Ports
    BY <2>1, <2>2 DEF CallFits
  <2>4. k.phase = "write" /\ Places = Regs /\ CellValues = SUBSET Bits
    BY <2>1, <2>3 DEF CallFits, Places, CellValues
  <2> QED BY <2>1, <2>2, <2>3, <2>4
<1>3. UNCHANGED <<board, use, mem, dev, begun, troubles, ghost>>
  BY DEF ReadReg, Change, WriteReg
<1>4. RegOrder[k.at] \in Regs
  BY <1>2, OrdersAre
<1>5. ASSUME NEW x, CallFits(x), call' = [call EXCEPT ![c] = x],
             reg' \in [Regs -> SUBSET Bits], cache' \in [Ports -> CacheType]
      PROVE  TypeOK'
  BY <1>3, <1>5, TypeStays DEF TypeOK, GhostType, Busy
<1>6. reg \in [Regs -> SUBSET Bits] /\ cache \in [Ports -> CacheType]
  BY DEF TypeOK, CacheType
<1>7. ASSUME NEW pc \in {"read", "change", "out", "wait"}, NEW at \in 1..4,
             NEW val \in [Regs -> SUBSET Bits],
             k.op = "acs" => at = 2, k.op = "type" /\ pc = "change" => at = 4
      PROVE  CallFits(Call(k.op, k.port, k.arg, pc, k.phase, at, val))
  <2> DEFINE x == Call(k.op, k.port, k.arg, pc, k.phase, at, val)
  <2>1. /\ x.op = k.op /\ x.port = k.port /\ x.arg = k.arg /\ x.pc = pc /\ x.phase = k.phase
        /\ x.at = at /\ x.val = val
    BY CallFields
  <2> HIDE DEF x
  <2>2. CallFits(x)
    BY <1>2, <1>7, <2>1 DEF CallFits, InMemory, Places, CellValues
  <2> QED BY <2>2 DEF x
<1>8. k.op = "acs" => k.at = 2
  BY <1>2 DEF CallFits
<1>9. CASE ReadReg(c)
  <2> DEFINE v == [k.val EXCEPT ![RegOrder[k.at]] = reg[RegOrder[k.at]]]
  <2>1. v \in [Regs -> SUBSET Bits]
    BY <1>2, <1>4, <1>6
  <2>2. UNCHANGED <<reg, cache>>
    BY <1>9 DEF ReadReg
  <2>3. IF Last(c) THEN GoTo(c, "change", k.phase, k.at, v) ELSE GoTo(c, "read", k.phase, k.at + 1, v)
    BY <1>9 DEF ReadReg
  <2> HIDE DEF v
  <2>4. CASE Last(c)
    <3>1. call' = [call EXCEPT ![c] = Call(k.op, k.port, k.arg, "change", k.phase, k.at, v)]
      BY <2>3, <2>4, GoesOn
    <3>2. CallFits(Call(k.op, k.port, k.arg, "change", k.phase, k.at, v))
      BY <1>2, <1>7, <1>8, <2>1, <2>4 DEF Last
    <3> QED BY <1>5, <1>6, <2>2, <3>1, <3>2
  <2>5. CASE ~Last(c)
    <3>1. call' = [call EXCEPT ![c] = Call(k.op, k.port, k.arg, "read", k.phase, k.at + 1, v)]
      BY <2>3, <2>5, GoesOn
    <3>2. k.at + 1 \in 1..4 /\ k.op = "type"
      BY <1>2, <2>5 DEF Last
    <3>3. CallFits(Call(k.op, k.port, k.arg, "read", k.phase, k.at + 1, v))
      BY <1>7, <2>1, <3>2
    <3> QED BY <1>5, <1>6, <2>2, <3>1, <3>3
  <2> QED BY <2>4, <2>5
<1>10. CASE Change(c)
  <2>1. UNCHANGED reg
    BY <1>10 DEF Change
  <2>2. CASE k.op = "type"
    <3> DEFINE v == WithType(board.uart, k.arg, k.port, k.val)
    <3>1. k.arg \in 0..3 /\ board.uart \in 0..2
      BY <1>2, <2>2, SettingIs DEF CallFits, TypeOK, BoardType
    <3>2. v \in [Regs -> SUBSET Bits]
      BY <1>2, <3>1, TypeSet
    <3>3. /\ GoTo(c, "out", k.phase, 1, v)
          /\ cache' = IF Supported(board.uart, k.arg)
                      THEN [cache EXCEPT ![k.port] = Cached(k.arg)] ELSE cache
      BY <1>10, <2>2 DEF Change
    <3>4. cache' \in [Ports -> CacheType]
      BY <1>2, <1>6, <3>3, CachedBits DEF CacheType
    <3> HIDE DEF v
    <3>5. call' = [call EXCEPT ![c] = Call(k.op, k.port, k.arg, "out", k.phase, 1, v)]
      BY <3>3, GoesOn
    <3>6. CallFits(Call(k.op, k.port, k.arg, "out", k.phase, 1, v))
      BY <1>7, <2>2, <3>2
    <3> QED BY <1>5, <1>6, <2>1, <3>4, <3>5, <3>6
  <2>3. CASE k.op = "acs"
    <3> DEFINE v == WithAcs(k.port, k.arg, k.val)
    <3>1. v \in [Regs -> SUBSET Bits]
      BY <1>2, AcsSet
    <3>2. GoTo(c, "out", k.phase, k.at, v) /\ UNCHANGED cache
      BY <1>10, <2>3 DEF Change
    <3> HIDE DEF v
    <3>3. call' = [call EXCEPT ![c] = Call(k.op, k.port, k.arg, "out", k.phase, k.at, v)]
      BY <3>2, GoesOn
    <3>4. CallFits(Call(k.op, k.port, k.arg, "out", k.phase, k.at, v))
      BY <1>2, <1>7, <1>8, <2>3, <3>1
    <3> QED BY <1>5, <1>6, <2>1, <3>2, <3>3, <3>4
  <2> QED BY <1>2, <2>2, <2>3
<1>11. CASE WriteReg(c)
  <2>1. UNCHANGED cache /\ reg' = [reg EXCEPT ![RegOrder[k.at]] = k.val[RegOrder[k.at]]]
    BY <1>11 DEF WriteReg
  <2>2. reg' \in [Regs -> SUBSET Bits]
    BY <1>2, <1>4, <1>6, <2>1
  <2>3. IF Last(c) THEN GoTo(c, "wait", k.phase, IF k.op = "type" THEN 1 ELSE 2, k.val)
        ELSE GoTo(c, "out", k.phase, k.at + 1, k.val)
    BY <1>11 DEF WriteReg
  <2>4. CASE Last(c)
    <3>1. call' = [call EXCEPT ![c] = Call(k.op, k.port, k.arg, "wait", k.phase,
                                           IF k.op = "type" THEN 1 ELSE 2, k.val)]
      BY <2>3, <2>4, GoesOn
    <3>2. CallFits(Call(k.op, k.port, k.arg, "wait", k.phase, IF k.op = "type" THEN 1 ELSE 2, k.val))
      BY <1>2, <1>7
    <3> QED BY <1>5, <1>6, <2>1, <2>2, <3>1, <3>2
  <2>5. CASE ~Last(c)
    <3>1. call' = [call EXCEPT ![c] = Call(k.op, k.port, k.arg, "out", k.phase, k.at + 1, k.val)]
      BY <2>3, <2>5, GoesOn
    <3>2. k.at + 1 \in 1..4 /\ k.op = "type"
      BY <1>2, <2>5 DEF Last
    <3>3. CallFits(Call(k.op, k.port, k.arg, "out", k.phase, k.at + 1, k.val))
      BY <1>2, <1>7, <3>2
    <3> QED BY <1>5, <1>6, <2>1, <2>2, <3>1, <3>3
  <2> QED BY <2>4, <2>5
<1> QED BY <1>9, <1>10, <1>11

\* Waiting, and giving the controller its address, data and command.
LEMMA AccessTypes ==
    ASSUME TypeOK, NEW c \in Callers, Idle(c) \/ Address(c) \/ Data(c) \/ Command(c)
    PROVE  TypeOK'
<1> DEFINE k == call[c]
<1>1. InCall(c) /\ k.pc \in {"wait", "address", "data", "command"}
  BY DEF Idle, Address, Data, Command, At
<1>2. CallFits(k) /\ k.val \in [Places -> CellValues] /\ Cells[k.at] \in Places
  BY <1>1, CallIs
<1>3. UNCHANGED <<board, use, reg, mem, cache, begun, troubles>> /\ UNCHANGED ghost
  BY DEF Idle, Address, Data, Command
<1>4. reg \in [Regs -> SUBSET Bits] /\ cache \in [Ports -> CacheType] /\ mem \in [Places -> CellValues]
      /\ ghost \in GhostType /\ begun \in 0..MaxCalls /\ troubles \in 0..use.troubles
  BY DEF TypeOK, CacheType, GhostType
<1>5. /\ dev.addr \in Places /\ dev.data \in CellValues /\ dev.failed \in BOOLEAN
      /\ dev.job # NoJob =>
             /\ dev.job.do \in IF Banks THEN {"read", "erase", "write"} ELSE {"write"}
             /\ dev.job.cell \in Places /\ dev.job.data \in CellValues
  BY DEF TypeOK, Busy
<1>6. ASSUME NEW pc \in {"address", "data", "command", "poll"}, GoOn(c, pc),
             k.phase = "erase" => pc \notin {"address", "data"}, k.phase = "read" => pc # "data",
             dev'.addr \in Places, dev'.data \in CellValues, dev'.failed \in BOOLEAN,
             dev'.job # NoJob =>
                 /\ dev'.job.do \in IF Banks THEN {"read", "erase", "write"} ELSE {"write"}
                 /\ dev'.job.cell \in Places /\ dev'.job.data \in CellValues
      PROVE  TypeOK'
  <2> DEFINE x == Call(k.op, k.port, k.arg, pc, k.phase, k.at, k.val)
  <2>1. call' = [call EXCEPT ![c] = x]
    BY <1>6, GoesOn DEF GoOn
  <2>2. /\ x.op = k.op /\ x.port = k.port /\ x.arg = k.arg /\ x.pc = pc /\ x.phase = k.phase
        /\ x.at = k.at /\ x.val = k.val
    BY CallFields
  <2> HIDE DEF x
  <2>3. CallFits(x)
    BY <1>2, <1>6, <2>2 DEF CallFits, InMemory
  <2> QED BY <1>3, <1>4, <1>6, <2>1, <2>3, TypeStays
<1>7. CASE Idle(c)
  <2>1. UNCHANGED dev /\ GoOn(c, IF k.phase = "erase" THEN "command" ELSE "address")
    BY <1>7 DEF Idle
  <2>2. CASE k.phase = "erase"
    <3>1. GoOn(c, "command")
      BY <2>1, <2>2
    <3> QED BY <1>5, <1>6, <2>1, <3>1
  <2>3. CASE k.phase # "erase"
    <3>1. GoOn(c, "address")
      BY <2>1, <2>3
    <3> QED BY <1>5, <1>6, <2>1, <2>3, <3>1
  <2> QED BY <2>2, <2>3
<1>8. CASE Address(c)
  <2>1. /\ dev' = Controller(Cells[k.at], dev.data, dev.job, dev.failed)
        /\ GoOn(c, IF k.phase = "read" THEN "command" ELSE "data") /\ k.pc = "address"
    BY <1>8 DEF Address, At
  <2>2. dev'.addr = Cells[k.at] /\ dev'.data = dev.data /\ dev'.job = dev.job /\ dev'.failed = dev.failed
    BY <2>1, ControllerFields
  <2>3. k.phase # "erase"
    BY <1>2, <2>1 DEF CallFits
  <2>4. CASE k.phase = "read"
    <3>1. GoOn(c, "command")
      BY <2>1, <2>4
    <3> QED BY <1>2, <1>5, <1>6, <2>2, <3>1
  <2>5. CASE k.phase # "read"
    <3>1. GoOn(c, "data")
      BY <2>1, <2>5
    <3> QED BY <1>2, <1>5, <1>6, <2>2, <2>3, <2>5, <3>1
  <2> QED BY <2>4, <2>5
<1>9. CASE Data(c)
  <2> DEFINE v == IF Banks THEN k.val[Cells[k.at]] ELSE Saved(Cells[k.at], k.val[Cells[k.at]])
  <2>1. dev' = Controller(dev.addr, v, dev.job, dev.failed) /\ GoOn(c, "command")
    BY <1>9 DEF Data
  <2>2. v \in CellValues
    <3>1. CASE Banks
      BY <1>2, <3>1
    <3>2. CASE ~Banks
      BY <1>2, <3>2, SavedBits DEF CellValues
    <3> QED BY <3>1, <3>2
  <2> HIDE DEF v
  <2>3. dev'.addr = dev.addr /\ dev'.data = v /\ dev'.job = dev.job /\ dev'.failed = dev.failed
    BY <2>1, ControllerFields
  <2> QED BY <1>5, <1>6, <2>1, <2>2, <2>3
<1>10. CASE Command(c)
  <2>1. GoOn(c, "poll") /\ k.phase \in IF Banks THEN {"read", "erase", "write"} ELSE {"write"}
    BY <1>2, <1>10 DEF Command, CallFits
  <2>2. CASE Busy
    <3>1. UNCHANGED dev
      BY <1>10, <2>2 DEF Command
    <3> QED BY <1>5, <1>6, <2>1, <3>1
  <2>3. CASE ~Busy
    <3> DEFINE j == [do |-> k.phase, cell |-> dev.addr, data |-> dev.data]
    <3>1. dev' = Controller(dev.addr, dev.data, j, FALSE)
      BY <1>10, <2>3 DEF Command
    <3>2. j.do = k.phase /\ j.cell = dev.addr /\ j.data = dev.data
      OBVIOUS
    <3> HIDE DEF j
    <3>3. dev'.addr = dev.addr /\ dev'.data = dev.data /\ dev'.job = j /\ dev'.failed = FALSE
      BY <3>1 DEF Controller
    <3> QED BY <1>5, <1>6, <2>1, <3>2, <3>3
  <2> QED BY <2>2, <2>3
<1> QED BY <1>7, <1>8, <1>9, <1>10

\* The next cell, or the end.
LEMMA NextCellTypes ==
    ASSUME TypeOK, ~Banks, NEW c \in Callers, InCall(c), NEW g \in GhostType, NextCell(c, g),
           call[c].pc \in InMemory,
           UNCHANGED <<board, use, reg, mem, dev, cache, begun>>, troubles' \in 0..use.troubles
    PROVE  TypeOK'
<1> DEFINE k == call[c]
<1>1. /\ reg \in [Regs -> SUBSET Bits] /\ cache \in [Ports -> CacheType] /\ mem \in [Places -> CellValues]
      /\ begun \in 0..MaxCalls
      /\ dev.addr \in Places /\ dev.data \in CellValues /\ dev.failed \in BOOLEAN
      /\ dev.job # NoJob =>
             /\ dev.job.do \in IF Banks THEN {"read", "erase", "write"} ELSE {"write"}
             /\ dev.job.cell \in Places /\ dev.job.data \in CellValues
  BY DEF TypeOK, CacheType, Busy
<1>2. CASE Last(c)
  <2>1. call' = [call EXCEPT ![c] = NoCall] /\ ghost' = Fulfilled(c, g)
    BY <1>2 DEF NextCell, End
  <2>2. ghost' \in GhostType
    BY <2>1, FulfilledIs
  <2> QED BY <1>1, <2>1, <2>2, TypeStays
<1>3. CASE ~Last(c)
  <2> DEFINE x == Call(k.op, k.port, k.arg, "wait", k.phase, k.at + 1, k.val)
  <2>1. GoTo(c, "wait", k.phase, k.at + 1, k.val) /\ ghost' = g
    BY <1>3 DEF NextCell
  <2>2. call' = [call EXCEPT ![c] = x]
    BY <2>1, GoesOn
  <2>3. /\ x.op = k.op /\ x.port = k.port /\ x.arg = k.arg /\ x.pc = "wait" /\ x.phase = k.phase
        /\ x.at = k.at + 1 /\ x.val = k.val
    BY CallFields
  <2> HIDE DEF x
  <2>4. CallFits(k) /\ k.op = "type" /\ k.at + 1 \in 1..4
    BY <1>3, CallIs DEF Last
  <2>5. CallFits(x)
    BY <2>3, <2>4 DEF CallFits, InMemory
  <2> QED BY <1>1, <2>1, <2>2, <2>5, TypeStays
<1> QED BY <1>2, <1>3

\* A controller that is ready.
LEMMA PolledTypes ==
    ASSUME TypeOK, NEW c \in Callers, Polled(c)
    PROVE  TypeOK'
<1> DEFINE k == call[c]
<1>1. /\ InCall(c) /\ k.pc = "poll" /\ ~Busy
      /\ UNCHANGED <<board, use, reg, mem, dev, cache, begun, troubles>>
  BY DEF Polled, At
<1>2. CallFits(k) /\ k.at \in 1..4 /\ k.val \in [Places -> CellValues] /\ Cells[k.at] \in Places
  BY <1>1, CallIs
<1>3. /\ reg \in [Regs -> SUBSET Bits] /\ cache \in [Ports -> CacheType] /\ mem \in [Places -> CellValues]
      /\ begun \in 0..MaxCalls /\ ghost \in GhostType /\ troubles \in 0..use.troubles
      /\ dev.addr \in Places /\ dev.data \in CellValues /\ dev.failed \in BOOLEAN
      /\ dev.job = NoJob
  BY <1>1 DEF TypeOK, CacheType, GhostType, Busy
<1>4. ASSUME NEW phase, NEW at \in 1..4, NEW val \in [Places -> CellValues],
             phase \in IF Banks THEN {"read", "erase", "write"} ELSE {"write"}, k.op = "acs" => at = 2,
             GoTo(c, "wait", phase, at, val), UNCHANGED ghost
      PROVE  TypeOK'
  <2> DEFINE x == Call(k.op, k.port, k.arg, "wait", phase, at, val)
  <2>1. call' = [call EXCEPT ![c] = x]
    BY <1>4, GoesOn
  <2>2. /\ x.op = k.op /\ x.port = k.port /\ x.arg = k.arg /\ x.pc = "wait" /\ x.phase = phase
        /\ x.at = at /\ x.val = val
    BY CallFields
  <2> HIDE DEF x
  <2>3. CallFits(x)
    BY <1>2, <1>4, <2>2 DEF CallFits, InMemory
  <2> QED BY <1>1, <1>3, <1>4, <2>1, <2>3, TypeStays
<1>5. CASE ~Banks
  <2>1. PolledEeprom(c)
    BY <1>5 DEF Polled
  <2>2. CASE dev.failed /\ GoOn(c, "wait") /\ UNCHANGED ghost
    <3>1. GoTo(c, "wait", k.phase, k.at, k.val)
      BY <2>2 DEF GoOn
    <3>2. k.phase \in (IF Banks THEN {"read", "erase", "write"} ELSE {"write"}) /\ (k.op = "acs" => k.at = 2)
      BY <1>2 DEF CallFits
    <3> QED BY <1>2, <1>4, <2>2, <3>1, <3>2
  <2>3. CASE ~dev.failed /\ NextCell(c, CellDone(c))
    <3>1. CellDone(c) \in GhostType
      BY <1>1, <1>5, CellDoneIs
    <3>2. troubles' \in 0..use.troubles
      BY <1>1, <1>3
    <3> QED BY <1>1, <1>5, <2>3, <3>1, <3>2, NextCellTypes DEF InMemory
  <2> QED BY <2>1, <2>2, <2>3 DEF PolledEeprom
<1>6. CASE Banks
  <2>1. PolledFlash(c) /\ k.op = "banks" /\ k.arg \in {"dir", "sig"} /\ Places = Flash
    BY <1>2, <1>6 DEF Polled, CallFits, Places
  <2> DEFINE v == [k.val EXCEPT ![Cells[k.at]] = dev.data]
  <2>2. v \in [Places -> CellValues] /\ Patched(c, v) \in [Places -> CellValues]
    <3>1. v \in [Places -> CellValues]
      BY <1>2, <1>3
    <3>2. "new" \in CellValues
      BY <1>6 DEF CellValues
    <3> HIDE DEF v
    <3> QED BY <2>1, <3>1, <3>2 DEF Patched
  <2> HIDE DEF v
  <2>3. CASE k.phase = "read"
    <3>1. /\ UNCHANGED ghost
          /\ IF k.at < FlashCount THEN GoTo(c, "wait", "read", k.at + 1, v)
             ELSE GoTo(c, "wait", "erase", k.at, Patched(c, v))
      BY <2>1, <2>3 DEF PolledFlash, v
    <3>2. CASE k.at < FlashCount
      <4>1. k.at + 1 \in 1..4
        BY <1>2, <3>2, CellsAre
      <4> QED BY <1>4, <1>6, <2>1, <2>2, <3>1, <3>2, <4>1
    <3>3. CASE ~(k.at < FlashCount)
      BY <1>2, <1>4, <1>6, <2>1, <2>2, <3>1, <3>3
    <3> QED BY <3>2, <3>3
  <2>4. CASE k.phase = "erase"
    <3>1. UNCHANGED ghost /\ GoTo(c, "wait", "write", 1, k.val)
      BY <2>1, <2>4 DEF PolledFlash
    <3> QED BY <1>2, <1>4, <1>6, <2>1, <3>1
  <2>5. CASE k.phase = "write" /\ k.at < FlashCount
    <3>1. UNCHANGED ghost /\ GoTo(c, "wait", "write", k.at + 1, k.val)
      BY <1>2, <2>1, <2>5, CellsAre DEF PolledFlash
    <3>2. k.at + 1 \in 1..4
      BY <1>2, <2>5, CellsAre
    <3> QED BY <1>2, <1>4, <1>6, <2>1, <3>1, <3>2
  <2>6. CASE k.phase = "write" /\ k.at = FlashCount
    <3>1. call' = [call EXCEPT ![c] = NoCall] /\ ghost' = Fulfilled(c, ghost)
      BY <1>2, <2>1, <2>6, CellsAre DEF PolledFlash, End
    <3>2. ghost' \in GhostType
      BY <1>1, <1>3, <3>1, FulfilledIs
    <3> QED BY <1>1, <1>3, <3>1, <3>2, TypeStays
  <2> QED BY <2>1, <2>3, <2>4, <2>5, <2>6 DEF PolledFlash
<1> QED BY <1>5, <1>6

\* A call gives up.
LEMMA GiveUpTypes ==
    ASSUME TypeOK, NEW c \in Callers, GiveUp(c)
    PROVE  TypeOK'
<1> DEFINE k == call[c]
<1>1. /\ InCall(c) /\ k.pc \in {"wait", "poll"}
      /\ UNCHANGED <<board, use, reg, mem, dev, cache, begun>>
      /\ troubles < use.troubles /\ troubles' = troubles + 1
  BY DEF GiveUp, At
<1>2. CallFits(k) /\ k.at \in 1..4 /\ Cells[k.at] \in Places
  BY <1>1, CallIs
<1>3. troubles' \in 0..use.troubles
  <2>1. use.troubles \in Nat /\ troubles \in 0..use.troubles
    BY SettingIs DEF TypeOK
  <2> QED BY <1>1, <2>1
<1>4. /\ reg \in [Regs -> SUBSET Bits] /\ cache \in [Ports -> CacheType] /\ mem \in [Places -> CellValues]
      /\ begun \in 0..MaxCalls /\ ghost \in GhostType
      /\ dev.addr \in Places /\ dev.data \in CellValues /\ dev.failed \in BOOLEAN
      /\ dev.job # NoJob =>
             /\ dev.job.do \in IF Banks THEN {"read", "erase", "write"} ELSE {"write"}
             /\ dev.job.cell \in Places /\ dev.job.data \in CellValues
  BY DEF TypeOK, CacheType, GhostType, Busy
<1>5. ASSUME call' = [call EXCEPT ![c] = NoCall], ghost' \in GhostType
      PROVE  TypeOK'
  BY <1>1, <1>3, <1>4, <1>5, TypeStays
<1>6. CASE Banks
  <2>1. GiveUpFlash(c)
    BY <1>6 DEF GiveUp
  <2>2. ghost' \in GhostType
    <3>1. /\ ghost.asked \in [Ports -> 0..3] /\ ghost.want \in [dir : {"dir", "new"}, sig : {"sig", "new"}]
          /\ ghost.doubt \in SUBSET Ports /\ ghost.differs \in SUBSET Regs
          /\ ghost.clean \in [Callers -> BOOLEAN] /\ ghost.torn \in BOOLEAN
      BY <1>4 DEF GhostType
    <3>2. /\ ghost' = [asked |-> ghost.asked, want |-> ghost.want, doubt |-> ghost.doubt,
                       differs |-> ghost.differs, torn |-> ghost'.torn,
                       clean |-> [ghost.clean EXCEPT ![c] = FALSE]]
          /\ ghost'.torn \in BOOLEAN
      BY <2>1, <3>1 DEF GiveUpFlash
    <3>3. [ghost.clean EXCEPT ![c] = FALSE] \in [Callers -> BOOLEAN]
      BY <3>1
    <3> DEFINE t == ghost'.torn
               cl == [ghost.clean EXCEPT ![c] = FALSE]
    <3>4. t \in BOOLEAN /\ cl \in [Callers -> BOOLEAN]
      BY <3>2, <3>3
    <3>5. ghost' = [asked |-> ghost.asked, want |-> ghost.want, doubt |-> ghost.doubt,
                    differs |-> ghost.differs, torn |-> t, clean |-> cl]
      BY <3>2
    <3> HIDE DEF t, cl
    <3> QED BY <3>1, <3>4, <3>5 DEF GhostType
  <2> QED BY <1>5, <2>1, <2>2 DEF GiveUpFlash
<1>7. CASE ~Banks
  <2> DEFINE missed == [ghost EXCEPT !.differs = @ \union {Cells[k.at]}]
  <2>1. missed \in GhostType
    BY <1>2, <1>7, MissedIs DEF Places
  <2>2. GiveUpEeprom(c)
    BY <1>7 DEF GiveUp
  <2>3. CASE k.op = "six"
    <3>1. call' = [call EXCEPT ![c] = NoCall] /\ ghost' = [missed EXCEPT !.clean = [@ EXCEPT ![c] = FALSE]]
      BY <2>2, <2>3 DEF GiveUpEeprom
    <3> HIDE DEF missed
    <3>2. ghost' \in GhostType
      BY <2>1, <3>1 DEF GhostType
    <3> QED BY <1>5, <3>1, <3>2
  <2>4. CASE k.op # "six"
    <3>1. NextCell(c, missed)
      BY <2>2, <2>4 DEF GiveUpEeprom
    <3> HIDE DEF missed
    <3> QED BY <1>1, <1>3, <1>7, <2>1, <3>1, NextCellTypes DEF InMemory
  <2> QED BY <2>3, <2>4
<1> QED BY <1>6, <1>7

\* The controller's work.
LEMMA DoneTypes ==
    ASSUME TypeOK, Done
    PROVE  TypeOK'
<1>1. Busy /\ UNCHANGED <<board, use, reg, cache, call, begun, ghost>>
  BY DEF Done
<1>2. /\ dev.addr \in Places /\ dev.data \in CellValues /\ dev.failed \in BOOLEAN
      /\ dev.job.do \in IF Banks THEN {"read", "erase", "write"} ELSE {"write"}
      /\ dev.job.cell \in Places /\ dev.job.data \in CellValues
      /\ mem \in [Places -> CellValues]
  BY <1>1 DEF TypeOK
<1>3. Banks' = Banks /\ Places' = Places /\ CellValues' = CellValues
  BY <1>1, BoardStays
<1>4. /\ dev'.addr = dev.addr /\ dev'.data \in CellValues /\ dev'.failed \in BOOLEAN
      /\ dev'.job = NoJob /\ mem' \in [Places -> CellValues] /\ troubles' \in 0..use.troubles
  <2>1. CASE /\ mem' = CASE dev.job.do = "write" -> [mem EXCEPT ![dev.job.cell] = dev.job.data]
                         [] dev.job.do = "erase" -> [f \in DOMAIN mem |-> "erased"]
                         [] dev.job.do = "read" -> mem
             /\ dev' = Controller(dev.addr, IF dev.job.do = "read" THEN mem[dev.job.cell] ELSE dev.data,
                                  NoJob, dev.failed)
             /\ UNCHANGED troubles
    <3>1. /\ dev'.addr = dev.addr /\ dev'.job = NoJob /\ dev'.failed = dev.failed
          /\ dev'.data = IF dev.job.do = "read" THEN mem[dev.job.cell] ELSE dev.data
      BY <2>1, ControllerFields
    <3>2. dev.job.do = "erase" => "erased" \in CellValues
      BY <1>2 DEF CellValues
    <3>3. mem' \in [Places -> CellValues]
      <4>1. CASE dev.job.do = "write"
        BY <1>2, <2>1, <4>1
      <4>2. CASE dev.job.do = "erase"
        BY <1>2, <2>1, <3>2, <4>2
      <4>3. CASE dev.job.do = "read"
        BY <1>2, <2>1, <4>3
      <4> QED BY <1>2, <4>1, <4>2, <4>3
    <3> QED BY <1>2, <2>1, <3>1, <3>3 DEF TypeOK
  <2>2. CASE /\ troubles < use.troubles
             /\ dev' = Controller(dev.addr, dev.data, NoJob, TRUE)
             /\ troubles' = troubles + 1 /\ UNCHANGED mem
    <3>1. dev'.addr = dev.addr /\ dev'.job = NoJob /\ dev'.failed = TRUE /\ dev'.data = dev.data
      BY <2>2 DEF Controller
    <3>2. troubles \in 0..use.troubles /\ use.troubles \in Nat
      BY SettingIs DEF TypeOK
    <3>3. troubles' \in 0..use.troubles
      BY <2>2, <3>2
    <3>4. dev'.failed \in BOOLEAN
      BY <3>1
    <3> QED BY <1>2, <2>2, <3>1, <3>3, <3>4
  <2> QED BY <2>1, <2>2 DEF Done
<1>5. \A c \in Callers : InCall(c)' => CallFits(call[c])'
  BY <1>1, <1>3 DEF TypeOK, InCall, CallFits
<1> QED BY <1>1, <1>2, <1>3, <1>4, <1>5 DEF TypeOK, Busy

----------------------------------------------------------------------------
(* Whose call is clean *)

\* What a step of call c leaves of the other calls, and of what is open.
Frame(c) ==
    /\ UNCHANGED <<board, use>>
    /\ \A d \in Callers \ {c} : call'[d] = call[d] /\ ghost'.clean[d] = ghost.clean[d]
    /\ call'[c] # NoCall => ghost'.clean[c] = ghost.clean[c]
    /\ call'[c] = NoCall => ~ghost'.clean[c]
    /\ ghost.torn => ghost'.torn
    /\ ~ghost.clean[c] => ghost.doubt \subseteq ghost'.doubt /\ ghost.differs \subseteq ghost'.differs

\* A call that goes on is still one of the same kind.
Onward(c) == \E x : call' = [call EXCEPT ![c] = x] /\ x.op = call[c].op

\* Every step but the last is of this kind.
LEMMA GoesOnward ==
    ASSUME NEW c, NEW pc, NEW phase, NEW at, NEW val, GoTo(c, pc, phase, at, val)
    PROVE  Onward(c)
<1> DEFINE x == Call(call[c].op, call[c].port, call[c].arg, pc, phase, at, val)
<1>1. call' = [call EXCEPT ![c] = x] /\ x.op = call[c].op
  BY GoesOn, CallFields
<1> HIDE DEF x
<1> QED BY <1>1 DEF Onward

\* It leaves the others, and with the ghost state kept everything open.
LEMMA FrameGoesOn ==
    ASSUME TypeOK, NEW c \in Callers, InCall(c), UNCHANGED <<board, use, ghost>>, Onward(c)
    PROVE  Frame(c) /\ call'[c] # NoCall
<1>1. PICK x : call' = [call EXCEPT ![c] = x] /\ x.op = call[c].op
  BY DEF Onward
<1>2. call[c].op # "none"
  BY CallIs DEF CallFits
<1>3. x # NoCall
  BY <1>1, <1>2 DEF NoCall
<1>4. call'[c] = x /\ \A d \in Callers \ {c} : call'[d] = call[d]
  BY <1>1 DEF TypeOK
<1> QED BY <1>3, <1>4 DEF Frame

\* A call that ends, with what ghost state g says.
LEMMA FrameEnds ==
    ASSUME TypeOK, NEW c \in Callers, InCall(c), UNCHANGED <<board, use>>,
           NEW g \in GhostType, End(c, g), g.clean = ghost.clean, g.doubt = ghost.doubt,
           g.torn = ghost.torn,
           ~ghost.clean[c] => ghost.differs \subseteq g.differs
    PROVE  Frame(c) /\ call'[c] = NoCall
<1>1. call' = [call EXCEPT ![c] = NoCall] /\ ghost' = Fulfilled(c, g)
  BY DEF End
<1>2. /\ ghost'.differs = g.differs /\ ghost'.torn = g.torn
      /\ ghost'.clean = [g.clean EXCEPT ![c] = FALSE]
      /\ ~g.clean[c] => ghost'.doubt = g.doubt
  BY <1>1, FulfilledIs
<1>3. g.clean \in [Callers -> BOOLEAN]
  BY DEF GhostType
<1>4. call'[c] = NoCall /\ \A d \in Callers \ {c} : call'[d] = call[d]
  BY <1>1 DEF TypeOK
<1> QED BY <1>1, <1>2, <1>3, <1>4 DEF Frame

\* The next cell, or the end.
LEMMA FrameNextCell ==
    ASSUME TypeOK, NEW c \in Callers, InCall(c), UNCHANGED <<board, use>>,
           NEW g \in GhostType, NextCell(c, g), g.clean = ghost.clean, g.doubt = ghost.doubt,
           g.torn = ghost.torn,
           ~ghost.clean[c] => ghost.differs \subseteq g.differs
    PROVE  Frame(c)
<1>1. CASE Last(c)
  BY <1>1, FrameEnds DEF NextCell
<1>2. CASE ~Last(c)
  <2> DEFINE x == Call(call[c].op, call[c].port, call[c].arg, "wait", call[c].phase,
                       call[c].at + 1, call[c].val)
  <2>1. GoTo(c, "wait", call[c].phase, call[c].at + 1, call[c].val) /\ ghost' = g
    BY <1>2 DEF NextCell
  <2>2. call' = [call EXCEPT ![c] = x]
    BY <2>1, GoesOn
  <2>3. x.op = call[c].op /\ call[c].op # "none"
    BY CallFields, CallIs DEF CallFits
  <2> HIDE DEF x
  <2>4. x # NoCall
    BY <2>3 DEF NoCall
  <2>5. call'[c] = x /\ \A d \in Callers \ {c} : call'[d] = call[d]
    BY <2>2 DEF TypeOK
  <2> QED BY <2>1, <2>4, <2>5 DEF Frame
<1> QED BY <1>1, <1>2

\* Each of a call's steps leaves the other calls, and what is open, so.
LEMMA StepFrame ==
    ASSUME TypeOK, NEW c \in Callers, Step(c)
    PROVE  InCall(c) /\ Frame(c)
<1> DEFINE k == call[c]
<1>1. InCall(c) /\ UNCHANGED <<board, use>>
  BY DEF Step, ReadReg, Change, WriteReg, Idle, Address, Data, Command, Polled, GiveUp, At
<1>2. ASSUME Onward(c), UNCHANGED ghost
      PROVE  Frame(c)
  BY <1>1, <1>2, FrameGoesOn
<1>3. CASE ReadReg(c)
  <2> DEFINE v == [k.val EXCEPT ![RegOrder[k.at]] = reg[RegOrder[k.at]]]
  <2>1. IF Last(c) THEN GoTo(c, "change", k.phase, k.at, v) ELSE GoTo(c, "read", k.phase, k.at + 1, v)
    BY <1>3 DEF ReadReg
  <2> HIDE DEF v
  <2>2. Onward(c)
    BY <2>1, GoesOnward
  <2> QED BY <1>1, <1>2, <1>3, <2>2 DEF ReadReg
<1>4. CASE Change(c)
  <2> DEFINE v == WithType(board.uart, k.arg, k.port, k.val)
             w == WithAcs(k.port, k.arg, k.val)
  <2>1. GoTo(c, "out", k.phase, 1, v) \/ GoTo(c, "out", k.phase, k.at, w)
    BY <1>4 DEF Change
  <2> HIDE DEF v, w
  <2>2. Onward(c)
    BY <2>1, GoesOnward
  <2> QED BY <1>1, <1>2, <1>4, <2>2 DEF Change
<1>5. CASE WriteReg(c)
  <2> DEFINE i == IF k.op = "type" THEN 1 ELSE 2
  <2>1. GoTo(c, "wait", k.phase, i, k.val) \/ GoTo(c, "out", k.phase, k.at + 1, k.val)
    BY <1>5 DEF WriteReg
  <2> HIDE DEF i
  <2>2. Onward(c)
    BY <2>1, GoesOnward
  <2> QED BY <1>1, <1>2, <1>5, <2>2 DEF WriteReg
<1>6. CASE Idle(c) \/ Address(c) \/ Data(c) \/ Command(c)
  <2>1. /\ UNCHANGED ghost
        /\ \/ GoOn(c, "address") \/ GoOn(c, "data") \/ GoOn(c, "command") \/ GoOn(c, "poll")
    BY <1>6 DEF Idle, Address, Data, Command
  <2>2. \/ GoTo(c, "address", k.phase, k.at, k.val) \/ GoTo(c, "data", k.phase, k.at, k.val)
        \/ GoTo(c, "command", k.phase, k.at, k.val) \/ GoTo(c, "poll", k.phase, k.at, k.val)
    BY <2>1 DEF GoOn
  <2>3. Onward(c)
    BY <2>2, GoesOnward
  <2> QED BY <1>1, <1>2, <2>1, <2>3
<1>7. CASE Polled(c) /\ ~Banks
  <2>1. PolledEeprom(c)
    BY <1>7 DEF Polled
  <2>2. CASE dev.failed /\ GoOn(c, "wait") /\ UNCHANGED ghost
    <3>1. GoTo(c, "wait", k.phase, k.at, k.val)
      BY <2>2 DEF GoOn
    <3>2. Onward(c)
      BY <3>1, GoesOnward
    <3> QED BY <1>1, <1>2, <2>2, <3>2
  <2>3. CASE ~dev.failed /\ NextCell(c, CellDone(c))
    <3> DEFINE g == CellDone(c)
    <3>1. /\ g \in GhostType /\ g.clean = ghost.clean /\ g.doubt = ghost.doubt /\ g.torn = ghost.torn
          /\ ~ghost.clean[c] => g.differs = ghost.differs
      BY <1>1, <1>7, CellDoneIs
    <3> HIDE DEF g
    <3>2. NextCell(c, g)
      BY <2>3 DEF g
    <3> QED BY <1>1, <3>1, <3>2, FrameNextCell
  <2> QED BY <2>1, <2>2, <2>3 DEF PolledEeprom
<1>8. CASE Polled(c) /\ Banks
  <2>1. PolledFlash(c)
    BY <1>8 DEF Polled
  <2>2. CASE End(c, ghost)
    <3>1. ghost \in GhostType
      BY DEF TypeOK, GhostType
    <3> QED BY <1>1, <2>2, <3>1, FrameEnds
  <2>3. CASE ~End(c, ghost)
    <3> DEFINE v == [k.val EXCEPT ![Cells[k.at]] = dev.data]
               w == Patched(c, v)
    <3>1. /\ UNCHANGED ghost
          /\ \/ GoTo(c, "wait", "read", k.at + 1, v) \/ GoTo(c, "wait", "erase", k.at, w)
             \/ GoTo(c, "wait", "write", 1, k.val) \/ GoTo(c, "wait", "write", k.at + 1, k.val)
      BY <2>1, <2>3 DEF PolledFlash
    <3> HIDE DEF v, w
    <3>2. Onward(c)
      BY <3>1, GoesOnward
    <3> QED BY <1>1, <1>2, <3>1, <3>2
  <2> QED BY <2>2, <2>3
<1>9. CASE GiveUp(c) /\ Banks
  <2>1. call' = [call EXCEPT ![c] = NoCall]
    BY <1>9 DEF GiveUp, GiveUpFlash
  <2>2. /\ ghost'.doubt = ghost.doubt /\ ghost'.differs = ghost.differs
        /\ ghost'.clean = [ghost.clean EXCEPT ![c] = FALSE]
    BY <1>9 DEF GiveUp, GiveUpFlash
  <2>5. ghost.torn => ghost'.torn
    <3>1. ghost'.torn = (ghost.torn \/ k.phase = "write" \/ (k.phase = "erase" /\ k.pc = "poll"))
      BY <1>9 DEF GiveUp, GiveUpFlash
    <3> QED BY <3>1
  <2>3. call'[c] = NoCall /\ \A d \in Callers \ {c} : call'[d] = call[d]
    BY <2>1 DEF TypeOK
  <2>4. ghost.clean \in [Callers -> BOOLEAN]
    BY DEF TypeOK
  <2> QED BY <1>1, <2>2, <2>3, <2>4, <2>5 DEF Frame
<1>10. CASE GiveUp(c) /\ ~Banks
  <2> DEFINE g == [ghost EXCEPT !.differs = @ \union {Cells[k.at]}]
  <2>1. Cells[k.at] \in Regs
    BY <1>1, <1>10, CallIs DEF Places
  <2>2. /\ g \in GhostType /\ g.clean = ghost.clean /\ g.doubt = ghost.doubt /\ g.torn = ghost.torn
        /\ g.differs = ghost.differs \union {Cells[k.at]}
    BY <2>1, MissedIs
  <2>3. IF k.op = "six"
        THEN /\ call' = [call EXCEPT ![c] = NoCall]
             /\ ghost' = [g EXCEPT !.clean = [@ EXCEPT ![c] = FALSE]]
        ELSE NextCell(c, g)
    BY <1>10 DEF GiveUp, GiveUpEeprom
  <2> HIDE DEF g
  <2>4. CASE k.op = "six"
    <3>1. call'[c] = NoCall /\ \A d \in Callers \ {c} : call'[d] = call[d]
      BY <2>3, <2>4 DEF TypeOK
    <3>2. /\ ghost'.doubt = g.doubt /\ ghost'.differs = g.differs /\ ghost'.torn = g.torn
          /\ ghost'.clean = [g.clean EXCEPT ![c] = FALSE] /\ g.clean \in [Callers -> BOOLEAN]
      BY <2>2, <2>3, <2>4 DEF GhostType
    <3> QED BY <1>1, <2>2, <3>1, <3>2 DEF Frame
  <2>5. CASE k.op # "six"
    BY <1>1, <2>2, <2>3, <2>5, FrameNextCell
  <2> QED BY <2>4, <2>5
<1> QED BY <1>1, <1>3, <1>4, <1>5, <1>6, <1>7, <1>8, <1>9, <1>10 DEF Step

\* While somebody's call is clean no other call is.
LEMMA Alone ==
    ASSUME CleanAlone, NEW c \in Callers, ghost.clean[c]
    PROVE  InCall(c) /\ \A d \in Callers \ {c} : ~InCall(d) /\ ~ghost.clean[d]
BY DEF CleanAlone

\* A step leaves a clean call alone, and a disturbed one everything open.
LEMMA StepAlone ==
    ASSUME TypeOK, TypeOK', CleanAlone, NEW c \in Callers, Step(c)
    PROVE  CleanAlone'
<1>1. InCall(c) /\ Frame(c)
  BY StepFrame
<1>2. ghost'.doubt \subseteq Ports /\ ghost'.differs \subseteq Regs
  BY DEF TypeOK
<1>3. ASSUME NEW d \in Callers, ghost'.clean[d]
      PROVE  call'[d] # NoCall /\ \A e \in Callers \ {d} : call'[e] = NoCall
  <2>1. d = c
    BY <1>1, <1>3 DEF Frame, CleanAlone
  <2>2. call'[c] # NoCall /\ ghost.clean[c]
    BY <1>1, <1>3, <2>1 DEF Frame
  <2> QED BY <1>1, <2>1, <2>2 DEF Frame, CleanAlone, InCall
<1>4. ASSUME NEW d \in Callers, call'[d] # NoCall, ~ghost'.clean[d]
      PROVE  ghost'.doubt = Ports /\ ghost'.differs = Regs /\ ghost'.torn
  <2>1. InCall(d) /\ ~ghost.clean[d]
    BY <1>1, <1>4 DEF Frame, InCall
  <2>2. ~ghost.clean[c]
    BY <1>1, <2>1 DEF CleanAlone
  <2> QED BY <1>1, <1>2, <2>1, <2>2 DEF Frame, CleanAlone
<1> QED BY <1>3, <1>4 DEF CleanAlone, InCall

\* All that is claimed besides, of the calls and of what they leave.
Fits ==
    /\ \A c \in Callers : ghost.clean[c] => AccessFits(c)
    /\ Banks => FlashFits
    /\ ~Banks => EepromFits

\* Of a disturbed call nothing is claimed.
LEMMA NothingClaimed ==
    ASSUME TypeOK', \A c \in Callers : ~ghost'.clean[c],
           ghost'.doubt = Ports, ghost'.differs = Regs, ghost'.torn
    PROVE  Fits'
<1>1. FlashFits'
  BY DEF FlashFits
<1>2. ASSUME ~Banks' PROVE EepromFits'
  <2>1. Busy' => dev'.job.cell \in Regs
    BY <1>2 DEF TypeOK, Places
  <2> QED BY <2>1 DEF EepromFits
<1> QED BY <1>1, <1>2 DEF Fits

\* So its steps keep all that is claimed.
LEMMA DisturbedFits ==
    ASSUME TypeOK, TypeOK', CleanAlone, NEW c \in Callers, Step(c), ~ghost.clean[c]
    PROVE  Fits'
<1>1. InCall(c) /\ Frame(c)
  BY StepFrame
<1>2. ghost.doubt = Ports /\ ghost.differs = Regs /\ ghost.torn /\ \A d \in Callers : ~ghost.clean[d]
  BY <1>1 DEF CleanAlone
<1>3. ghost'.doubt \subseteq Ports /\ ghost'.differs \subseteq Regs
  BY DEF TypeOK
<1>4. ghost'.doubt = Ports /\ ghost'.differs = Regs /\ ghost'.torn
  BY <1>1, <1>2, <1>3 DEF Frame
<1>5. \A d \in Callers : ~ghost'.clean[d]
  BY <1>1, <1>2 DEF Frame
<1> QED BY <1>4, <1>5, NothingClaimed

\* A call begins: clean if it is alone.
LEMMA BeginFits ==
    ASSUME TypeOK, TypeOK', CleanAlone, Fits, NEW c \in Callers, NEW k, BegunAs(k), Begin(c, k)
    PROVE  CleanAlone' /\ Fits'
<1>1. /\ UNCHANGED <<board, use, reg, mem, dev, cache, troubles>> /\ ~InCall(c)
      /\ call'[c] = k /\ \A d \in Callers \ {c} : call'[d] = call[d]
  BY DEF Begin, MayBegin, TypeOK
<1>2. Banks' = Banks /\ Cells' = Cells
  BY <1>1, BoardStays
<1>3. k # NoCall
  BY DEF BegunAs, NoCall
<1>4. CASE ~Quiet
  <2>1. /\ ghost'.doubt = Ports /\ ghost'.differs = Regs /\ ghost'.torn
        /\ \A d \in Callers : ~ghost'.clean[d]
    BY <1>4 DEF Begin, Disturbed
  <2> QED BY <2>1, NothingClaimed DEF CleanAlone
<1>5. CASE Quiet
  <2>1. ghost' = [ghost EXCEPT !.clean = [@ EXCEPT ![c] = TRUE]]
    BY <1>5 DEF Begin
  <2>2. ghost \in GhostType
    BY DEF TypeOK, GhostType
  <2>3. /\ ghost'.asked = ghost.asked /\ ghost'.want = ghost.want /\ ghost'.doubt = ghost.doubt
        /\ ghost'.differs = ghost.differs /\ ghost'.torn = ghost.torn
        /\ ghost'.clean = [ghost.clean EXCEPT ![c] = TRUE]
    BY <2>1, <2>2 DEF GhostType
  <2>4. \A d \in Callers : ~InCall(d) /\ ~ghost.clean[d]
    BY <1>5 DEF Quiet, CleanAlone
  <2>5. ghost'.clean[c] /\ \A d \in Callers \ {c} : ~ghost'.clean[d] /\ call'[d] = NoCall
    BY <1>1, <2>2, <2>3, <2>4 DEF GhostType, InCall
  <2>6. CleanAlone'
    BY <1>1, <1>3, <2>5 DEF CleanAlone, InCall
  <2>7. k.pc \in {"read", "wait"}
    BY DEF BegunAs
  <2>8. AccessFits(c)'
    BY <1>1, <2>7 DEF AccessFits
  <2>9. ASSUME Banks PROVE FlashFits'
    <3>1. ASSUME ~ghost.torn
          PROVE  mem = FlashWanted /\ (Busy => dev.job.do = "read")
      BY <1>5, <2>9, <3>1 DEF Fits, FlashFits
    <3>2. k.phase = "read" /\ k.at = 1 /\ k.pc = "wait"
      BY <2>9 DEF BegunAs, CallFits
    <3>3. FlashWanted' = FlashWanted /\ Busy' = Busy
      BY <1>1, <2>3 DEF FlashWanted, Busy
    <3>4. ASSUME ~ghost.torn PROVE FlashCopied(c)'
      BY <1>1, <1>2, <3>1, <3>2, <3>3, <3>4 DEF FlashCopied
    <3>5. ~Quiet'
      BY <1>1, <1>3 DEF Quiet, InCall
    <3> QED BY <2>3, <2>5, <3>4, <3>5 DEF FlashFits
  <2>10. ASSUME ~Banks PROVE EepromFits'
    <3>1. /\ \A p \in Ports \ ghost.doubt : TypeIs(p)
          /\ \A r \in Regs \ ghost.differs : mem[r] = Saved(r, reg[r])
          /\ Busy => dev.job.cell \in ghost.differs
      BY <2>4, <2>10 DEF Fits, EepromFits, Setting, Open
    <3>2. \A p \in Ports \ ghost'.doubt : TypeIs(p)'
      BY <1>1, <2>3, <3>1 DEF TypeIs
    <3>3. \A r \in Regs \ ghost'.differs : mem'[r] = Saved(r, reg'[r])
      BY <1>1, <2>3, <3>1
    <3>4. Busy' => dev'.job.cell \in ghost'.differs
      BY <1>1, <2>3, <3>1 DEF Busy
    <3>5. k.op = "type" => TypeFits(c)'
      BY <1>1 DEF TypeFits, BegunAs
    <3>6. k.op = "acs" => AcsFits(c)'
      BY <1>1 DEF AcsFits, BegunAs
    <3> QED BY <1>1, <2>5, <3>2, <3>3, <3>4, <3>5, <3>6 DEF EepromFits
  <2> QED BY <1>2, <2>5, <2>6, <2>8, <2>9, <2>10 DEF Fits
<1> QED BY <1>4, <1>5

\* A GPIO call that writes one register and is over.
Outs(c) == \E v \in {{}, Bits} : GpioSet(c, v) \/ GpioWrite(c, v)

\* Alone it leaves only that register and its cell apart.
LEMMA OutFits ==
    ASSUME TypeOK, CleanAlone, Fits, NEW c \in Callers, Outs(c)
    PROVE  TypeOK' /\ CleanAlone' /\ Fits'
<1>0. PICK r \in Regs, v \in SUBSET Bits : GpioOut(c, r, v) /\ r \in {"gctl", "gpio"}
  <2>1. "gctl" \in Regs /\ "gpio" \in Regs
    BY DEF Regs
  <2> QED BY <2>1 DEF Outs, GpioSet, GpioWrite
<1>1. /\ UNCHANGED <<board, use, mem, dev, cache, call, troubles>>
      /\ reg' = [reg EXCEPT ![r] = v] /\ ~Banks /\ r \in {"gctl", "gpio"}
  BY <1>0 DEF GpioOut, Banks
<1>2. Banks' = Banks /\ Cells' = Cells /\ Places' = Places /\ CellValues' = CellValues
  BY <1>1, BoardStays
<1>3. ghost \in GhostType /\ reg \in [Regs -> SUBSET Bits]
  BY DEF TypeOK, GhostType
<1>4. /\ reg'.ahdc = reg.ahdc /\ reg'.rs422 = reg.rs422
      /\ \A q \in Regs \ {r} : reg'[q] = reg[q]
      /\ reg' \in [Regs -> SUBSET Bits]
  BY <1>1, <1>3 DEF Regs
<1>5. CASE ~Quiet
  <2>1. ghost' = Disturbed
    BY <1>0, <1>5 DEF GpioOut
  <2>2. /\ ghost' \in GhostType
        /\ ghost'.doubt = Ports /\ ghost'.differs = Regs /\ ghost'.torn
        /\ \A d \in Callers : ~ghost'.clean[d]
    BY <1>3, <2>1 DEF GhostType, Disturbed
  <2>3. TypeOK'
    BY <1>0, <1>1, <1>4, <2>2, OutTypes
  <2> QED BY <2>2, <2>3, NothingClaimed DEF CleanAlone
<1>6. CASE Quiet
  <2>1. ghost' = [ghost EXCEPT !.differs = @ \union {r}]
    BY <1>0, <1>6 DEF GpioOut
  <2>2. /\ ghost' \in GhostType
        /\ ghost'.asked = ghost.asked /\ ghost'.doubt = ghost.doubt
        /\ ghost'.differs = ghost.differs \union {r} /\ ghost'.clean = ghost.clean
    BY <1>3, <2>1 DEF GhostType
  <2>3. TypeOK'
    BY <1>0, <1>1, <1>4, <2>2, OutTypes
  <2>4. \A d \in Callers : ~InCall(d) /\ ~ghost.clean[d]
    BY <1>6 DEF Quiet, CleanAlone
  <2>5. \A d \in Callers : call'[d] = NoCall /\ ~ghost'.clean[d]
    BY <1>1, <2>2, <2>4 DEF InCall
  <2>6. CleanAlone'
    BY <2>5 DEF CleanAlone, InCall
  <2>7. EepromFits'
    <3>1. /\ \A p \in Ports \ ghost.doubt : TypeIs(p)
          /\ \A q \in Regs \ ghost.differs : mem[q] = Saved(q, reg[q])
          /\ Busy => dev.job.cell \in ghost.differs
      BY <1>1, <2>4 DEF Fits, EepromFits, Setting, Open
    <3>2. \A p \in Ports \ ghost'.doubt : TypeIs(p)'
      BY <1>1, <1>4, <2>2, <3>1 DEF TypeIs
    <3>3. \A q \in Regs \ ghost'.differs : mem'[q] = Saved(q, reg'[q])
      BY <1>1, <1>4, <2>2, <3>1
    <3>4. Busy' => dev'.job.cell \in ghost'.differs
      BY <1>1, <2>2, <3>1 DEF Busy
    <3> QED BY <2>5, <3>2, <3>3, <3>4 DEF EepromFits
  <2> QED BY <1>1, <1>2, <2>3, <2>5, <2>6, <2>7 DEF Fits
<1> QED BY <1>5, <1>6

----------------------------------------------------------------------------
(* What is claimed, after a step of a clean call *)

\* A clean call is the only one, before and after its step.
LEMMA OneClean ==
    ASSUME TypeOK, CleanAlone, NEW c \in Callers, Step(c), ghost.clean[c]
    PROVE  /\ InCall(c) /\ UNCHANGED <<board, use>>
           /\ \A d \in Callers \ {c} : ~ghost.clean[d] /\ ~ghost'.clean[d] /\ call'[d] = NoCall
           /\ call'[c] # NoCall => ghost'.clean[c]
           /\ call'[c] = NoCall => ~ghost'.clean[c]
<1>1. InCall(c) /\ Frame(c)
  BY StepFrame
<1>2. \A d \in Callers \ {c} : ~InCall(d) /\ ~ghost.clean[d]
  BY Alone
<1> QED BY <1>1, <1>2 DEF Frame, InCall

\* What the invariant says of the one call.
LEMMA OneCallFits ==
    ASSUME CleanAlone, Fits, ~Banks, NEW c \in Callers, ghost.clean[c]
    PROVE  LET k == call[c] IN
           /\ AccessFits(c)
           /\ k.op = "type" => TypeFits(c)
           /\ k.op = "acs" => AcsFits(c)
           /\ \A p \in Ports \ ghost.doubt : (k.op = "type" /\ k.port = p) \/ TypeIs(p)
           /\ \A r \in Regs \ ghost.differs : r \in Unsaved(c) \/ mem[r] = Saved(r, reg[r])
           /\ Busy => \/ dev.job.cell \in ghost.differs
                      \/ k.pc = "poll" /\ dev.job.cell = Cells[k.at]
<1>1. \A d \in Callers : ghost.clean[d] => d = c
  BY Alone
<1> QED BY <1>1 DEF Fits, EepromFits, Setting, Open, At

\* What is to be shown of it, if it goes on.
LEMMA OneCallKept ==
    ASSUME ~Banks', NEW c \in Callers, \A d \in Callers \ {c} : ~ghost'.clean[d],
           call'[c] # NoCall, ghost'.clean[c], AccessFits(c)',
           call'[c].op = "type" => TypeFits(c)', call'[c].op = "acs" => AcsFits(c)',
           \A p \in Ports \ ghost'.doubt : (call'[c].op = "type" /\ call'[c].port = p) \/ TypeIs(p)',
           \A r \in Regs \ ghost'.differs : r \in Unsaved(c)' \/ mem'[r] = Saved(r, reg'[r]),
           Busy' => \/ dev'.job.cell \in ghost'.differs
                    \/ call'[c].pc = "poll" /\ dev'.job.cell = Cells'[call'[c].at]
    PROVE  Fits'
<1>1. EepromFits'
  <2>1. \A p \in Ports \ ghost'.doubt : Setting(p)' \/ TypeIs(p)'
    BY DEF Setting
  <2>2. \A r \in Regs \ ghost'.differs : Open(r)' \/ mem'[r] = Saved(r, reg'[r])
    BY DEF Open
  <2>3. Busy' => \/ dev'.job.cell \in ghost'.differs
                 \/ \E d \in Callers : ghost'.clean[d] /\ At(d, "poll")' /\ dev'.job.cell = Cells'[call'[d].at]
    BY DEF At, InCall
  <2> QED BY <2>1, <2>2, <2>3 DEF EepromFits
<1> QED BY <1>1 DEF Fits

\* And if it ends.
LEMMA OneCallEnded ==
    ASSUME ~Banks', \A d \in Callers : ~ghost'.clean[d],
           \A p \in Ports \ ghost'.doubt : TypeIs(p)',
           \A r \in Regs \ ghost'.differs : mem'[r] = Saved(r, reg'[r]),
           Busy' => dev'.job.cell \in ghost'.differs
    PROVE  Fits'
BY DEF Fits, EepromFits

\* Where only the bits GET_TYPE does not read, or another port's, have changed.
LEMMA SameType ==
    ASSUME NEW p \in Ports, NEW a, NEW b, NEW x, NEW y,
           <<p, "lo">> \in a <=> <<p, "lo">> \in b,
           <<p, "hi">> \in x <=> <<p, "hi">> \in y
    PROVE  CacheFrom(p, a, x) = CacheFrom(p, b, y)
BY DEF CacheFrom, Bit

\* Reading the registers.
LEMMA ReadFits ==
    ASSUME TypeOK, TypeOK', CleanAlone, Fits, NEW c \in Callers, ReadReg(c), ghost.clean[c]
    PROVE  Fits'
<1> DEFINE k == call[c]
           r == RegOrder[k.at]
           v == [k.val EXCEPT ![r] = reg[r]]
<1>0. Step(c)
  BY DEF Step
<1>1. /\ InCall(c) /\ k.pc = "read"
      /\ UNCHANGED <<board, use, reg, mem, dev, cache, begun, troubles, ghost>>
  BY DEF ReadReg, At
<1>2. /\ CallFits(k) /\ k.op \in {"type", "acs"} /\ ~Banks /\ k.at \in 1..4
      /\ k.val \in [Regs -> SUBSET Bits]
  <2>1. CallFits(k)
    BY <1>1, CallIs
  <2>2. k.op \in {"type", "acs"} /\ k.at \in 1..4 /\ k.val \in [Places -> CellValues]
    BY <1>1, <2>1 DEF CallFits, InMemory
  <2>3. ~Banks
    BY <2>1, <2>2 DEF CallFits
  <2> QED BY <2>1, <2>2, <2>3 DEF Places, CellValues
<1>3. Banks' = Banks /\ Cells' = Cells /\ Busy' = Busy
  BY <1>1, BoardStays DEF Busy
<1>4. IF Last(c) THEN GoTo(c, "change", k.phase, k.at, v) ELSE GoTo(c, "read", k.phase, k.at + 1, v)
  BY DEF ReadReg
<1> DEFINE pc == IF Last(c) THEN "change" ELSE "read"
           at == IF Last(c) THEN k.at ELSE k.at + 1
           x == Call(k.op, k.port, k.arg, pc, k.phase, at, v)
<1> HIDE DEF v
<1>5. /\ call' = [call EXCEPT ![c] = x]
      /\ IF pc = "read" THEN ~Last(c) /\ at = k.at + 1 ELSE Last(c) /\ at = k.at
      /\ pc = "read" \/ pc = "change"
  <2>1. CASE Last(c)
    <3>1. call' = [call EXCEPT ![c] = Call(k.op, k.port, k.arg, "change", k.phase, k.at, v)]
      BY <1>4, <2>1, GoesOn
    <3> QED BY <2>1, <3>1
  <2>2. CASE ~Last(c)
    <3>1. call' = [call EXCEPT ![c] = Call(k.op, k.port, k.arg, "read", k.phase, k.at + 1, v)]
      BY <1>4, <2>2, GoesOn
    <3> QED BY <2>2, <3>1
  <2> QED BY <2>1, <2>2
<1> HIDE DEF pc, at
<1>6. /\ x.op = k.op /\ x.port = k.port /\ x.arg = k.arg /\ x.pc = pc /\ x.at = at /\ x.val = v
  BY CallFields
<1>7. call'[c] = x
  BY <1>5 DEF TypeOK
<1>8. v \in [Regs -> SUBSET Bits] /\ \A q \in Regs : v[q] = IF q = r THEN reg[q] ELSE k.val[q]
  BY <1>2, OrdersAre DEF TypeOK, v
<1> HIDE DEF x
<1>9. x # NoCall
  BY <1>2, <1>6 DEF NoCall
<1>10. k.op = "type" => \A i \in 1..k.at : v[RegOrder[i]] = reg[RegOrder[i]]
  <2>1. SUFFICES ASSUME k.op = "type", NEW i \in 1..k.at PROVE v[RegOrder[i]] = reg[RegOrder[i]]
    OBVIOUS
  <2>2. i \in 1..4 /\ RegOrder[i] \in Regs
    BY <1>2, OrdersAre
  <2>3. i # k.at => k.val[RegOrder[i]] = reg[RegOrder[i]]
    BY <1>1, <1>2, <2>1, OneCallFits DEF TypeFits
  <2> QED BY <1>8, <2>2, <2>3
<1>11. k.op = "type" => TypeFits(c)'
  <2>1. ASSUME k.op = "type", pc = "read"
        PROVE  \A i \in 1..x.at - 1 : x.val[RegOrder[i]] = reg'[RegOrder[i]]
    BY <1>1, <1>2, <1>5, <1>6, <1>10, <2>1
  <2>2. ASSUME k.op = "type", pc = "change"
        PROVE  x.val = reg'
    <3>1. k.at = 4
      BY <1>5, <2>2 DEF Last
    <3>2. \A q \in Regs : v[q] = reg[q]
      BY <1>10, <2>2, <3>1, OrdersAre
    <3>3. reg \in [Regs -> SUBSET Bits]
      BY DEF TypeOK
    <3> QED BY <1>1, <1>6, <1>8, <3>2, <3>3
  <2> QED BY <1>5, <1>6, <1>7, <2>1, <2>2 DEF TypeFits
<1>12. k.op = "acs" => AcsFits(c)'
  <2>1. k.op = "acs" => r = "rs422"
    BY <1>2 DEF CallFits, RegOrder
  <2>2. k.op = "acs" => x.val.rs422 = reg'.rs422
    BY <1>1, <1>6, <1>8, <2>1 DEF Regs
  <2> QED BY <1>6, <1>7, <2>2 DEF AcsFits
<1>13. AccessFits(c)'
  BY <1>5, <1>6, <1>7 DEF AccessFits
<1>14. Unsaved(c)' = Unsaved(c)
  <2>1. CASE k.op = "type"
    BY <1>1, <1>3, <1>5, <1>6, <1>7, <2>1 DEF Unsaved, InMemory
  <2>2. CASE k.op # "type"
    <3>1. at = k.at
      BY <1>5, <2>2 DEF Last
    <3> QED BY <1>1, <1>3, <1>6, <1>7, <2>2, <3>1 DEF Unsaved
  <2> QED BY <2>1, <2>2
<1>15. \A p \in Ports \ ghost'.doubt : (x.op = "type" /\ x.port = p) \/ TypeIs(p)'
  BY <1>1, <1>2, <1>6, OneCallFits DEF TypeIs
<1>16. \A q \in Regs \ ghost'.differs : q \in Unsaved(c)' \/ mem'[q] = Saved(q, reg'[q])
  BY <1>1, <1>2, <1>14, OneCallFits
<1>17. Busy' => dev'.job.cell \in ghost'.differs
  BY <1>1, <1>2, <1>3, OneCallFits
<1> QED BY <1>0, <1>2, <1>3, <1>6, <1>7, <1>9, <1>11, <1>12, <1>13, <1>15, <1>16, <1>17,
           OneClean, OneCallKept

\* A call that is at the registers.
LEMMA AtRegisters ==
    ASSUME TypeOK, NEW c \in Callers, InCall(c), call[c].pc \in {"read", "change", "out"}
    PROVE  LET k == call[c]
           IN  /\ ~Banks /\ k.op \in {"type", "acs"} /\ k.port \in Ports /\ k.at \in 1..4
               /\ k.val \in [Regs -> SUBSET Bits]
               /\ k.op = "type" => k.arg \in 0..3 /\ (k.pc = "change" => k.at = 4)
               /\ k.op = "acs" => k.at = 2
<1>1. CallFits(call[c])
  BY CallIs
<1>2. call[c].op \in {"type", "acs"}
  BY <1>1 DEF CallFits, InMemory
<1>3. ~Banks
  BY <1>1, <1>2 DEF CallFits
<1> QED BY <1>1, <1>2, <1>3 DEF CallFits, Places, CellValues

\* Changing the bits of the own port in the copies.
LEMMA ChangeFits ==
    ASSUME TypeOK, TypeOK', CleanAlone, Fits, NEW c \in Callers, Change(c), ghost.clean[c]
    PROVE  Fits'
<1> DEFINE k == call[c]
           own == k.op = "type" /\ Supported(board.uart, k.arg)
           at == IF k.op = "type" THEN 1 ELSE k.at
           v == IF k.op = "type" THEN WithType(board.uart, k.arg, k.port, k.val)
                ELSE WithAcs(k.port, k.arg, k.val)
           x == Call(k.op, k.port, k.arg, "out", k.phase, at, v)
<1>0. Step(c)
  BY DEF Step
<1>1. /\ InCall(c) /\ k.pc = "change"
      /\ UNCHANGED <<board, use, reg, mem, dev, begun, troubles, ghost>>
  BY DEF Change, At
<1>2. /\ k.op \in {"type", "acs"} /\ ~Banks /\ k.at \in 1..4 /\ k.port \in Ports
      /\ k.val \in [Regs -> SUBSET Bits] /\ (k.op = "type" => k.arg \in 0..3)
      /\ k.op = "acs" => k.at = 2
  BY <1>1, AtRegisters
<1>3. Banks' = Banks /\ Cells' = Cells /\ Busy' = Busy
  BY <1>1, BoardStays DEF Busy
<1>4. /\ cache' = IF own THEN [cache EXCEPT ![k.port] = Cached(k.arg)] ELSE cache
      /\ GoTo(c, "out", k.phase, at, v)
  BY <1>2 DEF Change
<1> HIDE DEF v, at
<1>5. call' = [call EXCEPT ![c] = x]
  BY <1>4, GoesOn
<1>6. /\ x.op = k.op /\ x.port = k.port /\ x.arg = k.arg /\ x.pc = "out" /\ x.at = at /\ x.val = v
  BY CallFields
<1>7. call'[c] = x
  BY <1>5 DEF TypeOK
<1> HIDE DEF x
<1>8. x # NoCall
  BY <1>2, <1>6 DEF NoCall
<1>9. cache \in [Ports -> CacheType] /\ board.uart \in 0..2 /\ reg \in [Regs -> SUBSET Bits]
  BY SettingIs DEF TypeOK, CacheType, BoardType
<1>10. k.op = "type" => TypeFits(c)'
  <2>1. SUFFICES ASSUME k.op = "type" PROVE TypeFits(c)'
    OBVIOUS
  <2>2. k.val = reg
    BY <1>1, <1>2, <2>1, OneCallFits DEF TypeFits
  <2>3. at = 1 /\ v = WithType(board.uart, k.arg, k.port, reg)
    BY <2>1, <2>2 DEF at, v
  <2>4. /\ \A q \in Regs : v[q] \ Own(k.port) = reg[q] \ Own(k.port)
        /\ Supported(board.uart, k.arg) => CacheFrom(k.port, v.ahdc, v.rs422) = Cached(k.arg)
    <3>1. \A q \in Regs : v[q] \ Own(k.port) = reg[q] \ Own(k.port)
      BY <1>2, <1>9, <2>1, <2>3, TypeSet
    <3>2. Supported(board.uart, k.arg) => CacheFrom(k.port, v.ahdc, v.rs422) = Cached(k.arg)
      BY <2>3, TypeMeant
    <3> QED BY <3>1, <3>2
  <2>5. Supported(board.uart, k.arg) => cache'[k.port] = Cached(k.arg)
    BY <1>2, <1>4, <1>9, <2>1
  <2>6. \A i \in 1..4 : ~(i < 1)
    OBVIOUS
  <2> QED BY <1>1, <1>6, <1>7, <2>3, <2>4, <2>5, <2>6 DEF TypeFits
<1>11. k.op = "acs" => AcsFits(c)'
  <2>1. SUFFICES ASSUME k.op = "acs" PROVE AcsFits(c)'
    OBVIOUS
  <2>2. k.val.rs422 = reg.rs422
    BY <1>1, <1>2, <2>1, OneCallFits DEF AcsFits
  <2>3. v = WithAcs(k.port, k.arg, k.val)
    BY <2>1 DEF v
  <2>4. \A q \in Ports : <<q, "hi">> \in v.rs422 <=> <<q, "hi">> \in k.val.rs422
    BY <1>2, <2>3, AcsSet
  <2> QED BY <1>1, <1>6, <1>7, <2>2, <2>4 DEF AcsFits
<1>12. AccessFits(c)'
  BY <1>6, <1>7 DEF AccessFits
<1>13. Unsaved(c)' = Unsaved(c)
  <2>1. CASE k.op = "type"
    BY <1>1, <1>6, <1>7, <2>1 DEF Unsaved, InMemory
  <2>2. CASE k.op # "type"
    BY <1>1, <1>3, <1>6, <1>7, <2>2 DEF Unsaved, at
  <2> QED BY <2>1, <2>2
<1>14. ASSUME NEW p \in Ports \ ghost'.doubt, ~(x.op = "type" /\ x.port = p)
       PROVE  TypeIs(p)'
  <2>1. cache'[p] = cache[p]
    BY <1>2, <1>4, <1>6, <1>9, <1>14
  <2>2. TypeIs(p)
    BY <1>1, <1>2, <1>6, <1>14, OneCallFits
  <2> QED BY <1>1, <2>1, <2>2 DEF TypeIs
<1>15. \A q \in Regs \ ghost'.differs : q \in Unsaved(c)' \/ mem'[q] = Saved(q, reg'[q])
  BY <1>1, <1>2, <1>13, OneCallFits
<1>16. Busy' => dev'.job.cell \in ghost'.differs
  BY <1>1, <1>2, <1>3, OneCallFits
<1> QED BY <1>0, <1>2, <1>3, <1>6, <1>7, <1>8, <1>10, <1>11, <1>12, <1>14, <1>15, <1>16,
           OneClean, OneCallKept

\* Writing the registers.
LEMMA WriteFits ==
    ASSUME TypeOK, TypeOK', CleanAlone, Fits, NEW c \in Callers, WriteReg(c), ghost.clean[c]
    PROVE  Fits'
<1> DEFINE k == call[c]
           r == RegOrder[k.at]
           pc == IF Last(c) THEN "wait" ELSE "out"
           at == IF ~Last(c) THEN k.at + 1 ELSE IF k.op = "type" THEN 1 ELSE 2
           x == Call(k.op, k.port, k.arg, pc, k.phase, at, k.val)
<1>0. Step(c)
  BY DEF Step
<1>1. /\ InCall(c) /\ k.pc = "out"
      /\ UNCHANGED <<board, use, mem, dev, cache, begun, troubles, ghost>>
      /\ reg' = [reg EXCEPT ![r] = k.val[r]]
  BY DEF WriteReg, At
<1>2. /\ k.op \in {"type", "acs"} /\ ~Banks /\ k.at \in 1..4 /\ k.port \in Ports
      /\ k.val \in [Regs -> SUBSET Bits]
      /\ k.op = "acs" => k.at = 2
  BY <1>1, AtRegisters
<1>3. Banks' = Banks /\ Cells' = Cells /\ Busy' = Busy
  BY <1>1, BoardStays DEF Busy
<1>4. GoTo(c, pc, k.phase, at, k.val)
  BY DEF WriteReg
<1>5. call' = [call EXCEPT ![c] = x]
  BY <1>4, GoesOn
<1>6. /\ x.op = k.op /\ x.port = k.port /\ x.arg = k.arg /\ x.pc = pc /\ x.at = at /\ x.val = k.val
  BY CallFields
<1>7. call'[c] = x
  BY <1>5 DEF TypeOK
<1> HIDE DEF x
<1>8. x # NoCall
  BY <1>2, <1>6 DEF NoCall
<1>9. reg \in [Regs -> SUBSET Bits] /\ r \in Regs
  BY <1>2, OrdersAre DEF TypeOK
<1>10. \A q \in Regs : reg'[q] = IF q = r THEN k.val[q] ELSE reg[q]
  BY <1>1, <1>9
<1>11. ASSUME k.op = "type"
       PROVE  /\ Supported(board.uart, k.arg) =>
                     /\ cache[k.port] = Cached(k.arg)
                     /\ CacheFrom(k.port, k.val.ahdc, k.val.rs422) = Cached(k.arg)
              /\ \A q \in Regs : k.val[q] \ Own(k.port) = reg[q] \ Own(k.port)
              /\ \A i \in 1..4 : i < k.at => reg[RegOrder[i]] = k.val[RegOrder[i]]
  BY <1>1, <1>2, <1>11, OneCallFits DEF TypeFits
<1>12. k.op = "type" => TypeFits(c)'
  <2>1. SUFFICES ASSUME k.op = "type" PROVE TypeFits(c)'
    OBVIOUS
  <2>2. \A q \in Regs : x.val[q] \ Own(x.port) = reg'[q] \ Own(x.port)
    BY <1>6, <1>10, <1>11, <2>1
  <2>3. \A i \in 1..4 : x.pc # "out" \/ i < x.at => reg'[RegOrder[i]] = x.val[RegOrder[i]]
    <3>1. ASSUME NEW i \in 1..4, x.pc # "out" \/ i < x.at PROVE reg'[RegOrder[i]] = k.val[RegOrder[i]]
      <4>1. RegOrder[i] \in Regs
        BY OrdersAre
      <4>2. i <= k.at
        <5>1. CASE Last(c)
          BY <1>2, <2>1, <5>1 DEF Last
        <5>2. CASE ~Last(c)
          BY <1>2, <1>6, <3>1, <5>2
        <5> QED BY <5>1, <5>2
      <4>3. CASE i = k.at
        BY <1>10, <4>1, <4>3
      <4>4. CASE i < k.at
        BY <1>10, <1>11, <2>1, <4>1, <4>4
      <4> QED BY <1>2, <4>2, <4>3, <4>4
    <3> QED BY <1>6, <3>1
  <2>4. x.pc # "read" /\ x.pc # "change"
    BY <1>6
  <2> QED BY <1>1, <1>6, <1>7, <1>11, <2>1, <2>2, <2>3, <2>4 DEF TypeFits
<1>13. k.op = "acs" => r = "rs422" /\ Last(c) /\ at = 2
  BY <1>2 DEF Last, RegOrder
<1>14. k.op = "acs" => AcsFits(c)'
  <2>1. SUFFICES ASSUME k.op = "acs" PROVE AcsFits(c)'
    OBVIOUS
  <2>2. x.val.rs422 = reg'.rs422 /\ x.pc = "wait"
    BY <1>6, <1>9, <1>10, <1>13, <2>1
  <2> QED BY <1>7, <2>2 DEF AcsFits
<1>15. AccessFits(c)'
  BY <1>6, <1>7 DEF AccessFits
<1>16. ASSUME NEW p \in Ports \ ghost'.doubt, ~(x.op = "type" /\ x.port = p)
       PROVE  TypeIs(p)'
  <2>1. TypeIs(p)
    BY <1>1, <1>2, <1>6, <1>16, OneCallFits
  <2>2. /\ <<p, "lo">> \in reg'.ahdc <=> <<p, "lo">> \in reg.ahdc
        /\ <<p, "hi">> \in reg'.rs422 <=> <<p, "hi">> \in reg.rs422
    <3>1. "ahdc" \in Regs /\ "rs422" \in Regs
      BY DEF Regs
    <3>2. CASE k.op = "type"
      <4>1. <<p, "lo">> \notin Own(k.port) /\ <<p, "hi">> \notin Own(k.port)
        BY <1>6, <1>16, <3>2 DEF Own
      <4> QED BY <1>10, <1>11, <3>1, <3>2, <4>1
    <3>3. CASE k.op = "acs"
      <4>1. <<p, "hi">> \in k.val.rs422 <=> <<p, "hi">> \in reg.rs422
        BY <1>1, <1>2, <1>16, <3>3, OneCallFits DEF AcsFits
      <4> QED BY <1>10, <1>13, <3>1, <3>3, <4>1
    <3> QED BY <1>2, <3>2, <3>3
  <2>3. CacheFrom(p, reg'.ahdc, reg'.rs422) = CacheFrom(p, reg.ahdc, reg.rs422)
    BY <1>16, <2>2, SameType
  <2> QED BY <1>1, <2>1, <2>3 DEF TypeIs
<1>17. \A q \in Regs \ ghost'.differs : q \in Unsaved(c)' \/ mem'[q] = Saved(q, reg'[q])
  <2>1. CASE k.op = "type"
    <3>1. CASE Last(c)
      <4>1. Unsaved(c)' = {Cells[i] : i \in 1..4}
        BY <1>3, <1>6, <1>7, <2>1, <3>1 DEF Unsaved, InMemory
      <4> QED BY <1>2, <4>1, CellsAre DEF Places
    <3>2. CASE ~Last(c)
      BY <1>6, <1>7, <2>1, <3>2 DEF Unsaved, InMemory
    <3> QED BY <3>1, <3>2
  <2>2. CASE k.op = "acs"
    <3>1. Unsaved(c)' = {"rs422"} /\ Unsaved(c) = {"rs422"}
      BY <1>2, <1>3, <1>6, <1>7, <1>13, <2>2 DEF Unsaved, Cells, EepromOrder
    <3>2. \A q \in Regs \ ghost.differs : q = "rs422" \/ mem[q] = Saved(q, reg[q])
      BY <1>2, <3>1, OneCallFits
    <3> QED BY <1>1, <1>10, <1>13, <2>2, <3>1, <3>2
  <2> QED BY <1>2, <2>1, <2>2
<1>18. Busy' => dev'.job.cell \in ghost'.differs
  BY <1>1, <1>2, <1>3, OneCallFits
<1> QED BY <1>0, <1>2, <1>3, <1>6, <1>7, <1>8, <1>12, <1>14, <1>15, <1>16, <1>17, <1>18,
           OneClean, OneCallKept

\* A step of the access to a cell that leaves registers, cache and memory.
LEMMA AccessGoesOn ==
    ASSUME TypeOK, TypeOK', CleanAlone, Fits, ~Banks, NEW c \in Callers, Step(c), ghost.clean[c],
           NEW pc \in InMemory, call[c].pc \in InMemory, GoOn(c, pc),
           UNCHANGED <<reg, mem, cache, ghost>>, AccessFits(c)',
           Busy' => \/ dev'.job.cell \in ghost.differs
                    \/ pc = "poll" /\ dev'.job.cell = Cells[call[c].at]
    PROVE  Fits'
<1> DEFINE k == call[c]
           x == Call(k.op, k.port, k.arg, pc, k.phase, k.at, k.val)
<1>1. InCall(c) /\ UNCHANGED <<board, use>>
  BY OneClean
<1>2. Banks' = Banks /\ Cells' = Cells
  BY <1>1, BoardStays
<1>3. call' = [call EXCEPT ![c] = x]
  BY GoesOn DEF GoOn
<1>4. /\ x.op = k.op /\ x.port = k.port /\ x.arg = k.arg /\ x.pc = pc /\ x.at = k.at /\ x.val = k.val
  BY CallFields
<1>5. call'[c] = x
  BY <1>3 DEF TypeOK
<1> HIDE DEF x
<1>6. x # NoCall
  BY <1>1, <1>4, CallIs DEF NoCall, CallFits
<1>7. k.pc # "read" /\ k.pc # "change" /\ k.pc # "out" /\ pc # "read" /\ pc # "change" /\ pc # "out"
  BY DEF InMemory
<1>8. x.op = "type" => TypeFits(c)'
  <2>1. k.op = "type" => TypeFits(c)
    BY OneCallFits
  <2> QED BY <1>1, <1>4, <1>5, <1>7, <2>1 DEF TypeFits
<1>9. x.op = "acs" => AcsFits(c)'
  BY <1>4, <1>5, <1>7, OneCallFits DEF AcsFits
<1>10. Unsaved(c)' = Unsaved(c)
  BY <1>2, <1>4, <1>5 DEF Unsaved
<1>11. \A p \in Ports \ ghost'.doubt : (x.op = "type" /\ x.port = p) \/ TypeIs(p)'
  BY <1>1, <1>4, OneCallFits DEF TypeIs
<1>12. \A q \in Regs \ ghost'.differs : q \in Unsaved(c)' \/ mem'[q] = Saved(q, reg'[q])
  BY <1>10, OneCallFits
<1> QED BY <1>2, <1>4, <1>5, <1>6, <1>8, <1>9, <1>11, <1>12, OneClean, OneCallKept

\* What an access to the EEPROM saves.
Value(c) == IF Banks THEN call[c].val[Cells[call[c].at]]
            ELSE Saved(Cells[call[c].at], call[c].val[Cells[call[c].at]])

\* A call at the memory goes on to another step of its access.
LEMMA WentOn ==
    ASSUME TypeOK, NEW c \in Callers, InCall(c), UNCHANGED board, NEW pc, GoOn(c, pc)
    PROVE  /\ call'[c].op = call[c].op /\ call'[c].port = call[c].port /\ call'[c].arg = call[c].arg
           /\ call'[c].pc = pc /\ call'[c].phase = call[c].phase /\ call'[c].at = call[c].at
           /\ call'[c].val = call[c].val /\ Value(c)' = Value(c)
           /\ Banks' = Banks /\ Cells' = Cells /\ call'[c] # NoCall
<1> DEFINE k == call[c]
           x == Call(k.op, k.port, k.arg, pc, k.phase, k.at, k.val)
<1>1. call' = [call EXCEPT ![c] = x]
  BY GoesOn DEF GoOn
<1>2. /\ x.op = k.op /\ x.port = k.port /\ x.arg = k.arg /\ x.pc = pc /\ x.phase = k.phase
      /\ x.at = k.at /\ x.val = k.val
  BY CallFields
<1>3. call'[c] = x
  BY <1>1 DEF TypeOK
<1> HIDE DEF x
<1>4. Banks' = Banks /\ Cells' = Cells
  BY BoardStays
<1>5. x # NoCall
  BY <1>2, CallIs DEF NoCall, CallFits
<1> QED BY <1>2, <1>3, <1>4, <1>5 DEF Value

\* A step of an access is right for the controller, of either memory.
LEMMA AccessStep ==
    ASSUME TypeOK, NEW c \in Callers, Idle(c) \/ Address(c) \/ Data(c) \/ Command(c), AccessFits(c)
    PROVE  \E pc \in {"address", "data", "command", "poll"} :
               /\ GoOn(c, pc) /\ AccessFits(c)'
               /\ InCall(c) /\ call[c].pc \in InMemory \ {"poll"}
               /\ UNCHANGED <<board, use, reg, mem, cache, ghost>>
               /\ pc # "poll" => ~Busy /\ ~Busy'
               /\ pc = "poll" => /\ call[c].pc = "command" /\ Busy'
                                 /\ dev'.job.do = call[c].phase
                                 /\ call[c].phase # "erase" => dev'.job.cell = Cells[call[c].at]
<1> DEFINE k == call[c]
           cell == Cells[k.at]
<1>1. /\ InCall(c) /\ k.pc \in {"wait", "address", "data", "command"}
      /\ UNCHANGED <<board, use, reg, mem, cache, ghost>>
  BY DEF Idle, Address, Data, Command, At
<1>2. k.pc \in InMemory \ {"poll"}
  BY <1>1 DEF InMemory
<1>3. CASE Idle(c)
  <2> DEFINE pc == IF k.phase = "erase" THEN "command" ELSE "address"
  <2>1. GoOn(c, pc) /\ ~Busy /\ UNCHANGED dev
    BY <1>3 DEF Idle
  <2>2. pc \in {"address", "command"} /\ (pc = "command" <=> k.phase = "erase")
    OBVIOUS
  <2> HIDE DEF pc
  <2>3. ~Busy'
    BY <2>1 DEF Busy
  <2>4. call'[c].pc = pc /\ call'[c].phase = k.phase
    BY <1>1, <2>1, WentOn
  <2>5. AccessFits(c)'
    BY <2>2, <2>3, <2>4 DEF AccessFits
  <2> QED BY <1>1, <1>2, <2>1, <2>2, <2>3, <2>5
<1>4. CASE Address(c)
  <2> DEFINE pc == IF k.phase = "read" THEN "command" ELSE "data"
  <2>1. k.pc = "address" /\ GoOn(c, pc) /\ dev' = Controller(cell, dev.data, dev.job, dev.failed)
    BY <1>4 DEF Address, At
  <2>2. pc \in {"data", "command"} /\ (pc = "command" <=> k.phase = "read")
    OBVIOUS
  <2> HIDE DEF pc
  <2>3. dev'.addr = cell /\ dev'.job = dev.job
    BY <2>1 DEF Controller
  <2>4. ~Busy /\ ~Busy'
    BY <2>1, <2>3 DEF Busy, AccessFits
  <2>5. call'[c].pc = pc /\ call'[c].phase = k.phase /\ call'[c].at = k.at /\ Cells' = Cells
    BY <1>1, <2>1, WentOn
  <2>6. AccessFits(c)'
    BY <2>2, <2>3, <2>4, <2>5 DEF AccessFits
  <2> QED BY <1>1, <1>2, <2>1, <2>2, <2>4, <2>6
<1>5. CASE Data(c)
  <2>1. k.pc = "data" /\ GoOn(c, "command") /\ dev' = Controller(dev.addr, Value(c), dev.job, dev.failed)
    BY <1>5 DEF Data, At, Value
  <2>3. dev'.addr = dev.addr /\ dev'.data = Value(c) /\ dev'.job = dev.job
    BY <2>1 DEF Controller
  <2>4. ~Busy /\ ~Busy'
    BY <2>1, <2>3 DEF Busy, AccessFits
  <2>5. /\ call'[c].pc = "command" /\ call'[c].phase = k.phase /\ call'[c].at = k.at /\ Cells' = Cells
        /\ Value(c)' = Value(c)
    BY <1>1, <2>1, WentOn
  <2>6. k.phase # "erase" => dev.addr = cell
    BY <2>1 DEF AccessFits
  <2>7. AccessFits(c)'
    BY <2>3, <2>4, <2>5, <2>6 DEF AccessFits, Value
  <2> QED BY <1>1, <1>2, <2>1, <2>4, <2>7
<1>6. CASE Command(c)
  <2> DEFINE j == [do |-> k.phase, cell |-> dev.addr, data |-> dev.data]
  <2>1. k.pc = "command" /\ GoOn(c, "poll")
    BY <1>6 DEF Command, At
  <2>2. ~Busy /\ (k.phase # "erase" => dev.addr = cell) /\ (k.phase = "write" => dev.data = Value(c))
    BY <2>1 DEF AccessFits, Value
  <2>3. dev' = Controller(dev.addr, dev.data, j, FALSE)
    BY <1>6, <2>2 DEF Command
  <2>4. j.do = k.phase /\ j.cell = dev.addr /\ j.data = dev.data
    OBVIOUS
  <2>5. j # NoJob
    <3>1. k.phase # "none"
      BY <1>1, CallIs DEF CallFits
    <3> HIDE DEF j
    <3> QED BY <2>4, <3>1 DEF NoJob
  <2> HIDE DEF j
  <2>6. dev'.job = j
    BY <2>3 DEF Controller
  <2>7. Busy'
    BY <2>5, <2>6 DEF Busy, NoJob
  <2>8. /\ call'[c].pc = "poll" /\ call'[c].phase = k.phase /\ call'[c].at = k.at /\ Cells' = Cells
        /\ Value(c)' = Value(c)
    BY <1>1, <2>1, WentOn
  <2>9. AccessFits(c)'
    BY <2>2, <2>4, <2>6, <2>7, <2>8 DEF AccessFits, Value
  <2> QED BY <1>1, <1>2, <2>1, <2>2, <2>4, <2>6, <2>7, <2>9
<1> QED BY <1>3, <1>4, <1>5, <1>6

\* An access to the EEPROM.
LEMMA EepromAccessFits ==
    ASSUME TypeOK, TypeOK', CleanAlone, Fits, ~Banks, NEW c \in Callers, ghost.clean[c],
           Idle(c) \/ Address(c) \/ Data(c) \/ Command(c)
    PROVE  Fits'
<1>0. Step(c)
  BY DEF Step
<1>1. AccessFits(c)
  BY DEF Fits
<1>2. PICK pc \in {"address", "data", "command", "poll"} :
               /\ GoOn(c, pc) /\ AccessFits(c)'
               /\ InCall(c) /\ call[c].pc \in InMemory \ {"poll"}
               /\ UNCHANGED <<board, use, reg, mem, cache, ghost>>
               /\ pc # "poll" => ~Busy /\ ~Busy'
               /\ pc = "poll" => /\ call[c].pc = "command" /\ Busy'
                                 /\ dev'.job.do = call[c].phase
                                 /\ call[c].phase # "erase" => dev'.job.cell = Cells[call[c].at]
  BY <1>1, AccessStep
<1>3. call[c].phase = "write"
  BY <1>2, CallIs DEF CallFits
<1>4. pc \in InMemory
  BY <1>2 DEF InMemory
<1> QED BY <1>0, <1>2, <1>3, <1>4, AccessGoesOn

\* A cell is done, or was given up: the next one, or the end of the call.
LEMMA NextCellFits ==
    ASSUME TypeOK, TypeOK', CleanAlone, Fits, ~Banks, NEW c \in Callers, Step(c), ghost.clean[c],
           call[c].pc \in InMemory, UNCHANGED <<reg, mem, dev, cache>>,
           NEW g \in GhostType, NextCell(c, g), g.asked = ghost.asked, g.doubt = ghost.doubt,
           g.clean = ghost.clean,
           \A r \in Regs \ g.differs :
               \/ r \in Unsaved(c) /\ r # Cells[call[c].at]
               \/ mem[r] = Saved(r, reg[r]),
           Busy => dev.job.cell \in g.differs
    PROVE  Fits'
<1> DEFINE k == call[c]
<1>1. InCall(c) /\ UNCHANGED <<board, use>>
  BY OneClean
<1>2. Banks' = Banks /\ Cells' = Cells /\ Busy' = Busy
  BY <1>1, BoardStays DEF Busy
<1>3. /\ CallFits(k) /\ k.at \in 1..4 /\ k.op # "none"
      /\ k.op = "type" => k.arg \in 0..3 /\ k.port \in Ports
  BY <1>1, CallIs DEF CallFits
<1>4. k.pc # "read" /\ k.pc # "change" /\ k.pc # "out"
  BY DEF InMemory
<1>5. CASE Last(c)
  <2>1. call' = [call EXCEPT ![c] = NoCall] /\ ghost' = Fulfilled(c, g)
    BY <1>5 DEF NextCell, End
  <2>2. /\ ghost'.differs = g.differs
        /\ k.op # "type" => ghost'.asked = g.asked /\ ghost'.doubt = g.doubt
        /\ k.op = "type" =>
              IF Supported(board.uart, k.arg)
              THEN ghost'.asked = [g.asked EXCEPT ![k.port] = k.arg] /\ ghost'.doubt = g.doubt \ {k.port}
              ELSE ghost'.asked = g.asked /\ ghost'.doubt = g.doubt \union {k.port}
    BY <1>1, <2>1, FulfilledIs
  <2>3. \A d \in Callers : ~ghost'.clean[d]
    <3>1. call'[c] = NoCall
      BY <2>1 DEF TypeOK
    <3> QED BY <3>1, OneClean
  <2>4. ASSUME NEW p \in Ports \ ghost'.doubt PROVE TypeIs(p)'
    <3>1. CASE k.op = "type" /\ k.port = p
      <4>1. Supported(board.uart, k.arg) /\ k.arg \in 0..3 /\ board.uart \in 0..2
        BY <1>3, <2>2, <2>4, <3>1, SettingIs DEF TypeOK, BoardType
      <4>2. /\ cache[p] = Cached(k.arg) /\ CacheFrom(p, k.val.ahdc, k.val.rs422) = Cached(k.arg)
            /\ \A i \in 1..4 : reg[RegOrder[i]] = k.val[RegOrder[i]]
        BY <1>4, <3>1, <4>1, OneCallFits DEF TypeFits
      <4>3. reg.ahdc = k.val.ahdc /\ reg.rs422 = k.val.rs422
        BY <4>2 DEF RegOrder
      <4>4. UartType(board.uart, Cached(k.arg)) = k.arg
        BY <4>1, TypeAnswered
      <4>5. ghost'.asked[p] = k.arg
        BY <2>2, <3>1, <4>1 DEF GhostType
      <4> QED BY <1>1, <4>2, <4>3, <4>4, <4>5 DEF TypeIs
    <3>2. CASE ~(k.op = "type" /\ k.port = p)
      <4>1. p \notin ghost.doubt
        BY <2>2, <2>4, <3>2
      <4>2. TypeIs(p)
        BY <2>4, <3>2, <4>1, OneCallFits
      <4>3. ghost'.asked[p] = ghost.asked[p]
        BY <2>2, <3>2 DEF GhostType
      <4> QED BY <1>1, <4>2, <4>3 DEF TypeIs
    <3> QED BY <3>1, <3>2
  <2>5. Unsaved(c) = {Cells[k.at]}
    <3>1. CASE k.op = "type"
      <4>1. k.at = 4 /\ Unsaved(c) = {Cells[i] : i \in k.at..4}
        BY <1>5, <3>1 DEF Last, Unsaved
      <4>2. \A i \in k.at..4 : i = k.at
        BY <4>1
      <4> QED BY <4>1, <4>2
    <3>2. CASE k.op # "type"
      BY <3>2 DEF Unsaved
    <3> QED BY <3>1, <3>2
  <2>6. \A r \in Regs \ ghost'.differs : mem'[r] = Saved(r, reg'[r])
    BY <2>2, <2>5
  <2>7. Busy' => dev'.job.cell \in ghost'.differs
    BY <1>2, <2>2
  <2> QED BY <1>2, <2>3, <2>4, <2>6, <2>7, OneCallEnded
<1>6. CASE ~Last(c)
  <2> DEFINE x == Call(k.op, k.port, k.arg, "wait", k.phase, k.at + 1, k.val)
  <2>1. GoTo(c, "wait", k.phase, k.at + 1, k.val) /\ ghost' = g
    BY <1>6 DEF NextCell
  <2>2. call' = [call EXCEPT ![c] = x]
    BY <2>1, GoesOn
  <2>3. /\ x.op = k.op /\ x.port = k.port /\ x.arg = k.arg /\ x.pc = "wait" /\ x.at = k.at + 1
        /\ x.val = k.val
    BY CallFields
  <2>4. call'[c] = x
    BY <2>2 DEF TypeOK
  <2> HIDE DEF x
  <2>5. x # NoCall
    BY <1>3, <2>3 DEF NoCall
  <2>6. k.op = "type" /\ k.at # 4
    BY <1>6 DEF Last
  <2>7. TypeFits(c)'
    BY <1>1, <1>4, <2>3, <2>4, <2>6, OneCallFits DEF TypeFits
  <2>8. AccessFits(c)'
    BY <2>3, <2>4 DEF AccessFits
  <2>9. Unsaved(c) = {Cells[i] : i \in k.at..4} /\ Unsaved(c)' = {Cells[i] : i \in k.at + 1..4}
    BY <1>2, <2>3, <2>4, <2>6 DEF Unsaved, InMemory
  <2>10. \A r \in Unsaved(c) : r # Cells[k.at] => r \in Unsaved(c)'
    <3>1. \A i \in k.at..4 : i = k.at \/ i \in k.at + 1..4
      BY <1>3
    <3> QED BY <2>9, <3>1
  <2>11. \A r \in Regs \ ghost'.differs : r \in Unsaved(c)' \/ mem'[r] = Saved(r, reg'[r])
    BY <2>1, <2>10
  <2>12. \A p \in Ports \ ghost'.doubt : (x.op = "type" /\ x.port = p) \/ TypeIs(p)'
    BY <1>1, <2>1, <2>3, OneCallFits DEF TypeIs
  <2>13. Busy' => dev'.job.cell \in ghost'.differs
    BY <1>2, <2>1
  <2> QED BY <1>2, <2>3, <2>4, <2>5, <2>6, <2>7, <2>8, <2>11, <2>12, <2>13, OneClean, OneCallKept
<1> QED BY <1>5, <1>6

\* The cell a call is at is one it has to save.
LEMMA CellUnsaved ==
    ASSUME TypeOK, ~Banks, NEW c \in Callers, InCall(c), call[c].pc \in InMemory
    PROVE  Cells[call[c].at] \in Unsaved(c) /\ Cells[call[c].at] \in Regs
<1>1. call[c].at \in 1..4 /\ Cells[call[c].at] \in Regs
  BY CallIs DEF Places
<1>2. call[c].at \in call[c].at..4
  BY <1>1
<1> QED BY <1>1, <1>2 DEF Unsaved

\* The EEPROM is ready.
LEMMA EepromPolledFits ==
    ASSUME TypeOK, TypeOK', CleanAlone, Fits, ~Banks, NEW c \in Callers, Polled(c), ghost.clean[c]
    PROVE  Fits'
<1> DEFINE k == call[c]
           cell == Cells[k.at]
<1>0. Step(c)
  BY DEF Step
<1>1. InCall(c) /\ k.pc = "poll" /\ ~Busy /\ UNCHANGED <<board, use, reg, mem, dev, cache>>
  BY DEF Polled, At
<1>2. k.pc \in InMemory /\ "wait" \in InMemory /\ k.phase = "write"
  BY <1>1, CallIs DEF CallFits, InMemory
<1>3. ~Busy'
  BY <1>1 DEF Busy
<1>4. CASE dev.failed /\ GoOn(c, "wait") /\ UNCHANGED ghost
  <2>1. call'[c].pc = "wait"
    BY <1>1, <1>4, WentOn
  <2>2. AccessFits(c)'
    BY <2>1 DEF AccessFits
  <2> QED BY <1>0, <1>1, <1>2, <1>3, <1>4, <2>2, AccessGoesOn
<1>5. CASE ~dev.failed /\ NextCell(c, CellDone(c))
  <2> DEFINE g == CellDone(c)
  <2>1. /\ g \in GhostType /\ g.asked = ghost.asked /\ g.doubt = ghost.doubt /\ g.clean = ghost.clean
        /\ g.differs = IF k.op = "six" THEN ghost.differs \union {cell} ELSE ghost.differs \ {cell}
    BY <1>1, CellDoneIs
  <2>2. mem[cell] = Saved(cell, k.val[cell])
    BY <1>1, <1>2, <1>5, OneCallFits DEF AccessFits
  <2>3. k.op # "six" => cell \in Regs /\ k.val[cell] = reg[cell]
    <3>1. SUFFICES ASSUME k.op # "six" PROVE cell \in Regs /\ k.val[cell] = reg[cell]
      OBVIOUS
    <3>2. cell \in Regs /\ CallFits(k) /\ k.at \in 1..4
      BY <1>1, <1>2, CellUnsaved, CallIs
    <3>3. CASE k.op = "type"
      <4>1. \A i \in 1..4 : reg[RegOrder[i]] = k.val[RegOrder[i]]
        BY <1>1, <3>3, OneCallFits DEF TypeFits
      <4> QED BY <3>2, <4>1, OrdersAre
    <3>4. CASE k.op # "type"
      <4>1. k.op = "acs" /\ k.at = 2
        BY <3>1, <3>2, <3>4 DEF CallFits
      <4>2. cell = "rs422"
        BY <4>1 DEF Cells, EepromOrder
      <4>3. k.val.rs422 = reg.rs422
        BY <1>1, <4>1, OneCallFits DEF AcsFits
      <4> QED BY <3>2, <4>2, <4>3
    <3> QED BY <3>3, <3>4
  <2>4. \A r \in Regs \ g.differs : (r \in Unsaved(c) /\ r # cell) \/ mem[r] = Saved(r, reg[r])
    <3>1. \A r \in Regs \ ghost.differs : r \in Unsaved(c) \/ mem[r] = Saved(r, reg[r])
      BY OneCallFits
    <3> QED BY <2>1, <2>2, <2>3, <3>1
  <2> HIDE DEF g
  <2>5. NextCell(c, g)
    BY <1>5 DEF g
  <2> QED BY <1>0, <1>1, <1>2, <2>1, <2>4, <2>5, NextCellFits
<1> QED BY <1>4, <1>5 DEF Polled, PolledEeprom

\* The polls are used up.
LEMMA EepromGiveUpFits ==
    ASSUME TypeOK, TypeOK', CleanAlone, Fits, ~Banks, NEW c \in Callers, GiveUp(c), ghost.clean[c]
    PROVE  Fits'
<1> DEFINE k == call[c]
           cell == Cells[k.at]
           g == [ghost EXCEPT !.differs = @ \union {cell}]
<1>0. Step(c)
  BY DEF Step
<1>1. /\ InCall(c) /\ k.pc \in {"wait", "poll"} /\ Busy /\ GiveUpEeprom(c)
      /\ UNCHANGED <<board, use, reg, mem, dev, cache>>
  BY DEF GiveUp, At
<1>2. k.pc \in InMemory
  BY <1>1 DEF InMemory
<1>3. cell \in Regs
  BY <1>1, <1>2, CellUnsaved
<1>4. /\ g \in GhostType /\ g.asked = ghost.asked /\ g.doubt = ghost.doubt /\ g.clean = ghost.clean
      /\ g.differs = ghost.differs \union {cell}
  BY <1>3, MissedIs
<1>5. \A r \in Regs \ g.differs : (r \in Unsaved(c) /\ r # cell) \/ mem[r] = Saved(r, reg[r])
  <2>1. \A r \in Regs \ ghost.differs : r \in Unsaved(c) \/ mem[r] = Saved(r, reg[r])
    BY OneCallFits
  <2> QED BY <1>4, <2>1
<1>6. Busy => dev.job.cell \in g.differs
  BY <1>4, OneCallFits
<1>7. IF k.op = "six"
      THEN /\ call' = [call EXCEPT ![c] = NoCall]
           /\ ghost' = [g EXCEPT !.clean = [@ EXCEPT ![c] = FALSE]]
      ELSE NextCell(c, g)
  BY <1>1 DEF GiveUpEeprom
<1> HIDE DEF g
<1>8. CASE k.op = "six"
  <2>1. call'[c] = NoCall
    BY <1>7, <1>8 DEF TypeOK
  <2>2. \A d \in Callers : ~ghost'.clean[d]
    BY <1>0, <2>1, OneClean
  <2>3. ghost'.asked = g.asked /\ ghost'.doubt = g.doubt /\ ghost'.differs = g.differs
    BY <1>4, <1>7, <1>8 DEF GhostType
  <2>4. \A p \in Ports \ ghost'.doubt : TypeIs(p)'
    BY <1>1, <1>4, <1>8, <2>3, OneCallFits DEF TypeIs
  <2>5. Unsaved(c) = {cell}
    BY <1>8 DEF Unsaved
  <2>6. \A r \in Regs \ ghost'.differs : mem'[r] = Saved(r, reg'[r])
    BY <1>1, <1>5, <2>3, <2>5
  <2>7. Busy' => dev'.job.cell \in ghost'.differs
    BY <1>1, <1>6, <2>3 DEF Busy
  <2>8. ~Banks'
    BY <1>1, BoardStays
  <2> QED BY <2>2, <2>4, <2>6, <2>7, <2>8, OneCallEnded
<1>9. CASE k.op # "six"
  BY <1>0, <1>1, <1>2, <1>4, <1>5, <1>6, <1>7, <1>9, NextCellFits
<1> QED BY <1>8, <1>9

\* The EEPROM ends its work.
LEMMA EepromDoneFits ==
    ASSUME TypeOK, TypeOK', CleanAlone, Fits, ~Banks, Done
    PROVE  Fits'
<1> DEFINE j == dev.job
<1>1. Busy /\ UNCHANGED <<board, use, reg, cache, call, begun, ghost>>
  BY DEF Done
<1>2. j.do = "write" /\ j.cell \in Regs /\ mem \in [Regs -> SUBSET Bits]
  BY <1>1 DEF TypeOK, Places, CellValues
<1>3. /\ dev'.job = NoJob
      /\ (mem' = [mem EXCEPT ![j.cell] = j.data]) \/ (mem' = mem /\ dev'.failed)
  <2>1. CASE /\ mem' = CASE j.do = "write" -> [mem EXCEPT ![j.cell] = j.data]
                         [] j.do = "erase" -> [f \in DOMAIN mem |-> "erased"]
                         [] j.do = "read" -> mem
             /\ dev' = Controller(dev.addr, IF j.do = "read" THEN mem[j.cell] ELSE dev.data,
                                  NoJob, dev.failed)
    <3>1. dev'.job = NoJob
      BY <2>1, ControllerFields
    <3> QED BY <1>2, <2>1, <3>1
  <2>2. CASE dev' = Controller(dev.addr, dev.data, NoJob, TRUE) /\ UNCHANGED mem
    BY <2>2 DEF Controller
  <2> QED BY <2>1, <2>2 DEF Done
<1>4. ~Busy' /\ Banks' = Banks /\ Cells' = Cells
  BY <1>1, <1>3, BoardStays DEF Busy, NoJob
<1>5. \A r \in Regs : r # j.cell => mem'[r] = mem[r]
  BY <1>2, <1>3
<1>6. CASE \A d \in Callers : ~ghost.clean[d]
  <2>1. /\ \A p \in Ports \ ghost.doubt : TypeIs(p)
        /\ \A r \in Regs \ ghost.differs : mem[r] = Saved(r, reg[r])
        /\ j.cell \in ghost.differs
    BY <1>1, <1>6 DEF Fits, EepromFits, Setting, Open
  <2>2. \A p \in Ports \ ghost'.doubt : TypeIs(p)'
    BY <1>1, <2>1 DEF TypeIs
  <2>3. \A r \in Regs \ ghost'.differs : mem'[r] = Saved(r, reg'[r])
    BY <1>1, <1>5, <2>1
  <2> QED BY <1>1, <1>4, <1>6, <2>2, <2>3, OneCallEnded
<1>7. ASSUME NEW c \in Callers, ghost.clean[c]
      PROVE  Fits'
  <2> DEFINE k == call[c]
             cell == Cells[k.at]
  <2>1. InCall(c) /\ \A d \in Callers \ {c} : ~ghost.clean[d]
    BY <1>7, Alone
  <2>2. /\ AccessFits(c) /\ (k.op = "type" => TypeFits(c)) /\ (k.op = "acs" => AcsFits(c))
        /\ \A p \in Ports \ ghost.doubt : (k.op = "type" /\ k.port = p) \/ TypeIs(p)
        /\ \A r \in Regs \ ghost.differs : r \in Unsaved(c) \/ mem[r] = Saved(r, reg[r])
        /\ j.cell \in ghost.differs \/ (k.pc = "poll" /\ j.cell = cell)
    BY <1>1, <1>7, OneCallFits
  <2>3. k.phase = "write"
    BY <2>1, CallIs DEF CallFits
  <2>4. AccessFits(c)'
    <3>1. k.pc \notin {"address", "data", "command"}
      BY <1>1, <2>2 DEF AccessFits
    <3>2. k.pc = "poll" => j.cell = cell /\ j.data = Saved(cell, k.val[cell])
      BY <1>1, <2>2, <2>3 DEF AccessFits
    <3>3. k.pc = "poll" => dev'.failed \/ mem'[cell] = Saved(cell, k.val[cell])
      BY <1>2, <1>3, <3>2
    <3> QED BY <1>1, <1>4, <3>1, <3>3 DEF AccessFits
  <2>5. (k.op = "type" => TypeFits(c)') /\ (k.op = "acs" => AcsFits(c)') /\ Unsaved(c)' = Unsaved(c)
    BY <1>1, <1>4, <2>2 DEF TypeFits, AcsFits, Unsaved
  <2>6. \A p \in Ports \ ghost'.doubt : (k.op = "type" /\ k.port = p) \/ TypeIs(p)'
    BY <1>1, <2>2 DEF TypeIs
  <2>7. k.pc = "poll" => cell \in Unsaved(c)
    BY <2>1, CellUnsaved DEF InMemory
  <2>8. \A r \in Regs \ ghost'.differs : r \in Unsaved(c)' \/ mem'[r] = Saved(r, reg'[r])
    BY <1>1, <1>5, <2>2, <2>5, <2>7
  <2>9. call'[c] = k /\ k # NoCall /\ ghost'.clean[c] /\ \A d \in Callers \ {c} : ~ghost'.clean[d]
    BY <1>1, <1>7, <2>1 DEF InCall
  <2> QED BY <1>4, <2>4, <2>5, <2>6, <2>8, <2>9, OneCallKept
<1> QED BY <1>6, <1>7

\* What the invariant says of the one call at the flash.
LEMMA OneFlashCall ==
    ASSUME Fits, Banks, NEW c \in Callers, ghost.clean[c]
    PROVE  AccessFits(c) /\ (~ghost.torn => FlashCopied(c))
BY DEF Fits, FlashFits

\* What is to be shown of it, if it goes on.
LEMMA OneFlashKept ==
    ASSUME Banks', NEW c \in Callers, \A d \in Callers \ {c} : ~ghost'.clean[d],
           call'[c] # NoCall, AccessFits(c)', ~ghost'.torn => FlashCopied(c)'
    PROVE  Fits'
<1>1. ~Quiet'
  BY DEF Quiet, InCall
<1> QED BY <1>1 DEF Fits, FlashFits

\* And if it ends.
LEMMA OneFlashEnded ==
    ASSUME Banks', \A d \in Callers : ~ghost'.clean[d],
           ~ghost'.torn => mem' = FlashWanted' /\ (Busy' => dev'.job.do = "read")
    PROVE  Fits'
BY DEF Fits, FlashFits

\* An access to the flash.
LEMMA FlashAccessFits ==
    ASSUME TypeOK, CleanAlone, Fits, Banks, NEW c \in Callers, ghost.clean[c],
           Idle(c) \/ Address(c) \/ Data(c) \/ Command(c)
    PROVE  Fits'
<1> DEFINE k == call[c]
<1>0. Step(c)
  BY DEF Step
<1>1. PICK pc \in {"address", "data", "command", "poll"} :
               /\ GoOn(c, pc) /\ AccessFits(c)'
               /\ InCall(c) /\ call[c].pc \in InMemory \ {"poll"}
               /\ UNCHANGED <<board, use, reg, mem, cache, ghost>>
               /\ pc # "poll" => ~Busy /\ ~Busy'
               /\ pc = "poll" => /\ call[c].pc = "command" /\ Busy'
                                 /\ dev'.job.do = call[c].phase
                                 /\ call[c].phase # "erase" => dev'.job.cell = Cells[call[c].at]
  BY OneFlashCall, AccessStep
<1>2. /\ call'[c].arg = k.arg /\ call'[c].pc = pc /\ call'[c].phase = k.phase /\ call'[c].at = k.at
      /\ call'[c].val = k.val /\ Banks' = Banks /\ Cells' = Cells /\ call'[c] # NoCall
  BY <1>1, WentOn
<1>3. FlashWanted' = FlashWanted
  BY <1>1 DEF FlashWanted
<1>4. ASSUME ~ghost.torn PROVE FlashCopied(c)'
  <2>1. FlashCopied(c)
    BY <1>4, OneFlashCall
  <2>2. k.phase = "read" =>
            /\ mem' = FlashWanted'
            /\ \A i \in 1..k.at - 1 : k.val[Cells[i]] = mem'[Cells[i]]
            /\ IF Busy' THEN dev'.job.do = "read" ELSE pc # "poll"
    BY <1>1, <1>3, <2>1 DEF FlashCopied
  <2>3. k.phase # "read" => k.val = [FlashWanted' EXCEPT ![k.arg] = "new"] /\ (pc = "poll" \/ ~Busy')
    BY <1>1, <1>3, <2>1 DEF FlashCopied
  <2>4. k.phase = "erase" => mem' = FlashWanted'
    BY <1>1, <1>3, <2>1 DEF FlashCopied
  <2>5. k.phase = "write" => /\ \A i \in 1..k.at - 1 : k.val[Cells[i]] = mem'[Cells[i]]
                             /\ pc # "poll" \/ Busy'
    BY <1>1, <2>1 DEF FlashCopied
  <2> QED BY <1>2, <2>2, <2>3, <2>4, <2>5 DEF FlashCopied
<1> QED BY <1>0, <1>1, <1>2, <1>4, OneClean, OneFlashKept

\* A cell of the flash is done: the next one, the next pass, or the end.
LEMMA FlashPolledFits ==
    ASSUME TypeOK, CleanAlone, Fits, Banks, NEW c \in Callers, Polled(c), ghost.clean[c]
    PROVE  Fits'
<1> DEFINE k == call[c]
           cell == Cells[k.at]
<1>0. Step(c)
  BY DEF Step
<1>1. /\ InCall(c) /\ k.pc = "poll" /\ ~Busy /\ PolledFlash(c)
      /\ UNCHANGED <<board, use, reg, mem, dev, cache>>
  BY DEF Polled, At
<1>2. /\ k.op = "banks" /\ k.arg \in {"dir", "sig"} /\ k.at \in 1..4 /\ k.val \in [Flash -> CellValues]
      /\ cell \in Flash /\ mem \in [Flash -> CellValues]
  BY <1>1, CallIs DEF CallFits, TypeOK, Places
<1>3. ~Busy' /\ Banks' = Banks /\ Cells' = Cells
  BY <1>1, BoardStays DEF Busy
<1>4. FlashWanted \in [Flash -> {"head", "tail", "dir", "sig", "new"}]
  <2>1. ghost.want.dir \in {"dir", "new"} /\ ghost.want.sig \in {"sig", "new"}
    BY DEF TypeOK
  <2> QED BY <2>1, OrdersAre DEF FlashWanted
<1>5. ~ghost.torn => FlashCopied(c)
  BY OneFlashCall
<1>6. ASSUME NEW phase \in {"read", "erase", "write"}, NEW at \in Nat, NEW val,
             GoTo(c, "wait", phase, at, val), UNCHANGED ghost,
             ~ghost.torn =>
                 /\ phase = "read" => /\ mem = FlashWanted
                                      /\ \A i \in 1..at - 1 : val[Cells[i]] = mem[Cells[i]]
                 /\ phase # "read" => val = [FlashWanted EXCEPT ![k.arg] = "new"]
                 /\ phase = "erase" => mem = FlashWanted
                 /\ phase = "write" => \A i \in 1..at - 1 : val[Cells[i]] = mem[Cells[i]]
      PROVE  Fits'
  <2> DEFINE x == Call(k.op, k.port, k.arg, "wait", phase, at, val)
  <2>1. call' = [call EXCEPT ![c] = x]
    BY <1>6, GoesOn
  <2>2. /\ x.op = k.op /\ x.arg = k.arg /\ x.pc = "wait" /\ x.phase = phase
        /\ x.at = at /\ x.val = val
    BY CallFields
  <2>3. call'[c] = x
    BY <2>1 DEF TypeOK
  <2> HIDE DEF x
  <2>4. x # NoCall
    BY <1>2, <2>2 DEF NoCall
  <2>5. AccessFits(c)'
    BY <2>2, <2>3 DEF AccessFits
  <2>6. FlashWanted' = FlashWanted
    BY <1>6 DEF FlashWanted
  <2>7. ~ghost'.torn => FlashCopied(c)'
    BY <1>1, <1>3, <1>6, <2>2, <2>3, <2>6 DEF FlashCopied
  <2> QED BY <1>0, <1>3, <2>3, <2>4, <2>5, <2>7, OneClean, OneFlashKept
<1>7. CASE k.phase = "read"
  <2> DEFINE v == [k.val EXCEPT ![cell] = dev.data]
  <2>1. /\ UNCHANGED ghost
        /\ IF k.at < FlashCount THEN GoTo(c, "wait", "read", k.at + 1, v)
           ELSE GoTo(c, "wait", "erase", k.at, Patched(c, v))
    BY <1>1, <1>7 DEF PolledFlash
  <2>2. \A f \in Flash : v[f] = IF f = cell THEN dev.data ELSE k.val[f]
    BY <1>2
  <2>3. DOMAIN v = Flash
    BY <1>2
  <2> HIDE DEF v
  <2>4. ~ghost.torn => mem = FlashWanted /\ \A i \in 1..k.at : v[Cells[i]] = mem[Cells[i]]
    <3>1. SUFFICES ASSUME ~ghost.torn
                   PROVE  mem = FlashWanted /\ \A i \in 1..k.at : v[Cells[i]] = mem[Cells[i]]
      OBVIOUS
    <3>2. /\ mem = FlashWanted /\ dev.data = mem[cell]
          /\ \A i \in 1..k.at - 1 : k.val[Cells[i]] = mem[Cells[i]]
      BY <1>1, <1>5, <1>7, <3>1 DEF FlashCopied
    <3>3. ASSUME NEW i \in 1..k.at PROVE v[Cells[i]] = mem[Cells[i]]
      <4>1. i \in 1..4 /\ Cells[i] \in Flash
        BY <1>2, CellsAre DEF Places
      <4>2. CASE i = k.at
        BY <2>2, <3>2, <4>1, <4>2
      <4>3. CASE i # k.at
        <5>1. i \in 1..k.at - 1
          BY <1>2, <4>3
        <5> QED BY <2>2, <3>2, <4>1, <5>1
      <4> QED BY <4>2, <4>3
    <3> QED BY <3>2, <3>3
  <2>5. CASE k.at < FlashCount
    <3> DEFINE n == k.at + 1
    <3>1. GoTo(c, "wait", "read", n, v) /\ n \in Nat /\ n - 1 = k.at
      BY <1>2, <2>1, <2>5
    <3> HIDE DEF n
    <3>2. ~ghost.torn => \A i \in 1..n - 1 : v[Cells[i]] = mem[Cells[i]]
      BY <2>4, <3>1
    <3> QED BY <1>6, <2>1, <2>4, <3>1, <3>2
  <2>6. CASE ~(k.at < FlashCount)
    <3>1. k.at = 4 /\ GoTo(c, "wait", "erase", k.at, Patched(c, v))
      BY <1>2, <2>1, <2>6, CellsAre
    <3>2. ~ghost.torn => v = FlashWanted
      <4>1. ~ghost.torn => \A f \in Flash : v[f] = mem[f]
        BY <2>4, <3>1, CellsAre DEF Places
      <4>2. v = [f \in Flash |-> v[f]]
        <5>1. k.val = [f \in Flash |-> k.val[f]]
          BY <1>2
        <5> QED BY <5>1 DEF v
      <4>3. mem = [f \in Flash |-> mem[f]]
        BY <1>2
      <4> QED BY <2>4, <4>1, <4>2, <4>3
    <3>3. ~ghost.torn => Patched(c, v) = [FlashWanted EXCEPT ![k.arg] = "new"]
      BY <3>2 DEF Patched
    <3> QED BY <1>2, <1>6, <2>1, <2>4, <3>1, <3>3
  <2> QED BY <2>5, <2>6
<1>8. CASE k.phase = "erase"
  <2>1. UNCHANGED ghost /\ GoTo(c, "wait", "write", 1, k.val)
    BY <1>1, <1>8 DEF PolledFlash
  <2>2. ~ghost.torn => k.val = [FlashWanted EXCEPT ![k.arg] = "new"]
    BY <1>5, <1>8 DEF FlashCopied
  <2>3. \A i \in 1..1 - 1 : k.val[Cells[i]] = mem[Cells[i]]
    OBVIOUS
  <2> QED BY <1>6, <2>1, <2>2, <2>3
<1>9. ASSUME k.phase = "write", ~ghost.torn
      PROVE  /\ k.val = [FlashWanted EXCEPT ![k.arg] = "new"]
             /\ \A i \in 1..k.at : k.val[Cells[i]] = mem[Cells[i]]
  <2>1. /\ k.val = [FlashWanted EXCEPT ![k.arg] = "new"] /\ mem[cell] = k.val[cell]
        /\ \A i \in 1..k.at - 1 : k.val[Cells[i]] = mem[Cells[i]]
    BY <1>1, <1>5, <1>9 DEF FlashCopied
  <2>2. \A i \in 1..k.at : i = k.at \/ i \in 1..k.at - 1
    BY <1>2
  <2> QED BY <2>1, <2>2
<1>10. CASE k.phase = "write" /\ k.at < FlashCount
  <2> DEFINE n == k.at + 1
  <2>1. UNCHANGED ghost /\ GoTo(c, "wait", "write", n, k.val) /\ n \in Nat /\ n - 1 = k.at
    BY <1>1, <1>2, <1>10, CellsAre DEF PolledFlash
  <2> HIDE DEF n
  <2>2. ~ghost.torn => \A i \in 1..n - 1 : k.val[Cells[i]] = mem[Cells[i]]
    BY <1>9, <1>10, <2>1
  <2> QED BY <1>6, <1>9, <1>10, <2>1, <2>2
<1>11. CASE k.phase = "write" /\ k.at = FlashCount
  <2>1. call' = [call EXCEPT ![c] = NoCall] /\ ghost' = Fulfilled(c, ghost) /\ k.at = 4
    BY <1>1, <1>2, <1>11, CellsAre DEF PolledFlash, End
  <2>2. ghost \in GhostType
    BY DEF TypeOK, GhostType
  <2>3. ghost'.torn = ghost.torn /\ ghost'.want = [ghost.want EXCEPT ![k.arg] = "new"]
    BY <1>1, <1>2, <2>1, <2>2, FulfilledIs
  <2>4. \A d \in Callers : ~ghost'.clean[d]
    <3>1. call'[c] = NoCall
      BY <2>1 DEF TypeOK
    <3> QED BY <1>0, <3>1, OneClean
  <2>5. FlashWanted' = [FlashWanted EXCEPT ![k.arg] = "new"]
    <3>1. ghost.want \in [dir : {"dir", "new"}, sig : {"sig", "new"}]
      BY DEF TypeOK
    <3>2. CASE k.arg = "dir"
      <4>1. ghost'.want.dir = "new" /\ ghost'.want.sig = ghost.want.sig
        BY <2>3, <3>1, <3>2
      <4> QED BY <3>2, <4>1 DEF FlashWanted
    <3>3. CASE k.arg = "sig"
      <4>1. ghost'.want.sig = "new" /\ ghost'.want.dir = ghost.want.dir
        BY <2>3, <3>1, <3>3
      <4> QED BY <3>3, <4>1 DEF FlashWanted
    <3> QED BY <1>2, <3>2, <3>3
  <2>6. ~ghost.torn => mem = k.val
    <3>1. ~ghost.torn => \A f \in Flash : k.val[f] = mem[f]
      BY <1>9, <1>11, <2>1, CellsAre DEF Places
    <3> QED BY <1>2, <3>1
  <2>7. ~ghost'.torn => mem' = FlashWanted'
    BY <1>1, <1>9, <1>11, <2>3, <2>5, <2>6
  <2> QED BY <1>3, <2>4, <2>7, OneFlashEnded
<1>12. k.phase \in {"read", "erase", "write"}
  BY <1>1, CallIs DEF CallFits
<1>13. k.phase = "write" => k.at < FlashCount \/ k.at = FlashCount
  BY <1>2, CellsAre
<1> QED BY <1>7, <1>8, <1>10, <1>11, <1>12, <1>13

\* The polls are used up: once the flash is erased it is torn.
LEMMA FlashGiveUpFits ==
    ASSUME TypeOK, CleanAlone, Fits, Banks, NEW c \in Callers, GiveUp(c), ghost.clean[c]
    PROVE  Fits'
<1> DEFINE k == call[c]
<1>0. Step(c)
  BY DEF Step
<1>1. /\ InCall(c) /\ k.pc \in {"wait", "poll"} /\ Busy /\ GiveUpFlash(c)
      /\ UNCHANGED <<board, use, reg, mem, dev, cache>>
  BY DEF GiveUp, At
<1>2. call' = [call EXCEPT ![c] = NoCall] /\ ghost'.want = ghost.want
  BY <1>1 DEF GiveUpFlash
<1>3. ghost'.torn = (ghost.torn \/ k.phase = "write" \/ (k.phase = "erase" /\ k.pc = "poll"))
  BY <1>1 DEF GiveUpFlash
<1>4. Banks' = Banks /\ Busy' = Busy /\ FlashWanted' = FlashWanted
  BY <1>1, <1>2, BoardStays DEF Busy, FlashWanted
<1>5. \A d \in Callers : ~ghost'.clean[d]
  <2>1. call'[c] = NoCall
    BY <1>2 DEF TypeOK
  <2> QED BY <1>0, <2>1, OneClean
<1>6. ASSUME ~ghost'.torn PROVE mem' = FlashWanted' /\ (Busy' => dev'.job.do = "read")
  <2>1. ~ghost.torn /\ FlashCopied(c)
    BY <1>3, <1>6, OneFlashCall
  <2>2. k.phase = "read"
    <3>1. k.phase \in {"read", "erase", "write"}
      BY <1>1, CallIs DEF CallFits
    <3>2. k.phase = "erase" => k.pc = "poll"
      BY <1>1, <2>1 DEF FlashCopied
    <3> QED BY <1>3, <1>6, <3>1, <3>2
  <2> QED BY <1>1, <1>4, <2>1, <2>2 DEF FlashCopied
<1> QED BY <1>4, <1>5, <1>6, OneFlashEnded

\* The flash ends its work.
LEMMA FlashDoneFits ==
    ASSUME TypeOK, CleanAlone, Fits, Banks, Done
    PROVE  Fits'
<1> DEFINE j == dev.job
<1>1. Busy /\ UNCHANGED <<board, use, reg, cache, call, begun, ghost>>
  BY DEF Done
<1>2. /\ j.do \in {"read", "erase", "write"} /\ j.cell \in Flash /\ mem \in [Flash -> CellValues]
  BY <1>1 DEF TypeOK, Places
<1>3. /\ dev'.job = NoJob
      /\ dev'.data = IF j.do = "read" THEN mem[j.cell] ELSE dev.data
      /\ j.do = "write" => mem' = [mem EXCEPT ![j.cell] = j.data]
      /\ j.do = "read" => mem' = mem
  <2>1. /\ mem' = CASE j.do = "write" -> [mem EXCEPT ![j.cell] = j.data]
                    [] j.do = "erase" -> [f \in DOMAIN mem |-> "erased"]
                    [] j.do = "read" -> mem
        /\ dev' = Controller(dev.addr, IF j.do = "read" THEN mem[j.cell] ELSE dev.data,
                             NoJob, dev.failed)
    BY DEF Done
  <2>2. dev'.job = NoJob /\ dev'.data = IF j.do = "read" THEN mem[j.cell] ELSE dev.data
    BY <2>1, ControllerFields
  <2>3. (j.do = "write" => mem' = [mem EXCEPT ![j.cell] = j.data]) /\ (j.do = "read" => mem' = mem)
    BY <2>1
  <2> QED BY <2>2, <2>3
<1>4. ~Busy' /\ Banks' = Banks /\ Cells' = Cells /\ FlashWanted' = FlashWanted
  BY <1>1, <1>3, BoardStays DEF Busy, NoJob, FlashWanted
<1>5. CASE \A d \in Callers : ~ghost.clean[d]
  <2>1. ~ghost.torn => Quiet
    BY <1>5 DEF CleanAlone, Quiet
  <2>2. ~ghost.torn => mem' = FlashWanted
    BY <1>1, <1>3, <2>1 DEF Fits, FlashFits
  <2> QED BY <1>1, <1>4, <1>5, <2>2, OneFlashEnded
<1>6. ASSUME NEW c \in Callers, ghost.clean[c]
      PROVE  Fits'
  <2> DEFINE k == call[c]
             cell == Cells[k.at]
  <2>1. InCall(c) /\ \A d \in Callers \ {c} : ~ghost.clean[d]
    BY <1>6, Alone
  <2>2. AccessFits(c) /\ (~ghost.torn => FlashCopied(c))
    BY <1>6, OneFlashCall
  <2>3. k.at \in 1..4 /\ k.phase \in {"read", "erase", "write"} /\ cell \in Flash
    BY <2>1, CallIs DEF CallFits, Places
  <2>4. k.pc \notin {"address", "data", "command"}
    BY <1>1, <2>2 DEF AccessFits
  <2>5. k.pc = "poll" => /\ j.do = k.phase /\ (k.phase # "erase" => j.cell = cell)
                         /\ k.phase = "write" => j.data = k.val[cell]
    BY <1>1, <2>2 DEF AccessFits
  <2>6. k.pc = "poll" /\ k.phase = "write" => mem' = [mem EXCEPT ![cell] = k.val[cell]]
    BY <1>3, <2>5
  <2>7. k.pc = "poll" /\ k.phase = "write" => mem'[cell] = k.val[cell]
    BY <1>2, <2>3, <2>6
  <2>8. AccessFits(c)'
    BY <1>1, <1>4, <2>4, <2>7 DEF AccessFits
  <2>9. ASSUME ~ghost.torn PROVE FlashCopied(c)'
    <3>1. FlashCopied(c)
      BY <2>2, <2>9
    <3>2. CASE k.phase = "read"
      <4>1. j.do = "read" /\ mem = FlashWanted /\ \A i \in 1..k.at - 1 : k.val[Cells[i]] = mem[Cells[i]]
        BY <1>1, <3>1, <3>2 DEF FlashCopied
      <4>2. k.pc = "poll" => dev'.data = mem[cell]
        BY <1>3, <2>5, <3>2, <4>1
      <4> QED BY <1>1, <1>3, <1>4, <3>2, <4>1, <4>2 DEF FlashCopied
    <3>3. CASE k.phase # "read"
      <4>1. k.pc = "poll" /\ k.val = [FlashWanted EXCEPT ![k.arg] = "new"]
        BY <1>1, <3>1, <3>3 DEF FlashCopied
      <4>2. CASE k.phase = "erase"
        BY <1>1, <1>4, <4>1, <4>2 DEF FlashCopied
      <4>3. CASE k.phase = "write"
        <5>1. \A i \in 1..k.at - 1 : k.val[Cells[i]] = mem[Cells[i]]
          BY <3>1, <4>3 DEF FlashCopied
        <5>2. \A i \in 1..k.at - 1 : Cells[i] \in Flash
          BY <2>3, CellsAre DEF Places
        <5>3. \A i \in 1..k.at - 1 : k.val[Cells[i]] = mem'[Cells[i]]
          BY <1>2, <2>6, <4>1, <4>3, <5>1, <5>2
        <5> QED BY <1>1, <1>4, <2>7, <4>1, <4>3, <5>3 DEF FlashCopied
      <4> QED BY <2>3, <3>3, <4>2, <4>3
    <3> QED BY <3>2, <3>3
  <2>10. call'[c] = k /\ k # NoCall /\ \A d \in Callers \ {c} : ~ghost'.clean[d]
    BY <1>1, <2>1 DEF InCall
  <2> QED BY <1>1, <1>4, <2>8, <2>9, <2>10, OneFlashKept
<1> QED BY <1>5, <1>6

----------------------------------------------------------------------------
(* The inductive invariant *)

\* The invariant in the parts the lemmas above are about.
LEMMA InvParts == IInv <=> TypeOK /\ CleanAlone /\ Fits
BY DEF IInv, Fits

\* A step of a clean call keeps what is claimed.
LEMMA CleanStepFits ==
    ASSUME TypeOK, TypeOK', CleanAlone, Fits, NEW c \in Callers, Step(c), ghost.clean[c]
    PROVE  Fits'
<1>1. CASE ReadReg(c)
  BY <1>1, ReadFits
<1>2. CASE Change(c)
  BY <1>2, ChangeFits
<1>3. CASE WriteReg(c)
  BY <1>3, WriteFits
<1>4. CASE Idle(c) \/ Address(c) \/ Data(c) \/ Command(c)
  BY <1>4, EepromAccessFits, FlashAccessFits
<1>5. CASE Polled(c)
  BY <1>5, EepromPolledFits, FlashPolledFits
<1>6. CASE GiveUp(c)
  BY <1>6, EepromGiveUpFits, FlashGiveUpFits
<1> QED BY <1>1, <1>2, <1>3, <1>4, <1>5, <1>6 DEF Step

\* A step keeps every variable in its range.
LEMMA StepTypes ==
    ASSUME TypeOK, NEW c \in Callers, Step(c)
    PROVE  TypeOK'
BY RegisterTypes, AccessTypes, PolledTypes, GiveUpTypes DEF Step

\* When the controller ends its work the calls are where they were.
LEMMA DoneAlone ==
    ASSUME CleanAlone, Done
    PROVE  CleanAlone'
BY DEF CleanAlone, Done, InCall

\* What Next lets happen, by who does it.
LEMMA NextIs ==
    ASSUME Next
    PROVE  Done \/ \E c \in Callers : Begins(c) \/ Outs(c) \/ Step(c)
BY DEF Next, Begins, Outs

\* Stuttering changes nothing.
LEMMA StutterKeeps ==
    ASSUME IInv, UNCHANGED vars
    PROVE  IInv'
<1>1. /\ UNCHANGED <<board, use, reg, mem, dev, cache, call, begun, troubles, ghost>>
      /\ Banks' = Banks /\ Cells' = Cells /\ Places' = Places /\ CellValues' = CellValues
      /\ Busy' = Busy /\ FlashWanted' = FlashWanted /\ Quiet' = Quiet
  BY BoardStays DEF vars, Busy, FlashWanted, Quiet, InCall
<1>2. TypeOK'
  BY <1>1 DEF IInv, TypeOK, InCall, CallFits
<1>3. CleanAlone'
  BY <1>1 DEF IInv, CleanAlone, InCall
<1>4. \A c \in Callers : AccessFits(c)' = AccessFits(c)
  BY <1>1 DEF AccessFits
<1>5. Banks => FlashFits'
  BY <1>1 DEF IInv, FlashFits, FlashCopied
<1>6. ~Banks => EepromFits'
  <2>1. \A c \in Callers : /\ At(c, "poll")' = At(c, "poll") /\ TypeFits(c)' = TypeFits(c)
                           /\ AcsFits(c)' = AcsFits(c) /\ Unsaved(c)' = Unsaved(c)
    BY <1>1 DEF At, InCall, TypeFits, AcsFits, Unsaved
  <2>2. \A p \in Ports : Setting(p)' = Setting(p) /\ TypeIs(p)' = TypeIs(p)
    BY <1>1 DEF Setting, TypeIs
  <2>3. \A r : Open(r)' = Open(r)
    BY <1>1, <2>1 DEF Open
  <2> QED BY <1>1, <2>1, <2>2, <2>3 DEF IInv, EepromFits
<1> QED BY <1>1, <1>2, <1>3, <1>4, <1>5, <1>6 DEF IInv

\* Every step keeps the invariant.
LEMMA StepKeeps == IInv /\ [Next]_vars => IInv'
<1> SUFFICES ASSUME IInv, [Next]_vars PROVE IInv'
  OBVIOUS
<1>1. TypeOK /\ CleanAlone /\ Fits
  BY InvParts
<1>2. SUFFICES ASSUME Next PROVE TypeOK' /\ CleanAlone' /\ Fits'
  <2>1. TypeOK' /\ CleanAlone' /\ Fits' => IInv'
    BY DEF IInv, Fits
  <2> QED BY <2>1, StutterKeeps
<1>3. ASSUME NEW c \in Callers, Begins(c)
      PROVE  TypeOK' /\ CleanAlone' /\ Fits'
  <2>1. PICK k : BegunAs(k) /\ Begin(c, k)
    BY <1>1, <1>3, BeginsAs
  <2>2. TypeOK'
    BY <1>1, <2>1, BeginTypes DEF BegunAs
  <2> QED BY <1>1, <2>1, <2>2, BeginFits
<1>4. ASSUME NEW c \in Callers, Step(c)
      PROVE  TypeOK' /\ CleanAlone' /\ Fits'
  <2>1. TypeOK'
    BY <1>1, <1>4, StepTypes
  <2>2. CleanAlone'
    BY <1>1, <1>4, <2>1, StepAlone
  <2>3. Fits'
    BY <1>1, <1>4, <2>1, CleanStepFits, DisturbedFits
  <2> QED BY <2>1, <2>2, <2>3
<1>5. CASE Done
  <2>1. TypeOK'
    BY <1>1, <1>5, DoneTypes
  <2> QED BY <1>1, <1>5, <2>1, DoneAlone, EepromDoneFits, FlashDoneFits
<1>6. ASSUME NEW c \in Callers, Outs(c)
      PROVE  TypeOK' /\ CleanAlone' /\ Fits'
  BY <1>1, <1>6, OutFits
<1> QED BY <1>2, <1>3, <1>4, <1>5, <1>6, NextIs

----------------------------------------------------------------------------
(* What follows for every board, every set of callers and any number of calls *)

\* The inductive invariant holds: a clean call is alone, the controller has of
\* its access what it should, and the copies it works on agree with registers,
\* cache and memory wherever they have to.
THEOREM InvariantHolds == Spec => []IInv
<1>1. Init => IInv
  BY InitHolds
<1>2. IInv /\ [Next]_vars => IInv'
  BY StepKeeps
<1> QED BY <1>1, <1>2, PTL DEF Spec

\* Every variable stays in its range.
THEOREM TypesHold == Spec => []TypeOK
<1>1. IInv => TypeOK
  BY DEF IInv
<1> QED BY <1>1, InvariantHolds, PTL

\* Whatever SET_TYPE, SET_ACS and the GPIO calls do to the registers four
\* ports and six channels share, once no call is in progress cache, registers
\* and EEPROM say what the last SET_TYPE of each port asked, with the
\* exceptions of TypeKept, a GPIO call's own register among them.
THEOREM TypeAlwaysKept == Spec => []TypeKept
<1>1. ASSUME IInv PROVE TypeKept
  <2>1. SUFFICES ASSUME Quiet, ~Banks
                 PROVE  /\ \A p \in Ports \ ghost.doubt : TypeIs(p)
                        /\ \A r \in Regs \ ghost.differs : mem[r] = Saved(r, reg[r])
    BY DEF TypeKept
  <2>2. \A c \in Callers : ~ghost.clean[c]
    BY <1>1, <2>1 DEF IInv, CleanAlone, Quiet
  <2> QED BY <1>1, <2>1, <2>2 DEF IInv, EepromFits, Setting, Open
<1> QED BY <1>1, InvariantHolds, PTL

\* Rewriting all of the flash for one default loses none of the others.
THEOREM FlashAlwaysKept == Spec => []FlashKept
<1>1. ASSUME IInv PROVE FlashKept
  BY <1>1 DEF IInv, FlashFits, FlashKept
<1> QED BY <1>1, InvariantHolds, PTL

=============================================================================
