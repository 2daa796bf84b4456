---------------------------- MODULE BoardConfig ----------------------------
(***************************************************************************)
(* The configuration calls of a SUN1999 board (snx_serial.c:1790-2752):    *)
(* SNX_UART_SET_TYPE, SNX_UART_SET_ACS, SNX_GPIO_SET_DEFAULT and           *)
(* SNX_GPIO_WRITE_DEFAULT are ioctls on a serial device that read          *)
(* registers four ports share, change bits of their own, write them back   *)
(* and save them in the board's memory, waiting for the memory's           *)
(* controller with a bounded poll.  SNX_GPIO_SET and SNX_GPIO_WRITE on a   *)
(* board with six GPIO channels write two of those registers, which are    *)
(* the channels' directions and signals too, and save nothing.  No lock is *)
(* held anywhere.                                                          *)
(*                                                                         *)
(* One group of ports is modelled.  A register is the set of its bits that *)
(* are on: for a port its bit in the low and its bit in the high half of   *)
(* the byte.  The memory is the EEPROM that saves the four registers, or   *)
(* on a board with 8, 16 or 32 GPIO channels the flash with the defaults   *)
(* of the channels: only whole-flash erase exists, so a change reads all   *)
(* of it, erases it and writes all of it again.  The two have controllers  *)
(* of their own; a board is followed with the one or with the other.       *)
(*                                                                         *)
(* A register reads as it was last written: what a channel that is an      *)
(* input shows in the signal register is not modelled.  Left out: the      *)
(* registers of the 8, 16 and 32 channels and the inversion register,      *)
(* which no other call looks at; the modem control register SET_TYPE also  *)
(* writes (snx_serial.c:2593, 2606, 2628, 2641), which belongs to the line *)
(* settings; arguments that cannot be copied.                              *)
(***************************************************************************)
EXTENDS Integers, Sequences

CONSTANTS
    Callers,     \* threads that may be in one of the calls at a time
    Ports,       \* ports of the group: (uart_num - 1) % 4
    Settings,    \* boards and what is done with them: [board, use]
    MaxCalls     \* bound: calls begun

\* The types a board's ports can be: RS-232, RS-422/485, both.
Supported(uart, t) == CASE uart = 0 -> t = 0
                       [] uart = 1 -> t \in 1..3
                       [] uart = 2 -> TRUE

\* A board comes with types it can be; what ports 9-16 come with is not read.
ASSUME BoardConfigAssumption ==
    /\ Ports \subseteq 0..3
    /\ \A s \in Settings :
           /\ s.board \in [uart : 0..2, far : BOOLEAN, gpio : {"none", "six", "banks"},
                           came : [Ports -> 0..3]]
           /\ \A p \in Ports : s.board.far \/ Supported(s.board.uart, s.board.came[p])
           /\ s.use \in [types : SUBSET (0..3), acs : SUBSET BOOLEAN,
                         together : Nat, troubles : Nat]
    /\ MaxCalls \in Nat

VARIABLES
    board,    \* the board: board_uart_type, whether the ports are 9-16, GPIO channels
    use,      \* bounds: types and ACS asked for, how many first calls may
              \* overlap, how many programming errors and polls used up
    reg,      \* registers +2 AHDC, +3 RS422 and ACS, +0xC GPIO, +0xD GPIO control
    mem,      \* EEPROM cells 0x13, 0x14, 0x1A, 0x19, or the flash
    dev,      \* the memory's controller: address, data, command in work, Error
    cache,    \* port.AHDC_State and port.RS422_State of each port
    call,     \* each caller's call
    begun,    \* calls begun
    troubles, \* programming errors and polls used up so far
    ghost     \* what was asked and what got in the way; the code has no such state

vars == <<board, use, reg, mem, dev, cache, call, begun, troubles, ghost>>

------------------------------------------------------------------------------
(* Registers and memory *)

Bits == Ports \X {"lo", "hi"}
Regs == {"ahdc", "rs422", "gpio", "gctl"}

\* The order in which SET_TYPE reads and writes the registers, and saves them.
RegOrder == <<"ahdc", "rs422", "gpio", "gctl">>
EepromOrder == <<"ahdc", "rs422", "gctl", "gpio">>

\* The 19 bytes of the flash: up to 6, the directions from 7, the signals
\* from 0xB, the rest.
FlashOrder == <<"head", "dir", "sig", "tail">>

Banks == board.gpio = "banks"
Cells == IF Banks THEN FlashOrder ELSE EepromOrder

\* The control register is saved inverted, the others as they are.
Saved(r, v) == IF r = "gctl" THEN Bits \ v ELSE v

\* The four registers after port p is set to type t: 0 RS-232, 1 RS-422,
\* 2 RS-485, 3 automatic.  A type the board does not support clears the
\* port's bits and sets none.
WithType(uart, t, p, v) ==
    LET lo == <<p, "lo">>
        hi == <<p, "hi">>
        on(b, yes) == IF Supported(uart, t) /\ yes THEN {b} ELSE {}
        acs == IF Supported(uart, t) /\ t \in {0, 1} THEN {lo} ELSE {}
    IN  [ahdc  |-> (v.ahdc \ {lo}) \union on(lo, t \in {2, 3}) \union on(hi, uart = 1),
         rs422 |-> ((v.rs422 \ {hi}) \ acs) \union on(hi, t \in {1, 3}),
         gpio  |-> (v.gpio \ {lo, hi}) \union on(lo, t = 0),
         gctl  |-> (v.gctl \ {lo}) \union on(lo, TRUE)]

\* Mutant: the port's bit is written without the neighbours'.
WithAcsOnly(p, yes, v) ==
    [v EXCEPT !.rs422 = IF yes THEN {<<p, "lo">>} ELSE {}]

\* The register after SET_ACS: the low bit is the port's.
WithAcs(p, yes, v) ==
    [v EXCEPT !.rs422 = (@ \ {<<p, "lo">>}) \union (IF yes THEN {<<p, "lo">>} ELSE {})]

\* Mutant: the type itself is noted.
CachedRaw(t) == [ahdc |-> t, rs422 |-> t]

\* What the port's bits mean, as SET_TYPE notes it in the cache ...
Cached(t) == [ahdc |-> IF t \in {2, 3} THEN 1 ELSE 0,
              rs422 |-> IF t \in {1, 3} THEN 1 ELSE 0]

Bit(b, v) == IF b \in v THEN 1 ELSE 0

\* ... as the driver reads it from the registers when it is loaded, and ...
CacheFrom(p, ahdc, rs422) ==
    [ahdc |-> Bit(<<p, "lo">>, ahdc), rs422 |-> Bit(<<p, "hi">>, rs422)]

\* ... as GET_TYPE answers.
UartType(uart, c) ==
    IF uart = 0 THEN 0
    ELSE CASE c.ahdc = 1 /\ c.rs422 = 1 -> 3
           [] c.ahdc = 1 /\ c.rs422 = 0 -> 2
           [] c.ahdc = 0 /\ c.rs422 = 1 -> 1
           [] OTHER -> IF uart = 2 THEN 0 ELSE -1

\* The states of ports 9-16 are never read: the loop shifts what it has of
\* port 8, whose bits are 8, once more.
Shifted(p) == CASE p = 0 -> 8 [] p = 1 -> 4 [] p = 2 -> 2 [] p = 3 -> 1

FarCache == [p \in Ports |-> [ahdc : {0, Shifted(p)}, rs422 : {0}]]

------------------------------------------------------------------------------
NoCall == [op |-> "none"]
NoJob == [do |-> "none"]
InCall(c) == call[c] # NoCall
Quiet == \A c \in Callers : ~InCall(c)
Busy == dev.job # NoJob

Controller(addr, data, job, failed) ==
    [addr |-> addr, data |-> data, job |-> job, failed |-> failed]

Blank == [r \in Regs |-> {}]
Flash == {FlashOrder[i] : i \in DOMAIN FlashOrder}

\* A board comes with its ports set and saved; it is powered up, so the
\* registers hold what the EEPROM holds, and the driver has read them.
Init ==
    /\ \E s \in Settings : board = s.board /\ use = s.use
    /\ reg = [r \in Regs |-> UNION {WithType(board.uart, board.came[p], p, Blank)[r] : p \in Ports}]
    /\ mem = IF Banks THEN [f \in Flash |-> f]
             ELSE [r \in Regs |-> Saved(r, reg[r])]
    /\ dev = Controller(Cells[1], mem[Cells[1]], NoJob, FALSE)
    /\ cache \in IF board.far
                 THEN {f \in [Ports -> UNION {FarCache[p] : p \in Ports}] :
                          \A p \in Ports : f[p] \in FarCache[p]}
                 ELSE {[p \in Ports |-> CacheFrom(p, reg.ahdc, reg.rs422)]}
    /\ call = [c \in Callers |-> NoCall]
    /\ begun = 0 /\ troubles = 0
    /\ ghost = [asked |-> board.came, want |-> [dir |-> "dir", sig |-> "sig"],
                doubt |-> IF board.far THEN Ports ELSE {}, differs |-> {},
                torn |-> FALSE, clean |-> [c \in Callers |-> FALSE]]

------------------------------------------------------------------------------
(* Beginning and ending a call *)

\* Two calls at a time: neither may be relied on, whatever it does, and what
\* cache, registers and memory then say of each other is open.
Disturbed == [asked |-> ghost.asked, want |-> ghost.want, doubt |-> Ports,
              differs |-> Regs, torn |-> TRUE, clean |-> [d \in Callers |-> FALSE]]

MayBegin(c) == /\ ~InCall(c) /\ begun < MaxCalls
               /\ Quiet \/ begun < use.together

Begin(c, k) ==
    /\ MayBegin(c)
    /\ begun' = begun + 1
    /\ call' = [call EXCEPT ![c] = k]
    /\ ghost' = IF Quiet THEN [ghost EXCEPT !.clean = [@ EXCEPT ![c] = TRUE]]
                ELSE Disturbed
    /\ UNCHANGED <<board, use, reg, mem, dev, cache, troubles>>

Call(op, p, arg, pc, phase, at, val) ==
    [op |-> op, port |-> p, arg |-> arg, pc |-> pc, phase |-> phase, at |-> at, val |-> val]

SetType(c, p, t) == ~Banks /\ Begin(c, Call("type", p, t, "read", "write", 1, Blank))

SetAcs(c, p, yes) == ~Banks /\ Begin(c, Call("acs", p, yes, "read", "write", 2, Blank))

\* Of six channels cell 0x19 gets the directions inverted, cell 0x1A the
\* signals: the cells in which SET_TYPE saves the registers of ports 1-4 that
\* the channels have too.  The registers stay as they are.  Any other board
\* but one with a flash does nothing.
GpioSetDefault(c, v) ==
    \/ /\ board.gpio = "six"
       /\ Begin(c, Call("six", 0, v, "wait", "write", 3, [Blank EXCEPT !.gctl = v]))
    \/ /\ Banks
       /\ Begin(c, Call("banks", 0, "dir", "wait", "read", 1, [f \in Flash |-> "none"]))

GpioWriteDefault(c, v) ==
    \/ /\ board.gpio = "six"
       /\ Begin(c, Call("six", 0, v, "wait", "write", 4, [Blank EXCEPT !.gpio = v]))
    \/ /\ Banks
       /\ Begin(c, Call("banks", 0, "sig", "wait", "read", 1, [f \in Flash |-> "none"]))

\* One outb to a register that SET_TYPE reads, changes and saves; what the
\* EEPROM holds of it is left as it is.
GpioOut(c, r, v) ==
    /\ board.gpio = "six" /\ MayBegin(c)
    /\ begun' = begun + 1
    /\ reg' = [reg EXCEPT ![r] = v]
    /\ ghost' = IF Quiet THEN [ghost EXCEPT !.differs = @ \union {r}] ELSE Disturbed
    /\ UNCHANGED <<board, use, mem, dev, cache, call, troubles>>

GpioSet(c, v) == GpioOut(c, "gctl", v)
GpioWrite(c, v) == GpioOut(c, "gpio", v)

\* What a call that nothing came in between has done.
Fulfilled(c, g) ==
    LET k == call[c]
        set == g.clean[c] /\ k.op = "type"
        met == set /\ Supported(board.uart, k.arg)
    IN  [asked   |-> IF met THEN [g.asked EXCEPT ![k.port] = k.arg] ELSE g.asked,
         want    |-> IF g.clean[c] /\ k.op = "banks" THEN [g.want EXCEPT ![k.arg] = "new"]
                     ELSE g.want,
         doubt   |-> IF met THEN g.doubt \ {k.port}
                     ELSE IF set THEN g.doubt \union {k.port} ELSE g.doubt,
         differs |-> g.differs,
         torn    |-> g.torn,
         clean   |-> [g.clean EXCEPT ![c] = FALSE]]

End(c, g) ==
    /\ call' = [call EXCEPT ![c] = NoCall]
    /\ ghost' = Fulfilled(c, g)

\* Cell i as a call leaves it: of SET_TYPE and SET_ACS it is the register's.
CellDone(c) ==
    LET cell == Cells[call[c].at]
    IN  IF ~ghost.clean[c] THEN ghost
        ELSE [ghost EXCEPT !.differs = IF call[c].op = "six" THEN @ \union {cell}
                                       ELSE @ \ {cell}]

\* The call goes on: with other fields, or at another step only.
GoTo(c, pc, phase, at, val) ==
    call' = [call EXCEPT ![c] = Call(@.op, @.port, @.arg, pc, phase, at, val)]
GoOn(c, pc) == GoTo(c, pc, call[c].phase, call[c].at, call[c].val)

------------------------------------------------------------------------------
(* SET_TYPE and SET_ACS up to the EEPROM *)

At(c, pc) == InCall(c) /\ call[c].pc = pc
Last(c) == call[c].op # "type" \/ call[c].at = 4

\* inb of one register; the last one is followed by the change.
ReadReg(c) ==
    /\ At(c, "read")
    /\ LET k == call[c]
           r == RegOrder[k.at]
           v == [k.val EXCEPT ![r] = reg[r]]
       IN  IF Last(c) THEN GoTo(c, "change", k.phase, k.at, v)
           ELSE GoTo(c, "read", k.phase, k.at + 1, v)
    /\ UNCHANGED <<board, use, reg, mem, dev, cache, begun, troubles, ghost>>

\* The own bits are changed in the copies; a type the board supports is
\* noted in the cache.
Change(c) ==
    /\ At(c, "change")
    /\ LET k == call[c]
       IN  \/ /\ k.op = "type"
              /\ GoTo(c, "out", k.phase, 1, WithType(board.uart, k.arg, k.port, k.val))
              /\ cache' = IF Supported(board.uart, k.arg)
                          THEN [cache EXCEPT ![k.port] = Cached(k.arg)] ELSE cache
           \/ /\ k.op = "acs"
              /\ GoTo(c, "out", k.phase, k.at, WithAcs(k.port, k.arg, k.val))
              /\ UNCHANGED cache
    /\ UNCHANGED <<board, use, reg, mem, dev, begun, troubles, ghost>>

\* outb of one register; after the last one it is saved.
WriteReg(c) ==
    /\ At(c, "out")
    /\ LET k == call[c]
           r == RegOrder[k.at]
       IN  /\ reg' = [reg EXCEPT ![r] = k.val[r]]
           /\ IF Last(c) THEN GoTo(c, "wait", k.phase, IF k.op = "type" THEN 1 ELSE 2, k.val)
              ELSE GoTo(c, "out", k.phase, k.at + 1, k.val)
    /\ UNCHANGED <<board, use, mem, dev, cache, begun, troubles, ghost>>

------------------------------------------------------------------------------
(* One access to the memory: wait, address, data, command, wait *)

Idle(c) ==
    /\ At(c, "wait") /\ ~Busy
    /\ GoOn(c, IF call[c].phase = "erase" THEN "command" ELSE "address")
    /\ UNCHANGED <<board, use, reg, mem, dev, cache, begun, troubles, ghost>>

Address(c) ==
    /\ At(c, "address")
    /\ dev' = Controller(Cells[call[c].at], dev.data, dev.job, dev.failed)
    /\ GoOn(c, IF call[c].phase = "read" THEN "command" ELSE "data")
    /\ UNCHANGED <<board, use, reg, mem, cache, begun, troubles, ghost>>

Data(c) ==
    /\ At(c, "data")
    /\ LET cell == Cells[call[c].at]
           v == call[c].val[cell]
       IN  dev' = Controller(dev.addr, IF Banks THEN v ELSE Saved(cell, v), dev.job, dev.failed)
    /\ GoOn(c, "command")
    /\ UNCHANGED <<board, use, reg, mem, cache, begun, troubles, ghost>>

\* A controller at work does not take another command.
Command(c) ==
    /\ At(c, "command")
    /\ dev' = IF Busy THEN dev
              ELSE Controller(dev.addr, dev.data,
                              [do |-> call[c].phase, cell |-> dev.addr, data |-> dev.data], FALSE)
    /\ GoOn(c, "poll")
    /\ UNCHANGED <<board, use, reg, mem, cache, begun, troubles, ghost>>

\* The controller ends its work; the EEPROM may report an error.
Done ==
    /\ Busy
    /\ LET j == dev.job
       IN  \/ /\ mem' = CASE j.do = "write" -> [mem EXCEPT ![j.cell] = j.data]
                          [] j.do = "erase" -> [f \in DOMAIN mem |-> "erased"]
                          [] j.do = "read" -> mem
              /\ dev' = Controller(dev.addr, IF j.do = "read" THEN mem[j.cell] ELSE dev.data,
                                   NoJob, dev.failed)
              /\ UNCHANGED troubles
           \/ /\ ~Banks /\ troubles < use.troubles
              /\ dev' = Controller(dev.addr, dev.data, NoJob, TRUE)
              /\ troubles' = troubles + 1
              /\ UNCHANGED mem
    /\ UNCHANGED <<board, use, reg, cache, call, begun, ghost>>

\* Mutant: the flash's last byte is not counted.
FlashCountShort == Len(FlashOrder) - 1

\* The loops over the flash's bytes.
FlashCount == Len(FlashOrder)

\* The bytes as they go back into the flash: those of the call are new.
Patched(c, v) == [v EXCEPT ![call[c].arg] = "new"]

\* After one cell the next: EEPROMWriteData's result is ignored, so SET_TYPE
\* and SET_ACS come here also when it gave up.
NextCell(c, g) ==
    IF Last(c) THEN End(c, g)
    ELSE GoTo(c, "wait", call[c].phase, call[c].at + 1, call[c].val) /\ ghost' = g

\* The EEPROM's access is over: again if it failed.
PolledEeprom(c) ==
    \/ dev.failed /\ GoOn(c, "wait") /\ UNCHANGED ghost
    \/ ~dev.failed /\ NextCell(c, CellDone(c))

\* The flash is read cell by cell, erased, and written cell by cell.
PolledFlash(c) ==
    LET k == call[c]
        v == [k.val EXCEPT ![Cells[k.at]] = dev.data]
    IN  \/ /\ k.phase = "read"
           /\ IF k.at < FlashCount THEN GoTo(c, "wait", "read", k.at + 1, v)
              ELSE GoTo(c, "wait", "erase", k.at, Patched(c, v))
           /\ UNCHANGED ghost
        \/ /\ k.phase = "erase"
           /\ GoTo(c, "wait", "write", 1, k.val)
           /\ UNCHANGED ghost
        \/ /\ k.phase = "write" /\ k.at < FlashCount
           /\ GoTo(c, "wait", "write", k.at + 1, k.val)
           /\ UNCHANGED ghost
        \/ /\ k.phase = "write" /\ k.at = FlashCount
           /\ End(c, ghost)

Polled(c) ==
    /\ At(c, "poll") /\ ~Busy
    /\ IF Banks THEN PolledFlash(c) ELSE PolledEeprom(c)
    /\ UNCHANGED <<board, use, reg, mem, dev, cache, begun, troubles>>

\* The polls are used up while the controller is at work.
GiveUpEeprom(c) ==
    LET missed == [ghost EXCEPT !.differs = @ \union {Cells[call[c].at]}]
    IN  IF call[c].op = "six"
        THEN /\ call' = [call EXCEPT ![c] = NoCall]
             /\ ghost' = [missed EXCEPT !.clean = [@ EXCEPT ![c] = FALSE]]
        ELSE NextCell(c, missed)

\* The GPIO calls return -EFAULT where they are; once the flash is erased
\* its bytes are lost with them.
GiveUpFlash(c) ==
    LET k == call[c]
        erased == k.phase = "write" \/ (k.phase = "erase" /\ k.pc = "poll")
    IN  /\ call' = [call EXCEPT ![c] = NoCall]
        /\ ghost' = [asked |-> ghost.asked, want |-> ghost.want, doubt |-> ghost.doubt,
                     differs |-> ghost.differs, torn |-> ghost.torn \/ erased,
                     clean |-> [ghost.clean EXCEPT ![c] = FALSE]]

GiveUp(c) ==
    /\ At(c, "wait") \/ At(c, "poll")
    /\ Busy /\ troubles < use.troubles
    /\ troubles' = troubles + 1
    /\ IF Banks THEN GiveUpFlash(c) ELSE GiveUpEeprom(c)
    /\ UNCHANGED <<board, use, reg, mem, dev, cache, begun>>

------------------------------------------------------------------------------
Step(c) == \/ ReadReg(c) \/ Change(c) \/ WriteReg(c) \/ Idle(c) \/ Address(c)
           \/ Data(c) \/ Command(c) \/ Polled(c) \/ GiveUp(c)

Next ==
    \/ \E c \in Callers, p \in Ports, t \in use.types : SetType(c, p, t)
    \/ \E c \in Callers, p \in Ports, yes \in use.acs : SetAcs(c, p, yes)
    \/ \E c \in Callers, v \in {{}, Bits} : GpioSetDefault(c, v) \/ GpioWriteDefault(c, v)
    \/ \E c \in Callers, v \in {{}, Bits} : GpioSet(c, v) \/ GpioWrite(c, v)
    \/ \E c \in Callers : Step(c)
    \/ Done

Spec == Init /\ [][Next]_vars

------------------------------------------------------------------------------
(* Properties *)

InMemory == {"wait", "address", "data", "command", "poll"}
Places == IF Banks THEN Flash ELSE Regs
CellValues == IF Banks THEN Flash \union {"new", "erased", "none"} ELSE SUBSET Bits

\* What a call may be at each of its steps: SET_TYPE and SET_ACS pass over the
\* registers first, and the flash is read, erased and written.
CallFits(k) ==
    /\ k.op \in IF Banks THEN {"banks"} ELSE {"type", "acs", "six"}
    /\ k.pc \in InMemory \/ (k.op \in {"type", "acs"} /\ k.pc \in {"read", "change", "out"})
    /\ k.at \in 1..4 /\ k.val \in [Places -> CellValues]
    /\ k.phase \in IF Banks THEN {"read", "erase", "write"} ELSE {"write"}
    /\ k.op = "type" => k.arg \in 0..3 /\ k.port \in Ports /\ (k.pc = "change" => k.at = 4)
    /\ k.op = "acs" => k.port \in Ports /\ k.at = 2
    /\ k.op = "banks" => /\ k.arg \in {"dir", "sig"}
                         /\ ~(k.phase = "erase" /\ k.pc \in {"address", "data"})
                         /\ ~(k.phase = "read" /\ k.pc = "data")

\* Every variable stays in its range.
TypeOK ==
    /\ \E s \in Settings : board = s.board /\ use = s.use
    /\ reg \in [Regs -> SUBSET Bits]
    /\ mem \in [Places -> CellValues]
    /\ dev.addr \in Places /\ dev.data \in CellValues /\ dev.failed \in BOOLEAN
    /\ Busy => /\ dev.job.do \in IF Banks THEN {"read", "erase", "write"} ELSE {"write"}
               /\ dev.job.cell \in Places /\ dev.job.data \in CellValues
    /\ cache \in [Ports -> [ahdc : {0, 1, 2, 4, 8}, rs422 : {0, 1}]]
    /\ DOMAIN call = Callers /\ \A c \in Callers : InCall(c) => CallFits(call[c])
    /\ begun \in 0..MaxCalls /\ troubles \in 0..use.troubles
    /\ ghost \in [asked : [Ports -> 0..3],
                  want : [dir : {"dir", "new"}, sig : {"sig", "new"}],
                  doubt : SUBSET Ports, differs : SUBSET Regs, torn : BOOLEAN,
                  clean : [Callers -> BOOLEAN]]

\* Port p is of the type last asked for, in the cache and in the registers.
TypeIs(p) ==
    /\ cache[p] = CacheFrom(p, reg.ahdc, reg.rs422)
    /\ UartType(board.uart, cache[p]) = ghost.asked[p]

\* The type of a port is kept in three places that nothing keeps together:
\* the cache that modem control goes by (snx_serial.c:3558, 3669), the
\* registers GET_TYPE answers from, and the EEPROM the board powers up with.
\* Once no call is in progress all three say what the last SET_TYPE for the
\* port asked, whatever was asked for its neighbours in the same registers.
\* Excepted are a port since two calls overlapped, since it was asked to be
\* a type the board is not, or never set since loading on ports 9-16, up to
\* its next undisturbed SET_TYPE; and, up to the next call that saves it, a
\* register whose saving was given up, or that a GPIO call wrote without its
\* cell (snx_serial.c:1815, 1940), or whose cell one wrote without it.
TypeKept ==
    Quiet /\ ~Banks =>
        /\ \A p \in Ports \ ghost.doubt : TypeIs(p)
        /\ \A r \in Regs \ ghost.differs : mem[r] = Saved(r, reg[r])

\* The bytes the flash came with, but for the defaults that were changed.
FlashWanted == [head |-> "head", dir |-> ghost.want.dir, sig |-> ghost.want.sig, tail |-> "tail"]

\* Changing one default rewrites all of the flash (snx_serial.c:2032-2128,
\* 2192-2280).  Once no call is in progress every byte of it is the one the
\* board came with or the one the last successful call gave it, also after
\* calls that returned -EFAULT, unless two calls overlapped or one gave up
\* after it erased.
FlashKept ==
    Quiet /\ Banks /\ ~ghost.torn => mem = FlashWanted

------------------------------------------------------------------------------
(* The inductive invariant.  A call is clean as long as no other overlaps *)
(* it; all that is known is known of clean calls and of what they leave.  *)

\* A clean call is alone, and a disturbed one leaves everything open.
CleanAlone ==
    \A c \in Callers :
        /\ ghost.clean[c] => InCall(c) /\ \A d \in Callers \ {c} : ~InCall(d)
        /\ InCall(c) /\ ~ghost.clean[c] =>
               ghost.doubt = Ports /\ ghost.differs = Regs /\ ghost.torn

\* What the controller has got of a call's access to its cell.
AccessFits(c) ==
    LET k == call[c]
        cell == Cells[k.at]
        v == IF Banks THEN k.val[cell] ELSE Saved(cell, k.val[cell])
    IN  /\ k.pc \in {"address", "data", "command"} => ~Busy
        /\ k.pc \in {"data", "command"} /\ k.phase # "erase" => dev.addr = cell
        /\ k.pc = "command" /\ k.phase = "write" => dev.data = v
        /\ k.pc = "poll" /\ Busy => /\ dev.job.do = k.phase
                                    /\ k.phase = "erase" \/ dev.job.cell = cell
                                    /\ k.phase # "write" \/ dev.job.data = v
        /\ k.pc = "poll" /\ ~Busy /\ k.phase = "write" => dev.failed \/ mem[cell] = v

Own(p) == {<<p, "lo">>, <<p, "hi">>}

\* SET_TYPE's copies of the registers: the same, then other than them in the
\* port's own bits only, then the same again.
TypeFits(c) ==
    LET k == call[c] IN
    CASE k.pc = "read" -> \A i \in 1..k.at - 1 : k.val[RegOrder[i]] = reg[RegOrder[i]]
      [] k.pc = "change" -> k.val = reg
      [] OTHER ->
            /\ Supported(board.uart, k.arg) =>
                   /\ cache[k.port] = Cached(k.arg)
                   /\ CacheFrom(k.port, k.val.ahdc, k.val.rs422) = Cached(k.arg)
            /\ \A r \in Regs : k.val[r] \ Own(k.port) = reg[r] \ Own(k.port)
            /\ \A i \in 1..4 : k.pc # "out" \/ i < k.at => reg[RegOrder[i]] = k.val[RegOrder[i]]

\* SET_ACS keeps the bits the types are read from.
AcsFits(c) ==
    LET k == call[c] IN
    CASE k.pc = "read" -> TRUE
      [] k.pc = "out" -> \A p \in Ports : <<p, "hi">> \in k.val.rs422 <=> <<p, "hi">> \in reg.rs422
      [] OTHER -> k.val.rs422 = reg.rs422

\* The ports whose type is being set, and the cells that are still to be saved.
Setting(p) == \E c \in Callers : ghost.clean[c] /\ call[c].op = "type" /\ call[c].port = p
Unsaved(c) ==
    LET k == call[c]
    IN  IF k.op = "type" THEN IF k.pc \in InMemory THEN {Cells[i] : i \in k.at..4} ELSE Regs
        ELSE {Cells[k.at]}
Open(r) == \E c \in Callers : ghost.clean[c] /\ r \in Unsaved(c)

EepromFits ==
    /\ \A p \in Ports \ ghost.doubt : Setting(p) \/ TypeIs(p)
    /\ \A r \in Regs \ ghost.differs : Open(r) \/ mem[r] = Saved(r, reg[r])
    /\ Busy => \/ dev.job.cell \in ghost.differs
               \/ \E c \in Callers : ghost.clean[c] /\ At(c, "poll") /\ dev.job.cell = Cells[call[c].at]
    /\ \A c \in Callers :
           /\ ghost.clean[c] /\ call[c].op = "type" => TypeFits(c)
           /\ ghost.clean[c] /\ call[c].op = "acs" => AcsFits(c)

\* The flash is whole until it is erased, and what it is to hold is in the
\* call's copy from then on.
FlashCopied(c) ==
    LET k == call[c]
        upto(n) == \A i \in 1..n : k.val[Cells[i]] = mem[Cells[i]]
    IN  /\ k.phase = "read" =>
               /\ mem = FlashWanted /\ upto(k.at - 1)
               /\ IF Busy THEN dev.job.do = "read"
                  ELSE k.pc # "poll" \/ dev.data = mem[Cells[k.at]]
        /\ k.phase # "read" => /\ k.val = [FlashWanted EXCEPT ![k.arg] = "new"]
                               /\ k.pc = "poll" \/ ~Busy
        /\ k.phase = "erase" /\ k.pc # "poll" => mem = FlashWanted
        /\ k.phase = "write" => /\ upto(k.at - 1)
                                /\ k.pc # "poll" \/ Busy \/ mem[Cells[k.at]] = k.val[Cells[k.at]]

FlashFits ==
    /\ Quiet /\ ~ghost.torn => mem = FlashWanted /\ (Busy => dev.job.do = "read")
    /\ \A c \in Callers : ghost.clean[c] /\ ~ghost.torn => FlashCopied(c)

IInv ==
    /\ TypeOK
    /\ CleanAlone
    /\ \A c \in Callers : ghost.clean[c] => AccessFits(c)
    /\ IF Banks THEN FlashFits ELSE EepromFits
=============================================================================
