------------------------------ MODULE SerialTx ------------------------------
(***************************************************************************)
(* The transmit path of one serial port (driver/snx_serial.c, kernel 4.15  *)
(* or newer): the ring buffer the tty layer fills, the interrupt handler   *)
(* that empties it into the UART, flow control by XON/XOFF and by CTS, and *)
(* the interrupt enable register with its shadow sp->ier.                  *)
(*                                                                         *)
(* snx_ser_start does not take port->lock (the calls are commented out),   *)
(* so the read, the change and the register write of start_tx interleave   *)
(* with the sections that do.  Every access to sp->ier and to the register *)
(* is a step of its own.  x_char and the receive data are not modelled.    *)
(***************************************************************************)
EXTENDS Naturals, Sequences, FiniteSets

CONSTANTS
    Writers,   \* threads that write or flush: user writes and echo
    Size,      \* SNX_UART_XMIT_SIZE
    Fifo,      \* port->fifosize
    MaxBytes,  \* bound: bytes written in one behaviour
    Settings   \* what may be, as records: soft, tty stop/start and received
               \* XON/XOFF happen; hard, CRTSCTS is set and cleared and CTS
               \* changes; oneCpu, one processor, its kernel not preempted

ASSUME SerialTxAssumption ==
    /\ Size \in Nat \ {0} /\ Fifo \in Nat \ {0} /\ MaxBytes \in Nat
    /\ Settings \subseteq [soft : BOOLEAN, hard : BOOLEAN, oneCpu : BOOLEAN]
    /\ Writers \cap {"isr", "tty", "termios", "nobody"} = {}

VARIABLES
    pc, reg, then,  \* each thread's place, the ier value it computed in
                    \* start_tx or stop_tx, and where it goes from there
    lock,           \* holder of port->lock
    ier,            \* sp->ier, the shadow: set of enabled interrupts
    hw,             \* the UART's IER
    thri,           \* the UART's latched "transmitter empty" interrupt
    thrEmpty,       \* LSR.THRE
    buf, head, tail,\* info->xmit
    accepted,       \* bytes taken from the writers, numbered from 1
    sent,           \* what was written to the UART, in order
    flushed,        \* bytes dropped by flush_buffer
    stopped, hwStopped,     \* tty->stopped, tty->hw_stopped
    ctsFlow,        \* SNX_UIF_CTS_FLOW, from CRTSCTS
    cts, ctsDelta,  \* MSR.CTS and MSR.DCTS
    cause,          \* what the interrupt handler read from IIR
    setting         \* the one of Settings this behaviour has

shadow == <<ier, hw, thri>>
ring == <<buf, head, tail>>
history == <<accepted, sent, flushed>>
flow == <<stopped, hwStopped, ctsFlow>>
line == <<cts, ctsDelta, setting>>
vars == <<pc, reg, then, lock, shadow, thrEmpty, ring, history, flow, line,
          cause>>

SoftFlow == setting.soft
HardFlow == setting.hard
OneCpu == setting.oneCpu

Threads == Writers \cup {"isr", "tty", "termios"}
Bits == {"THRI", "MSI"}
Locations == {"idle", "test", "start", "set_ier", "write_ier", "lock", "stop",
              "rx", "push", "relock", "tx", "modem", "set_msi", "release",
              "restart", "unlock"}

TypeOK ==
    /\ pc \in [Threads -> Locations] /\ then \in [Threads -> Locations]
    /\ reg \in [Threads -> SUBSET Bits]
    /\ lock \in Threads \cup {"nobody"}
    /\ ier \subseteq Bits /\ hw \subseteq Bits
    /\ thri \in BOOLEAN /\ thrEmpty \in BOOLEAN
    /\ buf \in [0 .. Size - 1 -> 0 .. MaxBytes]
    /\ head \in 0 .. Size - 1 /\ tail \in 0 .. Size - 1
    /\ accepted \in 0 .. MaxBytes
    /\ sent \in Seq(1 .. MaxBytes)
    /\ flushed \subseteq 1 .. MaxBytes
    /\ stopped \in BOOLEAN /\ hwStopped \in BOOLEAN /\ ctsFlow \in BOOLEAN
    /\ cts \in BOOLEAN /\ ctsDelta \in BOOLEAN
    /\ setting \in Settings
    /\ cause \in {"none", "thri", "msi", "rdi"}

\* After startup and the first set_termios without CRTSCTS.
Init ==
    /\ pc = [t \in Threads |-> "idle"] /\ then = [t \in Threads |-> "idle"]
    /\ reg = [t \in Threads |-> {}]
    /\ lock = "nobody"
    /\ ier = {} /\ hw = {}
    /\ thri = FALSE /\ thrEmpty = TRUE
    /\ buf = [i \in 0 .. Size - 1 |-> 0] /\ head = 0 /\ tail = 0
    /\ accepted = 0 /\ sent = <<>> /\ flushed = {}
    /\ stopped = FALSE /\ hwStopped = FALSE /\ ctsFlow = FALSE
    /\ cts = TRUE /\ ctsDelta = FALSE
    /\ cause = "none" /\ setting \in Settings

----------------------------------------------------------------------------
(* The ring buffer *)

Pending == (head + Size - tail) % Size          \* CIRC_CNT
\* Mutant: the slot that tells full from empty is given away.
RoomForOneMore == Size - Pending

Room == (tail + Size - head - 1) % Size         \* CIRC_SPACE
Smaller(a, b) == IF a < b THEN a ELSE b
Empty == head = tail

\* The bytes in the buffer, oldest first.
Buffered == [i \in 1 .. Pending |-> buf[(tail + i - 1) % Size]]

----------------------------------------------------------------------------
(* port->lock, start_tx and stop_tx *)

Goto(t, loc) == pc' = [pc EXCEPT ![t] = loc]

Acquire(t) == lock = "nobody" /\ lock' = t

Unlock(t) ==
    /\ pc[t] = "unlock"
    /\ lock' = "nobody"
    /\ Goto(t, "idle")
    /\ UNCHANGED <<reg, then, shadow, thrEmpty, ring, history, flow, line, cause>>

\* t computes a new value for sp->ier from the one it reads; it is stored
\* and written to the UART in two further steps, after which t goes to next.
ChangeIer(t, value, next) ==
    /\ reg' = [reg EXCEPT ![t] = value]
    /\ then' = [then EXCEPT ![t] = next]
    /\ Goto(t, "set_ier")

Skip(t, next) == Goto(t, next) /\ UNCHANGED <<reg, then>>

\* Mutant: the other enabled interrupts are overwritten.
start_txOverwrites(t, next) ==
    IF "THRI" \in ier THEN Skip(t, next) ELSE ChangeIer(t, {"THRI"}, next)

start_tx(t, next) ==
    IF "THRI" \in ier THEN Skip(t, next)
    ELSE ChangeIer(t, ier \cup {"THRI"}, next)

stop_tx(t, next) ==
    IF "THRI" \in ier THEN ChangeIer(t, ier \ {"THRI"}, next)
    ELSE Skip(t, next)

\* Mutant: the shadow changes and the register write is forgotten.
SetIerOnly(t) ==
    /\ pc[t] = "set_ier"
    /\ ier' = reg[t]
    /\ Goto(t, then[t])
    /\ UNCHANGED <<reg, then, lock, hw, thri, thrEmpty, ring, history, flow, line,
                   cause>>

SetIer(t) ==
    /\ pc[t] = "set_ier"
    /\ ier' = reg[t]
    /\ Goto(t, "write_ier")
    /\ UNCHANGED <<reg, then, lock, hw, thri, thrEmpty, ring, history, flow, line,
                   cause>>

\* The UART: enabling THRI while the transmitter is empty raises the
\* interrupt, disabling it drops it.
WriteRegister(v) ==
    /\ hw' = v
    /\ thri' = IF "THRI" \in v /\ "THRI" \notin hw THEN thrEmpty
               ELSE thri /\ "THRI" \in v

\* WRITE_UART_IER(sp, sp->ier): the compiler may use the value it has just
\* stored or read sp->ier again.  A lock holder unlocks after it.
WriteIer(t) ==
    /\ pc[t] = "write_ier"
    /\ \E v \in {reg[t], ier} : WriteRegister(v)
    /\ Goto(t, then[t])
    /\ UNCHANGED <<reg, then, lock, ier, thrEmpty, ring, history, flow, line,
                   cause>>

----------------------------------------------------------------------------
(* Writers: snx_ser_write, put_char and flush_chars, flush_buffer *)

\* Mutant: the bytes are queued and nobody starts the transmitter.
WriteNoStart(w, n) ==
    LET k == Smaller(n, Room) IN
    /\ pc[w] = "idle" /\ lock = "nobody"
    /\ accepted + n <= MaxBytes
    /\ buf' = [i \in 0 .. Size - 1 |->
                 LET j == (i + Size - head) % Size IN
                 IF j < k THEN accepted + j + 1 ELSE buf[i]]
    /\ head' = (head + k) % Size
    /\ accepted' = accepted + k
    /\ UNCHANGED <<pc, reg, then, lock, shadow, thrEmpty, tail, sent, flushed, flow,
                   line, cause>>

\* Under the lock, copy as much as there is room for; then start.
Write(w, n) ==
    LET k == Smaller(n, Room) IN
    /\ pc[w] = "idle" /\ lock = "nobody"
    /\ accepted + n <= MaxBytes
    /\ buf' = [i \in 0 .. Size - 1 |->
                 LET j == (i + Size - head) % Size IN
                 IF j < k THEN accepted + j + 1 ELSE buf[i]]
    /\ head' = (head + k) % Size
    /\ accepted' = accepted + k
    /\ Goto(w, "test")
    /\ UNCHANGED <<reg, then, lock, shadow, thrEmpty, tail, sent, flushed, flow,
                   line, cause>>

\* flush_chars after put_char, or an echo flush, calls start alone.
FlushChars(w) ==
    /\ pc[w] = "idle"
    /\ Goto(w, "test")
    /\ UNCHANGED <<reg, then, lock, shadow, thrEmpty, ring, history, flow, line,
                   cause>>

\* Mutant: only the head is reset.
FlushBufferHead(w) ==
    /\ pc[w] = "idle" /\ lock = "nobody"
    /\ head' = 0
    /\ flushed' = flushed \cup {Buffered[i] : i \in 1 .. Pending}
    /\ UNCHANGED <<pc, reg, then, lock, shadow, thrEmpty, buf, tail, accepted, sent,
                   flow, line, cause>>

FlushBuffer(w) ==
    /\ pc[w] = "idle" /\ lock = "nobody"
    /\ head' = 0 /\ tail' = 0
    /\ flushed' = flushed \cup {Buffered[i] : i \in 1 .. Pending}
    /\ UNCHANGED <<pc, reg, then, lock, shadow, thrEmpty, buf, accepted, sent,
                   flow, line, cause>>

\* __snx_ser_start: the tests, without the lock.
StartTest(t) ==
    /\ pc[t] = "test"
    /\ Goto(t, IF ~Empty /\ ~stopped /\ ~hwStopped THEN "start" ELSE "idle")
    /\ UNCHANGED <<reg, then, lock, shadow, thrEmpty, ring, history, flow, line,
                   cause>>

Start(t) ==
    /\ pc[t] = "start"
    /\ start_tx(t, "idle")
    /\ UNCHANGED <<lock, shadow, thrEmpty, ring, history, flow, line, cause>>

----------------------------------------------------------------------------
(* The tty layer stops and starts output (tty->flow_lock serialises it) *)

TtyStop ==
    /\ SoftFlow /\ pc["tty"] = "idle" /\ ~stopped
    /\ stopped' = TRUE
    /\ Goto("tty", "stop")
    /\ UNCHANGED <<reg, then, lock, shadow, thrEmpty, ring, history, hwStopped,
                   ctsFlow, line, cause>>

\* snx_ser_stop
Stop ==
    /\ pc["tty"] = "stop" /\ Acquire("tty")
    /\ stop_tx("tty", "unlock")
    /\ UNCHANGED <<shadow, thrEmpty, ring, history, flow, line, cause>>

TtyStart ==
    /\ SoftFlow /\ pc["tty"] = "idle" /\ stopped
    /\ stopped' = FALSE
    /\ Goto("tty", "test")
    /\ UNCHANGED <<reg, then, lock, shadow, thrEmpty, ring, history, hwStopped,
                   ctsFlow, line, cause>>

----------------------------------------------------------------------------
(* snx_ser_set_termios setting or clearing CRTSCTS *)

\* snx_ser_change_speed sets the flow control flag first, without the lock.
ChangeCrtscts ==
    /\ HardFlow /\ pc["termios"] = "idle"
    /\ ctsFlow' = ~ctsFlow
    /\ Goto("termios", "set_msi")
    /\ UNCHANGED <<reg, then, lock, shadow, thrEmpty, ring, history, stopped,
                   hwStopped, line, cause>>

\* sunix_ser_set_termios, under the lock: modem interrupts on or off.
SetMsi ==
    /\ pc["termios"] = "set_msi" /\ Acquire("termios")
    /\ ChangeIer("termios", IF ctsFlow THEN ier \cup {"MSI"} ELSE ier \ {"MSI"},
                 "release")
    /\ UNCHANGED <<shadow, thrEmpty, ring, history, flow, line, cause>>

ReleaseTermios ==
    /\ pc["termios"] = "release"
    /\ lock' = "nobody"
    /\ Goto("termios", IF ctsFlow THEN "idle" ELSE "restart")
    /\ UNCHANGED <<reg, then, shadow, thrEmpty, ring, history, flow, line, cause>>

\* CRTSCTS was cleared: output is not stopped by CTS any more; start, this
\* time under the lock.
Restart ==
    /\ pc["termios"] = "restart" /\ Acquire("termios")
    /\ hwStopped' = FALSE
    /\ IF ~Empty /\ ~stopped THEN start_tx("termios", "unlock")
                             ELSE Skip("termios", "unlock")
    /\ UNCHANGED <<shadow, thrEmpty, ring, history, stopped, ctsFlow, line, cause>>

----------------------------------------------------------------------------
(* The interrupt handler: sunix_ser_interrupt, sunix_ser_handle_port *)

\* IIR is read before the lock is taken; reading it as THRI clears the latch.
IsrEnter ==
    /\ pc["isr"] = "idle"
    /\ OneCpu => lock = "nobody"       \* spin_lock_irqsave masks it there
    /\ \/ thri /\ cause' = "thri" /\ thri' = FALSE
       \/ ~thri /\ ctsDelta /\ "MSI" \in hw /\ cause' = "msi" /\ UNCHANGED thri
       \/ SoftFlow /\ cause' = "rdi" /\ UNCHANGED thri
    /\ Goto("isr", "lock")
    /\ UNCHANGED <<reg, then, lock, ier, hw, thrEmpty, ring, history, flow, line>>

IsrLock ==
    /\ pc["isr"] = "lock" /\ Acquire("isr")
    /\ Goto("isr", CASE cause = "rdi" -> "rx"
                     [] cause = "thri" /\ thrEmpty -> "tx"
                     [] OTHER -> "modem")
    /\ UNCHANGED <<reg, then, shadow, thrEmpty, ring, history, flow, line, cause>>

\* sunix_ser_receive_chars, one character: START, STOP or data; there may be
\* more in the FIFO.
IsrReceive ==
    /\ pc["isr"] = "rx"
    /\ \E next \in {"rx", "push"} :
         \/ stopped' = FALSE /\ start_tx("isr", next)
         \/ stopped' = TRUE /\ stop_tx("isr", next)
         \/ next = "push" /\ Skip("isr", next) /\ UNCHANGED stopped
    /\ UNCHANGED <<lock, shadow, thrEmpty, ring, history, hwStopped, ctsFlow, line,
                   cause>>

\* tty_flip_buffer_push is called without the lock.
IsrPush ==
    /\ pc["isr"] = "push"
    /\ lock' = "nobody"
    /\ Goto("isr", "relock")
    /\ UNCHANGED <<reg, then, shadow, thrEmpty, ring, history, flow, line, cause>>

IsrRelock ==
    /\ pc["isr"] = "relock" /\ Acquire("isr")
    /\ Goto("isr", "modem")
    /\ UNCHANGED <<reg, then, shadow, thrEmpty, ring, history, flow, line, cause>>

\* sunix_ser_transmit_chars
IsrStopTx ==
    /\ pc["isr"] = "tx"
    /\ Empty \/ stopped \/ hwStopped
    /\ stop_tx("isr", "modem")
    /\ UNCHANGED <<lock, shadow, thrEmpty, ring, history, flow, line, cause>>

\* Mutant: the tail runs past the end of the buffer.
IsrTransmitNoWrap ==
    /\ pc["isr"] = "tx"
    /\ ~Empty /\ ~stopped /\ ~hwStopped
    /\ LET k == Smaller(Fifo, Pending) IN
         /\ sent' = sent \o SubSeq(Buffered, 1, k)
         /\ tail' = tail + k
    /\ thrEmpty' = FALSE /\ thri' = FALSE
    /\ Goto("isr", "modem")
    /\ UNCHANGED <<reg, then, lock, ier, hw, buf, head, accepted, flushed, flow,
                   line, cause>>

\* Mutant: the transmit interrupt is disabled with bytes left.
IsrTransmitThenStop ==
    /\ pc["isr"] = "tx"
    /\ ~Empty /\ ~stopped /\ ~hwStopped
    /\ LET k == Smaller(Fifo, Pending) IN
         /\ sent' = sent \o SubSeq(Buffered, 1, k)
         /\ tail' = (tail + k) % Size
    /\ thrEmpty' = FALSE /\ thri' = FALSE
    /\ stop_tx("isr", "modem")
    /\ UNCHANGED <<lock, ier, hw, buf, head, accepted, flushed, flow,
                   line, cause>>

IsrTransmit ==
    /\ pc["isr"] = "tx"
    /\ ~Empty /\ ~stopped /\ ~hwStopped
    /\ LET k == Smaller(Fifo, Pending) IN
         /\ sent' = sent \o SubSeq(Buffered, 1, k)
         /\ tail' = (tail + k) % Size
    /\ thrEmpty' = FALSE /\ thri' = FALSE
    /\ Goto("isr", "modem")
    /\ UNCHANGED <<reg, then, lock, ier, hw, buf, head, accepted, flushed, flow,
                   line, cause>>

\* READ_UART_MSR clears the delta bit; snx_ser_handle_cts_change.
IsrModem ==
    /\ pc["isr"] = "modem"
    /\ ctsDelta' = FALSE
    /\ IF ctsDelta /\ ctsFlow /\ hwStopped = cts
         THEN /\ hwStopped' = ~cts
              /\ IF cts THEN start_tx("isr", "unlock")
                        ELSE stop_tx("isr", "unlock")
         ELSE Skip("isr", "unlock") /\ UNCHANGED hwStopped
    /\ UNCHANGED <<lock, shadow, thrEmpty, ring, history, stopped, ctsFlow, cts,
                   cause, setting>>

----------------------------------------------------------------------------
(* The hardware *)

\* The UART has sent its FIFO.
Drain ==
    /\ ~thrEmpty
    /\ thrEmpty' = TRUE
    /\ thri' = ("THRI" \in hw)
    /\ UNCHANGED <<pc, reg, then, lock, ier, hw, ring, history, flow, line, cause>>

CtsChange ==
    /\ HardFlow
    /\ cts' = ~cts /\ ctsDelta' = TRUE
    /\ UNCHANGED <<pc, reg, then, lock, shadow, thrEmpty, ring, history, flow,
                   cause, setting>>

----------------------------------------------------------------------------
\* On one processor a thread runs its section to the end, and the interrupt
\* handler runs to its end before the thread goes on.
MayRun(t) == OneCpu /\ t # "isr" => \A u \in Threads \ {t} : pc[u] = "idle"

ThreadStep(t) ==
    MayRun(t) /\ (SetIer(t) \/ WriteIer(t) \/ Unlock(t) \/ StartTest(t) \/ Start(t))

IsrStep ==
    \/ IsrLock \/ IsrReceive \/ IsrPush \/ IsrRelock
    \/ IsrStopTx \/ IsrTransmit \/ IsrModem

WriterCall(w) ==
    /\ MayRun(w)
    /\ \/ \E n \in 1 .. MaxBytes : Write(w, n)
       \/ FlushChars(w)
       \/ FlushBuffer(w)

TtyCall == MayRun("tty") /\ (TtyStop \/ TtyStart)
TtyStep == MayRun("tty") /\ Stop
TermiosStep == MayRun("termios") /\ (SetMsi \/ ReleaseTermios \/ Restart)

Next ==
    \/ \E t \in Threads : ThreadStep(t)
    \/ \E w \in Writers : WriterCall(w)
    \/ TtyCall \/ TtyStep
    \/ MayRun("termios") /\ ChangeCrtscts
    \/ TermiosStep
    \/ IsrEnter \/ IsrStep
    \/ Drain \/ CtsChange

Spec == Init /\ [][Next]_vars

\* Threads get the processor and the lock, the interrupt is served and the
\* UART sends.  Nobody has to write, and no character has to arrive.
Fairness ==
    /\ \A w \in Writers : SF_vars(ThreadStep(w))
    /\ SF_vars(ThreadStep("tty") \/ TtyStep)
    /\ SF_vars(ThreadStep("termios") \/ TermiosStep)
    /\ SF_vars(ThreadStep("isr") \/ IsrStep) /\ SF_vars(IsrEnter /\ cause' # "rdi")
    /\ WF_vars(Drain)

FairSpec == Spec /\ Fairness

----------------------------------------------------------------------------
(* Safety *)

\* The ring and the interrupt handler keep the stream: the UART gets the
\* bytes in the order they were accepted, none twice, and every accepted byte
\* is sent, still buffered, or was flushed (snx_ser_write, transmit_chars,
\* flush_buffer).
TxStream ==
    LET Sent == {sent[i] : i \in DOMAIN sent}
        Held == {Buffered[i] : i \in 1 .. Pending}
        out == sent \o Buffered
    IN  /\ \A i, j \in DOMAIN out : i < j => out[i] < out[j]
        /\ Sent \cup Held \cup flushed = 1 .. accepted
        /\ flushed \cap (Sent \cup Held) = {}

\* No thread is inside start, stop or the interrupt handler.
Quiet == \A t \in Threads : pc[t] = "idle"

\* Output that may flow is on its way: when nothing is running, waiting bytes
\* have the transmit interrupt enabled in the UART and pending, or the UART
\* busy. With the lock around start, as snx_serial.c:547 and 549 have it in
\* comments, this would hold for every mix of threads.  As the code is, it
\* holds on one processor as long as no flow control is in use.
NoLostStart ==
    Quiet /\ ~Empty /\ ~stopped /\ ~hwStopped
      => "THRI" \in hw /\ (thri \/ ~thrEmpty)

\* When nothing is running, the shadow is what the UART was told, so the
\* tests of start_tx and stop_tx decide on the truth: on one processor as long
\* as no flow control is in use, since an interrupt that stops output comes
\* between the store and the register write of an unlocked start.
ShadowIsTrue == Quiet => ier = hw

\* With CRTSCTS set the UART reports CTS changes: on one processor the modem
\* interrupt is not lost to a start_tx that writes back an older value.
ModemIrqKept == OneCpu /\ Quiet => (ctsFlow <=> "MSI" \in hw)

----------------------------------------------------------------------------
(* What the properties need to be inductive *)

Changing == {"set_ier", "write_ier"}

\* The section a thread is in when it holds port->lock.  The register writes
\* of an unlocked start are the ones that end in "idle".
Holds(t) ==
    \/ pc[t] \in {"rx", "push", "tx", "modem", "release", "unlock"}
    \/ pc[t] \in Changing /\ then[t] # "idle"

LockInv == \A t \in Threads : Holds(t) <=> lock = t

\* Where each thread can be.
PlaceInv ==
    /\ \A w \in Writers : pc[w] \in {"idle", "test", "start"} \cup Changing
    /\ pc["tty"] \in {"idle", "test", "start", "stop", "unlock"} \cup Changing
    /\ pc["termios"] \in {"idle", "set_msi", "release", "restart", "unlock"}
                           \cup Changing
    /\ pc["isr"] \in {"idle", "lock", "rx", "push", "relock", "tx", "modem", "unlock"}
                       \cup Changing
    /\ \A w \in Writers : pc[w] \in Changing => then[w] = "idle"
    /\ pc["tty"] \in Changing => then["tty"] \in {"idle", "unlock"}
    /\ pc["isr"] \in Changing => then["isr"] \in {"rx", "push", "modem", "unlock"}
    /\ pc["termios"] \in Changing => then["termios"] \in {"release", "unlock"}

\* One processor: one thread is inside a call, and the handler has interrupted
\* it where it did not hold the lock.
OneCallInv ==
    OneCpu =>
        /\ \A t, u \in Threads \ {"isr"} :
               pc[t] # "idle" /\ pc[u] # "idle" => t = u
        /\ pc["isr"] # "idle" => lock \in {"nobody", "isr"}

\* The modem interrupt in a value of the register is what CRTSCTS asks for.
AsAsked(v) == "MSI" \in v <=> ctsFlow

\* On one processor only set_termios itself is between the flag and the
\* register; every other value on its way was computed from a good one.
MsiInv ==
    OneCpu /\ pc["termios"] # "set_msi" =>
        /\ \A t \in Threads : pc[t] \in Changing => AsAsked(reg[t])
        /\ pc["termios"] # "set_ier" => AsAsked(ier)
        /\ pc["termios"] \notin Changing => AsAsked(hw)

\* Neither flow control nor a second processor.
Plain == OneCpu /\ ~SoftFlow /\ ~HardFlow

\* Then nobody stops output, and the handler runs for an empty transmitter,
\* never while a thread is changing the register.
PlainInv ==
    /\ pc["tty"] = "idle" /\ pc["termios"] = "idle"
    /\ ~stopped /\ ~hwStopped /\ ~ctsFlow /\ ~ctsDelta
    /\ thri => "THRI" \in hw /\ thrEmpty
    /\ pc["isr"] # "idle" => cause = "thri" /\ \A w \in Writers : pc[w] \notin Changing
    /\ pc["isr"] \notin {"rx", "push", "relock"}
    /\ pc["isr"] \in Changing => then["isr"] = "modem"
    /\ pc["isr"] \in {"lock", "tx"} => thrEmpty /\ "THRI" \in hw

\* The shadow is the register but for the thread that is changing both.
ShadowInv ==
    /\ \A t \in Threads :
         /\ pc[t] = "set_ier" => ier = hw
         /\ pc[t] = "write_ier" => ier = reg[t]
    /\ (\A t \in Threads : pc[t] # "write_ier") => ier = hw
    /\ \A w \in Writers : pc[w] \in Changing => "THRI" \in reg[w] /\ "THRI" \notin hw
    /\ pc["isr"] \in Changing => "THRI" \notin reg["isr"]

\* Bytes in the buffer have the interrupt on or a writer that turns it on; the
\* interrupt that is on is pending, will be when the UART is empty, or served.
StartInv ==
    /\ ~Empty => \/ "THRI" \in hw
                 \/ \E w \in Writers : pc[w] \in {"test", "start"} \cup Changing
    /\ ~Empty => pc["isr"] \notin Changing
    /\ "THRI" \in hw => thri \/ ~thrEmpty \/ pc["isr"] \in {"lock", "tx"} \cup Changing

\* The inductive invariant: from it the properties above follow.
IInv ==
    /\ TypeOK /\ TxStream /\ PlaceInv /\ LockInv /\ OneCallInv /\ MsiInv
    /\ Plain => PlainInv /\ ShadowInv /\ StartInv

----------------------------------------------------------------------------
(* Liveness *)

\* What was written is sent, unless it is flushed or output is stopped for
\* ever.
Drains == []<>(Empty \/ stopped \/ hwStopped)

=============================================================================
