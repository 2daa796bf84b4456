----------------------------- MODULE SerialOpen -----------------------------
(***************************************************************************)
(* Opening, closing and hanging up one serial port (driver/snx_serial.c,   *)
(* kernel 4.15 or newer).                                                  *)
(*                                                                         *)
(* A file is one struct file on the port's tty.  The tty core, outside     *)
(* this repository, calls open, close and hangup with the tty lock held,   *)
(* calls close also after an open that failed, and frees the tty with its  *)
(* last file; ioctl and the interrupt handler need no tty lock.  The       *)
(* driver's own lock is state->sem, dropped while an open waits for        *)
(* carrier.  CLOCAL is clear.                                              *)
(***************************************************************************)
EXTENDS Integers, FiniteSets

CONSTANTS
    Files,  \* the struct files that may refer to the tty
    Envs    \* the environments to check, one of which is chosen in Init

(* An environment is a record of                                           *)
(*   nonBlocking  files opened with O_NONBLOCK                             *)
(*   admins       files whose opener has CAP_SYS_ADMIN                     *)
(*   setters      files that call TIOCSSERIAL                              *)
(*   signals      where a signal may arrive: "get", waiting for the        *)
(*                semaphore in open, and "wait", waiting for carrier       *)
(*   failing      TRUE: no page for the buffer, a UART that does not       *)
(*                answer, or a port whose type is not known                *)
(*   hangups      TRUE: the tty may be hung up                             *)

ASSUME SerialOpenAssumption ==
    /\ IsFiniteSet(Files)
    /\ Files \cap {"nobody", "hangup"} = {}
    /\ Envs \subseteq [nonBlocking : SUBSET Files, admins : SUBSET Files,
                       setters : SUBSET Files, signals : SUBSET {"get", "wait"},
                       failing : BOOLEAN, hangups : BOOLEAN]
    /\ \A e \in Envs : e.hangups => e.setters = {}
           \* set_info after a hangup follows a NULL tty

VARIABLES
    pc,         \* where the call of each file is
    ttyLock,    \* holder of the tty lock: a file or "hangup"
    sem,        \* holder of state->sem
    hungUp,     \* files for which tty_hung_up_p holds
    signalled,  \* files whose thread has a signal pending
    count,      \* state->count
    infoTty,    \* info->tty: "null", "live", or "stale" after the tty is freed
    flags,      \* info->flags: INIT, ACTIVE and CHECK_CD
    ier,        \* enabled interrupts of the UART: RX, MSI
    buf,        \* info->xmit.buf is allocated
    ioError,    \* TTY_IO_ERROR of the tty
    suspended,  \* port->suspended: resume will set the port up again
    carrier, dcdDelta,  \* MSR.DCD and MSR.DDCD
    refs,       \* module references taken by open and not given back
    env         \* the environment, which never changes

port == <<flags, ier, buf, ioError, dcdDelta>>
world == <<carrier, env>>
vars == <<pc, ttyLock, sem, hungUp, signalled, count, infoTty, port, suspended,
          world, refs>>

NonBlocking == env.nonBlocking
Admins == env.admins
Setters == env.setters
Signals == env.signals
Failing == env.failing
Hangups == env.hangups

\* A hangup may find the port counted or started and not ACTIVE: after an open
\* that failed, or that a signal ended.  snx_ser_hangup then leaves the count
\* and the tty as they are.
InactiveHangup == Hangups /\ (Failing \/ "wait" \in Signals)

Attached == {f \in Files : pc[f] # "closed"}
InUse == {f \in Files : pc[f] \in {"open", "ioctl"}} \ hungUp

TypeOK ==
    /\ pc \in [Files -> {"closed", "get", "startup", "wait_test", "asleep", "woken",
                         "finish", "activate", "open", "ioctl", "failed",
                         "failed_get", "closing"}]
    /\ ttyLock \in Files \cup {"nobody", "hangup"}
    /\ sem \in Files \cup {"nobody"}
    /\ hungUp \subseteq Attached
    /\ signalled \subseteq Files
    /\ count \in Nat /\ (~InactiveHangup => count <= Cardinality(Files))
    /\ infoTty \in {"null", "live", "stale"}
    /\ flags \subseteq {"INIT", "ACTIVE", "CHECK_CD"}
    /\ ier \subseteq {"RX", "MSI"}
    /\ buf \in BOOLEAN /\ ioError \in BOOLEAN /\ suspended \in BOOLEAN
    /\ carrier \in BOOLEAN /\ dcdDelta \in BOOLEAN
    /\ env \in Envs
    /\ refs \in -2 * Cardinality(Files) .. Cardinality(Files)

Init ==
    /\ pc = [f \in Files |-> "closed"]
    /\ ttyLock = "nobody" /\ sem = "nobody"
    /\ hungUp = {} /\ signalled = {}
    /\ count = 0
    /\ infoTty = "null"
    /\ flags = {} /\ ier = {} /\ buf = FALSE /\ ioError = FALSE
    /\ suspended = FALSE
    /\ carrier = FALSE /\ dcdDelta = FALSE
    /\ refs = 0
    /\ env \in Envs

Goto(f, loc) == pc' = [pc EXCEPT ![f] = loc]

----------------------------------------------------------------------------
(* snx_ser_startup and snx_ser_shutdown *)

\* snx_ser_change_speed, with CLOCAL clear and a tty to take it from.
ChangeSpeed(withTty) ==
    IF withTty
      THEN flags' = flags \cup {"CHECK_CD", "INIT"} /\ ier' = {"RX", "MSI"}
      ELSE flags' = flags \cup {"INIT"} /\ ier' = {"RX"}

\* ok tells whether startup returns 0, which it does for an administrator
\* even when the UART does not answer.  Probing the UART reads MSR, and so
\* forgets a change of the carrier.
Startup(f, initHw, ok) ==
    \/ /\ "INIT" \in flags /\ ok
       /\ UNCHANGED port
    \/ /\ "INIT" \notin flags /\ ok
       /\ ChangeSpeed(initHw /\ infoTty # "null")
       /\ buf' = TRUE /\ ioError' = FALSE /\ dcdDelta' = FALSE
    \/ /\ Failing /\ "INIT" \notin flags /\ (ok \/ ~buf)  \* type or page
       /\ ioError' = TRUE
       /\ UNCHANGED <<flags, ier, buf, dcdDelta>>
    \/ /\ Failing /\ "INIT" \notin flags /\ ok = (f \in Admins)
       /\ ioError' = TRUE /\ buf' = TRUE /\ dcdDelta' = FALSE
       /\ UNCHANGED <<flags, ier>>

\* Mutant: the interrupts of the UART stay enabled.
ShutdownKeepsIrq(ttyStays) ==
    /\ flags' = flags \ {"INIT", "ACTIVE"}
    /\ IF "INIT" \in flags THEN ier' = ier /\ buf' = FALSE
                           ELSE UNCHANGED <<ier, buf>>
    /\ ioError' = (ttyStays /\ (ioError \/ "INIT" \in flags))
    /\ UNCHANGED dcdDelta

\* Mutant: INITIALIZED stays set.
ShutdownKeepsInit(ttyStays) ==
    /\ flags' = flags \ {"ACTIVE"}
    /\ IF "INIT" \in flags THEN ier' = {} /\ buf' = FALSE
                           ELSE UNCHANGED <<ier, buf>>
    /\ ioError' = (ttyStays /\ (ioError \/ "INIT" \in flags))
    /\ UNCHANGED dcdDelta

\* Clears ACTIVE too, as both callers do after it.  A tty that goes away
\* takes TTY_IO_ERROR with it.
Shutdown(ttyStays) ==
    /\ flags' = flags \ {"INIT", "ACTIVE"}
    /\ IF "INIT" \in flags THEN ier' = {} /\ buf' = FALSE
                           ELSE UNCHANGED <<ier, buf>>
    /\ ioError' = (ttyStays /\ (ioError \/ "INIT" \in flags))
    /\ UNCHANGED dcdDelta

----------------------------------------------------------------------------
(* snx_ser_open *)

\* The tty core attaches the file and calls open.
Open(f) ==
    /\ pc[f] = "closed" /\ ttyLock = "nobody"
    /\ ttyLock' = f
    /\ Goto(f, "get")
    /\ UNCHANGED <<sem, hungUp, signalled, count, infoTty, port, suspended, world,
                   refs>>

\* snx_ser_get, and what open does before startup.
Get(f) ==
    /\ pc[f] = "get" /\ sem = "nobody"
    /\ sem' = f
    /\ count' = count + 1
    /\ suspended' = TRUE
    /\ infoTty' = "live"
    /\ Goto(f, "startup")
    /\ UNCHANGED <<ttyLock, hungUp, signalled, port, world, refs>>

\* down_interruptible fails while an ioctl of a file in use, TIOCMGET say,
\* holds the semaphore: open returns without a count and without a module
\* reference.
GetInterrupted(f) ==
    /\ "get" \in Signals
    /\ refs + Cardinality(Attached) > 0           \* bound: references lost
    /\ pc[f] = "get" /\ InUse # {}
    /\ ttyLock' = "nobody"
    /\ Goto(f, "failed_get")
    /\ UNCHANGED <<sem, hungUp, signalled, count, infoTty, port, suspended, world,
                   refs>>

\* Mutant: block_til_ready leaves the opener on the count.
CountOffNot == UNCHANGED count

\* block_til_ready takes the opener off the count while it waits.
CountOff == count' = count - 1

TakeModule == refs' = refs + 1

\* A failed open keeps its count; the close that follows takes it back.
OpenStartup(f) ==
    /\ pc[f] = "startup"
    /\ \/ /\ Startup(f, FALSE, TRUE)
          /\ CountOff
          /\ Goto(f, "wait_test")
          /\ UNCHANGED <<sem, ttyLock, refs>>
       \/ /\ Startup(f, FALSE, FALSE)
          /\ sem' = "nobody" /\ ttyLock' = "nobody"
          /\ TakeModule
          /\ Goto(f, "failed")
          /\ UNCHANGED count
    /\ UNCHANGED <<hungUp, signalled, infoTty, suspended, world>>

\* snx_ser_block_til_ready: the tests of one turn of the loop, the last of
\* which reads MSR.
WaitTest(f) ==
    /\ pc[f] = "wait_test"
    /\ LET done == \/ f \in hungUp \/ infoTty = "null"
                   \/ "INIT" \notin flags
                   \/ f \in NonBlocking \/ ioError
       IN
       /\ dcdDelta' = (dcdDelta /\ done)
       /\ \/ (done \/ carrier) /\ Goto(f, "finish") /\ UNCHANGED sem
          \/ ~(done \/ carrier) /\ Goto(f, "asleep") /\ sem' = "nobody"
    /\ UNCHANGED <<ttyLock, hungUp, signalled, count, infoTty, flags, ier, buf,
                   ioError, suspended, world, refs>>

Signal(f) ==
    /\ "wait" \in Signals /\ pc[f] = "asleep"
    /\ signalled' = signalled \cup {f}
    /\ Goto(f, "woken")
    /\ UNCHANGED <<ttyLock, sem, hungUp, count, infoTty, port, suspended, world, refs>>

Woken(f) ==
    /\ pc[f] = "woken" /\ sem = "nobody"
    /\ sem' = f
    /\ Goto(f, IF f \in signalled THEN "finish" ELSE "wait_test")
    /\ UNCHANGED <<ttyLock, hungUp, signalled, count, infoTty, port, suspended, world,
                   refs>>

\* The end of block_til_ready; open takes its module reference either way.
Finish(f) ==
    /\ pc[f] = "finish"
    /\ LET ok == f \notin signalled \cup hungUp /\ infoTty # "null" IN
       /\ count' = count + 1
       /\ \/ ok /\ Goto(f, "activate") /\ UNCHANGED <<refs, ttyLock>>
          \/ ~ok /\ Goto(f, "failed") /\ TakeModule /\ ttyLock' = "nobody"
    /\ sem' = "nobody"
    /\ signalled' = signalled \ {f}
    /\ UNCHANGED <<hungUp, infoTty, port, suspended, world>>

\* Without state->sem: NORMAL_ACTIVE, and update_termios unless the tty is
\* in error.
Activate(f) ==
    /\ pc[f] = "activate"
    /\ IF "ACTIVE" \in flags THEN UNCHANGED <<flags, ier>>
       ELSE IF ioError THEN flags' = flags \cup {"ACTIVE"} /\ UNCHANGED ier
       ELSE /\ flags' = flags \cup {"ACTIVE", "CHECK_CD"}
            /\ ier' = ier \cup {"MSI"}
    /\ TakeModule
    /\ ttyLock' = "nobody"
    /\ Goto(f, "open")
    /\ UNCHANGED <<sem, hungUp, signalled, count, infoTty, buf, ioError, dcdDelta,
                   suspended, world>>

----------------------------------------------------------------------------
(* snx_ser_set_info (TIOCSSERIAL), which starts a port that is not up *)

\* The tty core lets a file that is not hung up in; then it waits for the
\* semaphore.
SetInfo(f) ==
    /\ f \in Setters /\ pc[f] = "open" /\ f \notin hungUp
    /\ Goto(f, "ioctl")
    /\ UNCHANGED <<ttyLock, sem, hungUp, signalled, count, infoTty, port, suspended,
                   world, refs>>

Users == count + Cardinality({f \in Files :
                    pc[f] \in {"wait_test", "asleep", "woken", "finish"}})

\* It starts a port that is not up; it sets a custom speed on one that is; and
\* for an administrator who is the only user it moves the port to another
\* address, where startup may fail.
SetInfoRun(f) ==
    /\ pc[f] = "ioctl" /\ sem = "nobody"
    /\ \/ \E ok \in BOOLEAN : Startup(f, TRUE, ok)
       \/ /\ "INIT" \in flags
          /\ ChangeSpeed(infoTty # "null")
          /\ UNCHANGED <<buf, ioError, dcdDelta>>
       \/ /\ Failing /\ "INIT" \in flags /\ f \in Admins /\ Users <= 1
          /\ flags' = flags \ {"INIT"} /\ ier' = {}
          /\ buf' \in BOOLEAN /\ ioError' = TRUE /\ dcdDelta' \in {dcdDelta, FALSE}
    /\ Goto(f, "open")
    /\ UNCHANGED <<ttyLock, sem, hungUp, signalled, count, infoTty, suspended,
                   world, refs>>

----------------------------------------------------------------------------
(* snx_ser_close and snx_ser_hangup *)

Close(f) ==
    /\ pc[f] \in {"open", "failed", "failed_get"} /\ ttyLock = "nobody"
    /\ ttyLock' = f
    /\ Goto(f, "closing")
    /\ UNCHANGED <<sem, hungUp, signalled, count, infoTty, port, suspended, world,
                   refs>>

\* The count close works with: corrected when the tty has one file left.
Corrected == IF Cardinality(Attached) = 1 THEN 1 ELSE count

Skips(f) == f \in hungUp

\* Mutant: the port is shut down with one user left.
LastUserEarly == Corrected <= 2

LastUser == Corrected <= 1

\* Mutant: a closed port stays marked for resume.
UnmarkNot == UNCHANGED suspended

Unmark == suspended' = FALSE

\* Mutant: the close of a file that was hung up keeps its module reference.
GiveModuleUp(f) == refs' = IF f \in hungUp THEN refs ELSE refs - 1

GiveModule(f) == refs' = refs - 1

\* The last step is the tty core's: the file is detached, and the tty freed
\* with its last file.
CloseRun(f) ==
    /\ pc[f] = "closing" /\ sem = "nobody"
    /\ LET last == Attached = {f} IN
       \/ /\ Skips(f)
          /\ infoTty' = IF last /\ infoTty = "live" THEN "stale" ELSE infoTty
          /\ ioError' = (ioError /\ ~last)
          /\ UNCHANGED <<count, flags, ier, buf, dcdDelta, suspended>>
       \/ /\ ~Skips(f) /\ ~LastUser
          /\ count' = Corrected - 1
          /\ UNCHANGED <<port, suspended, infoTty>>
       \/ /\ ~Skips(f) /\ LastUser
          /\ count' = 0
          /\ Shutdown(~last)
          /\ Unmark
          /\ infoTty' = "null"
    /\ GiveModule(f)
    /\ hungUp' = hungUp \ {f}
    /\ ttyLock' = "nobody"
    /\ Goto(f, "closed")
    /\ UNCHANGED <<sem, signalled, world>>

\* The tty core marks every file, then calls the driver.
Hangup ==
    /\ Hangups /\ ttyLock = "nobody" /\ Attached # {}
    /\ ttyLock' = "hangup"
    /\ hungUp' = Attached
    /\ UNCHANGED <<pc, sem, signalled, count, infoTty, port, suspended, world, refs>>

\* Mutant: the count survives a hangup.
ForgetFilesNot == UNCHANGED count

ForgetFiles == count' = 0

\* snx_ser_hangup
HangupRun ==
    /\ ttyLock = "hangup" /\ sem = "nobody"
    /\ IF "ACTIVE" \in flags
         THEN /\ Shutdown(TRUE)
              /\ ForgetFiles
              /\ infoTty' = "null"
         ELSE UNCHANGED <<port, count, infoTty>>
    /\ ttyLock' = "nobody"
    /\ UNCHANGED <<pc, sem, hungUp, signalled, suspended, world, refs>>

----------------------------------------------------------------------------
(* The carrier, the interrupt handler, and resume *)

\* The carrier is lost only where the line may be hung up.
CarrierChange ==
    /\ Hangups \/ ~carrier
    /\ carrier' = ~carrier /\ dcdDelta' = TRUE
    /\ UNCHANGED <<env, pc, ttyLock, sem, hungUp, signalled, count, infoTty, flags, ier,
                   buf, ioError, suspended, refs>>

\* An interrupt for a modem status change, or for received data, reads MSR:
\* sunix_ser_check_modem_status and snx_ser_handle_dcd_change.  Its tty_hangup
\* of a lost carrier schedules Hangup.
Interrupt ==
    /\ dcdDelta
    /\ ier # {}
    /\ dcdDelta' = FALSE
    /\ pc' = [f \in Files |->
                IF pc[f] = "asleep" /\ carrier /\ "CHECK_CD" \in flags
                  THEN "woken" ELSE pc[f]]
    /\ UNCHANGED <<ttyLock, sem, hungUp, signalled, count, infoTty, flags, ier, buf,
                   ioError, suspended, world, refs>>

\* snx_resume_one, while every other thread is frozen.
Resume ==
    /\ suspended /\ infoTty = "live"
    /\ \/ /\ "INIT" \in flags \* startup does nothing, update_termios sets the speed
          /\ IF ioError THEN UNCHANGED <<flags, ier>> ELSE ChangeSpeed(TRUE)
          /\ UNCHANGED <<buf, ioError, dcdDelta>>
       \/ /\ "INIT" \notin flags
          /\ ChangeSpeed(TRUE) /\ buf' = TRUE /\ ioError' = FALSE /\ dcdDelta' = FALSE
       \/ Startup("nobody", FALSE, FALSE)
    /\ UNCHANGED <<pc, ttyLock, sem, hungUp, signalled, count, infoTty, suspended,
                   world, refs>>

----------------------------------------------------------------------------
Step(f) ==
    \/ Get(f) \/ OpenStartup(f) \/ WaitTest(f) \/ Woken(f) \/ Finish(f)
    \/ Activate(f) \/ SetInfoRun(f) \/ CloseRun(f)

Next ==
    \/ \E f \in Files : Step(f) \/ Open(f) \/ Close(f) \/ SetInfo(f)
                         \/ Signal(f) \/ GetInterrupted(f)
    \/ Hangup \/ HangupRun
    \/ CarrierChange \/ Interrupt \/ Resume

Spec == Init /\ [][Next]_vars

----------------------------------------------------------------------------
(* Safety.  A property an environment is known to break is stated of the    *)
(* other environments.                                                      *)

\* Unless an open is interrupted before it counted itself, or a hangup leaves
\* the count as it is: between calls state->count is the number of files that
\* are not hung up, those of failed opens included.
CountMatches ==
    "get" \notin Signals /\ ~InactiveHangup /\ ttyLock = "nobody" =>
        count = Cardinality(Attached \ hungUp)

\* The close of the last file finds itself, and nobody else, on the count
\* (snx_ser_close, "bad serial port count; tty->count is 1, state->count is").
NoBadCount ==
    \A f \in Files : pc[f] = "closing" /\ Attached = {f} /\ ~Skips(f) => count = 1

\* Where startup does not fail, a file in use has the port up: started, not in
\* error, with its buffer and its receive interrupt, and with the tty the
\* interrupt handler passes data to.  No close of another file takes it down.
PortUpWhileUsed ==
    ~Failing /\ "get" \notin Signals /\ InUse # {} /\ ttyLock # "hangup" =>
        /\ "INIT" \in flags /\ ~ioError /\ buf /\ "RX" \in ier
        /\ infoTty = "live"

\* With interrupts enabled in the UART there is a live tty, which
\* receive_chars follows without a test; not so after a hangup that left the
\* port up.
InterruptsNeedTty ==
    "get" \notin Signals /\ ~InactiveHangup =>
        (ier # {} => infoTty = "live")

\* A port without files has no interrupts enabled (README:74, "Data coming but
\* device node didn't opened, when open, system maybe crash").
QuietWhenClosed == Attached = {} => ier = {}

\* When the last file is gone the port is down, unless a hangup left it up.
DownWhenUnused ==
    ~InactiveHangup /\ Attached = {} =>
        "INIT" \notin flags /\ ier = {} /\ count = 0

\* snx_resume_one sets up the ports marked suspended, through info->tty,
\* without a test.  A hangup leaves the mark.
ResumeNeedsTty == ~Hangups /\ suspended => infoTty = "live"

\* Open and close take and give back one module reference per file.
RefsMatch ==
    "get" \notin Signals =>
        refs = Cardinality({f \in Files : pc[f] \in {"open", "ioctl", "failed",
                                                    "closing"}})

----------------------------------------------------------------------------
(* What the properties need to be inductive *)

Opening == {"get", "startup", "wait_test", "asleep", "woken", "finish", "activate"}
Started == {"wait_test", "asleep", "woken", "finish", "activate"}

\* Whose turn it is: an open or a close has the tty lock from its first step
\* to its last, and the semaphore where it does not wait.
LockInv ==
    \A f \in Files :
        /\ pc[f] \in Opening \cup {"closing"} <=> ttyLock = f
        /\ pc[f] \in {"startup", "wait_test", "finish"} <=> sem = f

\* What only some environments do, and what a hangup finds.
EnvInv ==
    /\ ttyLock = "hangup" => hungUp = Attached /\ Attached # {}
    /\ ttyLock = "hangup" \/ hungUp # {} => Hangups
    /\ signalled # {} => "wait" \in Signals
    /\ \A f \in Files :
         /\ pc[f] \in Opening => f \notin hungUp
         /\ pc[f] = "ioctl" => f \in Setters
         /\ pc[f] = "failed_get" => "get" \in Signals

\* The port and the file that is being opened.
PortInv ==
    /\ "INIT" \in flags /\ ~Failing => buf /\ ~ioError /\ "RX" \in ier
    /\ ier # {} => "INIT" \in flags
    /\ \A f \in Files :
         /\ pc[f] \in Started => "INIT" \in flags \/ (Failing /\ ioError)
         /\ pc[f] \in Opening \ {"get"} => infoTty = "live"

\* The files that are on the count when no file was interrupted before Get.
Counted == {f \in Files \ hungUp :
              pc[f] \notin {"closed", "get", "wait_test", "asleep", "woken", "finish"}}

CountInv ==
    /\ \A f \in Files : pc[f] = "startup" => count > 0
    /\ "get" \notin Signals => count >= Cardinality(Counted)
    /\ ~InactiveHangup /\ ttyLock # "hangup" => count <= Cardinality(Counted)

\* The files whose close gives a module reference back.  Those that took none
\* make the difference.
Givers == {f \in Files : pc[f] \in {"open", "ioctl", "failed", "failed_get", "closing"}}

RefsInv ==
    /\ Cardinality(Givers) - refs \in 0 .. 2 * Cardinality(Files)
    /\ "get" \notin Signals => refs = Cardinality(Givers)

\* A port somebody uses is up.
UseInv ==
    "get" \notin Signals /\ InUse # {} =>
        infoTty = "live" /\ (Failing \/ "INIT" \in flags)

Down == "INIT" \notin flags /\ infoTty # "live"

\* A port nobody has open is down; and so is, where the line can be hung up, a
\* port that is not ACTIVE, unless a file is on its way to open it.
DownInv ==
    ~InactiveHangup =>
        /\ Attached \subseteq hungUp /\ ttyLock # "hangup" => Down
        /\ \/ ~Hangups \/ "ACTIVE" \in flags
           \/ \E f \in Files : pc[f] \in Opening \ {"get"}
           \/ Down /\ count = 0

\* A port that is up has a tty to pass data to.
TtyInv == "get" \notin Signals /\ ~InactiveHangup /\ "INIT" \in flags => infoTty = "live"

\* The inductive invariant: from it the properties above follow.
IInv ==
    /\ TypeOK /\ LockInv /\ EnvInv /\ PortInv /\ CountInv /\ RefsInv
    /\ UseInv /\ DownInv /\ TtyInv /\ ResumeNeedsTty

=============================================================================
