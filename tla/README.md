# TLA+ models of the SUNIX multi-I/O card driver

The program is a Linux kernel driver (`src/driver`) for PCI cards with serial
and parallel ports, and four small user tools. The driver carries its own
copies of the kernel's serial core, parport arbitration, IEEE 1284 layer, `lp`
and `ppdev` drivers, adapted to the card; those copies are where the state
machines are and what this directory models.

The source has branches for kernels from 2.4 to 5.x. The modules follow the
branches of the newest kernels (`LINUX_VERSION_CODE` 4.15 and later).

## 1. Inventory

### Parallel side

| component | state | operations | interacts with |
|---|---|---|---|
| Arbitration (`snx_share.c:580-975`) | per port: owner `cad`, its lock, doubly linked waitlist, device list, `PARPORT_FLAG_EXCL`; per device: `waiting` bits, list links, wait queue, saved registers | register, unregister, claim, claim_or_block, release, yield | called by lp and ppdev from process context; a releaser claims on behalf of a waiter and wakes it |
| Registry (`snx_share.c:120-580`) | port lists, driver list, port numbers, reference counts | register_port, announce, remove, put, find, register_driver, unregister_driver | attach and detach callbacks of lp and ppdev |
| IEEE 1284 waiting (`snx_ieee1284.c`) | a semaphore per port, a timer, the phase and mode | wait_event, poll, wait for peripheral, negotiate, terminate | timer callback, interrupt handler |
| Transfers (`snx_ieee1284_ops.c`) | none of their own | compatibility write, EPP read and write | give up the port while the printer is busy |
| ppdev (`snx_ppdev.c`) | per open file: flags (CLAIMED, EXCL), saved mode and phase, device, interrupt count | open, ioctl, read, write, poll, release, interrupt | arbitration, transfers |
| lp (`snx_lp.c`) | per printer: BUSY, CLAIMED and PREEMPT bits, mutex | open, release, read, write, ioctl, preempt | arbitration, transfers |
| Hardware (`snx_parallel.c`, inline functions of `snx_common.h`) | control register and its shadow, probes | init_state, save_state, restore_state, control functions | arbitration saves and restores it at every change of owner |

### Serial side

| component | state | operations | interacts with |
|---|---|---|---|
| Transmit (`snx_serial.c`) | ring buffer, interrupt enable register and shadow `sp->ier`, `tty->stopped`, `tty->hw_stopped`, `x_char` | write, put_char, flush_chars, flush_buffer, stop, start, send_xchar | writers in process context, tty layer, interrupt handler, `port->lock` |
| Open and close | `state->count`, `state->sem`, `info->flags`, `blocked_open`, the ring's page | open, block_til_ready, startup, close, wait_until_sent, hangup, shutdown | tty layer, carrier changes from the interrupt handler, tasklet |
| Line settings | termios, divisor, `lcr`, `mcr`, `mctrl` | set_termios, set_mctrl, break, set_serial_info | process context under `state->sem` or `port->lock` |
| Board configuration | registers of four ports and six GPIO channels, EEPROM, flash, cached port type | SET_TYPE, SET_ACS, GPIO values and defaults | any thread with a serial device open; modem control goes by the cached type |
| Receive and modem status | `icount`, `delta_msr_wait`, `ldisc_stop_rx` | receive_chars, check_modem_status, throttle, unthrottle, TIOCMIWAIT | interrupt handler, process context |

### Common

| component | state | operations |
|---|---|---|
| Interrupt entry (`snx_main.c`, `sunix_ser_interrupt`) | per board: vector masks, handlers | dispatch, bounded service loop |
| Module init and exit (`snx_main.c`) | which of the seven stages is done | init with its goto chain, exit, suspend, resume |
| Board tables, PCI resources | constants | none that changes state later |
| procfs (`procfs.c`) | none built | none |
| Tools (`snxterm`, `snxdump`, `snxtest`, `snxmknod`) | one thread each | command line programs |

### What is hard, and what makes each component correct

* **Arbitration.** Each port field has a lock, but `release` walks the waitlist
  and grants the port outside any lock, `claim` tests for the owner before it
  takes the lock, and registration tests the exclusive flag before it sleeps in
  `kmalloc`. Correct: one owner; a client that was told it has the port has it;
  waiters are served in order, can be woken, and are woken; no pointer to a freed
  device is followed.
* **Transmit.** `snx_ser_start` runs without `port->lock` (the calls are comments)
  against the interrupt handler, which switches the transmit interrupt off when
  it finds nothing to do. Correct: the byte stream is kept; whatever may be sent
  is sent; shadow and register agree.
* **Open and close.** Counts are changed with the semaphore dropped while an open
  waits for carrier; hangup and close race. Correct: the port is initialised while
  somebody uses it and shut down once when nobody does.
* **ppdev and lp.** Flags in the file say whether the port is claimed; threads
  sharing a file, interrupted claims and ignored results break that. Correct: the
  registers are touched by the owner only, and a mode is restored to its owner.
* **Board configuration.** No lock: shared registers are read, changed and
  written back, and saved through a controller that may be busy, fail or stay
  busy. Correct: cache, registers and EEPROM say the same of a port, and
  whatever a call is not about stays.
* **Waiting.** A timer and a signal race for one semaphore; modem status
  changes race with the snapshot TIOCMIWAIT compares with. Correct: no event is
  lost, no stale one is taken for a new one.
* **Init.** The cards must be found once and their ports get places of their
  own, whatever cards are together; every failure path must undo what was done,
  and only that.

`PROJECT.json` lists the hazards one by one with their lines and properties.

## 2. Plan

In order of importance; each module is a state machine over CONSTANTS with named
assumptions, one action per operation or per unlocked access, without RECURSIVE
operators, so that it can be proved about.

| | module | contents | abstract specification or main property | status |
|---|---|---|---|---|
| 1 | `ParportShare` | arbitration | `PortLock` (refinement) | done; proved |
| 2 | `SerialTx` | transmit, flow control, interrupt enable register | stream order, no stall | done; safety proved |
| 3 | `SerialOpen` | open, block_til_ready, close, hangup, shutdown, TIOCSSERIAL, resume | counts match files, port up while used, no interrupt without a tty | done; proved |
| 4 | `PortClients` | ppdev files and lp with the compatibility and EPP transfers, saved and live registers, on a lock as `PortLock` promises it | who acts owns; registers and modes are each client's own | done; proved |
| 5 | `CardTable`, `CardProbe` | known cards, probing, places of the ports | every known card once, ports apart | done; ports apart proved |
| 6 | `PortRegistry` | numbers, references, attach and detach | references match their holders | done; proved with 7 |
| 7 | `DriverInit` | loading with every failure, unloading, on top of 5 and 6 | what a failure leaves, complete when up | done; proved |
| 8 | `BoardConfig` | SET_TYPE, SET_ACS, GPIO defaults, GPIO registers that SET_TYPE shares | three copies of a port's type agree; flash kept | done; proved |

What is left of the code is in section 8. Of the properties the passing runs
check, all but one invariant and the two liveness properties are theorems
(section 6). None of the modules declares a RECURSIVE operator.

## 3. Modules

### ParportShare

Each device structure has one thread. `pc` is the thread's place in the code; a
step is one locked section or one unlocked access, so two threads interleave
wherever the code lets them. With `Preemptive = FALSE` a thread keeps the CPU
until it sleeps or returns (one CPU without kernel preemption).

| variable | code |
|---|---|
| `cad` | `port->cad` |
| `giving`, `stage` | the waiter a thread inside `cad_lock` is handing the port to, and which of the hand-over's writes comes next |
| `waiting[d]` | `dev->waiting`, as the set of its bits |
| `waithead`, `waittail`, `waitprev`, `waitnext` | the waitlist pointers |
| `registered`, `excl` | `port->devices`, `PARPORT_FLAG_EXCL` |
| `walk[d]` | `pd` in `sunix_parport_release` |
| `sig[d]` | a pending signal |
| `claim[d]` | what the client above believes: `held` after success, `intr` when it goes on after -EINTR |
| `goal[d]` | which call the claim or the release belongs to |

`RegisterCheck` and `RegisterLink` are `register_device`; `Claim`,
`StartClaim`, `ClaimCheck`, `ClaimLock` (`Grant` or `Block`), `ClaimGive`, `BlockCheck`,
`WaitTest`, `Signal`, `ClaimDone` are `claim_or_block`; `Release`,
`ReleaseLock`, `ReleaseHead`, `ReleaseWalk`, `ReleaseClaim`, `ReleaseGrant`,
`ReleaseGive`, `ReleaseWake` are `release`; `Yield` and `AfterRelease` are `yield_blocking`;
`Unregister`, `UnregisterDevices`, `UnregisterWaitlist` are `unregister_device`.
The waiter reads `dev->waiting` and `port->cad` without `cad_lock`
(`snx_share.c:899`, 902, 919), so with `Preemptive = TRUE` the locked body of
`sunix_parport_claim` for a queued device is not one step but five: the decision
(`GiveStart`), `waiting = 0` (`GiveClear`, line 831), the list's ends and
neighbours under `waitlist_lock` (`GiveUnlink`), the device's own links
(`GiveLinks`), and `port->cad = dev` (`GiveOwn`, 852). In between the waiter may
leave, return success and even enter `release`. On one CPU without preemption
nobody can look, and it is one step (`Grant`).
The memory of an unregistered device keeps its contents, as `kfree` leaves it
until reuse. No client has a wakeup callback and lp's preempt callback always
refuses, so those branches do not appear. Clients: lp ignores the result of a
claim (`LpDevs`), ppdev believes it.

### PortLock

The promise: an owner, and the set of clients who know they hold the port. The
two are apart because `release` assigns the port to a sleeping waiter.
`ParportShare` implements it with `owner <- Promised` and `holders <- {d :
claim[d] = "held"}`. `Promised` is `cad`, or during a hand-over the waiter it is
for: the abstract lock is taken when the thread inside `cad_lock` decides. With
`cad` itself the refinement is false on more than one CPU, because a client is
told before `cad` names it.

### SerialTx

| variable | code |
|---|---|
| `buf`, `head`, `tail` | `info->xmit` |
| `ier`, `hw` | `sp->ier` and the register the UART has |
| `thri`, `thrEmpty` | the UART's latched transmit interrupt, `LSR.THRE` |
| `reg[t]`, `then[t]` | the value a thread computed in start_tx or stop_tx and where it continues |
| `lock` | `port->lock` |
| `stopped`, `hwStopped`, `ctsFlow` | `tty->stopped`, `tty->hw_stopped`, `SNX_UIF_CTS_FLOW` |
| `cts`, `ctsDelta` | MSR |
| `accepted`, `sent`, `flushed` | history: bytes are numbered as they are taken |

`start_tx` and `stop_tx` read `ier`, `SetIer` stores it, `WriteIer` writes the
register (with the value stored, or read again: the compiler may do either).
`Write`, `FlushChars`, `FlushBuffer`, `StartTest`, `Start` are the writers;
`TtyStop`, `Stop`, `TtyStart` the tty layer; `ChangeCrtscts`, `SetMsi`,
`ReleaseTermios`, `Restart` are `set_termios`; the `Isr` actions are
`sunix_ser_interrupt` and `handle_port` on one port. `Drain`, `CtsChange` and
`WriteRegister` are the 16C550 as the code uses it: enabling THRI with an empty
transmitter raises the interrupt, reading IIR takes it.

`OneCpu = TRUE`: a thread's section runs to its end, only the interrupt handler
comes in between, and not while the lock is held. `FALSE`: SMP.

CLOCAL is taken as set and HARDPPS as clear, so MSI follows CRTSCTS alone.
`x_char` and the SUN1699 chip's workaround (which enables THRI on a spurious
interrupt) are left out.

### SerialOpen

Each file has one thread that opens it, may call TIOCSSERIAL and closes it; one
more actor hangs the tty up. `pc` is the place of that call; a step is a section
under `state->sem`, or the part of open after it.

| variable | code |
|---|---|
| `ttyLock` | the tty core's per-tty lock, held over open, close and hangup |
| `sem` | `state->sem`, where it is held from one step to the next |
| `hungUp` | files for which `tty_hung_up_p` holds |
| `count`, `infoTty`, `flags` | `state->count`, `info->tty`, `info->flags` |
| `ier`, `buf`, `ioError` | the enabled interrupts, `info->xmit.buf`, `TTY_IO_ERROR` |
| `suspended` | `port->suspended` |
| `carrier`, `dcdDelta` | DCD and DDCD of MSR |
| `refs` | module references taken and given back |

`Get` is `snx_ser_get` with the assignments up to startup, `GetInterrupted` its
interrupted `down_interruptible`; `OpenStartup`, `WaitTest`, `Woken`, `Finish`
are startup and `snx_ser_block_til_ready`; `Activate` is the rest of open.
`CloseRun`, `HangupRun`, `SetInfoRun`, `Resume` are the handlers of their names;
`Open`, `Close`, `SetInfo`, `Hangup` the tty core's part of the calls.

What the code relies on and does not contain: the tty core holds its lock over
open, close and hangup (an open that sleeps in this driver keeps it), calls close
also for an open that failed, replaces the operations of a hung-up file, and
frees the tty with its last file. CLOCAL is clear, so that opens do wait.
Startup may fail for want of a page, of an answer from the UART or of a port
type, and then leaves `TTY_IO_ERROR` set; for an administrator it succeeds all
the same. Not modelled: the time close spends in `wait_until_sent`, the -ENXIO
and -ENOMEM paths of `snx_ser_get`, the tasklet.

An environment (`Envs`) says which files are non-blocking or belong to an
administrator, which call TIOCSSERIAL, where signals arrive, whether opens fail
and whether the line is hung up; `Init` chooses one, so one run covers several.
Two things that break what follows are named by operators: a file interrupted in
`snx_ser_get` (`"get" \in Signals`) and a hangup that finds the port not ACTIVE
while files are on it (`InactiveHangup`: `snx_ser_hangup` then does nothing).
In the same way a behaviour of `SerialTx` has one of `Settings`: XON/XOFF, CTS
flow control, one processor or more.

### PortClients

Two files of ppdev and the printer on one port. Each client is one thread; `pc`
is its place, `job` the device its claim or release is about and where it goes
on afterwards. The arbitration is the one `ParportShare` is shown to have: an
owner and a queue; release keeps its two unlocked points, before the registers
are saved and before the port is handed on. With `"smp"` in the setting the
hand-over is in three steps (`StartGive`, `GiveOwner`, `GiveRegisters`): the
waiter's bits, the owner, the registers. The waiter may go on from the first of
them, drive the port while `port->cad` is still NULL (a transfer goes through
that pointer and dies), and have its registers written over by the last.

| variable | code |
|---|---|
| `owner`, `queue` | `port->cad`, the waitlist |
| `coming` | the waiter that a release inside `cad_lock` is handing the port to |
| `dir`, `saved[d]` | the direction bit of `priv->ctr`, and of `dev->state` |
| `mode`, `fmode[f]`, `fsaved[f]` | `port->ieee1284.mode`, `pp->state.mode`, `pp->saved_state.mode` |
| `registered`, `claimed` | `pp->pdev`; `SNX_PP_CLAIMED` and `SNX_LP_PARPORT_CLAIMED` |
| `wdev` | `dev` in the compatibility write: `port->cad` when it started |
| `preempt` | `SNX_LP_PREEMPT_REQUEST` |
| `mine`, `asked`, `cut`, `mixed` | history: what a client left in its registers, who asked lp, whether an EINTR was ignored, whether two files lent the port in turn |

`StartClaim`, `Claim`, `Refuse`, `Woken`, `Interrupted` are claim_or_block,
`StartRelease`, `Save`, `Hand`, `Leave` release, `GiveTo` and the three steps above
the hand-over and the restoring of registers. The
actions whose names begin with `Pp` and `Lp` are the entry points of the two
drivers, `Byte...` and `EppTransfer` the transfers.

Of the port's registers the direction bit is kept, because it is the one that
can damage: it decides which side drives the data lines. After an ignored EINTR
(`cut`) a device that is still in the list does not claim again: what that does
to the list is `ParportShare`'s subject. `Unlisted` is the waitlist part of
`unregister_device`. Left out: phases, data and other
control lines, the timer and semaphore of `wait_event`, `SNX_PP_EXCL` (in
`ParportShare`), the lp flags that only kernels before 2.6.36 can set, the lp
console, two threads on one file.

### CardTable, CardProbe, PortRegistry, DriverInit

`CardTable` is the table of known cards, each family's rows by the rule they
follow. `CardProbe` is `sunix_pci_board_probe` with its five searches,
`sunix_get_pci_board_conf`, `sunix_assign_resource` and the two `table_init`
functions: `boards`, `serTable` and `parTable` are the tables of the same names,
an address is a card, a BAR and an offset; a parallel port has two, `base` and
`base_hi`. `PortRegistry` has the list of ports
with numbers and references, the drivers above them, and what attach and detach
of ppdev and lp do. `DriverInit` runs `snx_init` step by step (`pc` is the step,
`undo7` to `undo1` the labels it jumps to), `snx_exit`, and files of ppdev that
register devices and leak references in between; `handlers`, `ttyDriver`,
`lines`, `chrdevs`, `classes` are what a step has registered. `crashed` is a
NULL or error pointer followed on the way.

The machine (`Systems`) is a sequence of cards and whether the kernel may refuse
memory, regions and interrupts. I/O regions of serial ports are left out: the
result of requesting them is not looked at.

### BoardConfig

| variable | code |
|---|---|
| `reg` | registers +2, +3, +0xC, +0xD of a group of four ports, as sets of bits |
| `mem`, `dev` | EEPROM cells 0x13, 0x14, 0x19, 0x1A or the flash; the controller's address, data, command and Error |
| `cache` | `port.AHDC_State`, `port.RS422_State` |
| `call[c]` | the place and the local variables of the call caller `c` is in |
| `ghost` | history: what was asked, which ports and cells are in doubt and why |

On a board with six GPIO channels `reg.gctl` and `reg.gpio` are at once the
directions and signals of the channels and what SET_TYPE reads, changes and saves
for ports 1 to 4.

`SetType`, `SetAcs`, `GpioSetDefault`, `GpioWriteDefault` begin a call; `GpioSet`
and `GpioWrite` are SNX_GPIO_SET and SNX_GPIO_WRITE of six channels, one access to
a register each (`GpioOut`), at any moment of the other calls;
`ReadReg`, `Change`, `WriteReg` are its accesses to the registers, one each;
`Idle`, `Address`, `Data`, `Command`, `Polled` are one access to the memory
(`EEPROMWriteData`, and the loops of the GPIO calls), `GiveUp` the poll that
runs out. `UartType` is what GET_TYPE answers. `Done` is the hardware: it takes
a command when idle, ends it some time later, and may report an error.

## 4. Runs

| run | question | bounds |
|---|---|---|
| `share_up` | one CPU, no signals: list shape, hand-over in order, nobody sleeps for ever, is orphaned or waits for itself; one exclusive device | 3 devices, 2 exclusive; yields, registrations and unregistrations |
| `share_signals` | preemptive, with signals: the proved invariant and the refinement of `PortLock` | 2 devices |
| `share_self_wait` | violation, see section 7 | 3 devices, preemptive |
| `clients` | who uses the port owns it or is being handed it, finds its registers and its mode; lp hears who asks | 2 files and lp, combinations of what they do, on one CPU and on more |
| `tx_one_cpu` | stream, shadow, no stall, everything is sent in the end | 2 writers, ring of 4, FIFO of 2, 5 bytes: the ring wraps |
| `tx_flow` | stream with XON/XOFF on SMP, modem interrupt with CRTSCTS on one CPU | 1 writer, ring of 2 |
| `tx_lost_start` | violation, see section 7 | 1 writer, 2 bytes |
| `open` | counts, references, port up while used and down after, no interrupt without tty | 3 files in three environments: hangups; signals and TIOCSSERIAL; everything that fails |
| `open_stale_tty`, `open_count` | violations, see section 7 | 3 files |
| `bring_up` | the proved invariant, cards found once, ports apart, load complete or undone, references | every known card alone, 12 machines of several or odd cards, 2 machines where every step may fail; `MaxUse = 2` devices and leaked references for each port |
| `board` | the proved invariant; type, registers and EEPROM agree, with GPIO calls on the same registers; flash kept | 2 ports, 5 sorts of board, 3 calls, one error or exhausted poll; on 2 boards the first two calls overlap |

Two devices show the races between an owner and a waiter, three are needed for a
waiter with a neighbour on each side of it. Nothing in the arbitration counts
beyond the neighbours in the list, and the theorems cover every number. For the
ring, the wrap, a full ring and a FIFO smaller than the ring all occur with four
slots and five bytes. Three files are one that is open, one that fails or waits,
and one that comes after. `MaxBytes` bounds the bytes written in a behaviour;
`GetInterrupted` is bounded so that no more module references are lost than there
are files attached. In `clients` two files are needed for one file's mode to meet
another's, and lp for requests; all that clients do at once is too much, so each
behaviour has one of eight combinations (modes, directions, writes, printer,
signals, more than one CPU), most pairs of which occur, and behaviours with the
printer are followed up to the first ignored EINTR (constraint `Followed`). The
driver takes at most four boards and 32 serial ports, and each limit is passed
by one of the machines. In `board` a third call finds whatever two calls left, and
two ports are the one a call is about and a neighbour in its registers.

Deadlock checking is off in `share_signals` and `share_self_wait`, where the code
really can stop, with an owner asleep in its own claim; in `clients`, where a
thread can die on a NULL pointer or wait for a printer; in `bring_up`, where
loading that failed and unloading end; and in `board`, where the calls are used up.

## 5. Fairness

`ParportShare`: strong fairness for every thread's own steps, because a runnable
thread is scheduled in the end, and on one CPU it is runnable only when the
others have given up the CPU; and strong fairness for release-or-yield of a
holder, because lp and ppdev release the port when the operation or the file
ends. Nobody has to claim. `SerialTx`: strong fairness for the threads and the
handler (spinlocks are held for a bounded time and the interrupt returns), and
weak fairness for the transmitter. Nobody has to write.
The other modules state no liveness: a client need not release the port, an open
may wait for a carrier that never comes, and loading ends by its shape.

## 6. Proofs

Every theorem holds for any value of the constants that the named assumption of
its module admits: any number of devices, files or writers, any ring and FIFO
size, any set of environments, any machine. Each safety argument is an inductive invariant
that a run checks too (`IInv`, `UpInv`), one lemma per part of it, one step per
action; what the longer handlers do to the state is said in lemmas named
`...Effect`, which the steps cite instead of the handlers.

### ParportShare_proofs: any CPUs, with signals

* `TypeCorrect`: `TypeOK`. It is inductive together with `WalkOK` (a releaser
  that is about to claim for `walk[d]` has a device there, not NULL).
* `InvariantHolds`: `IInv`. `HeldIsOwner` alone is not inductive: a thread in
  `claim_or_block` becomes a holder at its exit, so one has to know that the port
  is its own or promised to it when it leaves (`ExitsAsPromised`: without waiting
  bits it is `Promised`), and a releaser may grant the port to any device, so one
  has to know that a device without bits in the middle of a claim has it already,
  and that a thread in a claim or past the locked part of release holds nothing
  (`ClaimantHasNone`). `GivingOK` says that one thread at most is in a hand-over,
  that nobody owns the port meanwhile, and whom it is for. The heart is that
  `Promised` only goes from nobody to a device or from the releasing thread to
  nobody, both under `cad_lock`, and that the writes in between do not change it.
* `OwnershipIsKept`: the readable part, with more than one CPU.
* `ClaimExitsAsOwner`: `~Preemptive` implies `ExitsAsOwner`, the last test of
  `claim_or_block`. There is no hand-over in steps there, so `Promised` is `cad`.
  With more CPUs the test can fail: the waiter may leave after its waiting bits are
  cleared (snx_share.c:831) and before `port->cad` is written (852).
* `PortIsALock`: the refinement of `PortLock`, step by step under `IInv`; it is the
  decision that takes the abstract lock, the writes after it are stutters.
* `OneExclusiveDevice`: `ExclusiveFlag`, with `RegisteredOK` (a device is on the
  list exactly between the two locked sections) as strengthening.

### ParportShareUp_proofs: one CPU without kernel preemption

A thread keeps the CPU until a switch point, so all but one are at switch points
(`StepFrame`, `OneRunner`): that turns the unlocked walk of release into one
section. `NobodyWaitsForItself` needs no more (`QueuedInv`: who was told to wait
is queued and not the owner). The others also assume that no claim is cut by a
signal: `WaitlistIsAList`, `NothingFreedIsUsed`, `WaitersCanBeWoken`,
`PortIsNotLost` and the action property `GrantsAreFifo` follow from `UpInv`
(`UpInvariantHolds`), whose parts say what the waiting bits are at each place
(`BitsInv`), that only holders release (`HoldInv`), that the owner knows or will
find out (`OwnerInv`), that a releasing thread still finds the port free and the
list head where it was (`WalkInv`), that a free port has waiters only while a
release looks at them (`FreeInv`), and that the list is one. The list is proved
with an explicit position function (`JoinKeepsList` at the tail, `LeaveKeepsList`
at any place); `ListIsWaitlist` leads back to `WaitlistOK`.

The two assumptions are needed. With preemption TLC finds `NoUseAfterFree` broken
with two devices and `WaitlistOK`, `NoSelfWait`, `AllCanBeWoken` and `NoOrphan`
with three; and a cut claim stays on the list, to be queued again.

### SerialOpen_proofs: every environment

`IInv` has who holds which lock at which place (`LockInv`), what only some
environments do (`EnvInv`), how the flags, the interrupts, the buffer and the tty
belong together (`PortInv`), the count between two numbers of files
(`CountInv`), the module references (`RefsInv`), a port in use up (`UseInv`) and
an unused one down (`DownInv`, `TtyInv`). The count is bounded from both sides
because the two sides fail in different environments: an open interrupted before
it counts itself makes it too small, a hangup that does nothing too big. The
theorems `CountIsTrue`, `UsedPortIsUp`, `InterruptsHaveTty`, `UnusedPortIsDown`,
`ResumedPortHasTty`, `ReferencesMatch` and `TypeCorrect` are the properties of
the run `open`.

### SerialTx_proofs

* `StreamIsKept`: `TxStream`, under every setting, SMP and flow control included.
  The stream is `Count` bytes, `Byte(i)` the i-th, whether sent or in the ring;
  `StreamInv` says they ascend and with the flushed ones make up what was
  accepted. Whoever touches head or tail does so in one section, and each of the
  three (write, flush, transmit) has a lemma that says what becomes of `Count`
  and `Byte`, wrap included. The unlocked register accesses do not matter to it.
* `ModemIrqIsKept`: with `PlaceInv`, `LockInv` and `OneCallInv` (where each
  thread can be, and what that says of the lock and of the others), `MsiInv`
  says that on one processor every value on its way to the register has the
  modem bit CRTSCTS asks for.
* `ShadowIsKept`, `StartIsNotLost`: on one processor and without flow control
  (`Plain`) the handler runs only for an empty transmitter and never while a
  thread changes the register (`PlainInv`), so shadow and register agree but for
  the thread that writes both (`ShadowInv`), and waiting bytes have the interrupt
  on, or a writer about to (`StartInv`). `Plain` is a hypothesis because the
  rest is false: with XON/XOFF or CRTSCTS an interrupt between the unlocked store
  and the register write of `start_tx` stops output and its newer value is
  overwritten; on SMP that is the finding `tx_lost_start`.
* `InvariantHolds`, `TypeCorrect`: all of it, and the types.

### PortClients_proofs: any number of files beside the printer

`IInv` is the invariant of the runs: where each client can be (`PlaceInv`), its
flag there (`FlagInv`), which one is inside `cad_lock` (`LockInv`), and, until an
unchecked claim is cut, who owns the port or is being handed it (`OwnInv`, of
`Holder`), what is saved (`SavedInv`), the modes (`ModeInv`) and the requests to
the printer (`AskedInv`); `HandOverInv` (a free port with waiters is about to be
handed on) is what `AskedInv` needs when a claim gets the port. A step of one
client leaves the others where they are (`Frame`), so the parts that speak of one
client are proved for the one that steps. For what they share, every step is
shown to be one of a few moves of the port (`PortMoves`), the registers
(`RegisterWrites`), the modes (`ModeBrackets`) and the requests
(`RequestsMade`), and each part survives the moves. The queue is a sequence
without repetitions; `Appended`, `Served` and `Removed` say what joining it, the
hand-over and an unregistration do to its members and their order.

* `OwnersUse`, `RegistersAreKept`, `AskersAreHeard`: `UsesAsOwner`,
  `RegistersKept`, `LpHearsAskers`. All three have `~cut` as a hypothesis: after
  a claim that a signal cut and nobody checked, the client acts without the port.
  With more CPUs a client may act before `port->cad` names it and before
  `restore_state`: `UsesAsOwner` speaks of the one the port belongs or is coming
  to (it says, too, that a claimed port whose `cad` is NULL, and a transfer that
  dies of it, need more than one CPU), and `RegistersKept` of an owner to whom
  the port is not still coming; what a client writes while it is still coming is
  not expected to last (`mine` is then "any").
* `ModesArePaired`: `ModesPaired`. The modes are a stack of at most two files, one
  that lends the port and one that has it, which is why `~mixed` is needed: two
  lenders may come back in either order, and brackets then do not pair.
* `TypeCorrect`, `InvariantHolds`.

### CardProbe_proofs: the table and the places of the ports

`TableIs` says of every row of the table that its ports overlap neither each
other nor, where the board has one, the interrupt vector. The rows of a family
follow a rule, so it is shown for the rule (`GoldenIs`, `RemapIs`, `MatrixIs`,
`Sun1999Is`) and not row by row. `PlacesOfOneMore` and `BoardAt` are about the
numbering: the ports of the boards before board i and its own add up, so every
line and every slot has one board, and no place is given twice. The number of
ports is a cardinality of places there, because a sum over boards would need
induction over data.

### DriverInit_proofs: every machine

A machine is any sequence of cards with any identities, interrupt lines and mode
bits (`SystemsAssumption` asks no more than that it is a sequence), the limits
are any numbers (`LimitsAssumption`: no more slots are supported than there
are), and so is the use made of the ports (`UseAssumption`). `IInv` is proved in
parts, and a step keeps each part for a reason of its own:

* the cards (`BoardsFit`): a board is an entry of the table and a card of the
  machine, and a card that counts is listed once. The search may list a card
  again only at the first entry, the test card's, whose listings do not count;
  so one has to carry that every listing that counts is of a card looked up
  before. Once assigned, the tables are the ones `SerAssigned` and `ParAssigned`
  give for that list;
* the serial side (`SerialFits`): which handlers, lines and driver data there
  are at each step and at each label, where the loops have got to;
* the drivers (`DriversFit`): ppdev and lp, their character devices, classes and
  what lp attached to;
* the ports (`PortsFit`, `PortRefsMatch`): which parallel ports exist, under
  different numbers, and that the references of each are its list's, lp's, the
  registered devices' and the leaked ones. A new port gets the smallest free
  number; that one within the limit is free is a pigeonhole argument
  (`FreeNumberIs`), and it is needed for the range of numbers in `TypeOK`.

`PortsNeverOverlap` takes `TableIs` and the numbering to the tables of the
running driver, with the two ranges of every parallel port; `FailureUndoes`,
`UpServesAll`, `RefsAlwaysMatch` and `TypesHold` read the properties off the
parts. `FailureUndoes` says what a load that did not succeed leaves. The PCI
driver stays registered after every failure that returns, since only `step7_fail`
takes it back and only a refused registration goes there. That handlers and
parallel ports are never left together rests on the order of the labels: a
refused interrupt leaves before there is a parallel port, and every later label
passes the one that frees the interrupts. Two failures end in a crash: of the
PCI driver's registration, which goes on to undo a `ppdev` that never was, and of
the allocation of the tty driver.

### BoardConfig_proofs: every board, any number of callers and calls

A call is clean as long as no other overlaps it. All that is claimed is claimed
of clean calls and of what they leave, so `IInv` is:

* `CleanAlone`: a clean call is the only one in progress, and once a call was
  disturbed everything is open (`doubt`, `differs` and `torn` say so) until
  later calls settle it;
* `AccessFits`: at each step of its access to the memory the controller has the
  address and the data the call gave it, and after the poll the cell holds them
  or Error is set. It makes `Polled` say something of the memory;
* for the EEPROM (`EepromFits`), where SET_TYPE is with its four copies
  (`TypeFits`): equal to the registers as far as read, different from them only
  in the port's own bits, equal again as far as written; which cells are still
  to be saved (`Unsaved`); that SET_ACS leaves the bits the types are read from
  (`AcsFits`). A type of a neighbour survives because only own bits change, and
  the registers cannot change under a clean call: a `GpioOut` in the middle of one
  disturbs it like any other call, and between calls it puts its register into
  `differs`, where a cell the controller works on after its call gave up is too;
* for the flash (`FlashFits`): until the erase it holds what is wanted, from the
  last byte read on the copy does, and the bytes written so far are the copy's.

`TypeAlwaysKept` and `FlashAlwaysKept` are what is left of it when no call is in
progress. That SET_TYPE's bits mean what GET_TYPE answers (`TypeMeant`,
`TypeAnswered`) is proved for all types and boards; it is false for a type the
board does not have, which is why such a port is in `doubt`. For the initial
state `BoardConfigAssumption` says that a board comes with types it can be,
except on ports 9 to 16, which are not read.

### What is only model-checked

Liveness (`ClaimReturns`, `Drains`): under fairness it is outside the proof
system.

`KnownCardsFound` of `DriverInit`, for every card of the table alone and the
machines of several or odd cards. It is not a theorem of every machine: on a card
of the SUN1999 family with the test card's subdevice number and zeros in BAR 3
the fourth and the fifth search both list it, at the first entry, where the list
is not looked at. Such a listing does not count (its `board_enum` is 0, and every
later loop skips it), so no port is served twice: that a card that counts is
listed once is proved, in `BoardsFit`. That a card the table describes is found
at all is what stays with TLC.

## 7. What the code does that its text denies

* `NoSelfWait` (`share_self_wait`): the owner test of claim is outside the lock;
  a grant in between makes the owner queue behind itself.
* `NoLostStart` (`tx_lost_start`): the unlocked `start_tx` and the handler's
  `stop_tx` interleave, and the UART is left with the interrupt off while the
  shadow says on.
* `QuietWhenClosed` (`open_stale_tty`): an open interrupted while it waits for
  carrier, then a hangup, then its close: nobody shuts the port down, and the
  interrupt handler has a freed tty.
* `NoBadCount` (`open_count`): an open interrupted in the driver's semaphore is
  not counted, and its close takes back the count of another file.

Some properties of the other runs say where the promise ends, because the code
ends it there:

* The hand-over clears `dev->waiting` before it writes `port->cad`, so on another
  CPU the waiter can leave `claim_or_block` while nobody owns the port yet. Its last
  test then prints the warning at `snx_share.c:920`, and the claim returns success
  all the same. `ExitsAsOwner` is a theorem of one CPU only; with more, `HeldIsOwner`
  and the refinement say that the port is promised to that client and no other.
* The exclusive flag is tested before two allocations (`snx_share.c:606`) and not
  again under the lock for a device that is not exclusive, so an ordinary device can
  be linked beside an exclusive one. `ExclusiveFlag` says that two exclusive ones
  never are.
* A claim that overtakes the release's `save_state` mixes two clients' registers,
  and a client that goes on before the hand-over's `restore_state` has its own
  written over (`RegistersKept` excepts both), two files that lend the port in turn mix their
  modes (`ModesPaired`), a claim whose EINTR is ignored makes a client act for
  another (`UsesAsOwner`).
* A card of the SUN1999 family that the table does not know may be listed as
  another card (`KnownCardsFound` speaks of known cards); every load that fails
  after its first step leaves the PCI driver registered, a refused interrupt on a
  later board besides it the handlers of the earlier ones, and a parallel port
  that does not answer the ports before it (`UndoneWhenFailed` says so, and that
  nothing of the later steps is left).
* Two overlapping configuration calls, a poll that runs out after the flash was
  erased, a type the board does not have, and the first use of ports 9 to 16
  leave the copies of a port's type or the flash in disagreement (`TypeKept`,
  `FlashKept`).
* On a board with six GPIO channels SNX_GPIO_SET and SNX_GPIO_WRITE change
  registers whose power-up values are elsewhere, and SNX_GPIO_SET_DEFAULT and
  SNX_GPIO_WRITE_DEFAULT the reverse; the next SET_TYPE of any of ports 1 to 4
  saves the registers as they are over the defaults. `TypeKept` excepts the
  register or the cell until the next call that saves it.

## 8. Not modelled

* The receive path, throttling, `x_char`, TIOCMIWAIT, and the register settings
  of set_termios: one section under `port->lock` each, or a race whose loss is
  plain and which the repository does not deny (see the hazards).
* The loop over the ports of a board in the interrupt handler: it keeps no state.
* The GPIO calls that only read, the inversion register, and the registers of 8,
  16 and 32 channels, which no other call looks at; the modem control register
  that SET_TYPE writes. A channel that is an input reads as it was last written.
* Negotiation, the timer of `wait_event`, the register accesses of the hardware
  probes: their results are choices in `PortClients` and `DriverInit`.
* Overlapping rewrites of the flash: nothing is promised while two calls read,
  erase and write all of it.
* procfs (not built on the driver's own structures) and the user tools
  (single-threaded, interactive).
* The branches for kernels before 4.15.
