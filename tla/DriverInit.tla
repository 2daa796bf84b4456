----------------------------- MODULE DriverInit -----------------------------
(***************************************************************************)
(* Loading and unloading the module (driver/snx_main.c: snx_init and       *)
(* snx_exit), on top of CardProbe and PortRegistry, with the steps of the  *)
(* serial, parallel, ppdev and lp files they call.                         *)
(*                                                                         *)
(* snx_init takes one step after another and, when one fails, jumps to the *)
(* label that undoes the steps before it; "undo7" to "undo1" are the       *)
(* labels step7_fail to step1_fail.  snx_exit calls the same functions in  *)
(* the order of the labels.  "crashed" is a NULL or error pointer followed *)
(* on the way.  While the module is loaded, threads use ppdev.             *)
(*                                                                         *)
(* Regions of serial ports are requested without looking at the result and *)
(* are left out.                                                           *)
(***************************************************************************)
EXTENDS CardProbe, PortRegistry

CONSTANTS MaxUse  \* bound on the ppdev devices and leaked references of a port

ASSUME UseAssumption == MaxUse \in Nat

VARIABLES
    pciDriver,  \* snx_pci_driver is registered
    handlers,   \* boards whose interrupt handler is registered
    ttyDriver,  \* the tty driver is registered
    lines,      \* lines whose state->port is set
    drvdata,    \* boards with driver data, which resume looks for
    slot,       \* the next slot for sunix_par_parport_init
    chrdevs,    \* character devices registered, of "ppdev" and "lp"
    classes,    \* classes created
    users,      \* slot -> devices registered by ppdev files
    exiting     \* snx_exit was called

initVars == <<pciDriver, handlers, ttyDriver, lines, drvdata, slot, chrdevs,
              classes, users, exiting>>
vars == <<pc, probeVars, registryVars, initVars>>

MayFail == system.mayFail

Init ==
    /\ ProbeInit
    /\ pc = "register_pci"
    /\ RegistryInit(1 .. SNX_PAR_SUPPORT_MAX)
    /\ pciDriver = FALSE
    /\ handlers = {}
    /\ ttyDriver = FALSE
    /\ lines = {}
    /\ drvdata = {}
    /\ slot = 1
    /\ chrdevs = {}
    /\ classes = {}
    /\ users = [s \in 1 .. SNX_PAR_SUPPORT_MAX |-> 0]
    /\ exiting = FALSE

----------------------------------------------------------------------------
\* A failure of the first step jumps to the last label.
RegisterPci ==
    /\ pc = "register_pci"
    /\ \/ pciDriver' = TRUE /\ pc' = "probe"
       \/ MayFail /\ pc' = "undo7" /\ UNCHANGED pciDriver
    /\ UNCHANGED <<probeVars, registryVars, handlers, ttyDriver, lines, drvdata,
                   slot, chrdevs, classes, users, exiting>>

FindCards ==
    /\ Probe \/ GetConf \/ AssignResource \/ TableInit
    /\ UNCHANGED <<registryVars, initVars>>

\* One handler per board.  When one is refused those before it stay.
RegisterIrq ==
    /\ pc = "irq"
    /\ \/ handlers' = Live /\ pc' = "ser_driver"
       \/ \E i \in Live : /\ MayFail
                          /\ handlers' = {k \in Live : k < i}
                          /\ pc' = "undo1"
    /\ UNCHANGED <<probeVars, registryVars, pciDriver, ttyDriver, lines, drvdata,
                   slot, chrdevs, classes, users, exiting>>

\* Without memory for the states the error path puts a NULL driver; without
\* memory for the driver the error pointer is taken for one.
SerRegisterDriver ==
    /\ pc = "ser_driver"
    /\ \/ ttyDriver' = TRUE /\ pc' = "ser_ports"
       \/ MayFail /\ pc' \in {"undo2", "crashed"} /\ UNCHANGED ttyDriver
    /\ UNCHANGED <<probeVars, registryVars, pciDriver, handlers, lines, drvdata,
                   slot, chrdevs, classes, users, exiting>>

\* Only the first board gets driver data.  A tty device that cannot be
\* registered is reported and forgotten.
SerRegisterPorts ==
    /\ pc = "ser_ports"
    /\ drvdata' = {1}
    /\ lines' = {serTable[n].line : n \in DOMAIN serTable}
    /\ pc' = IF ParTotal > 0 THEN "parports" ELSE "up"
    /\ UNCHANGED <<probeVars, registryVars, pciDriver, handlers, ttyDriver, slot,
                   chrdevs, classes, users, exiting>>

\* sunix_par_parport_init.  A port without memory, without its region or that
\* does not answer leaves nothing behind and ends the loop.
ProbePort ==
    /\ pc = "parports"
    /\ slot \in DOMAIN parTable
    /\ \/ RegisterPort(slot) /\ slot' = slot + 1 /\ UNCHANGED pc
       \/ MayFail /\ pc' = "undo4" /\ UNCHANGED <<ports, slot>>
    /\ UNCHANGED <<probeVars, drivers, nodes, lpDevs, leaked, pciDriver, handlers,
                   ttyDriver, lines, drvdata, chrdevs, classes, users, exiting>>

AllPortsProbed ==
    /\ pc = "parports"
    /\ slot \notin DOMAIN parTable
    /\ pc' = "ppdev"
    /\ UNCHANGED <<probeVars, registryVars, initVars>>

\* A refused device number or class is undone on the spot.
PpdevInit ==
    /\ pc = "ppdev"
    /\ \/ /\ AttachPpdev
          /\ chrdevs' = chrdevs \cup {"ppdev"}
          /\ classes' = classes \cup {"ppdev"}
          /\ pc' = "lp"
       \/ MayFail /\ pc' = "undo5" /\ UNCHANGED <<registryVars, chrdevs, classes>>
    /\ UNCHANGED <<probeVars, pciDriver, handlers, ttyDriver, lines, drvdata, slot,
                   users, exiting>>

\* A port whose device cannot be registered has no lp device.
LpInit ==
    /\ pc = "lp"
    /\ \/ /\ \E S \in SUBSET Registered : (MayFail \/ S = Registered) /\ AttachLp(S)
          /\ chrdevs' = chrdevs \cup {"lp"}
          /\ classes' = classes \cup {"lp"}
          /\ pc' = "up"
       \/ MayFail /\ pc' = "undo6" /\ UNCHANGED <<registryVars, chrdevs, classes>>
    /\ UNCHANGED <<probeVars, pciDriver, handlers, ttyDriver, lines, drvdata, slot,
                   users, exiting>>

----------------------------------------------------------------------------
(* ppdev files, while the module is loaded.                                *)

\* PPCLAIM of a file without a device: find_number, register_device, put_port.
PpClaim(s) ==
    /\ pc = "up"
    /\ s \in Registered
    /\ users[s] < MaxUse
    /\ ports' = PutPort(GetPort(GetPort(ports, s), s), s)
    /\ users' = [users EXCEPT ![s] = @ + 1]
    /\ UNCHANGED <<pc, probeVars, drivers, nodes, lpDevs, leaked, pciDriver, handlers,
                   ttyDriver, lines, drvdata, slot, chrdevs, classes, exiting>>

\* The last close of the file unregisters its device.
PpClose(s) ==
    /\ pc = "up"
    /\ users[s] > 0
    /\ ports' = PutPort(ports, s)
    /\ users' = [users EXCEPT ![s] = @ - 1]
    /\ UNCHANGED <<pc, probeVars, drivers, nodes, lpDevs, leaked, pciDriver, handlers,
                   ttyDriver, lines, drvdata, slot, chrdevs, classes, exiting>>

\* PPGETMODES finds the port by number and keeps the reference.
PpGetModes(s) ==
    /\ pc = "up"
    /\ s \in Registered
    /\ leaked[s] < MaxUse
    /\ ports' = GetPort(ports, s)
    /\ leaked' = [leaked EXCEPT ![s] = @ + 1]
    /\ UNCHANGED <<pc, probeVars, drivers, nodes, lpDevs, initVars>>

----------------------------------------------------------------------------
(* Undoing.                                                                *)

Undo7 ==
    /\ pc = "undo7"
    /\ pciDriver' = FALSE
    /\ pc' = "undo6"
    /\ UNCHANGED <<probeVars, registryVars, handlers, ttyDriver, lines, drvdata,
                   slot, chrdevs, classes, users, exiting>>

\* sunix_par_ppdev_exit; a driver that was never registered has no list head.
Undo6 ==
    /\ pc = "undo6"
    /\ IF "ppdev" \in drivers
       THEN /\ DetachPpdev
            /\ chrdevs' = chrdevs \ {"ppdev"}
            /\ classes' = classes \ {"ppdev"}
            /\ pc' = "undo5"
       ELSE /\ pc' = "crashed"
            /\ UNCHANGED <<registryVars, chrdevs, classes>>
    /\ UNCHANGED <<probeVars, pciDriver, handlers, ttyDriver, lines, drvdata, slot,
                   users, exiting>>

\* Changed definition: continues at the label after the next.
Undo5Far ==
    /\ pc = "undo5"
    /\ IF Registered # {}
       THEN UnregisterPort(Max(Registered)) /\ UNCHANGED pc
       ELSE pc' = "undo3" /\ UNCHANGED registryVars
    /\ UNCHANGED <<probeVars, initVars>>

\* sunix_par_parport_exit: the port announced last goes first.
Undo5 ==
    /\ pc = "undo5"
    /\ IF Registered # {}
       THEN UnregisterPort(Max(Registered)) /\ UNCHANGED pc
       ELSE pc' = "undo4" /\ UNCHANGED registryVars
    /\ UNCHANGED <<probeVars, initVars>>

Undo4 ==
    /\ pc = "undo4"
    /\ lines' = {}
    /\ pc' = "undo3"
    /\ UNCHANGED <<probeVars, registryVars, pciDriver, handlers, ttyDriver, drvdata,
                   slot, chrdevs, classes, users, exiting>>

Undo3 ==
    /\ pc = "undo3"
    /\ ttyDriver' = FALSE
    /\ pc' = "undo2"
    /\ UNCHANGED <<probeVars, registryVars, pciDriver, handlers, lines, drvdata,
                   slot, chrdevs, classes, users, exiting>>

Undo2 ==
    /\ pc = "undo2"
    /\ handlers' = {}
    /\ pc' = "undo1"
    /\ UNCHANGED <<probeVars, registryVars, pciDriver, ttyDriver, lines, drvdata,
                   slot, chrdevs, classes, users, exiting>>

\* The end: only snx_exit unregisters the PCI driver.
Undo1 ==
    /\ pc = "undo1"
    /\ IF exiting THEN pciDriver' = FALSE /\ pc' = "unloaded"
                  ELSE pc' = "failed" /\ UNCHANGED pciDriver
    /\ UNCHANGED <<probeVars, registryVars, handlers, ttyDriver, lines, drvdata,
                   slot, chrdevs, classes, users, exiting>>

\* The kernel unloads the module only when no file of it is open.
Exit ==
    /\ pc = "up"
    /\ \A s \in Slots : users[s] = 0
    /\ exiting' = TRUE
    /\ pc' = IF ParTotal > 0 THEN "exit_lp" ELSE "undo4"
    /\ UNCHANGED <<probeVars, registryVars, pciDriver, handlers, ttyDriver, lines,
                   drvdata, slot, chrdevs, classes, users>>

LpExit ==
    /\ pc = "exit_lp"
    /\ DetachLp
    /\ chrdevs' = chrdevs \ {"lp"}
    /\ classes' = classes \ {"lp"}
    /\ pc' = "undo6"
    /\ UNCHANGED <<probeVars, pciDriver, handlers, ttyDriver, lines, drvdata, slot,
                   users, exiting>>

Undo == Undo7 \/ Undo6 \/ Undo5 \/ Undo4 \/ Undo3 \/ Undo2 \/ Undo1

Next ==
    \/ RegisterPci \/ FindCards \/ RegisterIrq \/ SerRegisterDriver \/ SerRegisterPorts
    \/ ProbePort \/ AllPortsProbed \/ PpdevInit \/ LpInit
    \/ \E s \in Slots : PpClaim(s) \/ PpClose(s) \/ PpGetModes(s)
    \/ Exit \/ LpExit \/ Undo

Spec == Init /\ [][Next]_vars

----------------------------------------------------------------------------
\* Every variable stays in its range, and the totals in their limits.
TypeOK ==
    /\ search \in 1 .. 6 /\ entry \in 1 .. Len(Conf) /\ at \in 0 .. Len(cards)
    /\ Len(boards) <= SNX_BOARDS_MAX
    /\ \A i \in DOMAIN boards : /\ boards[i].dev \in DOMAIN cards
                                /\ boards[i].enum \in 0 .. Len(Conf) - 1
    /\ Len(serTable) <= SNX_SER_TOTAL_MAX /\ Len(parTable) <= SNX_PAR_SUPPORT_MAX
    /\ handlers \cup drvdata \subseteq DOMAIN boards
    /\ lines \subseteq 0 .. SNX_SER_TOTAL_MAX - 1
    /\ DOMAIN ports \subseteq Slots /\ lpDevs \subseteq Slots
    /\ \A s \in DOMAIN ports : ports[s].number \in 2 .. SNX_PAR_SUPPORT_MAX + 1
                                /\ ports[s].refs \in 1 .. 2 * MaxUse + 2
    /\ drivers \cup chrdevs \cup classes \subseteq {"ppdev", "lp"}
    /\ pciDriver \in BOOLEAN /\ ttyDriver \in BOOLEAN /\ exiting \in BOOLEAN
    /\ \A s \in Slots : users[s] \in 0 .. MaxUse /\ leaked[s] \in 0 .. MaxUse

\* The search succeeded, and then the ports were assigned.
Assigned == pc \in {"irq", "ser_driver", "ser_ports", "parports", "ppdev", "lp", "up"}
Probed == Assigned \/ pc \in {"conf", "assign", "tables"}

Describes(e, card) ==
    /\ IdOf(e) = card.id
    /\ Conf[e].sub = card.sub
    /\ card.id = "sun1999" => SameBar3(card, Conf[e])

\* Five searches over one table, several cards with the same subdevice id,
\* and two searches with the same device id: still, a card the table
\* describes is listed exactly once, at an entry that describes it, and the
\* boards get all their ports.
KnownCardsFound ==
    Probed => \A d \in DOMAIN cards :
                 LET listings == {i \in DOMAIN boards : boards[i].dev = d} IN
                 /\ Cardinality(listings) <= 1
                 /\ (\E e \in DOMAIN Conf : Describes(e, cards[d])) =>
                        \E i \in listings : Describes(boards[i].enum + 1, cards[d])

Interval(a) == {<<a[1], a[2], a[3] + k>> : k \in 0 .. 7}

\* The ranges of the ports: one of a serial port, two of a parallel port.
Ranges ==
    ({"iobase"} \X DOMAIN serTable) \cup ({"base", "base_hi"} \X DOMAIN parTable)

StartOf(r) ==
    CASE r[1] = "iobase"  -> serTable[r[2]].iobase
      [] r[1] = "base"    -> parTable[r[2]].base
      [] r[1] = "base_hi" -> parTable[r[2]].base_hi

\* Whatever cards are together: no two ranges of the machine's ports overlap
\* in the I/O space, none covers an interrupt vector, each board's lines
\* follow each other, and its vector mask has a bit for each of them.
PortsApart ==
    Assigned =>
        /\ \A q, r \in Ranges :
              q # r => Interval(StartOf(q)) \cap Interval(StartOf(r)) = {}
        /\ \A n \in DOMAIN serTable :
              LET p == serTable[n] IN
              /\ p.remap \/ \A r \in Ranges : p.vector \notin Interval(StartOf(r))
              /\ p.remap \/ n - 1 - SerFirst(p.board) \in p.mask
              /\ n - SerFirst(p.board) \in 1 .. SerPorts(p.board)

\* What a load that does not succeed leaves.  When it returns, the PCI driver
\* is still registered, since only step7_fail takes it back (snx_main.c:1522),
\* with the handlers of the boards before one that was refused, or the parallel
\* ports before one that did not answer, never both; nothing of the later
\* steps: no lines, no tty driver, no nodes, no class, no character device, and
\* no driver above the ports.  It crashes in two places: without a PCI driver,
\* where step7_fail goes on to undo a ppdev that never was, and without a tty
\* driver, where all handlers are there.
UndoneWhenFailed ==
    /\ pc \in {"failed", "crashed"} =>
        /\ ~ttyDriver /\ lines = {}
        /\ nodes = {} /\ lpDevs = {} /\ drivers = {} /\ chrdevs = {} /\ classes = {}
    /\ pc = "failed" =>
        /\ pciDriver
        /\ handlers # {} => handlers # Live /\ ports = <<>>
        /\ ports # <<>> => Registered # DOMAIN parTable
    /\ pc = "crashed" =>
        ports = <<>> /\ handlers = IF pciDriver THEN Live ELSE {}

\* A module that is up serves what it found: a handler for every board, a
\* line for every serial port, and for every parallel port a number of its
\* own with a ppdev node and, unless its device was refused, an lp device.
UpIsComplete ==
    pc = "up" =>
        /\ handlers = Live /\ ttyDriver /\ pciDriver
        /\ lines = {n - 1 : n \in DOMAIN serTable}
        /\ Registered = DOMAIN parTable
        /\ nodes = Numbers(ports) /\ Cardinality(nodes) = Cardinality(Registered)
        /\ MayFail \/ lpDevs = Registered

\* A port lives exactly as long as somebody may use it, through any order of
\* claims, closes, failures and unloading: its references are those of its
\* registration, its devices and the calls that never give theirs back.
PortRefsMatch ==
    \A s \in Slots :
        LET held == Cardinality({s} \cap Registered) + Cardinality({s} \cap lpDevs)
                    + users[s] + leaked[s]
        IN IF s \in DOMAIN ports THEN ports[s].refs = held ELSE held = 0

----------------------------------------------------------------------------
(* The inductive invariant.                                                *)

\* Nothing after the search has been done.
Early == pc \in {"register_pci", "probe", "conf", "assign", "tables", "irq"}
BeforePorts == Early \/ pc \in {"ser_driver", "ser_ports"}
\* Everything up to the serial ports has been undone, after a failure.
Undone == pc \in {"undo2", "undo1", "failed"}

\* The list of boards, where a card that counts is listed once, and the
\* tables made from it.
BoardsFit ==
    /\ system \in Systems
    /\ pc \in {"register_pci", "probe"} => search <= 5
    /\ boards \in Listings
    /\ \A i, k \in Live : boards[i].dev = boards[k].dev => i = k
    /\ Assigned \/ pc \in {"conf", "assign", "tables"} => boards # <<>>
    /\ pc \in {"assign", "tables"} =>
          SerTotal <= SNX_SER_TOTAL_MAX /\ ParTotal <= SNX_PAR_SUPPORT_MAX
    /\ pc = "tables" => /\ serTable = [n \in 1 .. SerTotal |-> SerAssigned(n)]
                        /\ parTable = [n \in 1 .. ParTotal |-> ParAssigned(n)]
    /\ Assigned => /\ serTable = [n \in 1 .. SerTotal |-> SerPortEntry(SerAssigned(n), n)]
                   /\ parTable = [n \in 1 .. ParTotal |-> ParPortEntry(ParAssigned(n), n)]

\* Interrupts, lines and the drivers of the PCI bus and of the lines.
SerialFits ==
    /\ Early \/ pc = "undo7" => handlers = {}
    /\ Assigned /\ pc # "irq" => handlers = Live
    /\ pc \in {"undo1", "failed"} /\ handlers # {} => handlers # Live /\ ports = <<>>
    /\ ~pciDriver =>
          pc \in {"register_pci", "undo7", "undo6", "crashed", "unloaded"}
    /\ pc \in {"register_pci", "undo7"} => ~pciDriver
    /\ pc = "crashed" => handlers = IF pciDriver THEN Live ELSE {}
    /\ pc = "crashed" \/ (pc = "undo6" /\ ~pciDriver) =>
          ~ttyDriver /\ lines = {}
    /\ pc = "undo6" /\ ~pciDriver => handlers = {}
    /\ pc \in {"parports", "ppdev", "lp", "up", "exit_lp"} =>
          ttyDriver /\ lines = {n - 1 : n \in DOMAIN serTable}
    /\ pc = "ser_ports" => ttyDriver
    /\ Early \/ Undone \/ pc \in {"ser_driver", "undo7"} => ~ttyDriver
    /\ BeforePorts \/ Undone \/ pc \in {"undo7", "undo3"} => lines = {}

\* ppdev and lp, with their nodes and devices.
DriversFit ==
    /\ chrdevs = drivers /\ classes = drivers
    /\ CASE pc \in {"up", "exit_lp"} ->
              drivers = IF ParTotal > 0 THEN {"ppdev", "lp"} ELSE {}
         [] pc = "lp"                         -> drivers = {"ppdev"}
         [] pc = "undo6"                      ->
              drivers = IF pciDriver THEN {"ppdev"} ELSE {}
         [] OTHER                             -> drivers = {}
    /\ pc \in {"parports", "ppdev", "lp", "exit_lp"} => ParTotal > 0
    /\ nodes = IF "ppdev" \in drivers THEN {NumberOf(s) : s \in Registered} ELSE {}
    /\ lpDevs \subseteq Registered
    /\ "lp" \notin drivers => lpDevs = {}
    /\ pc = "up" => MayFail \/ lpDevs = Registered

\* The parallel ports: which there are, and who may use them.
PortsFit ==
    /\ ports \in [DOMAIN ports -> [number : Nat, refs : Nat, listed : BOOLEAN]]
    /\ BeforePorts => ports = <<>> /\ slot = 1
    /\ pc \in {"undo7", "crashed"} => ports = <<>>
    /\ pc = "undo6" /\ ~pciDriver => ports = <<>>
    /\ pc = "parports" => slot \in 1 .. Len(parTable) + 1 /\ DOMAIN ports = 1 .. slot - 1
    /\ pc \in {"ppdev", "lp", "up"} => DOMAIN ports = DOMAIN parTable
    /\ ~exiting => Registered = DOMAIN ports
    /\ ~exiting /\ (Undone \/ pc \in {"undo4", "undo3"}) /\ ports # <<>> =>
          Registered # DOMAIN parTable
    /\ \A s, t \in DOMAIN ports : NumberOf(s) = NumberOf(t) => s = t
    /\ exiting => ~Early /\ ~Assigned /\ pc \notin {"undo7", "failed"}
    /\ Slots = 1 .. SNX_PAR_SUPPORT_MAX
    /\ leaked \in [Slots -> Nat] /\ users \in [Slots -> Nat]
    /\ \A s \in Slots : users[s] > 0 => pc = "up" /\ s \in Registered
    /\ \A s \in Slots : leaked[s] > 0 => exiting \/ pc = "up"

IInv == TypeOK /\ BoardsFit /\ SerialFits /\ DriversFit /\ PortsFit /\ PortRefsMatch

=============================================================================
