----------------------------- MODULE CardProbe -----------------------------
(***************************************************************************)
(* Finding the cards and giving their ports places in the driver's tables  *)
(* (driver/snx_main.c): sunix_pci_board_probe, sunix_get_pci_board_conf,   *)
(* sunix_assign_resource and the two table_init functions.                 *)
(*                                                                         *)
(* The probe asks the PCI core for cards of one vendor and device after    *)
(* another, for every entry of the table of known cards, and lists a card  *)
(* at the first entry that fits.  An address is <<card, BAR, offset>>.     *)
(***************************************************************************)
EXTENDS CardTable, FiniteSets, FiniteSetsExt

CONSTANTS
    Systems,              \* the machines to check, one of which is chosen in Init
    SNX_BOARDS_MAX, SNX_SER_TOTAL_MAX, SNX_PAR_SUPPORT_MAX, SNX_PAR_TOTAL_MAX

(* A machine has a sequence of cards, in the order of the PCI core, and    *)
(* mayFail, TRUE if the kernel may refuse memory, regions or interrupts.   *)
(* A card is                                                               *)
(*   id    "golden", "golden_parallel", "matrix" or "sun1999"              *)
(*   sub   its subdevice id                                                *)
(*   part, type, gpio  what a SUN1999 card says in BAR 3                   *)
(*   irq, enables      its interrupt line, and whether it can be enabled   *)
(*   ahdc, rs422       ports (from 0) whose mode bits are set              *)

ASSUME SystemsAssumption ==
    \A m \in Systems : Len(m.cards) \in Nat /\ DOMAIN m.cards = 1 .. Len(m.cards)
ASSUME LimitsAssumption ==
    /\ SNX_BOARDS_MAX \in Nat /\ SNX_SER_TOTAL_MAX \in Nat /\ SNX_PAR_TOTAL_MAX \in Nat
    /\ SNX_PAR_SUPPORT_MAX \in 0 .. SNX_PAR_TOTAL_MAX

VARIABLES
    system,
    pc,        \* the step of snx_init or snx_exit
    search,    \* the search of sunix_pci_board_probe, 1 to 5
    entry,     \* tablecnt + 1
    at,        \* pdev: the last card found, 0 for NULL
    boards,    \* sunix_board_table: [dev, enum] for each board listed
    serTable,  \* sunix_ser_table; the port at i is line i - 1
    parTable   \* sunix_par_table; the port at i is slot i - 1

probeVars == <<system, search, entry, at, boards, serTable, parTable>>

cards == system.cards
Conf == snx_pci_board_conf

ProbeInit ==
    /\ system \in Systems
    /\ search = 1
    /\ entry = 1
    /\ at = 0
    /\ boards = <<>>
    /\ serTable = <<>>
    /\ parTable = <<>>

----------------------------------------------------------------------------
(* pci_get_device(vendor, device, from): the next card with these ids.     *)
NextCard(id) ==
    LET later == {d \in (at + 1) .. Len(cards) : cards[d].id = id}
    IN IF later = {} THEN 0 ELSE Min(later)

\* The lists of boards there may be.
Listings == Seq([dev : DOMAIN cards, enum : 0 .. Len(Conf) - 1])

Listed == {boards[i].dev : i \in DOMAIN boards}

\* Changed definition: without the look in the list.
AlreadyListedNot(d) == FALSE

\* Cards found at the first entry are not looked up in the list.
AlreadyListed(d) == entry > 1 /\ d \in Listed

\* Changed definition: without the limit on boards.
VerdictNoLimit(d, fits) ==
    CASE AlreadyListed(d)                  -> "skip"
      [] cards[d].sub = 0                  -> "EIO"
      [] cards[d].sub # Conf[entry].sub    -> "skip"
      [] ~cards[d].enables                 -> "ENXIO"
      [] ~fits                             -> "skip"
      [] OTHER                             -> "list"

\* What the search does with card d at the current entry.
Verdict(d, fits) ==
    CASE AlreadyListed(d)                  -> "skip"
      [] cards[d].sub = 0                  -> "EIO"
      [] cards[d].sub # Conf[entry].sub    -> "skip"
      [] ~cards[d].enables                 -> "ENXIO"
      [] ~fits                             -> "skip"
      [] Len(boards) = SNX_BOARDS_MAX      -> "ENOSPC"
      [] OTHER                             -> "list"

\* No card is left for this entry: try the next one, then the next search.
\* At the end, no boards at all is ENXIO.
NextEntry ==
    /\ at' = 0
    /\ IF entry < Len(Conf)
       THEN /\ entry' = entry + 1
            /\ UNCHANGED <<search, pc>>
       ELSE /\ entry' = 1
            /\ search' = search + 1
            /\ pc' = IF search < 5 THEN pc ELSE IF boards = <<>> THEN "undo1" ELSE "conf"
    /\ UNCHANGED <<system, boards, serTable, parTable>>

Consider(d, fits) ==
    LET v == Verdict(d, fits) IN
    /\ at' = d
    /\ boards' = IF v = "list" THEN Append(boards, [dev |-> d, enum |-> entry - 1]) ELSE boards
    /\ pc' = IF v \in {"skip", "list"} THEN pc ELSE "undo1"
    /\ UNCHANGED <<system, search, entry, serTable, parTable>>

Search(n, id, Fits(_)) ==
    /\ pc = "probe"
    /\ search = n
    /\ LET d == NextCard(id) IN IF d = 0 THEN NextEntry ELSE Consider(d, Fits(d))

\* Entries with a part number are SUN1999 cards.
GoldenSerial   == Search(1, "golden", LAMBDA d : Conf[entry].part = 0)
GoldenParallel == Search(2, "golden_parallel", LAMBDA d : TRUE)
MatrixSerial   == Search(3, "matrix", LAMBDA d : TRUE)

\* The number of GPIO channels is decoded from BAR 3 before the comparison.
SameBar3(card, conf) ==
    card.part = conf.part /\ card.type = conf.type /\ card.gpio = conf.gpio

Sun1999SerialSearch == Search(4, "sun1999", LAMBDA d : SameBar3(cards[d], Conf[entry]))

\* DEVID_S_PARALL is the same number as DEVID_S_SERIAL, and this search does
\* not read BAR 3.
Sun1999Parallel == Search(5, "sun1999", LAMBDA d : TRUE)

Probe == GoldenSerial \/ GoldenParallel \/ MatrixSerial \/ Sun1999SerialSearch \/ Sun1999Parallel

----------------------------------------------------------------------------
\* Boards whose board_enum is positive; the test card's is 0.
Live == {i \in DOMAIN boards : boards[i].enum > 0}

ConfOf(i) == Conf[boards[i].enum + 1]
CardOf(i) == cards[boards[i].dev]
SerPorts(i) == Len(ConfOf(i).uarts)
ParPorts(i) == Len(ConfOf(i).lpts)

\* The ports of the boards bs, each a board and a place on it.
SerPlaces(bs) == UNION {{i} \X (1 .. SerPorts(i)) : i \in bs}
ParPlaces(bs) == UNION {{i} \X (1 .. ParPorts(i)) : i \in bs}

\* snx_ser_port_total_cnt and snx_par_port_total_cnt.
SerTotal == Cardinality(SerPlaces(Live))
ParTotal == Cardinality(ParPlaces(Live))

GetConf ==
    /\ pc = "conf"
    /\ pc' = IF \/ SerTotal > SNX_SER_TOTAL_MAX
                \/ ParTotal > SNX_PAR_SUPPORT_MAX
                \/ \E i \in Live : CardOf(i).irq <= 0
             THEN "undo1" ELSE "assign"
    /\ UNCHANGED probeVars

----------------------------------------------------------------------------
Address(i, bar, offset) == <<boards[i].dev, bar, offset>>

\* ser_port_index: the ports of the boards before board i come first.  Its
\* parallel ports take the first slots that are free.
Before(i) == {k \in Live : k < i}
SerFirst(i) == Cardinality(SerPlaces(Before(i)))
ParFirst(i) == Cardinality(ParPlaces(Before(i)))

\* The boards of the n-th serial and of the n-th parallel port.
SerBoard(n) == CHOOSE i \in Live : n - SerFirst(i) \in 1 .. SerPorts(i)
ParBoard(n) == CHOOSE i \in Live : n - ParFirst(i) \in 1 .. ParPorts(i)

AssignSerial(i, j) ==
    LET conf == ConfOf(i)
    IN [board |-> i, chip |-> conf.uarts[j].chip,
        iobase |-> Address(i, conf.uarts[j].bar, conf.uarts[j].offset),
        vector |-> IF conf.remap THEN <<>>
                   ELSE Address(i, conf.vector[1], conf.vector[2])]

\* A parallel port has two BARs, one after the other.
AssignParallel(i, k) ==
    LET bar == ConfOf(i).lpts[k]
    IN [board |-> i, chip |-> ConfOf(i).chip, base |-> Address(i, bar, 0),
        base_hi |-> Address(i, bar + 1, 0)]

SerAssigned(n) == LET i == SerBoard(n) IN AssignSerial(i, n - SerFirst(i))
ParAssigned(n) == LET i == ParBoard(n) IN AssignParallel(i, n - ParFirst(i))

AssignResource ==
    /\ pc = "assign"
    /\ serTable' = [n \in 1 .. SerTotal |-> SerAssigned(n)]
    /\ parTable' = [n \in 1 .. ParTotal |-> ParAssigned(n)]
    /\ pc' = "tables"
    /\ UNCHANGED <<system, search, entry, at, boards>>

----------------------------------------------------------------------------
\* AHDC_State of port j: its bit of the nibble of its group.  From port 8 on
\* the nibble is the one left by port 7, shifted by the place in the group.
AhdcState(card, j) ==
    IF j < 8 THEN IF j \in card.ahdc THEN 1 ELSE 0
    ELSE IF 7 \in card.ahdc THEN 8 \div 2 ^ (j % 4) ELSE 0

\* RS422_State; nothing is left of port 7's bit when port 8 shifts it.
Rs422State(card, j) == IF j < 8 /\ j \in card.rs422 THEN 1 ELSE 0

\* vector_mask: the bits of all the board's ports, or none if it is remapped.
VectorMask(i) == IF ConfOf(i).remap THEN {} ELSE 0 .. SerPorts(i) - 1

SerPortEntry(p, n) ==
    LET i == p.board
        j == n - 1 - SerFirst(i)
    IN [board |-> i, chip |-> p.chip, iobase |-> p.iobase, vector |-> p.vector,
        line |-> n - 1, mask |-> VectorMask(i), irq |-> CardOf(i).irq, remap |-> ConfOf(i).remap,
        ahdc |-> AhdcState(CardOf(i), j), rs422 |-> Rs422State(CardOf(i), j)]

\* The parallel ports of a board are found again by bus, device and entry; none
\* of them uses the interrupt.
ParPortEntry(p, n) ==
    [board |-> p.board, chip |-> p.chip, base |-> p.base, base_hi |-> p.base_hi, portnum |-> n - 1]

TableInit ==
    /\ pc = "tables"
    /\ serTable' = [n \in DOMAIN serTable |-> SerPortEntry(serTable[n], n)]
    /\ parTable' = [n \in DOMAIN parTable |-> ParPortEntry(parTable[n], n)]
    /\ pc' = "irq"
    /\ UNCHANGED <<system, search, entry, at, boards>>

=============================================================================
