-------------------------- MODULE DriverInit_proofs --------------------------
(***************************************************************************)
(* Loading and unloading, for any machine and any limits.                  *)
(***************************************************************************)
EXTENDS DriverInit, CardProbe_proofs

(* The invariant IInv, in parts that are kept one by one.                  *)

\* The search, the boards it listed and the tables made of them.
CardsPart ==
    /\ search \in 1 .. 6 /\ entry \in 1 .. Len(Conf) /\ at \in 0 .. Len(cards)
    /\ Len(boards) <= SNX_BOARDS_MAX
    /\ Len(serTable) <= SNX_SER_TOTAL_MAX /\ Len(parTable) <= SNX_PAR_SUPPORT_MAX
    /\ BoardsFit

\* A machine, the table and the totals.
LEMMA CardsAre ==
    ASSUME CardsPart
    PROVE  /\ Len(cards) \in Nat /\ DOMAIN cards = 1 .. Len(cards)
           /\ Len(Conf) \in Nat
           /\ SerTotal \in Nat /\ ParTotal \in Nat
           /\ Len(boards) \in Nat /\ DOMAIN boards = 1 .. Len(boards) /\ Live \subseteq DOMAIN boards
<1>1. Len(cards) \in Nat /\ DOMAIN cards = 1 .. Len(cards)
  BY SystemsAssumption DEF CardsPart, BoardsFit, cards
<1>2. Len(Conf) \in Nat
  BY TableIs, SequenceIs DEF Conf
<1>3. boards \in Listings
  BY DEF CardsPart, BoardsFit
<1>4. SerTotal \in Nat /\ ParTotal \in Nat
  BY <1>3, PortsHaveBoards
<1>5. Live \subseteq DOMAIN boards
  BY DEF Live
<1> QED BY <1>1, <1>2, <1>3, <1>4, <1>5, LiveIs

\* The steps of the search: another entry, or a card that is there.
LEMMA ProbeSteps ==
    ASSUME CardsPart, Probe
    PROVE  /\ pc = "probe"
           /\ NextEntry \/ \E d \in DOMAIN cards : \E fits : Consider(d, fits)
<1>1. ASSUME NEW id
      PROVE  NextCard(id) = 0 \/ NextCard(id) \in DOMAIN cards
  <2> DEFINE later == {d \in (at + 1) .. Len(cards) : cards[d].id = id}
  <2>1. later \in SUBSET Nat /\ later \subseteq DOMAIN cards
    BY CardsAre DEF CardsPart
  <2>2. later # {} => Min(later) \in later
    <3> HIDE DEF later
    <3> QED BY <2>1, MinIs
  <2> QED BY <2>1, <2>2 DEF NextCard
<1>2. CASE GoldenSerial
  BY <1>1, <1>2 DEF GoldenSerial, Search
<1>3. CASE GoldenParallel
  BY <1>1, <1>3 DEF GoldenParallel, Search
<1>4. CASE MatrixSerial
  BY <1>1, <1>4 DEF MatrixSerial, Search
<1>5. CASE Sun1999SerialSearch
  BY <1>1, <1>5 DEF Sun1999SerialSearch, Search
<1>6. CASE Sun1999Parallel
  BY <1>1, <1>6 DEF Sun1999Parallel, Search
<1> QED BY <1>2, <1>3, <1>4, <1>5, <1>6 DEF Probe

\* No card is left for the entry: the list stays as it is.
LEMMA NextEntryKeepsCards ==
    ASSUME CardsPart, pc = "probe", NextEntry
    PROVE  CardsPart'
<1>1. /\ at' = 0 /\ boards' = boards /\ system' = system
      /\ serTable' = serTable /\ parTable' = parTable
  BY DEF NextEntry
<1>2. /\ pc' \in {"probe", "undo1", "conf"}
      /\ pc' = "conf" => boards # <<>>
      /\ pc' = "probe" => search' <= 5
      /\ search' \in 1 .. 6 /\ entry' \in 1 .. Len(Conf)
  <2>1. search \in 1 .. 5 /\ entry \in 1 .. Len(Conf) /\ Len(Conf) \in Nat
    BY CardsAre DEF CardsPart, BoardsFit
  <2>2. CASE entry < Len(Conf)
    BY <2>1, <2>2 DEF NextEntry
  <2>3. CASE ~(entry < Len(Conf))
    BY <2>1, <2>3 DEF NextEntry
  <2> QED BY <2>2, <2>3
<1>3. cards' = cards /\ Listings' = Listings /\ Len(cards') \in Nat
  BY <1>1, CardsAre DEF cards, Listings
<1>4. Live' = Live
  BY <1>1 DEF Live
<1>5. BoardsFit'
  BY <1>1, <1>2, <1>3, <1>4 DEF CardsPart, BoardsFit, Assigned
<1> QED BY <1>1, <1>2, <1>3, <1>5 DEF CardsPart

\* The verdict on a card: it is listed at a later entry only if it was not
\* listed before, and only while there is room.
LEMMA ConsiderKeepsCards ==
    ASSUME CardsPart, pc = "probe", NEW d \in DOMAIN cards, NEW fits, Consider(d, fits)
    PROVE  CardsPart'
<1> DEFINE v == Verdict(d, fits)
           b == [dev |-> d, enum |-> entry - 1]
<1>1. /\ at' = d /\ system' = system /\ search' = search /\ entry' = entry
      /\ serTable' = serTable /\ parTable' = parTable
      /\ boards' = IF v = "list" THEN Append(boards, b) ELSE boards
      /\ pc' = IF v \in {"skip", "list"} THEN pc ELSE "undo1"
  BY DEF Consider
<1>2. v = "list" => ~AlreadyListed(d) /\ Len(boards) # SNX_BOARDS_MAX
  BY DEF Verdict
<1> HIDE DEF v
<1>3. cards' = cards /\ Listings' = Listings
  BY <1>1 DEF cards, Listings
<1>4. boards \in Listings /\ Len(boards) \in 0 .. SNX_BOARDS_MAX /\ b \in [dev : DOMAIN cards, enum : 0 .. Len(Conf) - 1]
  BY CardsAre, LimitsAssumption DEF CardsPart, BoardsFit
<1>5. /\ boards' \in Listings /\ Len(boards') <= SNX_BOARDS_MAX
      /\ \A i, k \in Live' : boards'[i].dev = boards'[k].dev => i = k
  <2>1. CASE v = "list"
    <3>1. boards' = Append(boards, b)
      BY <1>1, <2>1
    <3>2. boards' \in Listings
      BY <1>4, <3>1 DEF Listings
    <3>3. Len(boards') = Len(boards) + 1 /\ DOMAIN boards' = 1 .. Len(boards) + 1
      BY <1>4, <3>1 DEF Listings
    <3>4. /\ \A i \in DOMAIN boards : boards'[i] = boards[i]
          /\ boards'[Len(boards) + 1] = b
      BY <1>4, <3>1 DEF Listings
    <3>5. \A i \in DOMAIN boards : entry > 1 => boards[i].dev # d
      BY <1>2, <2>1 DEF AlreadyListed, Listed
    <3>6. DOMAIN boards = 1 .. Len(boards)
      BY CardsAre
    <3>7. ASSUME NEW i \in Live', NEW k \in Live', boards'[i].dev = boards'[k].dev
          PROVE  i = k
      <4>1. i \in 1 .. Len(boards) + 1 /\ k \in 1 .. Len(boards) + 1 /\ boards'[i].enum > 0 /\ boards'[k].enum > 0
        BY <3>3 DEF Live
      <4>2. \A m \in Live' : m \in DOMAIN boards => m \in Live
        BY <3>4 DEF Live
      <4>3. CASE i \in DOMAIN boards /\ k \in DOMAIN boards
        BY <4>2, <4>3, <3>4, <3>7 DEF CardsPart, BoardsFit
      <4>4. \A m \in Live' : m \notin DOMAIN boards => m = Len(boards) + 1 /\ entry > 1
        <5>1. SUFFICES ASSUME NEW m \in Live', m \notin DOMAIN boards
                       PROVE  m = Len(boards) + 1 /\ entry > 1
          OBVIOUS
        <5>2. m \in 1 .. Len(boards) + 1 /\ boards'[m].enum > 0
          BY <3>3 DEF Live
        <5>3. m = Len(boards) + 1
          BY <5>1, <5>2, <3>6, <1>4
        <5>4. entry - 1 > 0 /\ entry \in Nat
          BY <5>2, <5>3, <3>4 DEF CardsPart
        <5> QED BY <5>3, <5>4
      <4>5. CASE i \notin DOMAIN boards /\ k \notin DOMAIN boards
        BY <4>4, <4>5
      <4>6. CASE i \in DOMAIN boards /\ k \notin DOMAIN boards
        <5>1. entry > 1 /\ boards'[k] = b /\ boards'[i] = boards[i]
          BY <4>4, <4>6, <3>4
        <5> QED BY <5>1, <3>5, <3>7, <4>6
      <4>7. CASE i \notin DOMAIN boards /\ k \in DOMAIN boards
        <5>1. entry > 1 /\ boards'[i] = b /\ boards'[k] = boards[k]
          BY <4>4, <4>7, <3>4
        <5> QED BY <5>1, <3>5, <3>7, <4>7
      <4> QED BY <4>3, <4>5, <4>6, <4>7
    <3>8. Len(boards') <= SNX_BOARDS_MAX
      BY <1>2, <1>4, <2>1, <3>3, LimitsAssumption
    <3> QED BY <1>3, <3>2, <3>7, <3>8
  <2>2. CASE v # "list"
    <3>1. boards' = boards
      BY <1>1, <2>2
    <3>2. Live' = Live
      BY <3>1 DEF Live
    <3> QED BY <3>1, <3>2, <1>4 DEF CardsPart, BoardsFit
  <2> QED BY <2>1, <2>2
<1>6. pc' \in {"probe", "undo1"} /\ search' <= 5
  BY <1>1 DEF CardsPart, BoardsFit
<1>7. BoardsFit'
  BY <1>1, <1>3, <1>5, <1>6 DEF CardsPart, BoardsFit, Assigned
<1>8. at' \in 0 .. Len(cards')
  BY <1>1, <1>3, CardsAre
<1> QED BY <1>1, <1>3, <1>5, <1>7, <1>8 DEF CardsPart

\* The totals are checked before the tables are made.
LEMMA GetConfKeepsCards ==
    ASSUME CardsPart, GetConf
    PROVE  CardsPart'
<1>1. /\ UNCHANGED <<system, search, entry, at, boards, serTable, parTable>>
      /\ pc = "conf" /\ pc' \in {"undo1", "assign"}
      /\ pc' = "assign" => ~(SerTotal > SNX_SER_TOTAL_MAX) /\ ~(ParTotal > SNX_PAR_SUPPORT_MAX)
  BY DEF GetConf, probeVars
<1>2. cards' = cards /\ Listings' = Listings
  BY <1>1 DEF cards, Listings
<1>3. Live' = Live /\ SerTotal' = SerTotal /\ ParTotal' = ParTotal
  BY <1>1, CountsSame
<1>4. pc' = "assign" => SerTotal <= SNX_SER_TOTAL_MAX /\ ParTotal <= SNX_PAR_SUPPORT_MAX
  BY <1>1, CardsAre, LimitsAssumption
<1>5. BoardsFit'
  BY <1>1, <1>2, <1>3, <1>4 DEF CardsPart, BoardsFit, Assigned
<1> QED BY <1>1, <1>2, <1>5 DEF CardsPart

\* The tables have as many ports as the boards.
LEMMA AssignKeepsCards ==
    ASSUME CardsPart, AssignResource
    PROVE  CardsPart'
<1>1. /\ system' = system /\ search' = search /\ entry' = entry /\ at' = at /\ boards' = boards
      /\ pc = "assign" /\ pc' = "tables"
      /\ serTable' = [n \in 1 .. SerTotal |-> SerAssigned(n)]
      /\ parTable' = [n \in 1 .. ParTotal |-> ParAssigned(n)]
  BY DEF AssignResource
<1>2. cards' = cards /\ Listings' = Listings
  BY <1>1 DEF cards, Listings
<1>3. Live' = Live /\ SerTotal' = SerTotal /\ ParTotal' = ParTotal
  BY <1>1, CountsSame
<1>4. /\ serTable' = [n \in 1 .. SerTotal' |-> SerAssigned(n)']
      /\ parTable' = [n \in 1 .. ParTotal' |-> ParAssigned(n)']
  BY <1>1, <1>3, EntriesSame
<1>5. SerTotal <= SNX_SER_TOTAL_MAX /\ ParTotal <= SNX_PAR_SUPPORT_MAX
  BY <1>1 DEF CardsPart, BoardsFit
<1>6. Len(serTable') = SerTotal /\ Len(parTable') = ParTotal
  BY <1>1, CardsAre
<1>7. boards # <<>>
  BY <1>1 DEF CardsPart, BoardsFit
<1>8. BoardsFit'
  BY <1>1, <1>2, <1>3, <1>4, <1>5, <1>7 DEF CardsPart, BoardsFit, Assigned
<1> QED BY <1>1, <1>2, <1>5, <1>6, <1>8 DEF CardsPart

\* Their entries get what the boards say of them.
LEMMA TableInitKeepsCards ==
    ASSUME CardsPart, TableInit
    PROVE  CardsPart'
<1>1. /\ system' = system /\ search' = search /\ entry' = entry /\ at' = at /\ boards' = boards
      /\ pc = "tables" /\ pc' = "irq"
      /\ serTable' = [n \in DOMAIN serTable |-> SerPortEntry(serTable[n], n)]
      /\ parTable' = [n \in DOMAIN parTable |-> ParPortEntry(parTable[n], n)]
  BY DEF TableInit
<1>2. cards' = cards /\ Listings' = Listings
  BY <1>1 DEF cards, Listings
<1>3. Live' = Live /\ SerTotal' = SerTotal /\ ParTotal' = ParTotal
  BY <1>1, CountsSame
<1>4. /\ serTable = [n \in 1 .. SerTotal |-> SerAssigned(n)]
      /\ parTable = [n \in 1 .. ParTotal |-> ParAssigned(n)]
      /\ SerTotal <= SNX_SER_TOTAL_MAX /\ ParTotal <= SNX_PAR_SUPPORT_MAX /\ boards # <<>>
  BY <1>1 DEF CardsPart, BoardsFit
<1>5. /\ serTable' = [n \in 1 .. SerTotal |-> SerPortEntry(SerAssigned(n), n)]
      /\ parTable' = [n \in 1 .. ParTotal |-> ParPortEntry(ParAssigned(n), n)]
  BY <1>1, <1>4
<1>6. /\ serTable' = [n \in 1 .. SerTotal' |-> SerPortEntry(SerAssigned(n), n)']
      /\ parTable' = [n \in 1 .. ParTotal' |-> ParPortEntry(ParAssigned(n), n)']
  <2>1. /\ \A n : SerPortEntry(SerAssigned(n), n)' = SerPortEntry(SerAssigned(n), n)
        /\ \A n : ParPortEntry(ParAssigned(n), n)' = ParPortEntry(ParAssigned(n), n)
    BY <1>1, EntriesSame
  <2> QED BY <1>3, <1>5, <2>1
<1>7. Len(serTable') = SerTotal /\ Len(parTable') = ParTotal
  BY <1>5, CardsAre
<1>8. BoardsFit'
  BY <1>1, <1>2, <1>3, <1>4, <1>6 DEF CardsPart, BoardsFit, Assigned
<1> QED BY <1>1, <1>2, <1>4, <1>7, <1>8 DEF CardsPart

\* The other steps leave all of this alone.
LEMMA OthersKeepCards ==
    ASSUME CardsPart, UNCHANGED probeVars,
           pc' \notin {"conf", "assign", "tables"},
           pc' \in {"register_pci", "probe"} => pc \in {"register_pci", "probe"},
           Assigned' => Assigned
    PROVE  CardsPart'
<1>1. UNCHANGED <<system, search, entry, at, boards, serTable, parTable>>
  BY DEF probeVars
<1>2. cards' = cards /\ Listings' = Listings
  BY <1>1 DEF cards, Listings
<1>3. Live' = Live /\ SerTotal' = SerTotal /\ ParTotal' = ParTotal
  BY <1>1, CountsSame
<1>4. Assigned' =>
        /\ serTable' = [n \in 1 .. SerTotal' |-> SerPortEntry(SerAssigned(n), n)']
        /\ parTable' = [n \in 1 .. ParTotal' |-> ParPortEntry(ParAssigned(n), n)']
        /\ boards' # <<>>
  <2>1. /\ \A n : SerPortEntry(SerAssigned(n), n)' = SerPortEntry(SerAssigned(n), n)
        /\ \A n : ParPortEntry(ParAssigned(n), n)' = ParPortEntry(ParAssigned(n), n)
    BY <1>1, EntriesSame
  <2>2. Assigned =>
          /\ serTable = [n \in 1 .. SerTotal |-> SerPortEntry(SerAssigned(n), n)]
          /\ parTable = [n \in 1 .. ParTotal |-> ParPortEntry(ParAssigned(n), n)]
          /\ boards # <<>>
    BY DEF CardsPart, BoardsFit
  <2> QED BY <1>1, <1>3, <2>1, <2>2
<1>5. pc' \in {"register_pci", "probe"} => search' <= 5
  BY <1>1 DEF CardsPart, BoardsFit
<1>6. BoardsFit'
  BY <1>1, <1>2, <1>3, <1>4, <1>5 DEF CardsPart, BoardsFit
<1> QED BY <1>1, <1>2, <1>6 DEF CardsPart

----------------------------------------------------------------------------
(* Interrupts, lines and drivers.                                          *)

SerialPart ==
    /\ handlers \cup drvdata \subseteq DOMAIN boards
    /\ lines \subseteq 0 .. SNX_SER_TOTAL_MAX - 1
    /\ pciDriver \in BOOLEAN /\ ttyDriver \in BOOLEAN /\ exiting \in BOOLEAN
    /\ SerialFits

\* A registered handler belongs to a board that is listed.
LEMMA BoardsGrow ==
    ASSUME CardsPart, FindCards
    PROVE  DOMAIN boards \subseteq DOMAIN boards'
<1>1. CASE Probe
  <2>1. CASE NextEntry
    BY <2>1 DEF NextEntry
  <2>2. ASSUME NEW d \in DOMAIN cards, NEW fits, Consider(d, fits)
        PROVE  DOMAIN boards \subseteq DOMAIN boards'
    <3>1. boards' = boards \/ boards' = Append(boards, [dev |-> d, enum |-> entry - 1])
      BY <2>2 DEF Consider
    <3>2. boards \in Listings /\ Len(boards) \in Nat /\ DOMAIN boards = 1 .. Len(boards)
      BY CardsAre DEF CardsPart, BoardsFit
    <3> QED BY <3>1, <3>2 DEF Listings
  <2> QED BY <1>1, <2>1, <2>2, ProbeSteps
<1>2. CASE GetConf
  BY <1>2 DEF GetConf, probeVars
<1>3. CASE AssignResource
  BY <1>3 DEF AssignResource
<1>4. CASE TableInit
  BY <1>4 DEF TableInit
<1> QED BY <1>1, <1>2, <1>3, <1>4 DEF FindCards

\* Where the steps of the search lead.
LEMMA FindCardsGoes ==
    ASSUME CardsPart, FindCards
    PROVE  /\ pc \in {"probe", "conf", "assign", "tables"}
           /\ pc' \in {"probe", "conf", "assign", "tables", "irq", "undo1"}
           /\ UNCHANGED <<registryVars, initVars>>
<1>1. CASE Probe
  <2>1. ASSUME NextEntry, pc = "probe" PROVE pc' \in {"probe", "conf", "undo1"}
    BY <2>1 DEF NextEntry
  <2>2. ASSUME NEW d \in DOMAIN cards, NEW fits, Consider(d, fits), pc = "probe"
        PROVE  pc' \in {"probe", "undo1"}
    BY <2>2 DEF Consider
  <2> QED BY <1>1, <2>1, <2>2, ProbeSteps DEF FindCards
<1>2. CASE GetConf
  BY <1>2 DEF GetConf, FindCards
<1>3. CASE AssignResource
  BY <1>3 DEF AssignResource, FindCards
<1>4. CASE TableInit
  BY <1>4 DEF TableInit, FindCards
<1> QED BY <1>1, <1>2, <1>3, <1>4 DEF FindCards

\* The search keeps its part.
LEMMA FindCardsKeepsCards ==
    ASSUME CardsPart, FindCards
    PROVE  CardsPart'
<1>1. CASE Probe
  BY <1>1, ProbeSteps, NextEntryKeepsCards, ConsiderKeepsCards
<1>2. CASE GetConf
  BY <1>2, GetConfKeepsCards
<1>3. CASE AssignResource
  BY <1>3, AssignKeepsCards
<1>4. CASE TableInit
  BY <1>4, TableInitKeepsCards
<1> QED BY <1>1, <1>2, <1>3, <1>4 DEF FindCards

\* Every step keeps the part of the cards.
LEMMA NextKeepsCards ==
    ASSUME CardsPart, Next
    PROVE  CardsPart'
<1>1. CASE FindCards
  BY <1>1, FindCardsKeepsCards
<1>2. CASE RegisterPci
  BY <1>2, OthersKeepCards DEF RegisterPci, Assigned
<1>3. CASE RegisterIrq
  BY <1>3, OthersKeepCards DEF RegisterIrq, Assigned
<1>4. CASE SerRegisterDriver
  BY <1>4, OthersKeepCards DEF SerRegisterDriver, Assigned
<1>5. CASE SerRegisterPorts
  BY <1>5, OthersKeepCards DEF SerRegisterPorts, Assigned
<1>6. CASE ProbePort
  BY <1>6, OthersKeepCards DEF ProbePort, Assigned
<1>7. CASE AllPortsProbed
  BY <1>7, OthersKeepCards DEF AllPortsProbed, Assigned
<1>8. CASE PpdevInit
  BY <1>8, OthersKeepCards DEF PpdevInit, Assigned
<1>9. CASE LpInit
  BY <1>9, OthersKeepCards DEF LpInit, Assigned
<1>10. ASSUME NEW s \in Slots, PpClaim(s) \/ PpClose(s) \/ PpGetModes(s) PROVE CardsPart'
  BY <1>10, OthersKeepCards DEF PpClaim, PpClose, PpGetModes, Assigned
<1>11. CASE Exit
  BY <1>11, OthersKeepCards DEF Exit, Assigned
<1>12. CASE LpExit
  BY <1>12, OthersKeepCards DEF LpExit, Assigned
<1>13. CASE Undo
  BY <1>13, OthersKeepCards DEF Undo, Undo7, Undo6, Undo5, Undo4, Undo3, Undo2, Undo1, Assigned
<1> QED BY <1>1, <1>2, <1>3, <1>4, <1>5, <1>6, <1>7, <1>8, <1>9, <1>10, <1>11, <1>12, <1>13 DEF Next


----------------------------------------------------------------------------
(* The parallel ports: what may be said of the registry at any time, of a  *)
(* list of ports p, the lp devices lp, the leaked references lk and the    *)
(* devices of ppdev us.                                                    *)

PortType == [number : Nat, refs : Nat, listed : BOOLEAN]
MaxSlot == SNX_PAR_SUPPORT_MAX
ListedIn(p) == {s \in DOMAIN p : p[s].listed}
One(s, S) == IF s \in S THEN 1 ELSE 0
Holds(s, p, lp, lk, us) == One(s, ListedIn(p)) + One(s, lp) + us[s] + lk[s]

Users(p, lk, us) ==
    /\ lk \in [1 .. MaxSlot -> Nat] /\ us \in [1 .. MaxSlot -> Nat]
    /\ \A s \in 1 .. MaxSlot : us[s] <= MaxUse /\ lk[s] <= MaxUse
    /\ \A s \in 1 .. MaxSlot : us[s] > 0 => s \in ListedIn(p)

Listing(p) ==
    /\ p \in [DOMAIN p -> PortType]
    /\ DOMAIN p \subseteq 1 .. MaxSlot
    /\ \A s \in DOMAIN p : p[s].number \in 2 .. MaxSlot + 1
    /\ \A s, t \in DOMAIN p : p[s].number = p[t].number => s = t

Counted(p, lp, lk, us) ==
    /\ \A s \in DOMAIN p : p[s].refs >= 1 /\ p[s].refs = Holds(s, p, lp, lk, us)
    /\ \A s \in (1 .. MaxSlot) \ DOMAIN p : us[s] = 0 /\ lk[s] = 0

Rel(p, lp, lk, us) ==
    Listing(p) /\ Users(p, lk, us) /\ lp \subseteq ListedIn(p) /\ Counted(p, lp, lk, us)

\* The references of a port change, and nothing else of it.
LEMMA AddIs ==
    ASSUME NEW p, p \in [DOMAIN p -> PortType], NEW s \in DOMAIN p, NEW n \in Int,
           p[s].refs + n \in Nat
    PROVE  /\ Add(p, s, n) \in [DOMAIN p -> PortType]
           /\ \A t \in DOMAIN p : /\ Add(p, s, n)[t].number = p[t].number
                                  /\ Add(p, s, n)[t].listed = p[t].listed
                                  /\ t # s => Add(p, s, n)[t].refs = p[t].refs
           /\ Add(p, s, n)[s].refs = p[s].refs + n
<1> DEFINE r == [p[s] EXCEPT !.refs = @ + n]
<1>1. p[s] \in PortType
  OBVIOUS
<1>2. /\ r \in PortType /\ r.number = p[s].number /\ r.listed = p[s].listed
      /\ r.refs = p[s].refs + n
  BY <1>1 DEF PortType
<1>3. Add(p, s, n) = [p EXCEPT ![s] = r]
  BY DEF Add
<1> HIDE DEF r
<1>4. /\ Add(p, s, n) \in [DOMAIN p -> PortType]
      /\ \A t \in DOMAIN p : Add(p, s, n)[t] = IF t = s THEN r ELSE p[t]
  BY <1>2, <1>3
<1> QED BY <1>2, <1>4

\* A reference that is not the last one is given back.
LEMMA PutIs ==
    ASSUME NEW p, p \in [DOMAIN p -> PortType], NEW s \in DOMAIN p, p[s].refs >= 2
    PROVE  PutPort(p, s) = Add(p, s, -1)
<1>1. p[s].refs # 1
  OBVIOUS
<1> QED BY <1>1 DEF PutPort

\* The same ports with other references, which are counted again.
SamePorts(p, q) ==
    /\ q \in [DOMAIN p -> PortType]
    /\ \A t \in DOMAIN p : q[t].number = p[t].number /\ q[t].listed = p[t].listed

Recounted(p, q, lp, lk, us) ==
    /\ \A t \in DOMAIN p : q[t].refs >= 1 /\ q[t].refs = Holds(t, p, lp, lk, us)
    /\ \A t \in (1 .. MaxSlot) \ DOMAIN p : us[t] = 0 /\ lk[t] = 0

\* The same are listed.
LEMMA SameMeans ==
    ASSUME NEW p, NEW q, SamePorts(p, q)
    PROVE  DOMAIN q = DOMAIN p /\ ListedIn(q) = ListedIn(p)
<1>1. DOMAIN q = DOMAIN p
  BY DEF SamePorts
<1> QED BY <1>1 DEF SamePorts, ListedIn

\* What is said of the ports holds of them with their references as recounted.
LEMMA Recount ==
    ASSUME NEW p, NEW lp, NEW lk, NEW us, Rel(p, lp, lk, us),
           NEW q, NEW lpq, NEW lkq, NEW usq,
           SamePorts(p, q), lpq \subseteq ListedIn(p), Users(p, lkq, usq),
           Recounted(p, q, lpq, lkq, usq)
    PROVE  Rel(q, lpq, lkq, usq) /\ SamePorts(p, q)
<1>1. DOMAIN q = DOMAIN p
  BY DEF SamePorts
<1>2. ListedIn(q) = ListedIn(p)
  BY SameMeans
<1>3. Listing(q)
  BY <1>1 DEF Rel, Listing, SamePorts
<1>4. Users(q, lkq, usq)
  BY <1>2 DEF Users
<1>5. Counted(q, lpq, lkq, usq)
  BY <1>1, <1>2 DEF Counted, Holds, Recounted
<1> QED BY <1>2, <1>3, <1>4, <1>5 DEF Rel

\* The number given to a new port is one that no port has.
LEMMA FreeNumberIs ==
    ASSUME NEW ps, IsFiniteSet(DOMAIN ps)
    PROVE  /\ Cardinality(DOMAIN ps) \in Nat
           /\ FreeNumber(ps) \in 2 .. Cardinality(DOMAIN ps) + 2
           /\ FreeNumber(ps) \notin Numbers(ps)
<1> DEFINE D == DOMAIN ps
           c == Cardinality(D)
           free == (2 .. c + 2) \ Numbers(ps)
<1>1. c \in Nat
  BY FS_CardinalityType
<1>2. free # {}
  <2>1. SUFFICES ASSUME free = {} PROVE FALSE
    OBVIOUS
  <2>2. \A n \in 2 .. c + 2 : \E s \in D : ps[s].number = n
    BY <2>1 DEF Numbers
  <2> DEFINE f == [n \in 2 .. c + 2 |-> CHOOSE s \in D : ps[s].number = n]
  <2>3. \A n \in 2 .. c + 2 : f[n] \in D /\ ps[f[n]].number = n
    BY <2>2
  <2>4. f \in [2 .. c + 2 -> D]
    BY <2>3
  <2>5. IsFiniteSet(2 .. c + 2) /\ Cardinality(2 .. c + 2) = c + 1
    BY <1>1, FS_Interval
  <2>6. Cardinality(D) < Cardinality(2 .. c + 2)
    BY <1>1, <2>5
  <2> HIDE DEF f
  <2>7. \E x, y \in 2 .. c + 2 : x # y /\ f[x] = f[y]
    BY <2>4, <2>5, <2>6, FS_PigeonHole
  <2> QED BY <2>3, <2>7
<1>3. PICK n \in free : \A k \in free : n <= k
  <2>1. free \in SUBSET Nat
    BY <1>1
  <2> HIDE DEF free
  <2> QED BY <2>1, <1>2, LeastOf
<1>4. \A k \in 2 .. n - 1 : k \in Numbers(ps)
  BY <1>1, <1>3
<1>5. n \in 2 .. Cardinality(DOMAIN ps) + 2 /\ n \notin Numbers(ps)
  OBVIOUS
<1> QED BY <1>1, <1>4, <1>5 DEF FreeNumber

\* The ports with one more.
WithPort(p, s) ==
    [t \in DOMAIN p \cup {s} |->
        IF t = s THEN [number |-> FreeNumber(p), refs |-> 1, listed |-> TRUE] ELSE p[t]]

\* A new port has one reference, the one of its registration.
LEMMA RegisterKeepsRel ==
    ASSUME NEW p, NEW lp, NEW lk, NEW us, Rel(p, lp, lk, us),
           NEW s \in 1 .. MaxSlot, DOMAIN p = 1 .. s - 1,
           NEW q, q = WithPort(p, s)
    PROVE  /\ Rel(q, lp, lk, us) /\ DOMAIN q = 1 .. s
           /\ ListedIn(q) = ListedIn(p) \cup {s}
<1> DEFINE r == [number |-> FreeNumber(p), refs |-> 1, listed |-> TRUE]
<1>0. MaxSlot \in Nat /\ s \in Nat /\ s <= MaxSlot
  BY LimitsAssumption DEF MaxSlot
<1>1. IsFiniteSet(DOMAIN p) /\ Cardinality(DOMAIN p) = s - 1
  <2>1. 1 \in Int /\ s - 1 \in Int /\ (IF 1 > s - 1 THEN 0 ELSE (s - 1) - 1 + 1) = s - 1
    BY <1>0
  <2> QED BY <2>1, FS_Interval
<1>2. FreeNumber(p) \in 2 .. MaxSlot + 1 /\ FreeNumber(p) \notin Numbers(p)
  BY <1>0, <1>1, FreeNumberIs
<1>3. r \in PortType /\ r.number = FreeNumber(p) /\ r.refs = 1 /\ r.listed = TRUE
  BY <1>2 DEF PortType
<1>4. q = [t \in DOMAIN p \cup {s} |-> IF t = s THEN r ELSE p[t]]
  BY DEF WithPort
<1> HIDE DEF r
<1>5. s \notin DOMAIN p /\ DOMAIN p \cup {s} = 1 .. s
  BY <1>0
<1>6. DOMAIN q = 1 .. s /\ q[s] = r /\ \A t \in DOMAIN p : q[t] = p[t]
  BY <1>4, <1>5
<1>7. ListedIn(q) = ListedIn(p) \cup {s}
  BY <1>3, <1>5, <1>6 DEF ListedIn
<1>8. Listing(q)
  <2>1. q \in [DOMAIN q -> PortType]
    <3>1. p \in [DOMAIN p -> PortType]
      BY DEF Rel, Listing
    <3> QED BY <1>3, <1>4, <3>1
  <2>2. DOMAIN q \subseteq 1 .. MaxSlot
    BY <1>0, <1>6
  <2>3. \A t \in DOMAIN q : q[t].number \in 2 .. MaxSlot + 1
    <3>1. \A t \in DOMAIN p : p[t].number \in 2 .. MaxSlot + 1
      BY DEF Rel, Listing
    <3>2. \A t \in DOMAIN q : t = s \/ t \in DOMAIN p
      BY <1>5, <1>6
    <3> QED BY <1>2, <1>3, <1>6, <3>1, <3>2
  <2>4. \A t \in DOMAIN p : p[t].number # r.number
    BY <1>2, <1>3 DEF Numbers
  <2>5. \A t, u \in DOMAIN q : q[t].number = q[u].number => t = u
    <3>1. \A t, u \in DOMAIN p : p[t].number = p[u].number => t = u
      BY DEF Rel, Listing
    <3>2. \A t \in DOMAIN q : t = s \/ t \in DOMAIN p
      BY <1>5, <1>6
    <3> QED BY <1>6, <2>4, <3>1, <3>2
  <2> QED BY <2>1, <2>2, <2>3, <2>5 DEF Listing
<1>9. Users(q, lk, us)
  BY <1>7 DEF Rel, Users
<1>10. Counted(q, lp, lk, us)
  <2>1. us[s] = 0 /\ lk[s] = 0 /\ s \notin lp
    BY <1>5 DEF Rel, Counted, ListedIn
  <2>2. q[s].refs >= 1 /\ q[s].refs = Holds(s, q, lp, lk, us)
    <3>1. One(s, ListedIn(q)) = 1 /\ One(s, lp) = 0
      BY <1>7, <2>1 DEF One
    <3> QED BY <1>3, <1>6, <2>1, <3>1 DEF Holds
  <2>3. ASSUME NEW t \in DOMAIN p
        PROVE  q[t].refs >= 1 /\ q[t].refs = Holds(t, q, lp, lk, us)
    <3>1. One(t, ListedIn(q)) = One(t, ListedIn(p))
      BY <1>5, <1>7 DEF One
    <3> QED BY <1>6, <3>1 DEF Rel, Counted, Holds
  <2>4. \A t \in (1 .. MaxSlot) \ DOMAIN q : us[t] = 0 /\ lk[t] = 0
    BY <1>5, <1>6 DEF Rel, Counted
  <2> QED BY <1>5, <1>6, <2>2, <2>3, <2>4 DEF Counted
<1>11. lp \subseteq ListedIn(q)
  BY <1>7 DEF Rel
<1> QED BY <1>6, <1>7, <1>8, <1>9, <1>10, <1>11 DEF Rel


\* Port s off the list.
Unlisted(p, s) == [p EXCEPT ![s].listed = FALSE]

\* A port taken off the list goes with its last reference, or stays with those
\* that were leaked.
LEMMA UnregisterKeepsRel ==
    ASSUME NEW p, NEW lk, NEW us, Rel(p, {}, lk, us),
           NEW s \in ListedIn(p), us[s] = 0,
           NEW q, q = PutPort(Unlisted(p, s), s)
    PROVE  /\ Rel(q, {}, lk, us)
           /\ ListedIn(q) = ListedIn(p) \ {s}
           /\ DOMAIN q = IF lk[s] = 0 THEN DOMAIN p \ {s} ELSE DOMAIN p
<1> DEFINE r == [p[s] EXCEPT !.listed = FALSE]
           o == Unlisted(p, s)
<1>0. s \in DOMAIN p /\ s \in 1 .. MaxSlot /\ p[s] \in PortType /\ p[s].listed
  BY DEF ListedIn, Rel, Listing
<1>1. lk[s] \in Nat /\ p[s].refs = 1 + lk[s]
  <2>1. p[s].refs = Holds(s, p, {}, lk, us) /\ lk[s] \in Nat
    BY <1>0 DEF Rel, Counted, Users
  <2>2. One(s, ListedIn(p)) = 1 /\ One(s, {}) = 0
    BY DEF One
  <2> QED BY <2>1, <2>2 DEF Holds
<1>2. r \in PortType /\ r.number = p[s].number /\ r.refs = p[s].refs /\ r.listed = FALSE
  BY <1>0 DEF PortType
<1>3. o = [p EXCEPT ![s] = r]
  BY DEF Unlisted
<1> HIDE DEF r
<1>4. /\ o \in [DOMAIN p -> PortType] /\ DOMAIN o = DOMAIN p /\ o[s] = r
      /\ \A t \in DOMAIN p : t # s => o[t] = p[t]
  BY <1>0, <1>2, <1>3 DEF Rel, Listing
<1> HIDE DEF o
<1>5. q = PutPort(o, s)
  BY DEF o
\* What is left, with its references.
<1>6. /\ q \in [DOMAIN q -> PortType]
      /\ DOMAIN q = IF lk[s] = 0 THEN DOMAIN p \ {s} ELSE DOMAIN p
      /\ \A t \in DOMAIN q : t # s => q[t] = p[t]
      /\ s \in DOMAIN q => /\ q[s].number = p[s].number /\ q[s].listed = FALSE
                           /\ q[s].refs = lk[s] /\ lk[s] >= 1
  <2>1. CASE lk[s] = 0
    <3>1. o[s].refs = 1
      BY <1>1, <1>2, <1>4, <2>1
    <3>2. q = [t \in DOMAIN p \ {s} |-> o[t]]
      BY <1>4, <1>5, <3>1 DEF PutPort
    <3> QED BY <1>4, <2>1, <3>2
  <2>2. CASE lk[s] # 0
    <3>1. o[s].refs >= 2 /\ o[s].refs + (-1) \in Nat /\ o[s].refs + (-1) = lk[s]
      BY <1>1, <1>2, <1>4, <2>2
    <3>2. q = Add(o, s, -1)
      BY <1>0, <1>4, <1>5, <3>1, PutIs
    <3> DEFINE a == [o[s] EXCEPT !.refs = @ + (-1)]
    <3>3. a \in PortType /\ a.number = o[s].number /\ a.listed = o[s].listed /\ a.refs = lk[s]
      BY <1>2, <1>4, <3>1 DEF PortType
    <3>4. q = [o EXCEPT ![s] = a]
      BY <3>2 DEF Add
    <3> HIDE DEF a
    <3>5. q \in [DOMAIN p -> PortType] /\ q[s] = a /\ \A t \in DOMAIN p : t # s => q[t] = o[t]
      BY <1>0, <1>4, <3>3, <3>4
    <3>6. DOMAIN q = DOMAIN p
      BY <3>5
    <3>7. \A t \in DOMAIN q : t # s => q[t] = p[t]
      BY <1>4, <3>5, <3>6
    <3>8. q[s].number = p[s].number /\ q[s].listed = FALSE /\ q[s].refs = lk[s]
      BY <1>2, <1>4, <3>3, <3>5
    <3>9. q \in [DOMAIN q -> PortType]
      BY <3>5, <3>6
    <3>10. DOMAIN q = IF lk[s] = 0 THEN DOMAIN p \ {s} ELSE DOMAIN p
      BY <2>2, <3>6
    <3>11. lk[s] >= 1
      BY <1>1, <2>2
    <3> QED BY <3>7, <3>8, <3>9, <3>10, <3>11
  <2> QED BY <2>1, <2>2
<1>7. ListedIn(q) = ListedIn(p) \ {s}
  BY <1>0, <1>6 DEF ListedIn
<1>8. Listing(q)
  <2>1. DOMAIN q \subseteq DOMAIN p
    BY <1>6
  <2>2. \A t \in DOMAIN q : q[t].number = p[t].number
    BY <1>6
  <2>3. /\ DOMAIN p \subseteq 1 .. MaxSlot
        /\ \A t \in DOMAIN p : p[t].number \in 2 .. MaxSlot + 1
        /\ \A t, u \in DOMAIN p : p[t].number = p[u].number => t = u
    BY DEF Rel, Listing
  <2>4. \A t, u \in DOMAIN q : q[t].number = q[u].number => t = u
    BY <2>1, <2>2, <2>3
  <2>5. DOMAIN q \subseteq 1 .. MaxSlot /\ \A t \in DOMAIN q : q[t].number \in 2 .. MaxSlot + 1
    BY <2>1, <2>2, <2>3
  <2> QED BY <1>6, <2>4, <2>5 DEF Listing
<1>9. Users(q, lk, us)
  <2>1. Users(p, lk, us)
    BY DEF Rel
  <2>2. us[s] = 0
    OBVIOUS
  <2>3. ASSUME NEW t \in 1 .. MaxSlot, us[t] > 0 PROVE t \in ListedIn(q)
    <3>1. t \in ListedIn(p)
      BY <2>1, <2>3 DEF Users
    <3>2. t # s
      BY <2>2, <2>3
    <3> QED BY <1>7, <3>1, <3>2
  <2> QED BY <2>1, <2>3 DEF Users
<1>10. Counted(q, {}, lk, us)
  <2>1. ASSUME NEW t \in DOMAIN q, t # s
        PROVE  q[t].refs >= 1 /\ q[t].refs = Holds(t, q, {}, lk, us)
    <3>1. t \in DOMAIN p /\ q[t] = p[t] /\ One(t, ListedIn(q)) = One(t, ListedIn(p))
      BY <1>6, <1>7, <2>1 DEF One
    <3> QED BY <3>1 DEF Rel, Counted, Holds
  <2>2. s \in DOMAIN q => q[s].refs >= 1 /\ q[s].refs = Holds(s, q, {}, lk, us)
    <3>1. One(s, ListedIn(q)) = 0 /\ One(s, {}) = 0
      BY <1>7 DEF One
    <3> QED BY <1>1, <1>6, <3>1 DEF Holds
  <2>3. ASSUME NEW t \in (1 .. MaxSlot) \ DOMAIN q PROVE us[t] = 0 /\ lk[t] = 0
    <3>1. t \notin DOMAIN p \/ (t = s /\ lk[s] = 0)
      BY <1>6, <2>3
    <3> QED BY <2>3, <3>1 DEF Rel, Counted
  <2> QED BY <2>1, <2>2, <2>3 DEF Counted
<1> QED BY <1>6, <1>7, <1>8, <1>9, <1>10 DEF Rel

\* PPCLAIM leaves one reference more, PPGETMODES too.
LEMMA ClaimKeepsRel ==
    ASSUME NEW p, NEW lp, NEW lk, NEW us, Rel(p, lp, lk, us),
           NEW s \in ListedIn(p), us[s] < MaxUse,
           NEW q, q = PutPort(Add(Add(p, s, 1), s, 1), s),
           NEW usq, usq = [us EXCEPT ![s] = @ + 1]
    PROVE  Rel(q, lp, lk, usq) /\ SamePorts(p, q)
<1>0. /\ p \in [DOMAIN p -> PortType] /\ s \in DOMAIN p /\ s \in 1 .. MaxSlot
      /\ p[s].refs \in Nat /\ p[s].refs >= 1
  BY DEF ListedIn, Rel, Listing, PortType, Counted
<1> DEFINE a == Add(p, s, 1)
           b == Add(a, s, 1)
<1>1. /\ a \in [DOMAIN p -> PortType] /\ a[s].refs = p[s].refs + 1
      /\ \A t \in DOMAIN p : a[t].number = p[t].number /\ a[t].listed = p[t].listed
                             /\ (t # s => a[t].refs = p[t].refs)
  BY <1>0, AddIs
<1> HIDE DEF a
<1>2. a \in [DOMAIN a -> PortType] /\ DOMAIN a = DOMAIN p
  BY <1>1
<1>3. /\ b \in [DOMAIN p -> PortType] /\ b[s].refs = p[s].refs + 2
      /\ \A t \in DOMAIN p : b[t].number = p[t].number /\ b[t].listed = p[t].listed
                             /\ (t # s => b[t].refs = p[t].refs)
  BY <1>0, <1>1, <1>2, AddIs
<1> HIDE DEF b
<1>4. b \in [DOMAIN b -> PortType] /\ DOMAIN b = DOMAIN p
  BY <1>3
<1>5. q = Add(b, s, -1)
  BY <1>0, <1>3, <1>4, PutIs DEF a, b
<1>6. /\ q \in [DOMAIN p -> PortType] /\ q[s].refs = p[s].refs + 1
      /\ \A t \in DOMAIN p : q[t].number = p[t].number /\ q[t].listed = p[t].listed
                             /\ (t # s => q[t].refs = p[t].refs)
  BY <1>0, <1>3, <1>4, <1>5, AddIs
<1>7. /\ us \in [1 .. MaxSlot -> Nat] /\ MaxUse \in Nat
      /\ usq \in [1 .. MaxSlot -> Nat] /\ usq[s] = us[s] + 1
      /\ \A t \in 1 .. MaxSlot : t # s => usq[t] = us[t]
  BY <1>0, UseAssumption DEF Rel, Users
<1>8. Users(p, lk, usq)
  BY <1>7 DEF Rel, Users
<1>9. ASSUME NEW t \in DOMAIN p
      PROVE  q[t].refs >= 1 /\ q[t].refs = Holds(t, p, lp, lk, usq)
  <2>1. /\ p[t].refs >= 1 /\ p[t].refs = Holds(t, p, lp, lk, us) /\ t \in 1 .. MaxSlot
        /\ lk[t] \in Nat
    BY DEF Rel, Counted, Listing, Users
  <2>2. One(t, ListedIn(p)) \in Nat /\ One(t, lp) \in Nat
    BY DEF One
  <2>3. CASE t = s
    <3>1. p[t].refs = One(t, ListedIn(p)) + One(t, lp) + us[t] + lk[t]
      BY <2>1 DEF Holds
    <3>2. q[t].refs = p[t].refs + 1 /\ usq[t] = us[t] + 1 /\ us[t] \in Nat /\ p[t].refs \in Nat
      BY <1>0, <1>6, <1>7, <2>3
    <3>3. q[t].refs = One(t, ListedIn(p)) + One(t, lp) + usq[t] + lk[t]
      BY <2>1, <2>2, <3>1, <3>2
    <3> QED BY <2>1, <3>2, <3>3 DEF Holds
  <2>4. CASE t # s
    BY <1>6, <1>7, <2>1, <2>4 DEF Holds
  <2> QED BY <2>3, <2>4
<1>10. \A t \in (1 .. MaxSlot) \ DOMAIN p : usq[t] = 0 /\ lk[t] = 0
  BY <1>0, <1>7 DEF Rel, Counted
<1>11. lp \subseteq ListedIn(p)
  BY DEF Rel
<1>12. SamePorts(p, q)
  BY <1>6 DEF SamePorts
<1>13. Recounted(p, q, lp, lk, usq)
  BY <1>9, <1>10 DEF Recounted
<1> QED BY <1>8, <1>11, <1>12, <1>13, Recount

\* The last close of a file that has a device gives its reference back.
LEMMA CloseKeepsRel ==
    ASSUME NEW p, NEW lp, NEW lk, NEW us, Rel(p, lp, lk, us),
           NEW s \in 1 .. MaxSlot, us[s] > 0,
           NEW q, q = PutPort(p, s),
           NEW usq, usq = [us EXCEPT ![s] = @ - 1]
    PROVE  Rel(q, lp, lk, usq) /\ SamePorts(p, q)
<1>0. /\ p \in [DOMAIN p -> PortType] /\ s \in ListedIn(p) /\ s \in DOMAIN p
      /\ us[s] \in Nat /\ lk[s] \in Nat /\ p[s].refs = Holds(s, p, lp, lk, us)
  BY DEF ListedIn, Rel, Listing, Users, Counted
<1>1. p[s].refs \in Nat /\ p[s].refs >= 2
  <2>1. One(s, ListedIn(p)) = 1 /\ One(s, lp) \in Nat
    BY <1>0 DEF One
  <2> QED BY <1>0, <2>1 DEF Holds
<1>2. q = Add(p, s, -1)
  BY <1>0, <1>1, PutIs
<1>3. /\ q \in [DOMAIN p -> PortType] /\ q[s].refs = p[s].refs - 1
      /\ \A t \in DOMAIN p : q[t].number = p[t].number /\ q[t].listed = p[t].listed
                             /\ (t # s => q[t].refs = p[t].refs)
  BY <1>0, <1>1, <1>2, AddIs
<1>4. /\ us \in [1 .. MaxSlot -> Nat]
      /\ usq \in [1 .. MaxSlot -> Nat] /\ usq[s] = us[s] - 1
      /\ \A t \in 1 .. MaxSlot : t # s => usq[t] = us[t]
  BY <1>0 DEF Rel, Users
<1>5. Users(p, lk, usq)
  <2>1. \A t \in 1 .. MaxSlot : us[t] \in Nat /\ us[t] <= MaxUse /\ (us[t] > 0 => t \in ListedIn(p)) /\ MaxUse \in Nat
    BY UseAssumption DEF Rel, Users
  <2>2. \A t \in 1 .. MaxSlot : usq[t] \in Nat /\ usq[t] <= us[t]
    BY <1>0, <1>4, <2>1
  <2>3. \A t \in 1 .. MaxSlot : usq[t] <= MaxUse /\ (usq[t] > 0 => t \in ListedIn(p))
    BY <2>1, <2>2
  <2> QED BY <1>4, <2>3 DEF Rel, Users
<1>6. ASSUME NEW t \in DOMAIN p
      PROVE  q[t].refs >= 1 /\ q[t].refs = Holds(t, p, lp, lk, usq)
  <2>1. /\ p[t].refs >= 1 /\ p[t].refs = Holds(t, p, lp, lk, us) /\ t \in 1 .. MaxSlot
        /\ lk[t] \in Nat
    BY DEF Rel, Counted, Listing, Users
  <2>2. One(t, ListedIn(p)) \in Nat /\ One(t, lp) \in Nat
    BY DEF One
  <2>3. CASE t = s
    <3>1. p[t].refs = One(t, ListedIn(p)) + One(t, lp) + us[t] + lk[t]
      BY <2>1 DEF Holds
    <3>2. q[t].refs = p[t].refs - 1 /\ usq[t] = us[t] - 1 /\ us[t] \in Nat
      BY <1>0, <1>3, <1>4, <2>3
    <3>3. q[t].refs = One(t, ListedIn(p)) + One(t, lp) + usq[t] + lk[t]
      BY <2>1, <2>2, <3>1, <3>2
    <3>4. q[t].refs >= 1
      BY <1>1, <2>3, <3>2
    <3> QED BY <3>3, <3>4 DEF Holds
  <2>4. CASE t # s
    BY <1>3, <1>4, <2>1, <2>4 DEF Holds
  <2> QED BY <2>3, <2>4
<1>7. \A t \in (1 .. MaxSlot) \ DOMAIN p : usq[t] = 0 /\ lk[t] = 0
  BY <1>0, <1>4 DEF Rel, Counted
<1>8. lp \subseteq ListedIn(p)
  BY DEF Rel
<1>9. SamePorts(p, q)
  BY <1>3 DEF SamePorts
<1>10. Recounted(p, q, lp, lk, usq)
  BY <1>6, <1>7 DEF Recounted
<1> QED BY <1>5, <1>8, <1>9, <1>10, Recount

\* PPGETMODES takes a reference and keeps it.
LEMMA GetModesKeepsRel ==
    ASSUME NEW p, NEW lp, NEW lk, NEW us, Rel(p, lp, lk, us),
           NEW s \in ListedIn(p), lk[s] < MaxUse,
           NEW q, q = Add(p, s, 1),
           NEW lkq, lkq = [lk EXCEPT ![s] = @ + 1]
    PROVE  Rel(q, lp, lkq, us) /\ SamePorts(p, q)
<1>0. /\ p \in [DOMAIN p -> PortType] /\ s \in DOMAIN p /\ s \in 1 .. MaxSlot
      /\ p[s].refs \in Nat /\ p[s].refs >= 1
  BY DEF ListedIn, Rel, Listing, PortType, Counted
<1>1. /\ q \in [DOMAIN p -> PortType] /\ q[s].refs = p[s].refs + 1
      /\ \A t \in DOMAIN p : q[t].number = p[t].number /\ q[t].listed = p[t].listed
                             /\ (t # s => q[t].refs = p[t].refs)
  BY <1>0, AddIs
<1>2. /\ lk \in [1 .. MaxSlot -> Nat] /\ MaxUse \in Nat
      /\ lkq \in [1 .. MaxSlot -> Nat] /\ lkq[s] = lk[s] + 1
      /\ \A t \in 1 .. MaxSlot : t # s => lkq[t] = lk[t]
  BY <1>0, UseAssumption DEF Rel, Users
<1>3. Users(p, lkq, us)
  BY <1>2 DEF Rel, Users
<1>4. ASSUME NEW t \in DOMAIN p
      PROVE  q[t].refs >= 1 /\ q[t].refs = Holds(t, p, lp, lkq, us)
  <2>1. /\ p[t].refs >= 1 /\ p[t].refs = Holds(t, p, lp, lk, us) /\ t \in 1 .. MaxSlot
        /\ us[t] \in Nat
    BY DEF Rel, Counted, Listing, Users
  <2>2. One(t, ListedIn(p)) \in Nat /\ One(t, lp) \in Nat
    BY DEF One
  <2>3. CASE t = s
    BY <1>1, <1>2, <2>1, <2>2, <2>3 DEF Holds
  <2>4. CASE t # s
    BY <1>1, <1>2, <2>1, <2>4 DEF Holds
  <2> QED BY <2>3, <2>4
<1>5. \A t \in (1 .. MaxSlot) \ DOMAIN p : us[t] = 0 /\ lkq[t] = 0
  BY <1>0, <1>2 DEF Rel, Counted
<1>6. lp \subseteq ListedIn(p)
  BY DEF Rel
<1>7. SamePorts(p, q)
  BY <1>1 DEF SamePorts
<1>8. Recounted(p, q, lp, lkq, us)
  BY <1>4, <1>5 DEF Recounted
<1> QED BY <1>3, <1>6, <1>7, <1>8, Recount

\* lp takes a reference for each of its devices and gives them all back.
LEMMA LpKeepsRel ==
    ASSUME NEW p, NEW lp, NEW lk, NEW us, Rel(p, lp, lk, us), NEW S, S \subseteq ListedIn(p),
           lp = {} \/ S = {},
           NEW q, q = [s \in DOMAIN p |->
                          IF s \in S THEN [p[s] EXCEPT !.refs = @ + 1]
                          ELSE IF s \in lp THEN [p[s] EXCEPT !.refs = @ - 1] ELSE p[s]]
    PROVE  Rel(q, S, lk, us) /\ SamePorts(p, q)
<1>1. ASSUME NEW t \in DOMAIN p
      PROVE  /\ q[t] \in PortType /\ q[t].number = p[t].number /\ q[t].listed = p[t].listed
             /\ q[t].refs >= 1 /\ q[t].refs = Holds(t, p, S, lk, us)
  <2>1. /\ p[t] \in PortType /\ p[t].refs >= 1 /\ p[t].refs = Holds(t, p, lp, lk, us)
        /\ t \in 1 .. MaxSlot /\ us[t] \in Nat /\ lk[t] \in Nat
        /\ (t \in S \/ t \in lp => t \in ListedIn(p))
    BY DEF Rel, Counted, Listing, Users
  <2>2. CASE t \in S
    <3>1. q[t] = [p[t] EXCEPT !.refs = @ + 1]
      BY <2>2
    <3>2. One(t, S) = 1 /\ One(t, lp) = 0 /\ One(t, ListedIn(p)) = 1
      BY <2>1, <2>2 DEF One
    <3> QED BY <2>1, <3>1, <3>2 DEF PortType, Holds
  <2>3. CASE t \notin S /\ t \in lp
    <3>1. q[t] = [p[t] EXCEPT !.refs = @ - 1]
      BY <2>3
    <3>2. One(t, S) = 0 /\ One(t, lp) = 1 /\ One(t, ListedIn(p)) = 1
      BY <2>1, <2>3 DEF One
    <3>3. p[t].refs = 2 + us[t] + lk[t]
      BY <2>1, <3>2 DEF Holds
    <3> QED BY <2>1, <3>1, <3>2, <3>3 DEF PortType, Holds
  <2>4. CASE t \notin S /\ t \notin lp
    <3>1. q[t] = p[t]
      BY <2>4
    <3>2. One(t, S) = 0 /\ One(t, lp) = 0
      BY <2>4 DEF One
    <3> QED BY <2>1, <3>1, <3>2 DEF Holds
  <2> QED BY <2>2, <2>3, <2>4
<1>2. SamePorts(p, q)
  BY <1>1 DEF SamePorts
<1>3. Users(p, lk, us)
  BY DEF Rel
<1>4. Recounted(p, q, S, lk, us)
  BY <1>1 DEF Recounted, Rel, Counted
<1> QED BY <1>2, <1>3, <1>4, Recount


----------------------------------------------------------------------------
(* The steps, on the ports.                                                *)

PortsRel == Rel(ports, lpDevs, leaked, users)

\* What depends on where the driver is.
PortsStage ==
    /\ BeforePorts => ports = <<>> /\ slot = 1
    /\ pc \in {"undo7", "crashed"} => ports = <<>>
    /\ pc = "undo6" /\ ~pciDriver => ports = <<>>
    /\ pc = "parports" => slot \in 1 .. Len(parTable) + 1 /\ DOMAIN ports = 1 .. slot - 1
    /\ pc \in {"ppdev", "lp", "up"} => DOMAIN ports = DOMAIN parTable
    /\ ~exiting => Registered = DOMAIN ports
    /\ ~exiting /\ (Undone \/ pc \in {"undo4", "undo3"}) /\ ports # <<>> =>
          Registered # DOMAIN parTable
    /\ exiting => ~Early /\ ~Assigned /\ pc \notin {"undo7", "failed"}
    /\ \A s \in 1 .. MaxSlot : users[s] > 0 => pc = "up"
    /\ \A s \in 1 .. MaxSlot : leaked[s] > 0 => exiting \/ pc = "up"

DriversPart ==
    /\ drivers \cup chrdevs \cup classes \subseteq {"ppdev", "lp"}
    /\ DriversFit

\* All of it.
Parts == CardsPart /\ SerialPart /\ DriversPart /\ PortsRel /\ PortsStage

\* A step that keeps the ports, but for their references.
PortsKept == PortsRel' /\ SamePorts(ports, ports')

\* An empty list.
LEMMA NoPorts ==
    ASSUME NEW p, p \in [DOMAIN p -> PortType], DOMAIN p = {}
    PROVE  p = <<>>
<1>1. DOMAIN p = 1 .. 0
  OBVIOUS
<1>2. p \in Seq(PortType)
  BY <1>1
<1> QED BY <1>1, <1>2

\* The names of the registry, here and in the proofs.
LEMMA RegistryIs ==
    ASSUME PortsRel
    PROVE  /\ Registered = ListedIn(ports) /\ Slots = 1 .. MaxSlot /\ MaxSlot \in Nat
           /\ ports \in [DOMAIN ports -> PortType] /\ DOMAIN ports \subseteq 1 .. MaxSlot
           /\ Registered \subseteq DOMAIN ports /\ lpDevs \subseteq Registered
           /\ leaked \in [1 .. MaxSlot -> Nat] /\ users \in [1 .. MaxSlot -> Nat]
<1>1. Registered = ListedIn(ports)
  BY DEF Registered, ListedIn
<1>2. Slots = 1 .. MaxSlot
  BY DEF PortsRel, Rel, Users, Slots
<1>3. MaxSlot \in Nat
  BY LimitsAssumption DEF MaxSlot
<1>4. Registered \subseteq DOMAIN ports
  BY DEF Registered
<1> QED BY <1>1, <1>2, <1>3, <1>4 DEF PortsRel, Rel, Listing, Users

\* A step that does not touch the registry.
LEMMA RegistrySame ==
    ASSUME PortsRel, UNCHANGED <<ports, lpDevs, leaked, users>>
    PROVE  PortsKept
<1>1. PortsRel'
  BY DEF PortsRel
<1>2. SamePorts(ports, ports')
  BY RegistryIs DEF SamePorts
<1> QED BY <1>1, <1>2 DEF PortsKept

\* lp registers its devices, or gives them all back.
LEMMA LpInitKeepsPorts ==
    ASSUME PortsRel, DriversPart, LpInit
    PROVE  PortsKept
<1>1. CASE UNCHANGED registryVars
  BY <1>1, RegistrySame DEF LpInit, registryVars
<1>2. CASE \E S \in SUBSET Registered : AttachLp(S)
  <2>1. PICK S \in SUBSET Registered : AttachLp(S)
    BY <1>2
  <2>2. lpDevs = {}
    BY DEF DriversPart, DriversFit, LpInit
  <2>3. S \subseteq ListedIn(ports) /\ lpDevs' = S /\ UNCHANGED <<leaked, users>>
    BY <2>1, RegistryIs DEF AttachLp, LpInit
  <2>4. ports' = [s \in DOMAIN ports |->
                     IF s \in S THEN [ports[s] EXCEPT !.refs = @ + 1]
                     ELSE IF s \in lpDevs THEN [ports[s] EXCEPT !.refs = @ - 1] ELSE ports[s]]
    BY <2>1, <2>2 DEF AttachLp
  <2>5. Rel(ports, lpDevs, leaked, users)
    BY DEF PortsRel
  <2>6. Rel(ports', S, leaked, users) /\ SamePorts(ports, ports')
    BY <2>2, <2>3, <2>4, <2>5, LpKeepsRel
  <2> QED BY <2>3, <2>6 DEF PortsRel, PortsKept
<1> QED BY <1>1, <1>2 DEF LpInit

\* sunix_par_lp_exit gives them all back.
LEMMA LpExitKeepsPorts ==
    ASSUME PortsRel, LpExit
    PROVE  PortsKept
<1>1. ports' = [s \in DOMAIN ports |->
                     IF s \in {} THEN [ports[s] EXCEPT !.refs = @ + 1]
                     ELSE IF s \in lpDevs THEN [ports[s] EXCEPT !.refs = @ - 1] ELSE ports[s]]
  BY DEF LpExit, DetachLp
<1>2. lpDevs' = {} /\ UNCHANGED <<leaked, users>>
  BY DEF LpExit, DetachLp
<1>3. Rel(ports, lpDevs, leaked, users)
  BY DEF PortsRel
<1>4. Rel(ports', {}, leaked, users) /\ SamePorts(ports, ports')
  BY <1>1, <1>3, LpKeepsRel
<1> QED BY <1>2, <1>4 DEF PortsRel, PortsKept

\* The calls on ppdev files.
LEMMA FilesKeepPorts ==
    ASSUME PortsRel, NEW s \in Slots, PpClaim(s) \/ PpClose(s) \/ PpGetModes(s)
    PROVE  PortsKept
<1>0. Rel(ports, lpDevs, leaked, users) /\ s \in 1 .. MaxSlot /\ Registered = ListedIn(ports)
  BY RegistryIs DEF PortsRel
<1>1. CASE PpClaim(s)
  <2>1. /\ s \in ListedIn(ports) /\ users[s] < MaxUse
        /\ ports' = PutPort(Add(Add(ports, s, 1), s, 1), s)
        /\ users' = [users EXCEPT ![s] = @ + 1]
        /\ UNCHANGED <<lpDevs, leaked>>
    BY <1>0, <1>1 DEF PpClaim, GetPort
  <2>2. Rel(ports', lpDevs, leaked, users') /\ SamePorts(ports, ports')
    BY <1>0, <2>1, ClaimKeepsRel
  <2> QED BY <2>1, <2>2 DEF PortsRel, PortsKept
<1>2. CASE PpClose(s)
  <2>1. /\ users[s] > 0
        /\ ports' = PutPort(ports, s)
        /\ users' = [users EXCEPT ![s] = @ - 1]
        /\ UNCHANGED <<lpDevs, leaked>>
    BY <1>2 DEF PpClose
  <2>2. Rel(ports', lpDevs, leaked, users') /\ SamePorts(ports, ports')
    BY <1>0, <2>1, CloseKeepsRel
  <2> QED BY <2>1, <2>2 DEF PortsRel, PortsKept
<1>3. CASE PpGetModes(s)
  <2>1. /\ s \in ListedIn(ports) /\ leaked[s] < MaxUse
        /\ ports' = Add(ports, s, 1)
        /\ leaked' = [leaked EXCEPT ![s] = @ + 1]
        /\ UNCHANGED <<lpDevs, users>>
    BY <1>0, <1>3 DEF PpGetModes, GetPort, initVars
  <2>2. Rel(ports', lpDevs, leaked', users) /\ SamePorts(ports, ports')
    BY <1>0, <2>1, GetModesKeepsRel
  <2> QED BY <2>1, <2>2 DEF PortsRel, PortsKept
<1> QED BY <1>1, <1>2, <1>3

\* The steps that neither add a port nor take one off the list.
LEMMA OthersKeepPorts ==
    ASSUME Parts, Next, ~ProbePort, ~Undo5
    PROVE  PortsKept
<1>0. PortsRel /\ DriversPart
  BY DEF Parts
<1>1. CASE FindCards
  BY <1>0, <1>1, RegistrySame DEF FindCards, registryVars, initVars
<1>2. CASE RegisterPci
  BY <1>0, <1>2, RegistrySame DEF RegisterPci, registryVars
<1>3. CASE RegisterIrq
  BY <1>0, <1>3, RegistrySame DEF RegisterIrq, registryVars
<1>4. CASE SerRegisterDriver
  BY <1>0, <1>4, RegistrySame DEF SerRegisterDriver, registryVars
<1>5. CASE SerRegisterPorts
  BY <1>0, <1>5, RegistrySame DEF SerRegisterPorts, registryVars
<1>6. CASE AllPortsProbed
  BY <1>0, <1>6, RegistrySame DEF AllPortsProbed, registryVars, initVars
<1>7. CASE PpdevInit
  BY <1>0, <1>7, RegistrySame DEF PpdevInit, AttachPpdev, registryVars
<1>8. CASE LpInit
  BY <1>0, <1>8, LpInitKeepsPorts
<1>9. ASSUME NEW s \in Slots, PpClaim(s) \/ PpClose(s) \/ PpGetModes(s) PROVE PortsKept
  BY <1>0, <1>9, FilesKeepPorts
<1>10. CASE Exit
  BY <1>0, <1>10, RegistrySame DEF Exit, registryVars
<1>11. CASE LpExit
  BY <1>0, <1>11, LpExitKeepsPorts
<1>12. CASE Undo7
  BY <1>0, <1>12, RegistrySame DEF Undo7, registryVars
<1>13. CASE Undo6
  BY <1>0, <1>13, RegistrySame DEF Undo6, DetachPpdev, registryVars
<1>14. CASE Undo4
  BY <1>0, <1>14, RegistrySame DEF Undo4, registryVars
<1>15. CASE Undo3 \/ Undo2 \/ Undo1
  BY <1>0, <1>15, RegistrySame DEF Undo3, Undo2, Undo1, registryVars
<1> QED BY <1>1, <1>2, <1>3, <1>4, <1>5, <1>6, <1>7, <1>8, <1>9, <1>10, <1>11,
           <1>12, <1>13, <1>14, <1>15 DEF Next, Undo

\* Every table has the ports of the boards in it.
LEMMA TablesAre ==
    ASSUME CardsPart, Assigned
    PROVE  /\ DOMAIN serTable = 1 .. SerTotal /\ DOMAIN parTable = 1 .. ParTotal
           /\ Len(parTable) = ParTotal /\ SerTotal \in Nat /\ ParTotal \in Nat
           /\ ParTotal <= MaxSlot /\ SerTotal <= SNX_SER_TOTAL_MAX
           /\ \A n \in DOMAIN serTable : serTable[n].line = n - 1
<1>1. /\ serTable = [n \in 1 .. SerTotal |-> SerPortEntry(SerAssigned(n), n)]
      /\ parTable = [n \in 1 .. ParTotal |-> ParPortEntry(ParAssigned(n), n)]
  BY DEF CardsPart, BoardsFit
<1>2. SerTotal \in Nat /\ ParTotal \in Nat
  BY CardsAre
<1>3. Len(serTable) = SerTotal /\ Len(parTable) = ParTotal
  BY <1>1, <1>2
<1>4. \A n : SerPortEntry(SerAssigned(n), n).line = n - 1
  BY DEF SerPortEntry
<1> QED BY <1>1, <1>2, <1>3, <1>4 DEF CardsPart, MaxSlot

\* A port is probed: it is the next one, or the loop ends.
LEMMA ProbePortDoes ==
    ASSUME Parts, ProbePort
    PROVE  /\ pc = "parports" /\ UNCHANGED <<lpDevs, leaked, users, drivers, nodes>>
           /\ \/ PortsKept /\ pc' = "undo4" /\ slot' = slot /\ ports' = ports
              \/ /\ PortsRel' /\ pc' = pc /\ slot' = slot + 1
                 /\ DOMAIN ports' = 1 .. slot /\ Registered' = Registered \cup {slot}
           /\ slot \in DOMAIN parTable
<1>0. PortsRel /\ pc = "parports" /\ slot \in DOMAIN parTable
      /\ UNCHANGED <<lpDevs, leaked, users, drivers, nodes>>
  BY DEF Parts, ProbePort
<1>1. CASE RegisterPort(slot) /\ slot' = slot + 1 /\ UNCHANGED pc
  <2>1. Assigned
    BY <1>0 DEF Assigned
  <2>2. slot \in 1 .. MaxSlot /\ DOMAIN ports = 1 .. slot - 1
    <3>1. CardsPart /\ PortsStage
      BY DEF Parts
    <3>2. DOMAIN ports = 1 .. slot - 1
      BY <1>0, <3>1 DEF PortsStage
    <3>3. slot \in 1 .. ParTotal /\ ParTotal \in Nat /\ ParTotal <= MaxSlot
      BY <1>0, <2>1, <3>1, TablesAre
    <3> QED BY <1>0, <3>2, <3>3, RegistryIs
  <2>3. Rel(ports, lpDevs, leaked, users)
    BY <1>0 DEF PortsRel
  <2>4. /\ Rel(ports', lpDevs, leaked, users) /\ DOMAIN ports' = 1 .. slot
        /\ ListedIn(ports') = ListedIn(ports) \cup {slot}
    <3>1. ports' = WithPort(ports, slot)
      BY <1>1 DEF RegisterPort, WithPort
    <3> QED BY <2>2, <2>3, <3>1, RegisterKeepsRel
  <2>5. PortsRel'
    BY <1>0, <2>4 DEF PortsRel
  <2>6. Registered' = Registered \cup {slot}
    BY <2>4 DEF Registered, ListedIn
  <2> QED BY <1>0, <1>1, <2>4, <2>5, <2>6
<1>2. CASE pc' = "undo4" /\ UNCHANGED <<ports, slot>>
  <2>1. PortsKept
    BY <1>0, <1>2, RegistrySame
  <2> QED BY <1>0, <1>2, <2>1
<1> QED BY <1>1, <1>2 DEF ProbePort

\* A port is taken off the list, or none is left on it.
LEMMA Undo5Does ==
    ASSUME Parts, Undo5
    PROVE  /\ pc = "undo5" /\ UNCHANGED <<lpDevs, leaked, users, drivers>> /\ nodes' = {} /\ lpDevs = {}
           /\ \/ PortsKept /\ pc' = "undo4" /\ ports' = ports /\ Registered = {}
              \/ /\ PortsRel' /\ pc' = pc
                 /\ \E s \in Registered :
                       /\ Registered' = Registered \ {s}
                       /\ leaked[s] = 0 => DOMAIN ports' = DOMAIN ports \ {s}
<1>0. /\ PortsRel /\ pc = "undo5" /\ UNCHANGED users /\ drivers = {} /\ nodes = {} /\ lpDevs = {}
      /\ \A s \in 1 .. MaxSlot : ~(users[s] > 0)
  BY DEF Parts, DriversPart, DriversFit, PortsStage, Undo5, initVars
<1>1. CASE Registered # {}
  <2> DEFINE s == Max(Registered)
  <2>1. s \in Registered
    <3>1. Registered \in SUBSET (0 .. MaxSlot) /\ MaxSlot \in Nat
      BY <1>0, RegistryIs
    <3> QED BY <1>1, <3>1, MaxIs
  <2>2. UnregisterPort(s) /\ pc' = pc
    BY <1>1 DEF Undo5
  <2> HIDE DEF s
  <2>3. /\ nodes' = {} /\ UNCHANGED <<drivers, lpDevs, leaked>>
        /\ ports' = PutPort(Unlisted(ports, s), s)
    BY <1>0, <2>2 DEF UnregisterPort, Unlisted
  <2>4. Rel(ports, {}, leaked, users) /\ s \in ListedIn(ports)
    BY <1>0, <2>1, RegistryIs DEF PortsRel
  <2>5. users[s] = 0
    BY <1>0, <2>1, RegistryIs
  <2>6. /\ Rel(ports', {}, leaked, users) /\ ListedIn(ports') = ListedIn(ports) \ {s}
        /\ DOMAIN ports' = IF leaked[s] = 0 THEN DOMAIN ports \ {s} ELSE DOMAIN ports
    BY <2>3, <2>4, <2>5, UnregisterKeepsRel
  <2>7. PortsRel'
    BY <1>0, <2>3, <2>6 DEF PortsRel
  <2>8. Registered' = Registered \ {s}
    BY <2>6 DEF Registered, ListedIn
  <2> QED BY <1>0, <2>1, <2>2, <2>3, <2>6, <2>7, <2>8
<1>2. CASE Registered = {}
  <2>1. pc' = "undo4" /\ UNCHANGED registryVars
    BY <1>2 DEF Undo5
  <2>2. PortsKept
    BY <1>0, <2>1, RegistrySame DEF registryVars
  <2> QED BY <1>0, <1>2, <2>1, <2>2 DEF registryVars
<1> QED BY <1>1, <1>2

\* Every step keeps what is said of the ports.
LEMMA NextKeepsPortsRel ==
    ASSUME Parts, Next
    PROVE  PortsRel'
<1>1. CASE ProbePort
  BY <1>1, ProbePortDoes DEF PortsKept
<1>2. CASE Undo5
  BY <1>2, Undo5Does DEF PortsKept
<1>3. CASE ~ProbePort /\ ~Undo5
  BY <1>3, OthersKeepPorts DEF PortsKept
<1> QED BY <1>1, <1>2, <1>3


----------------------------------------------------------------------------
(* The steps, on the rest.                                                 *)

\* What the steps after the search leave alone.
LEMMA LaterSame ==
    ASSUME CardsPart, Next, ~FindCards
    PROVE  /\ UNCHANGED <<system, boards, serTable, parTable>>
           /\ Live' = Live /\ SerTotal' = SerTotal /\ ParTotal' = ParTotal /\ MayFail' = MayFail
<1>1. UNCHANGED probeVars
  <2>1. CASE Undo
    BY <2>1 DEF Undo, Undo7, Undo6, Undo5, Undo4, Undo3, Undo2, Undo1
  <2>2. ASSUME NEW s \in Slots, PpClaim(s) \/ PpClose(s) \/ PpGetModes(s)
        PROVE  UNCHANGED probeVars
    BY <2>2 DEF PpClaim, PpClose, PpGetModes
  <2> QED BY <2>1, <2>2 DEF Next, RegisterPci, RegisterIrq, SerRegisterDriver,
          SerRegisterPorts, ProbePort, AllPortsProbed, PpdevInit, LpInit, Exit, LpExit
<1>2. UNCHANGED <<system, boards, serTable, parTable>>
  BY <1>1 DEF probeVars
<1>3. Live' = Live /\ SerTotal' = SerTotal /\ ParTotal' = ParTotal
  BY <1>2, CountsSame
<1>4. MayFail' = MayFail
  BY <1>2 DEF MayFail
<1> QED BY <1>2, <1>3, <1>4

\* Interrupts and lines.
LEMMA NextKeepsSerial ==
    ASSUME Parts, Next
    PROVE  SerialPart'
<1>0. CardsPart /\ SerialPart /\ DriversPart /\ PortsStage /\ Live \subseteq DOMAIN boards
  BY CardsAre DEF Parts
<1>1. CASE FindCards
  <2>1. /\ pc \in {"probe", "conf", "assign", "tables"}
        /\ pc' \in {"probe", "conf", "assign", "tables", "irq", "undo1"}
        /\ UNCHANGED <<handlers, drvdata, lines, pciDriver, ttyDriver, exiting>>
    BY <1>0, <1>1, FindCardsGoes DEF initVars
  <2>2. handlers = {} /\ lines = {} /\ ~ttyDriver /\ pciDriver
    BY <1>0, <2>1 DEF SerialPart, SerialFits, Early, BeforePorts, Assigned
  <2>3. DOMAIN boards \subseteq DOMAIN boards'
    BY <1>0, <1>1, BoardsGrow
  <2>4. SerialFits'
    BY <2>1, <2>2 DEF SerialFits, Early, BeforePorts, Undone, Assigned
  <2> QED BY <1>0, <2>1, <2>3, <2>4 DEF SerialPart
<1>2. CASE ~FindCards
  <2>0. /\ UNCHANGED <<boards, serTable>> /\ Live' = Live
    BY <1>0, <1>2, LaterSame
  <2> USE DEF SerialPart, SerialFits, Early, BeforePorts, Undone, Assigned
  <2>1. CASE RegisterPci
    <3>1. /\ pc = "register_pci" /\ UNCHANGED <<handlers, ttyDriver, lines, drvdata, exiting>>
          /\ \/ pciDriver' = TRUE /\ pc' = "probe"
             \/ pciDriver' = pciDriver /\ pc' = "undo7"
      BY <2>1 DEF RegisterPci
    <3>2. handlers = {} /\ lines = {} /\ ~ttyDriver /\ ~pciDriver
      BY <1>0, <3>1
    <3>3. handlers' = {} /\ lines' = {} /\ ~ttyDriver' /\ exiting' = exiting /\ drvdata' = drvdata
      BY <3>1, <3>2
    <3>4. (pc' = "probe" /\ pciDriver') \/ (pc' = "undo7" /\ ~pciDriver')
      BY <3>1, <3>2
    <3>5. SerialFits'
      BY <3>3, <3>4 DEF SerialFits
    <3>6. pciDriver' \in BOOLEAN /\ ttyDriver' \in BOOLEAN
      BY <1>0, <3>1
    <3> HIDE DEF SerialFits
    <3> QED BY <1>0, <2>0, <3>3, <3>5, <3>6
  <2>2. CASE RegisterIrq
    <3>1. ports' = ports /\ ports = <<>>
      BY <1>0, <2>2 DEF RegisterIrq, registryVars, PortsStage
    <3>2. CASE handlers' = Live /\ pc' = "ser_driver"
      BY <1>0, <2>0, <2>2, <3>2 DEF RegisterIrq
    <3>3. CASE \E i \in Live : MayFail /\ handlers' = {k \in Live : k < i} /\ pc' = "undo1"
      <4>1. handlers' # Live /\ handlers' \subseteq Live /\ pc' = "undo1"
        <5>1. PICK i \in Live : handlers' = {k \in Live : k < i} /\ pc' = "undo1"
          BY <3>3
        <5>2. i \in Nat
          BY <1>0, CardsAre
        <5> QED BY <5>1, <5>2
      <4> QED BY <1>0, <2>0, <2>2, <3>1, <4>1 DEF RegisterIrq
    <3> QED BY <2>2, <3>2, <3>3 DEF RegisterIrq
  <2>3. CASE SerRegisterDriver
    <3>1. pc = "ser_driver" /\ UNCHANGED <<pciDriver, handlers, lines, drvdata, exiting>>
      BY <2>3 DEF SerRegisterDriver
    <3>2. CASE ttyDriver' = TRUE /\ pc' = "ser_ports"
      BY <1>0, <2>0, <3>1, <3>2
    <3>3. CASE ttyDriver' = ttyDriver /\ pc' = "undo2"
      BY <1>0, <2>0, <3>1, <3>3
    <3>4. CASE ttyDriver' = ttyDriver /\ pc' = "crashed"
      BY <1>0, <2>0, <3>1, <3>4
    <3> QED BY <2>3, <3>2, <3>3, <3>4 DEF SerRegisterDriver
  <2>4. CASE SerRegisterPorts
    <3>1. pc = "ser_ports" /\ Assigned
      BY <2>4 DEF SerRegisterPorts
    <3>2. lines' = {serTable[n].line : n \in DOMAIN serTable}
      BY <2>4 DEF SerRegisterPorts
    <3>3. /\ DOMAIN serTable = 1 .. SerTotal /\ SerTotal \in Nat /\ SerTotal <= SNX_SER_TOTAL_MAX
          /\ \A n \in DOMAIN serTable : serTable[n].line = n - 1
      BY <1>0, <3>1, TablesAre
    <3>4. lines' = {n - 1 : n \in DOMAIN serTable}
      BY <3>2, <3>3
    <3>5. lines' \subseteq 0 .. SNX_SER_TOTAL_MAX - 1
      BY <3>3, <3>4, LimitsAssumption
    <3>6. 1 \in DOMAIN boards
      <4>1. boards # <<>> /\ boards \in Listings
        BY <1>0, <3>1 DEF CardsPart, BoardsFit
      <4> QED BY <4>1 DEF Listings
    <3>7. drvdata' = {1} /\ handlers' = handlers
      BY <2>4 DEF SerRegisterPorts
    <3>8. handlers' \cup drvdata' \subseteq DOMAIN boards'
      BY <1>0, <2>0, <3>6, <3>7
    <3>9. pc' \in {"parports", "up"} /\ UNCHANGED <<pciDriver, ttyDriver, exiting>>
      BY <2>4 DEF SerRegisterPorts
    <3>10. SerialFits'
      BY <1>0, <2>0, <3>1, <3>4, <3>7, <3>9
    <3> QED BY <1>0, <3>5, <3>8, <3>9, <3>10
  <2>5. CASE ProbePort
    BY <1>0, <2>0, <2>5 DEF ProbePort
  <2>6. CASE AllPortsProbed
    BY <1>0, <2>0, <2>6 DEF AllPortsProbed, initVars
  <2>7. CASE PpdevInit
    BY <1>0, <2>0, <2>7 DEF PpdevInit
  <2>8. CASE LpInit
    BY <1>0, <2>0, <2>8 DEF LpInit
  <2>9. ASSUME NEW s \in Slots, PpClaim(s) \/ PpClose(s) \/ PpGetModes(s) PROVE SerialPart'
    <3>1. pc = "up" /\ pc' = pc /\ UNCHANGED <<handlers, drvdata, lines, pciDriver, ttyDriver, exiting>>
      BY <2>9 DEF PpClaim, PpClose, PpGetModes, initVars
    <3> QED BY <1>0, <2>0, <3>1
  <2>10. CASE Exit
    BY <1>0, <2>0, <2>10 DEF Exit
  <2>11. CASE LpExit
    BY <1>0, <2>0, <2>11 DEF LpExit
  <2>12. CASE Undo7
    BY <1>0, <2>0, <2>12 DEF Undo7
  <2>13. CASE Undo6
    <3>1. drivers = IF pciDriver THEN {"ppdev"} ELSE {}
      BY <1>0, <2>13 DEF Undo6, DriversPart, DriversFit
    <3> QED BY <1>0, <2>0, <2>13, <3>1 DEF Undo6
  <2>14. CASE Undo5
    BY <1>0, <2>0, <2>14 DEF Undo5, initVars
  <2>15. CASE Undo4
    BY <1>0, <2>0, <2>15 DEF Undo4
  <2>16. CASE Undo3
    BY <1>0, <2>0, <2>16 DEF Undo3
  <2>17. CASE Undo2
    BY <1>0, <2>0, <2>17 DEF Undo2
  <2>18. CASE Undo1
    BY <1>0, <2>0, <2>18 DEF Undo1, registryVars
  <2> QED BY <1>2, <2>1, <2>2, <2>3, <2>4, <2>5, <2>6, <2>7, <2>8, <2>9, <2>10, <2>11, <2>12,
             <2>13, <2>14, <2>15, <2>16, <2>17, <2>18 DEF Next, Undo
<1> QED BY <1>1, <1>2

\* A step that keeps the ports keeps who is registered, under which number.
LEMMA KeptMeans ==
    ASSUME PortsRel, PortsKept
    PROVE  /\ Registered' = Registered /\ DOMAIN ports' = DOMAIN ports
           /\ {NumberOf(s) : s \in Registered}' = {NumberOf(s) : s \in Registered}
           /\ ports = <<>> => ports' = <<>>
<1>1. DOMAIN ports' = DOMAIN ports /\ ListedIn(ports') = ListedIn(ports)
  BY SameMeans DEF PortsKept
<1>2. Registered' = Registered
  BY <1>1 DEF Registered, ListedIn
<1>3. \A s \in Registered : NumberOf(s)' = NumberOf(s)
  BY RegistryIs DEF PortsKept, SamePorts, NumberOf
<1>4. {NumberOf(s) : s \in Registered}' = {NumberOf(s) : s \in Registered}
  BY <1>2, <1>3
<1>5. ports = <<>> => ports' = <<>>
  <2>1. ports' \in [DOMAIN ports' -> PortType]
    BY <1>1 DEF PortsKept, SamePorts
  <2> QED BY <1>1, <2>1, NoPorts
<1> QED BY <1>1, <1>2, <1>4, <1>5

\* The numbers of the ports that are registered.
NodesNow == {NumberOf(s) : s \in Registered}

\* Without drivers there are no nodes and no devices.
LEMMA NoDrivers ==
    ASSUME DriversPart, drivers = {}
    PROVE  chrdevs = {} /\ classes = {} /\ nodes = {} /\ lpDevs = {}
BY DEF DriversPart, DriversFit

\* Steps before there are drivers, and after they have gone.
LEMMA NoDriversStay ==
    ASSUME DriversPart, drivers = {}, UNCHANGED <<drivers, chrdevs, classes, nodes, lpDevs>>,
           pc' \notin {"lp", "up", "exit_lp"}, pc' = "undo6" => ~pciDriver',
           pc' \in {"parports", "ppdev"} => ParTotal' > 0
    PROVE  DriversPart'
BY NoDrivers DEF DriversPart, DriversFit

\* A step of the drivers on the ports as they are.
LEMMA NextKeepsDrivers ==
    ASSUME Parts, Next
    PROVE  DriversPart'
<1>0. CardsPart /\ SerialPart /\ DriversPart /\ PortsRel /\ PortsStage
  BY DEF Parts
<1>1. CASE FindCards
  <2>1. pc \in {"probe", "conf", "assign", "tables"}
        /\ pc' \in {"probe", "conf", "assign", "tables", "irq", "undo1"}
        /\ UNCHANGED <<drivers, chrdevs, classes, nodes, lpDevs>>
    BY <1>0, <1>1, FindCardsGoes DEF initVars, registryVars
  <2>2. drivers = {}
    BY <1>0, <2>1 DEF DriversPart, DriversFit
  <2> QED BY <1>0, <2>1, <2>2, NoDriversStay
<1>2. CASE ~FindCards
  <2>0. ParTotal' = ParTotal /\ MayFail' = MayFail
    BY <1>0, <1>2, LaterSame
  <2>1. CASE RegisterPci \/ RegisterIrq \/ SerRegisterDriver
    <3>1. drivers = {}
      BY <1>0, <2>1 DEF DriversPart, DriversFit, RegisterPci, RegisterIrq, SerRegisterDriver
    <3>2. UNCHANGED <<drivers, chrdevs, classes, nodes, lpDevs>>
      BY <2>1 DEF RegisterPci, RegisterIrq, SerRegisterDriver, registryVars
    <3>3. pc' \notin {"lp", "up", "exit_lp", "parports", "ppdev", "undo6"}
      BY <2>1 DEF RegisterPci, RegisterIrq, SerRegisterDriver
    <3> QED BY <1>0, <3>1, <3>2, <3>3, NoDriversStay
  <2>2. CASE SerRegisterPorts
    <3>1. /\ drivers = {} /\ UNCHANGED <<drivers, chrdevs, classes, nodes, lpDevs, ports>>
          /\ pc' = IF ParTotal > 0 THEN "parports" ELSE "up"
      BY <1>0, <2>2 DEF DriversPart, DriversFit, SerRegisterPorts, registryVars
    <3>2. CASE ParTotal > 0
      BY <1>0, <2>0, <3>1, <3>2, NoDriversStay
    <3>3. CASE ~(ParTotal > 0)
      <4>1. ports' = <<>>
        BY <1>0, <2>2, <3>1 DEF PortsStage, BeforePorts, SerRegisterPorts
      <4>2. Registered' = {}
        BY <4>1 DEF Registered
      <4>3. chrdevs = {} /\ classes = {} /\ nodes = {} /\ lpDevs = {}
        BY <1>0, <3>1, NoDrivers
      <4> QED BY <2>0, <3>1, <3>3, <4>2, <4>3 DEF DriversPart, DriversFit
    <3> QED BY <3>2, <3>3
  <2>3. CASE ProbePort
    <3>1. /\ drivers = {} /\ UNCHANGED <<drivers, chrdevs, classes, nodes, lpDevs>>
          /\ pc' \in {"parports", "undo4"} /\ ParTotal > 0
      BY <1>0, <2>3 DEF DriversPart, DriversFit, ProbePort
    <3> QED BY <1>0, <2>0, <3>1, NoDriversStay
  <2>4. CASE AllPortsProbed
    <3>1. /\ drivers = {} /\ UNCHANGED <<drivers, chrdevs, classes, nodes, lpDevs>>
          /\ pc' = "ppdev" /\ ParTotal > 0
      BY <1>0, <2>4 DEF DriversPart, DriversFit, AllPortsProbed, registryVars, initVars
    <3> QED BY <1>0, <2>0, <3>1, NoDriversStay
  <2>5. CASE PpdevInit
    <3>1. drivers = {} /\ ParTotal > 0
      BY <1>0, <2>5 DEF DriversPart, DriversFit, PpdevInit
    <3>2. CASE pc' = "undo5" /\ UNCHANGED <<registryVars, chrdevs, classes>>
      BY <1>0, <2>0, <3>1, <3>2, NoDriversStay DEF registryVars
    <3>3. CASE AttachPpdev /\ pc' = "lp" /\ chrdevs' = chrdevs \cup {"ppdev"} /\ classes' = classes \cup {"ppdev"}
      <4>1. chrdevs = {} /\ classes = {} /\ lpDevs = {}
        BY <1>0, <3>1, NoDrivers
      <4>2. drivers' = {"ppdev"} /\ chrdevs' = {"ppdev"} /\ classes' = {"ppdev"} /\ lpDevs' = {}
        BY <3>1, <3>3, <4>1 DEF AttachPpdev
      <4>3. nodes' = NodesNow /\ PortsKept
        BY <1>0, <3>3, RegistrySame, <2>5 DEF AttachPpdev, PpdevInit, NodesNow
      <4>4. NodesNow' = NodesNow
        BY <1>0, <4>3, KeptMeans DEF NodesNow
      <4> QED BY <2>0, <3>1, <3>3, <4>2, <4>3, <4>4 DEF DriversPart, DriversFit, NodesNow
    <3> QED BY <2>5, <3>2, <3>3 DEF PpdevInit
  <2>6. CASE LpInit
    <3>1. /\ drivers = {"ppdev"} /\ chrdevs = {"ppdev"} /\ classes = {"ppdev"}
          /\ nodes = NodesNow /\ lpDevs = {} /\ ParTotal > 0
      BY <1>0, <2>6 DEF DriversPart, DriversFit, LpInit, NodesNow
    <3>2. Registered' = Registered /\ NodesNow' = NodesNow
      BY <1>0, <2>6, LpInitKeepsPorts, KeptMeans DEF NodesNow
    <3>3. CASE pc' = "undo6" /\ UNCHANGED <<registryVars, chrdevs, classes>>
      <4>1. pciDriver'
        BY <1>0, <2>6 DEF LpInit, SerialPart, SerialFits
      <4> QED BY <3>1, <3>2, <3>3, <4>1 DEF DriversPart, DriversFit, NodesNow, registryVars
    <3>4. ASSUME NEW S \in SUBSET Registered, MayFail \/ S = Registered, AttachLp(S),
                 chrdevs' = chrdevs \cup {"lp"}, classes' = classes \cup {"lp"}, pc' = "up"
          PROVE  DriversPart'
      <4>1. drivers' = {"ppdev", "lp"} /\ lpDevs' = S /\ nodes' = nodes
        BY <3>1, <3>4 DEF AttachLp
      <4>2. chrdevs' = {"ppdev", "lp"} /\ classes' = {"ppdev", "lp"}
        BY <3>1, <3>4
      <4>3. nodes' = NodesNow' /\ lpDevs' \subseteq Registered' /\ (MayFail' \/ lpDevs' = Registered')
        BY <2>0, <3>1, <3>2, <3>4, <4>1
      <4>4. ParTotal' > 0
        BY <2>0, <3>1
      <4> QED BY <3>4, <4>1, <4>2, <4>3, <4>4 DEF DriversPart, DriversFit, NodesNow
    <3> QED BY <2>6, <3>3, <3>4 DEF LpInit
  <2>7. ASSUME NEW s \in Slots, PpClaim(s) \/ PpClose(s) \/ PpGetModes(s) PROVE DriversPart'
    <3>1. /\ pc = "up" /\ pc' = pc
          /\ UNCHANGED <<drivers, chrdevs, classes, nodes, lpDevs>>
      BY <2>7 DEF PpClaim, PpClose, PpGetModes, initVars
    <3>2. Registered' = Registered /\ NodesNow' = NodesNow
      BY <1>0, <2>7, FilesKeepPorts, KeptMeans DEF NodesNow
    <3> QED BY <1>0, <2>0, <3>1, <3>2 DEF DriversPart, DriversFit, NodesNow
  <2>8. CASE Exit
    <3>1. /\ pc = "up" /\ UNCHANGED <<drivers, chrdevs, classes, nodes, lpDevs>>
          /\ pc' = IF ParTotal > 0 THEN "exit_lp" ELSE "undo4"
      BY <2>8 DEF Exit, registryVars
    <3>2. Registered' = Registered /\ NodesNow' = NodesNow
      BY <1>0, <2>8, RegistrySame, KeptMeans DEF NodesNow, Exit, registryVars
    <3> QED BY <1>0, <2>0, <3>1, <3>2 DEF DriversPart, DriversFit, NodesNow
  <2>9. CASE LpExit
    <3>1. /\ pc = "exit_lp" /\ pc' = "undo6"
          /\ drivers' = drivers \ {"lp"} /\ chrdevs' = chrdevs \ {"lp"} /\ classes' = classes \ {"lp"}
          /\ lpDevs' = {} /\ nodes' = nodes
      BY <2>9 DEF LpExit, DetachLp
    <3>2. Registered' = Registered /\ NodesNow' = NodesNow
      BY <1>0, <2>9, LpExitKeepsPorts, KeptMeans DEF NodesNow
    <3>3. /\ drivers = {"ppdev", "lp"} /\ chrdevs = drivers /\ classes = drivers
          /\ nodes = NodesNow
      BY <1>0, <3>1, <2>9 DEF DriversPart, DriversFit, NodesNow
    <3>4. drivers' = {"ppdev"} /\ chrdevs' = {"ppdev"} /\ classes' = {"ppdev"} /\ nodes' = NodesNow'
      BY <3>1, <3>2, <3>3
    <3>5. pciDriver'
      BY <1>0, <2>9 DEF LpExit, SerialPart, SerialFits
    <3> QED BY <3>1, <3>4, <3>5 DEF DriversPart, DriversFit, NodesNow
  <2>10. CASE Undo6
    <3>1. /\ drivers = (IF pciDriver THEN {"ppdev"} ELSE {})
          /\ chrdevs = drivers /\ classes = drivers /\ lpDevs = {}
          /\ nodes = IF "ppdev" \in drivers THEN NodesNow ELSE {}
      BY <1>0, <2>10 DEF DriversPart, DriversFit, Undo6, NodesNow
    <3>2. CASE "ppdev" \in drivers
      <4>1. /\ drivers' = {} /\ chrdevs' = {} /\ classes' = {} /\ lpDevs' = {} /\ nodes' = {}
            /\ pc' = "undo5"
        BY <2>10, <3>1, <3>2 DEF Undo6, DetachPpdev, NodesNow
      <4> QED BY <4>1 DEF DriversPart, DriversFit
    <3>3. CASE "ppdev" \notin drivers
      <4>1. /\ drivers = {} /\ UNCHANGED <<drivers, chrdevs, classes, nodes, lpDevs>> /\ pc' = "crashed"
        BY <2>10, <3>1, <3>3 DEF Undo6, registryVars
      <4> QED BY <1>0, <4>1, NoDriversStay
    <3> QED BY <3>2, <3>3
  <2>11. CASE Undo5
    <3>1. /\ drivers = {} /\ drivers' = {} /\ nodes' = {} /\ lpDevs' = {} /\ pc' \in {"undo4", "undo5"}
          /\ chrdevs' = chrdevs /\ classes' = classes
      <4>1. pc = "undo5" /\ UNCHANGED <<chrdevs, classes>>
        BY <2>11 DEF Undo5, initVars
      <4>2. drivers = {}
        BY <1>0, <4>1 DEF DriversPart, DriversFit
      <4> QED BY <2>11, <4>1, <4>2, Undo5Does
    <3>2. chrdevs = {} /\ classes = {}
      BY <1>0, <3>1, NoDrivers
    <3> QED BY <3>1, <3>2 DEF DriversPart, DriversFit
  <2>12. CASE Undo7 \/ Undo4 \/ Undo3 \/ Undo2 \/ Undo1
    <3>1. /\ drivers = {} /\ UNCHANGED <<drivers, chrdevs, classes, nodes, lpDevs>>
          /\ pc' \in {"undo6", "undo3", "undo2", "undo1", "unloaded", "failed"}
          /\ pc' = "undo6" => ~pciDriver'
      BY <1>0, <2>12 DEF DriversPart, DriversFit, Undo7, Undo4, Undo3, Undo2, Undo1, registryVars
    <3> QED BY <1>0, <3>1, NoDriversStay
  <2> QED BY <1>2, <2>1, <2>2, <2>3, <2>4, <2>5, <2>6, <2>7, <2>8, <2>9, <2>10, <2>11, <2>12
          DEF Next, Undo
<1> QED BY <1>1, <1>2


\* No port is there yet, and nothing that would keep one.
LEMMA NoPortsStay ==
    ASSUME PortsStage, ports = <<>>, ports' = <<>>, UNCHANGED <<slot, leaked, users, exiting>>, ~exiting,
           pc # "up",
           BeforePorts' => BeforePorts,
           pc' \notin {"parports", "ppdev", "lp", "up"}
    PROVE  PortsStage'
<1>1. Registered' = DOMAIN ports'
  BY DEF Registered
<1> QED BY <1>1 DEF PortsStage

\* The ports that are left, and whose they may be.
LEMMA NextKeepsStage ==
    ASSUME Parts, Next
    PROVE  PortsStage'
<1>0. CardsPart /\ SerialPart /\ DriversPart /\ PortsRel /\ PortsStage
  BY DEF Parts
<1>1. CASE FindCards
  <2>1. pc \in {"probe", "conf", "assign", "tables"}
        /\ pc' \in {"probe", "conf", "assign", "tables", "irq", "undo1"}
        /\ UNCHANGED <<ports, leaked, slot, users, exiting>>
    BY <1>0, <1>1, FindCardsGoes DEF initVars, registryVars
  <2>2. ports = <<>> /\ ~exiting
    BY <1>0, <2>1 DEF PortsStage, BeforePorts, Early
  <2> QED BY <1>0, <2>1, <2>2, NoPortsStay DEF BeforePorts, Early
<1>2. CASE ~FindCards
  <2>0. parTable' = parTable /\ ParTotal' = ParTotal
    BY <1>0, <1>2, LaterSame
  <2>1. CASE RegisterPci \/ RegisterIrq \/ SerRegisterDriver
    <3>1. ports = <<>> /\ ~exiting /\ BeforePorts /\ pc # "up"
      BY <1>0, <2>1 DEF PortsStage, BeforePorts, Early, Assigned, RegisterPci, RegisterIrq, SerRegisterDriver
    <3>2. /\ UNCHANGED <<ports, leaked, slot, users, exiting>>
          /\ pc' \notin {"parports", "ppdev", "lp", "up"}
      BY <2>1 DEF RegisterPci, RegisterIrq, SerRegisterDriver, registryVars
    <3> QED BY <1>0, <3>1, <3>2, NoPortsStay
  <2>2. CASE SerRegisterPorts
    <3>1. /\ pc = "ser_ports" /\ pc' = IF ParTotal > 0 THEN "parports" ELSE "up"
          /\ UNCHANGED <<ports, leaked, slot, users, exiting>>
      BY <2>2 DEF SerRegisterPorts, registryVars
    <3>2. ports = <<>> /\ ~exiting /\ slot = 1
      BY <1>0, <3>1 DEF PortsStage, BeforePorts, Assigned
    <3>3. DOMAIN parTable = 1 .. ParTotal /\ ParTotal \in Nat /\ Len(parTable) = ParTotal
      BY <1>0, <3>1, TablesAre DEF Assigned
    <3>4. DOMAIN ports' = {} /\ Registered' = {}
      BY <3>1, <3>2 DEF Registered
    <3>5. slot' \in 1 .. Len(parTable') + 1 /\ DOMAIN ports' = 1 .. slot' - 1
      BY <2>0, <3>1, <3>2, <3>3, <3>4
    <3>6. pc' = "up" => DOMAIN ports' = DOMAIN parTable'
      BY <2>0, <3>1, <3>3, <3>4
    <3> QED BY <1>0, <3>1, <3>2, <3>4, <3>5, <3>6
            DEF PortsStage, BeforePorts, Early, Undone
  <2>3. CASE ProbePort
    <3>1. /\ pc = "parports" /\ UNCHANGED <<leaked, users, exiting>>
          /\ slot \in DOMAIN parTable
      BY <2>3 DEF ProbePort
    <3>2. /\ ~exiting /\ DOMAIN ports = 1 .. slot - 1 /\ Registered = DOMAIN ports
          /\ \A s \in 1 .. MaxSlot : ~(users[s] > 0) /\ ~(leaked[s] > 0)
      BY <1>0, <3>1 DEF PortsStage, Assigned
    <3>3. DOMAIN parTable = 1 .. ParTotal /\ ParTotal \in Nat /\ Len(parTable) = ParTotal
      BY <1>0, <3>1, TablesAre DEF Assigned
    <3>4. CASE PortsKept /\ pc' = "undo4" /\ slot' = slot /\ ports' = ports
      <4>1. Registered' = Registered /\ DOMAIN ports' = DOMAIN ports
        BY <1>0, <3>4, KeptMeans
      <4>2. slot \notin DOMAIN ports
        BY <3>1, <3>2, <3>3
      <4>3. Registered' # DOMAIN parTable'
        BY <2>0, <3>1, <3>2, <4>1, <4>2
      <4> QED BY <3>1, <3>2, <3>4, <4>1, <4>3 DEF PortsStage, BeforePorts, Early, Undone
    <3>5. CASE /\ PortsRel' /\ pc' = pc /\ slot' = slot + 1
               /\ DOMAIN ports' = 1 .. slot /\ Registered' = Registered \cup {slot}
      <4>1. Registered' = DOMAIN ports' /\ slot' \in 1 .. Len(parTable') + 1 /\ DOMAIN ports' = 1 .. slot' - 1
        BY <2>0, <3>1, <3>2, <3>3, <3>5
      <4> QED BY <3>1, <3>2, <3>5, <4>1 DEF PortsStage, BeforePorts, Early, Undone
    <3> QED BY <2>3, <3>4, <3>5, ProbePortDoes
  <2>4. CASE AllPortsProbed
    <3>1. /\ pc = "parports" /\ pc' = "ppdev" /\ slot \notin DOMAIN parTable
          /\ UNCHANGED <<ports, leaked, users, exiting>>
      BY <2>4 DEF AllPortsProbed, registryVars, initVars
    <3>2. /\ ~exiting /\ DOMAIN ports = 1 .. slot - 1 /\ Registered = DOMAIN ports
          /\ slot \in 1 .. Len(parTable) + 1
          /\ \A s \in 1 .. MaxSlot : ~(users[s] > 0) /\ ~(leaked[s] > 0)
      BY <1>0, <3>1 DEF PortsStage, Assigned
    <3>3. DOMAIN parTable = 1 .. ParTotal /\ ParTotal \in Nat /\ Len(parTable) = ParTotal
      BY <1>0, <3>1, TablesAre DEF Assigned
    <3>4. DOMAIN ports = DOMAIN parTable
      BY <3>1, <3>2, <3>3
    <3>5. Registered' = Registered
      BY <3>1 DEF Registered
    <3> QED BY <2>0, <3>1, <3>2, <3>4, <3>5 DEF PortsStage, BeforePorts, Early, Undone
  <2>5. CASE PpdevInit \/ LpInit
    <3>1. /\ pc \in {"ppdev", "lp"} /\ pc' \in {"lp", "up", "undo5", "undo6"}
          /\ UNCHANGED <<leaked, users, exiting>> /\ pciDriver'
      BY <1>0, <2>5 DEF PpdevInit, LpInit, AttachPpdev, AttachLp, registryVars,
                        SerialPart, SerialFits
    <3>2. ~ProbePort /\ ~Undo5
      BY <3>1 DEF ProbePort, Undo5
    <3>3. Registered' = Registered /\ DOMAIN ports' = DOMAIN ports
      BY <1>0, <3>2, OthersKeepPorts, KeptMeans
    <3>4. /\ ~exiting /\ DOMAIN ports = DOMAIN parTable /\ Registered = DOMAIN ports
          /\ \A s \in 1 .. MaxSlot : ~(users[s] > 0) /\ ~(leaked[s] > 0)
      BY <1>0, <3>1 DEF PortsStage, Assigned
    <3> QED BY <2>0, <3>1, <3>3, <3>4 DEF PortsStage, BeforePorts, Early, Undone
  <2>6. ASSUME NEW s \in Slots, PpClaim(s) \/ PpClose(s) \/ PpGetModes(s) PROVE PortsStage'
    <3>1. pc = "up" /\ pc' = pc /\ exiting' = exiting
      BY <2>6 DEF PpClaim, PpClose, PpGetModes, initVars
    <3>2. Registered' = Registered /\ DOMAIN ports' = DOMAIN ports
      BY <1>0, <2>6, FilesKeepPorts, KeptMeans
    <3> QED BY <1>0, <2>0, <3>1, <3>2 DEF PortsStage, BeforePorts, Early, Undone, Assigned
  <2>7. CASE Exit
    <3>1. /\ pc = "up" /\ exiting' = TRUE /\ pc' \in {"exit_lp", "undo4"}
          /\ UNCHANGED <<ports, leaked, users>>
          /\ \A s \in 1 .. MaxSlot : users[s] = 0
      BY <1>0, <2>7, RegistryIs DEF Exit, registryVars
    <3> QED BY <3>1 DEF PortsStage, BeforePorts, Early, Undone, Assigned
  <2>8. CASE LpExit \/ Undo6
    <3>1. /\ pc \in {"exit_lp", "undo6"} /\ pc' \in {"undo6", "undo5", "crashed"}
          /\ UNCHANGED <<leaked, users, exiting>>
      BY <2>8 DEF LpExit, Undo6, DetachLp, DetachPpdev, registryVars
    <3>2. ~ProbePort /\ ~Undo5
      BY <3>1 DEF ProbePort, Undo5
    <3>3. Registered' = Registered /\ DOMAIN ports' = DOMAIN ports
      BY <1>0, <3>2, OthersKeepPorts, KeptMeans
    <3>4. /\ ~exiting => Registered = DOMAIN ports
          /\ \A s \in 1 .. MaxSlot : ~(users[s] > 0) /\ (leaked[s] > 0 => exiting)
      BY <1>0, <3>1 DEF PortsStage
    <3>5. pc' = "undo6" => pciDriver'
      BY <1>0, <2>8 DEF LpExit, Undo6, SerialPart, SerialFits
    <3>6. pc' = "crashed" => ports' = <<>>
      <4>1. SUFFICES ASSUME pc' = "crashed" PROVE ports' = <<>>
        OBVIOUS
      <4>2. pc = "undo6" /\ "ppdev" \notin drivers /\ ports' = ports
        BY <2>8, <4>1 DEF LpExit, Undo6, registryVars
      <4>3. ~pciDriver
        BY <1>0, <4>2 DEF DriversPart, DriversFit
      <4> QED BY <1>0, <4>2, <4>3 DEF PortsStage
    <3> QED BY <3>1, <3>3, <3>4, <3>5, <3>6 DEF PortsStage, BeforePorts, Early, Undone, Assigned
  <2>9. CASE Undo5
    <3>1. pc = "undo5" /\ UNCHANGED <<leaked, users, exiting>>
      BY <1>0, <2>9, Undo5Does DEF Undo5, initVars
    <3>2. /\ ~exiting => Registered = DOMAIN ports
          /\ \A s \in 1 .. MaxSlot : ~(users[s] > 0) /\ (leaked[s] > 0 => exiting)
      BY <1>0, <3>1 DEF PortsStage
    <3>3. CASE PortsKept /\ pc' = "undo4" /\ ports' = ports /\ Registered = {}
      <4>1. Registered' = {} /\ DOMAIN ports' = DOMAIN ports
        BY <1>0, <3>3, KeptMeans
      <4>2. ~exiting => ports' = <<>>
        BY <1>0, <3>2, <3>3, NoPorts, RegistryIs
      <4> QED BY <3>1, <3>2, <3>3, <4>1, <4>2 DEF PortsStage, BeforePorts, Early, Undone, Assigned
    <3>4. ASSUME PortsRel', pc' = pc, NEW s \in Registered, Registered' = Registered \ {s},
                 leaked[s] = 0 => DOMAIN ports' = DOMAIN ports \ {s}
          PROVE  PortsStage'
      <4>1. ~exiting => leaked[s] = 0
        BY <1>0, <3>2, <3>4, RegistryIs
      <4>2. ~exiting => Registered' = DOMAIN ports'
        BY <3>2, <3>4, <4>1
      <4> QED BY <3>1, <3>2, <3>4, <4>2 DEF PortsStage, BeforePorts, Early, Undone, Assigned
    <3> QED BY <2>9, <3>3, <3>4, Undo5Does
  <2>10. CASE Undo7
    <3>1. ports = <<>> /\ ~exiting /\ pc = "undo7"
      BY <1>0, <2>10 DEF PortsStage, Undo7
    <3>2. UNCHANGED <<ports, leaked, slot, users, exiting>> /\ pc' = "undo6"
      BY <2>10 DEF Undo7, registryVars
    <3> QED BY <1>0, <3>1, <3>2, NoPortsStay DEF BeforePorts, Early
  <2>11. CASE Undo4 \/ Undo3 \/ Undo2 \/ Undo1
    <3>1. UNCHANGED <<ports, leaked, users, exiting>>
      BY <2>11 DEF Undo4, Undo3, Undo2, Undo1, registryVars
    <3>2. /\ pc \in {"undo4", "undo3", "undo2", "undo1"}
          /\ pc' \in {"undo3", "undo2", "undo1", "unloaded", "failed"}
          /\ pc' = "unloaded" => exiting
          /\ pc' = "failed" => ~exiting
      BY <2>11 DEF Undo4, Undo3, Undo2, Undo1
    <3>3. Registered' = Registered
      BY <3>1 DEF Registered
    <3> QED BY <1>0, <2>0, <3>1, <3>2, <3>3 DEF PortsStage, BeforePorts, Early, Undone, Assigned
  <2> QED BY <1>2, <2>1, <2>2, <2>3, <2>4, <2>5, <2>6, <2>7, <2>8, <2>9, <2>10, <2>11
          DEF Next, Undo
<1> QED BY <1>1, <1>2

\* Every step keeps all of it, and so does a step of something else.
LEMMA NextKeepsParts ==
    ASSUME Parts, [Next]_vars
    PROVE  Parts'
<1>1. CASE Next
  <2>1. CardsPart'
    BY <1>1, NextKeepsCards DEF Parts
  <2> QED BY <1>1, <2>1, NextKeepsSerial, NextKeepsDrivers, NextKeepsPortsRel, NextKeepsStage DEF Parts
<1>2. CASE UNCHANGED vars
  <2> USE <1>2 DEF vars, probeVars, registryVars, initVars
  <2>0. /\ boards' = boards /\ system' = system /\ pc' = pc /\ serTable' = serTable
        /\ parTable' = parTable /\ ports' = ports
    OBVIOUS
  <2>1. CardsPart'
    <3>1. Assigned' = Assigned
      BY DEF Assigned
    <3>2. BoardsFit'
      <4>1. Live' = Live /\ SerTotal' = SerTotal /\ ParTotal' = ParTotal
        BY <2>0, CountsSame
      <4>2. cards' = cards /\ Listings' = Listings
        BY DEF cards, Listings
      <4>3. /\ \A n : SerAssigned(n)' = SerAssigned(n)
            /\ \A n : ParAssigned(n)' = ParAssigned(n)
            /\ \A n : SerPortEntry(SerAssigned(n), n)' = SerPortEntry(SerAssigned(n), n)
            /\ \A n : ParPortEntry(ParAssigned(n), n)' = ParPortEntry(ParAssigned(n), n)
        BY <2>0, EntriesSame
      <4> QED BY <3>1, <4>1, <4>2, <4>3 DEF Parts, CardsPart, BoardsFit
    <3> QED BY <3>2 DEF Parts, CardsPart, cards
  <2>2. Live' = Live /\ ParTotal' = ParTotal /\ MayFail' = MayFail
    BY <2>0, CountsSame DEF MayFail
  <2>3. Registered' = Registered
    BY DEF Registered
  <2>4. NodesNow' = NodesNow
    BY <2>3 DEF NodesNow, NumberOf
  <2>5. SerialPart'
    BY <2>2 DEF Parts, SerialPart, SerialFits, Early, BeforePorts, Undone, Assigned
  <2>6. DriversPart'
    BY <2>2, <2>3, <2>4 DEF Parts, DriversPart, DriversFit, NodesNow
  <2>7. PortsRel'
    BY DEF Parts, PortsRel
  <2>8. PortsStage'
    BY <2>3 DEF Parts, PortsStage, Early, BeforePorts, Undone, Assigned
  <2> QED BY <2>1, <2>5, <2>6, <2>7, <2>8 DEF Parts
<1> QED BY <1>1, <1>2


----------------------------------------------------------------------------
(* The invariant, and what follows from it.                                *)

\* Nothing has been done.
LEMMA InitParts ==
    ASSUME Init
    PROVE  Parts
<1>0. /\ pc = "register_pci" /\ system \in Systems /\ search = 1 /\ entry = 1 /\ at = 0
      /\ boards = <<>> /\ serTable = <<>> /\ parTable = <<>>
      /\ ports = <<>> /\ drivers = {} /\ nodes = {} /\ lpDevs = {}
      /\ leaked = [s \in 1 .. MaxSlot |-> 0] /\ users = [s \in 1 .. MaxSlot |-> 0]
      /\ pciDriver = FALSE /\ handlers = {} /\ ttyDriver = FALSE /\ lines = {} /\ drvdata = {}
      /\ slot = 1 /\ chrdevs = {} /\ classes = {} /\ exiting = FALSE
  BY DEF Init, ProbeInit, RegistryInit, MaxSlot
<1>1. CardsPart
  <2>1. Len(Conf) \in Nat /\ Len(Conf) > 0
    BY TableIs, SequenceIs DEF Conf
  <2>2. Len(cards) \in Nat
    BY <1>0, SystemsAssumption DEF cards
  <2>3. boards \in Listings
    BY <1>0 DEF Listings
  <2>4. Live = {}
    BY <1>0 DEF Live
  <2>5. BoardsFit
    BY <1>0, <2>3, <2>4 DEF BoardsFit, Assigned
  <2>6. Len(boards) = 0 /\ Len(serTable) = 0 /\ Len(parTable) = 0
    BY <1>0
  <2> QED BY <1>0, <2>1, <2>2, <2>5, <2>6, LimitsAssumption DEF CardsPart
<1>2. SerialPart
  BY <1>0 DEF SerialPart, SerialFits, Early, BeforePorts, Undone, Assigned
<1>3. DOMAIN ports = {} /\ Registered = {}
  BY <1>0 DEF Registered
<1>4. DriversPart
  BY <1>0, <1>3 DEF DriversPart, DriversFit
<1>5. PortsRel
  <2>1. ListedIn(ports) = {}
    BY <1>3 DEF ListedIn
  <2>2. Listing(ports)
    BY <1>0, <1>3 DEF Listing
  <2>3. MaxUse \in Nat /\ \A s \in 1 .. MaxSlot : leaked[s] = 0 /\ users[s] = 0
    BY <1>0, UseAssumption
  <2>4. leaked \in [1 .. MaxSlot -> Nat] /\ users \in [1 .. MaxSlot -> Nat]
    BY <1>0
  <2>5. Users(ports, leaked, users)
    BY <2>3, <2>4 DEF Users
  <2>6. Counted(ports, lpDevs, leaked, users)
    BY <1>3, <2>3 DEF Counted
  <2> QED BY <1>0, <2>2, <2>5, <2>6 DEF PortsRel, Rel
<1>6. PortsStage
  BY <1>0, <1>3 DEF PortsStage, BeforePorts, Early, Undone, Assigned
<1> QED BY <1>1, <1>2, <1>4, <1>5, <1>6 DEF Parts

\* Whether an element is in a set, counted.
LEMMA OneIs ==
    ASSUME NEW s, NEW S
    PROVE  Cardinality({s} \cap S) = One(s, S)
<1>1. CASE s \in S
  <2>1. {s} \cap S = {s}
    BY <1>1
  <2> QED BY <1>1, <2>1, FS_Singleton DEF One
<1>2. CASE s \notin S
  <2>1. {s} \cap S = {}
    BY <1>2
  <2> QED BY <1>2, <2>1, FS_EmptySet DEF One
<1> QED BY <1>1, <1>2

\* The references are those that are held.
LEMMA RefsMatch ==
    ASSUME PortsRel
    PROVE  PortRefsMatch
<1>1. SUFFICES ASSUME NEW s \in Slots
               PROVE  LET held == Cardinality({s} \cap Registered) + Cardinality({s} \cap lpDevs)
                                  + users[s] + leaked[s]
                      IN IF s \in DOMAIN ports THEN ports[s].refs = held ELSE held = 0
  BY DEF PortRefsMatch
<1>2. /\ Cardinality({s} \cap Registered) = One(s, ListedIn(ports))
      /\ Cardinality({s} \cap lpDevs) = One(s, lpDevs)
  BY OneIs, RegistryIs
<1>3. s \in 1 .. MaxSlot
  BY RegistryIs
<1>4. CASE s \in DOMAIN ports
  <2>1. ports[s].refs = Holds(s, ports, lpDevs, leaked, users)
    BY <1>4 DEF PortsRel, Rel, Counted
  <2> QED BY <1>2, <1>4, <2>1 DEF Holds
<1>5. CASE s \notin DOMAIN ports
  <2>1. users[s] = 0 /\ leaked[s] = 0
    BY <1>3, <1>5 DEF PortsRel, Rel, Counted
  <2>2. One(s, ListedIn(ports)) = 0 /\ One(s, lpDevs) = 0
    BY <1>5, RegistryIs DEF One
  <2> QED BY <1>2, <1>5, <2>1, <2>2
<1> QED BY <1>4, <1>5

\* The parts are the invariant.
LEMMA PartsMeanIInv ==
    ASSUME Parts
    PROVE  IInv
<1>0. CardsPart /\ SerialPart /\ DriversPart /\ PortsRel /\ PortsStage
  BY DEF Parts
<1>1. TypeOK
  <2>1. \A i \in DOMAIN boards : boards[i].dev \in DOMAIN cards /\ boards[i].enum \in 0 .. Len(Conf) - 1
    <3>1. boards \in Seq([dev : DOMAIN cards, enum : 0 .. Len(Conf) - 1])
      BY <1>0 DEF CardsPart, BoardsFit, Listings
    <3>2. \A i \in DOMAIN boards : boards[i] \in [dev : DOMAIN cards, enum : 0 .. Len(Conf) - 1]
      BY <3>1, SequenceIs
    <3> QED BY <3>2
  <2>2. DOMAIN ports \subseteq Slots /\ lpDevs \subseteq Slots
    BY <1>0, RegistryIs
  <2>3. ASSUME NEW s \in DOMAIN ports
        PROVE  ports[s].number \in 2 .. SNX_PAR_SUPPORT_MAX + 1 /\ ports[s].refs \in 1 .. 2 * MaxUse + 2
    <3>1. ports[s].number \in 2 .. SNX_PAR_SUPPORT_MAX + 1
      BY <1>0 DEF PortsRel, Rel, Listing, MaxSlot
    <3>2. /\ ports[s].refs >= 1 /\ ports[s].refs = Holds(s, ports, lpDevs, leaked, users)
          /\ ports[s].refs \in Nat
      BY <1>0, RegistryIs DEF PortsRel, Rel, Counted, PortType
    <3>3. users[s] \in 0 .. MaxUse /\ leaked[s] \in 0 .. MaxUse /\ MaxUse \in Nat
      BY <1>0, UseAssumption, RegistryIs DEF PortsRel, Rel, Users
    <3>4. One(s, ListedIn(ports)) \in 0 .. 1 /\ One(s, lpDevs) \in 0 .. 1
      BY DEF One
    <3> QED BY <3>1, <3>2, <3>3, <3>4 DEF Holds
  <2>4. \A s \in Slots : users[s] \in 0 .. MaxUse /\ leaked[s] \in 0 .. MaxUse
    BY <1>0, UseAssumption, RegistryIs DEF PortsRel, Rel, Users
  <2> QED BY <1>0, <2>1, <2>2, <2>3, <2>4 DEF TypeOK, CardsPart, SerialPart, DriversPart
<1>2. PortsFit
  <2>1. ports \in [DOMAIN ports -> [number : Nat, refs : Nat, listed : BOOLEAN]]
    BY <1>0, RegistryIs DEF PortType
  <2>2. \A s, t \in DOMAIN ports : NumberOf(s) = NumberOf(t) => s = t
    BY <1>0 DEF PortsRel, Rel, Listing, NumberOf
  <2>3. /\ Slots = 1 .. SNX_PAR_SUPPORT_MAX /\ leaked \in [Slots -> Nat] /\ users \in [Slots -> Nat]
        /\ Slots = 1 .. MaxSlot
    BY <1>0, RegistryIs DEF MaxSlot
  <2>4. \A s \in Slots : users[s] > 0 => pc = "up" /\ s \in Registered
    BY <1>0, <2>3, RegistryIs DEF PortsRel, Rel, Users, PortsStage
  <2>5. \A s \in Slots : leaked[s] > 0 => exiting \/ pc = "up"
    BY <1>0, <2>3 DEF PortsStage
  <2> QED BY <1>0, <2>1, <2>2, <2>3, <2>4, <2>5 DEF PortsFit, PortsStage
<1>3. PortRefsMatch
  BY <1>0, RefsMatch
<1> QED BY <1>0, <1>1, <1>2, <1>3 DEF IInv, CardsPart, SerialPart, DriversPart

\* The parts hold in every state.
THEOREM PartsHold == Spec => []Parts
<1>1. Init => Parts
  BY InitParts
<1>2. Parts /\ [Next]_vars => Parts'
  BY NextKeepsParts
<1> QED BY <1>1, <1>2, PTL DEF Spec

\* snx_init, snx_exit and the ppdev calls between them keep IInv, whatever the
\* machine: every label undoes what was done and nothing else.
THEOREM InvariantHolds == Spec => []IInv
<1>1. Parts => IInv
  BY PartsMeanIInv
<1> QED BY <1>1, PartsHold, PTL

\* Every variable stays in its range, and the totals in the limits of
\* sunix_get_pci_board_conf.
THEOREM TypesHold == Spec => []TypeOK
<1>1. IInv => TypeOK
  BY DEF IInv
<1> QED BY <1>1, InvariantHolds, PTL

\* A port lives exactly as long as somebody may use it, whatever the order of
\* claims, closes, failures and unloading.
THEOREM RefsAlwaysMatch == Spec => []PortRefsMatch
<1>1. IInv => PortRefsMatch
  BY DEF IInv
<1> QED BY <1>1, InvariantHolds, PTL

\* A load that fails leaves the PCI driver registered, with handlers or parallel
\* ports, never both, and nothing of the later steps; one that crashes does so
\* without a PCI driver or without a tty driver (the labels of snx_init).
THEOREM FailureUndoes == Spec => []UndoneWhenFailed
<1>1. Parts => UndoneWhenFailed
  <2>1. SUFFICES ASSUME Parts, pc \in {"failed", "crashed"} PROVE UndoneWhenFailed
    BY DEF UndoneWhenFailed
  <2>2. SerialPart /\ DriversPart /\ PortsStage
    BY <2>1 DEF Parts
  <2>3. drivers = {} /\ chrdevs = {} /\ classes = {} /\ nodes = {} /\ lpDevs = {}
    BY <2>1, <2>2, NoDrivers DEF DriversPart, DriversFit
  <2>4. pc = "failed" => ~exiting
    BY <2>2 DEF PortsStage
  <2> QED BY <2>1, <2>2, <2>3, <2>4 DEF UndoneWhenFailed, SerialPart, SerialFits, PortsStage, Undone
<1> QED BY <1>1, PartsHold, PTL

\* As many nodes as ports, because no two ports have the same number.
LEMMA NodesMatchPorts ==
    ASSUME PortsRel
    PROVE  Cardinality(NodesNow) = Cardinality(Registered)
<1> DEFINE f == [s \in Registered |-> NumberOf(s)]
<1>1. IsFiniteSet(Registered)
  <2>1. Registered \subseteq 1 .. MaxSlot /\ MaxSlot \in Nat
    BY RegistryIs
  <2>2. IsFiniteSet(1 .. MaxSlot)
    BY <2>1, FS_Interval
  <2> QED BY <2>1, <2>2, FS_Subset
<1>2. f \in Bijection(Registered, NodesNow)
  <2>1. f \in [Registered -> NodesNow]
    BY DEF NodesNow
  <2>2. \A s, t \in Registered : f[s] = f[t] => s = t
    BY RegistryIs DEF NumberOf, PortsRel, Rel, Listing
  <2>3. \A n \in NodesNow : \E s \in Registered : f[s] = n
    BY DEF NodesNow
  <2> HIDE DEF f
  <2>4. f \in Injection(Registered, NodesNow)
    BY <2>1, <2>2 DEF Injection, IsInjective
  <2>5. f \in Surjection(Registered, NodesNow)
    BY <2>1, <2>3 DEF Surjection
  <2> QED BY <2>4, <2>5 DEF Bijection
<1> HIDE DEF f
<1>3. ExistsBijection(Registered, NodesNow)
  BY <1>2 DEF ExistsBijection
<1> QED BY <1>1, <1>3, FS_Bijection

\* A module that is up serves every port of every board it found.
THEOREM UpServesAll == Spec => []UpIsComplete
<1>1. Parts => UpIsComplete
  <2>1. SUFFICES ASSUME Parts, pc = "up" PROVE UpIsComplete
    BY DEF UpIsComplete
  <2>2. CardsPart /\ SerialPart /\ DriversPart /\ PortsRel /\ PortsStage
    BY <2>1 DEF Parts
  <2>3. /\ handlers = Live /\ ttyDriver /\ pciDriver
        /\ lines = {n - 1 : n \in DOMAIN serTable}
    BY <2>1, <2>2 DEF SerialPart, SerialFits, Assigned
  <2>4. Registered = DOMAIN ports /\ Registered = DOMAIN parTable
    BY <2>1, <2>2 DEF PortsStage, Assigned
  <2>5. NodesNow = Numbers(ports)
    BY <2>4 DEF NodesNow, Numbers, NumberOf
  <2>6. nodes = NodesNow
    <3>1. CASE ParTotal > 0
      BY <2>1, <2>2, <3>1 DEF DriversPart, DriversFit, NodesNow
    <3>2. CASE ~(ParTotal > 0)
      <4>1. DOMAIN parTable = 1 .. ParTotal /\ ParTotal \in Nat
        BY <2>1, <2>2, TablesAre DEF Assigned
      <4>2. NodesNow = {}
        BY <2>4, <3>2, <4>1 DEF NodesNow
      <4>3. drivers = {}
        BY <2>1, <2>2, <3>2 DEF DriversPart, DriversFit
      <4> QED BY <2>2, <4>2, <4>3, NoDrivers
    <3> QED BY <3>1, <3>2
  <2>7. MayFail \/ lpDevs = Registered
    BY <2>1, <2>2 DEF DriversPart, DriversFit
  <2>8. Cardinality(nodes) = Cardinality(Registered)
    BY <2>2, <2>6, NodesMatchPorts
  <2> QED BY <2>3, <2>4, <2>5, <2>6, <2>7, <2>8 DEF UpIsComplete
<1> QED BY <1>1, PartsHold, PTL


----------------------------------------------------------------------------
(* The ports of the machine in the I/O space.                              *)

\* The UART of the n-th serial port, and the BAR of the n-th parallel port.
SerUart(n) == ConfOf(SerBoard(n)).uarts[n - SerFirst(SerBoard(n))]
ParBar(n) == ConfOf(ParBoard(n)).lpts[n - ParFirst(ParBoard(n))]
DevOf(i) == boards[i].dev

\* The number of ports before a board.
LEMMA FirstsAre ==
    ASSUME CardsPart, NEW i
    PROVE  SerFirst(i) \in Nat /\ ParFirst(i) \in Nat
<1>0. boards \in Listings
  BY DEF CardsPart, BoardsFit
<1>1. IsFiniteSet(Live) /\ Before(i) \in SUBSET Live
  <2>1. IsFiniteSet(0 .. Len(boards))
    BY <1>0, LiveIs, FS_Interval
  <2> QED BY <1>0, <2>1, LiveIs, FS_Subset DEF Before
<1>2. /\ SerCounts \in [Live -> Nat] /\ SerPlaces(Before(i)) = Places(SerCounts, Before(i))
      /\ ParCounts \in [Live -> Nat] /\ ParPlaces(Before(i)) = Places(ParCounts, Before(i))
  BY <1>0, <1>1, PortsArePlaces
<1>3. /\ Places(SerCounts, Before(i)) \subseteq Places(SerCounts, Live)
      /\ Places(ParCounts, Before(i)) \subseteq Places(ParCounts, Live)
  BY <1>1 DEF Places
<1>4. IsFiniteSet(Places(SerCounts, Live)) /\ IsFiniteSet(Places(ParCounts, Live))
  BY <1>1, <1>2, PlacesFinite
<1>5. IsFiniteSet(SerPlaces(Before(i))) /\ IsFiniteSet(ParPlaces(Before(i)))
  BY <1>2, <1>3, <1>4, FS_Subset
<1> QED BY <1>5, FS_CardinalityType DEF SerFirst, ParFirst

\* What the table says of a serial port.
LEMMA SerialAt ==
    ASSUME CardsPart, Assigned, NEW n \in DOMAIN serTable
    PROVE  /\ SerBoard(n) \in Live /\ n \in Nat
           /\ n - SerFirst(SerBoard(n)) \in 1 .. SerPorts(SerBoard(n))
           /\ n - SerFirst(SerBoard(n)) \in DOMAIN ConfOf(SerBoard(n)).uarts
           /\ ConfOf(SerBoard(n)) \in Sound /\ SerUart(n) \in Uarts
           /\ serTable[n].board = SerBoard(n)
           /\ serTable[n].remap = ConfOf(SerBoard(n)).remap
           /\ serTable[n].mask = VectorMask(SerBoard(n))
           /\ serTable[n].iobase = <<DevOf(SerBoard(n)), SerUart(n).bar, SerUart(n).offset>>
           /\ ~serTable[n].remap =>
                 serTable[n].vector = <<DevOf(SerBoard(n)), ConfOf(SerBoard(n)).vector[1],
                                        ConfOf(SerBoard(n)).vector[2]>>
<1> DEFINE i == SerBoard(n)
<1>0. /\ boards \in Listings /\ SerTotal \in Nat
      /\ serTable = [k \in 1 .. SerTotal |-> SerPortEntry(SerAssigned(k), k)]
  BY CardsAre DEF CardsPart, BoardsFit
<1>1. i \in Live /\ n - SerFirst(i) \in 1 .. SerPorts(i) /\ n \in Nat
  BY <1>0, PortsHaveBoards
<1>2. i \in DOMAIN boards
  BY <1>1 DEF Live
<1>3. ConfOf(i) \in Sound /\ n - SerFirst(i) \in DOMAIN ConfOf(i).uarts
  BY <1>0, <1>1, <1>2, LiveIs
<1>4. SerUart(n) \in Uarts
  <2>1. ConfOf(i).uarts \in Seq(Uarts)
    BY <1>3 DEF Sound, Described
  <2> QED BY <1>3, <2>1, SequenceIs DEF SerUart
<1>5. serTable[n] = SerPortEntry(SerAssigned(n), n)
  BY <1>0
<1>6. SerAssigned(n) = AssignSerial(i, n - SerFirst(i))
  BY DEF SerAssigned
<1>7. /\ serTable[n].board = SerAssigned(n).board /\ serTable[n].iobase = SerAssigned(n).iobase
      /\ serTable[n].vector = SerAssigned(n).vector
      /\ serTable[n].mask = VectorMask(SerAssigned(n).board)
      /\ serTable[n].remap = ConfOf(SerAssigned(n).board).remap
  BY <1>5 DEF SerPortEntry
<1>8. /\ SerAssigned(n).board = i
      /\ SerAssigned(n).iobase = <<DevOf(i), SerUart(n).bar, SerUart(n).offset>>
      /\ ~ConfOf(i).remap =>
            SerAssigned(n).vector = <<DevOf(i), ConfOf(i).vector[1], ConfOf(i).vector[2]>>
  BY <1>6 DEF AssignSerial, Address, SerUart, DevOf
<1> QED BY <1>1, <1>3, <1>4, <1>7, <1>8

\* What it says of a parallel port.
LEMMA ParallelAt ==
    ASSUME CardsPart, Assigned, NEW n \in DOMAIN parTable
    PROVE  /\ ParBoard(n) \in Live /\ n \in Nat
           /\ n - ParFirst(ParBoard(n)) \in DOMAIN ConfOf(ParBoard(n)).lpts
           /\ ConfOf(ParBoard(n)) \in Sound /\ ParBar(n) \in Nat
           /\ parTable[n].base = <<DevOf(ParBoard(n)), ParBar(n), 0>>
           /\ parTable[n].base_hi = <<DevOf(ParBoard(n)), ParBar(n) + 1, 0>>
<1> DEFINE i == ParBoard(n)
<1>0. /\ boards \in Listings /\ ParTotal \in Nat
      /\ parTable = [k \in 1 .. ParTotal |-> ParPortEntry(ParAssigned(k), k)]
  BY CardsAre DEF CardsPart, BoardsFit
<1>1. i \in Live /\ n - ParFirst(i) \in 1 .. ParPorts(i) /\ n \in Nat
  BY <1>0, PortsHaveBoards
<1>2. i \in DOMAIN boards
  BY <1>1 DEF Live
<1>3. ConfOf(i) \in Sound /\ n - ParFirst(i) \in DOMAIN ConfOf(i).lpts
  BY <1>0, <1>1, <1>2, LiveIs
<1>4. ParBar(n) \in Nat
  <2>1. ConfOf(i).lpts \in Seq(Nat)
    BY <1>3 DEF Sound, Described
  <2> QED BY <1>3, <2>1, SequenceIs DEF ParBar
<1>5. parTable[n] = ParPortEntry(ParAssigned(n), n)
  BY <1>0
<1>6. /\ parTable[n].base = <<DevOf(i), ParBar(n), 0>>
      /\ parTable[n].base_hi = <<DevOf(i), ParBar(n) + 1, 0>>
  BY <1>5 DEF ParPortEntry, ParAssigned, AssignParallel, Address, ParBar, DevOf
<1> QED BY <1>1, <1>3, <1>4, <1>6

\* Two places of eight bytes, and one byte.
LEMMA IntervalsApart ==
    ASSUME NEW d, NEW x \in Nat, NEW o \in Nat, NEW e, NEW y \in Nat, NEW p \in Nat,
           d # e \/ Clear(x, o, y, p)
    PROVE  Interval(<<d, x, o>>) \cap Interval(<<e, y, p>>) = {}
<1>1. SUFFICES ASSUME NEW k \in 0 .. 7, NEW l \in 0 .. 7, <<d, x, o + k>> = <<e, y, p + l>>
               PROVE  FALSE
  BY DEF Interval
<1>2. d = e /\ x = y /\ o + k = p + l
  BY <1>1
<1> QED BY <1>2 DEF Clear

\* A vector's byte is outside a place that is on another card or clear of it.
LEMMA ByteOutside ==
    ASSUME NEW d, NEW x \in Nat, NEW o \in Nat, NEW e, NEW v, v[2] \in Nat, d # e \/ Outside(x, o, v)
    PROVE  <<e, v[1], v[2]>> \notin Interval(<<d, x, o>>)
<1>1. SUFFICES ASSUME NEW k \in 0 .. 7, <<d, x, o + k>> = <<e, v[1], v[2]>>
               PROVE  FALSE
  BY DEF Interval
<1>2. d = e /\ x = v[1] /\ o + k = v[2]
  BY <1>1
<1> QED BY <1>2 DEF Outside

\* The ports of one board do not overlap, and neither do two boards.
LEMMA SerialsApart ==
    ASSUME CardsPart, Assigned, NEW m \in DOMAIN serTable, NEW n \in DOMAIN serTable, m # n
    PROVE  Interval(serTable[m].iobase) \cap Interval(serTable[n].iobase) = {}
<1>1. SerUart(m) \in Uarts /\ SerUart(n) \in Uarts
  BY SerialAt
<1>2. DevOf(SerBoard(m)) # DevOf(SerBoard(n)) \/
      Clear(SerUart(m).bar, SerUart(m).offset, SerUart(n).bar, SerUart(n).offset)
  <2>1. CASE SerBoard(m) = SerBoard(n)
    <3>1. m - SerFirst(SerBoard(m)) # n - SerFirst(SerBoard(m))
      BY SerialAt, FirstsAre
    <3>2. UartsClear(ConfOf(SerBoard(m)).uarts)
      BY SerialAt DEF Sound
    <3> QED BY <2>1, <3>1, <3>2, SerialAt DEF UartsClear, SerUart
  <2>2. CASE SerBoard(m) # SerBoard(n)
    BY <2>2, SerialAt DEF CardsPart, BoardsFit, DevOf
  <2> QED BY <2>1, <2>2
<1>3. SerUart(m).bar \in Nat /\ SerUart(m).offset \in Nat /\ SerUart(n).bar \in Nat /\ SerUart(n).offset \in Nat
  BY <1>1 DEF Uarts
<1>4. Interval(<<DevOf(SerBoard(m)), SerUart(m).bar, SerUart(m).offset>>) \cap
      Interval(<<DevOf(SerBoard(n)), SerUart(n).bar, SerUart(n).offset>>) = {}
  BY <1>2, <1>3, IntervalsApart
<1>5. /\ serTable[m].iobase = <<DevOf(SerBoard(m)), SerUart(m).bar, SerUart(m).offset>>
      /\ serTable[n].iobase = <<DevOf(SerBoard(n)), SerUart(n).bar, SerUart(n).offset>>
  BY SerialAt
<1> QED BY <1>4, <1>5

\* The BARs of a parallel port, 0 for base and 1 for base_hi.
ParRange(n, h) == <<DevOf(ParBoard(n)), ParBar(n) + h, 0>>

\* The same of the ranges of the parallel ports.
LEMMA ParallelsApart ==
    ASSUME CardsPart, Assigned, NEW m \in DOMAIN parTable, NEW n \in DOMAIN parTable,
           NEW g \in {0, 1}, NEW h \in {0, 1}, m # n \/ g # h
    PROVE  Interval(ParRange(m, g)) \cap Interval(ParRange(n, h)) = {}
<1>1. ParBar(m) \in Nat /\ ParBar(n) \in Nat
  BY ParallelAt
<1>2. DevOf(ParBoard(m)) # DevOf(ParBoard(n)) \/ ParBar(m) + g # ParBar(n) + h
  <2>1. CASE m = n
    BY <1>1, <2>1
  <2>2. CASE m # n /\ ParBoard(m) = ParBoard(n)
    <3>1. m - ParFirst(ParBoard(m)) # n - ParFirst(ParBoard(m))
      BY <2>2, ParallelAt, FirstsAre
    <3>2. LptsClear(ConfOf(ParBoard(m)).uarts, ConfOf(ParBoard(m)).lpts)
      BY ParallelAt DEF Sound
    <3>3. ParBar(m) + 1 < ParBar(n) \/ ParBar(n) + 1 < ParBar(m)
      BY <2>2, <3>1, <3>2, ParallelAt DEF LptsClear, ParBar
    <3> QED BY <1>1, <3>3
  <2>3. CASE ParBoard(m) # ParBoard(n)
    BY <2>3, ParallelAt DEF CardsPart, BoardsFit, DevOf
  <2> QED BY <2>1, <2>2, <2>3
<1>3. ParBar(m) + g \in Nat /\ ParBar(n) + h \in Nat /\ 0 \in Nat
  BY <1>1
<1>4. DevOf(ParBoard(m)) # DevOf(ParBoard(n)) \/ Clear(ParBar(m) + g, 0, ParBar(n) + h, 0)
  BY <1>2 DEF Clear
<1> QED BY <1>3, <1>4, IntervalsApart DEF ParRange

\* And of a serial and a parallel port.
LEMMA SerialParallelApart ==
    ASSUME CardsPart, Assigned, NEW m \in DOMAIN serTable, NEW n \in DOMAIN parTable,
           NEW h \in {0, 1}
    PROVE  Interval(serTable[m].iobase) \cap Interval(ParRange(n, h)) = {}
<1>1. SerUart(m) \in Uarts /\ ParBar(n) \in Nat
  BY SerialAt, ParallelAt
<1>2. DevOf(SerBoard(m)) # DevOf(ParBoard(n)) \/
      Clear(SerUart(m).bar, SerUart(m).offset, ParBar(n) + h, 0)
  <2>1. CASE SerBoard(m) = ParBoard(n)
    <3>1. LptsClear(ConfOf(SerBoard(m)).uarts, ConfOf(SerBoard(m)).lpts)
      BY SerialAt DEF Sound
    <3>2. SerUart(m).bar # ParBar(n) /\ SerUart(m).bar # ParBar(n) + 1
      BY <2>1, <3>1, SerialAt, ParallelAt DEF LptsClear, SerUart, ParBar
    <3>3. SerUart(m).bar # ParBar(n) + h
      BY <1>1, <3>2
    <3> QED BY <3>3 DEF Clear
  <2>2. CASE SerBoard(m) # ParBoard(n)
    BY <2>2, SerialAt, ParallelAt DEF CardsPart, BoardsFit, DevOf
  <2> QED BY <2>1, <2>2
<1>3. SerUart(m).bar \in Nat /\ SerUart(m).offset \in Nat /\ ParBar(n) + h \in Nat /\ 0 \in Nat
  BY <1>1 DEF Uarts
<1>4. serTable[m].iobase = <<DevOf(SerBoard(m)), SerUart(m).bar, SerUart(m).offset>>
  BY SerialAt
<1>5. Interval(<<DevOf(SerBoard(m)), SerUart(m).bar, SerUart(m).offset>>) \cap
      Interval(<<DevOf(ParBoard(n)), ParBar(n) + h, 0>>) = {}
  BY <1>2, <1>3, IntervalsApart
<1> QED BY <1>4, <1>5 DEF ParRange

\* A port does not cover the vector of a board.
LEMMA VectorsApart ==
    ASSUME CardsPart, Assigned, NEW n \in DOMAIN serTable, ~serTable[n].remap
    PROVE  /\ \A m \in DOMAIN serTable : serTable[n].vector \notin Interval(serTable[m].iobase)
           /\ \A m \in DOMAIN parTable, h \in {0, 1} :
                 serTable[n].vector \notin Interval(ParRange(m, h))
<1> DEFINE c == ConfOf(SerBoard(n))
           v == c.vector
<1>1. c \in Sound /\ n - SerFirst(SerBoard(n)) \in DOMAIN c.uarts /\ ~c.remap
  BY SerialAt
<1>2. c.uarts # <<>>
  BY <1>1
<1>3. /\ \A j \in DOMAIN c.uarts : Outside(c.uarts[j].bar, c.uarts[j].offset, v)
      /\ \A k \in DOMAIN c.lpts : Outside(c.lpts[k], 0, v) /\ Outside(c.lpts[k] + 1, 0, v)
  BY <1>1, <1>2 DEF Sound, VectorClear
<1>4. v \in Nat \X Nat
  BY <1>1 DEF Sound, Described
<1>5. v[2] \in Nat
  BY <1>4
<1>6. serTable[n].vector = <<DevOf(SerBoard(n)), v[1], v[2]>>
  BY SerialAt
<1>7. ASSUME NEW m \in DOMAIN serTable
      PROVE  serTable[n].vector \notin Interval(serTable[m].iobase)
  <2>1. DevOf(SerBoard(m)) # DevOf(SerBoard(n)) \/ Outside(SerUart(m).bar, SerUart(m).offset, v)
    <3>1. CASE SerBoard(m) = SerBoard(n)
      BY <1>3, <3>1, SerialAt DEF SerUart
    <3>2. CASE SerBoard(m) # SerBoard(n)
      BY <3>2, SerialAt DEF CardsPart, BoardsFit, DevOf
    <3> QED BY <3>1, <3>2
  <2>2. SerUart(m).bar \in Nat /\ SerUart(m).offset \in Nat
    BY SerialAt DEF Uarts
  <2> HIDE DEF v
  <2> QED BY <1>5, <1>6, <2>1, <2>2, SerialAt, ByteOutside
<1>8. ASSUME NEW m \in DOMAIN parTable, NEW h \in {0, 1}
      PROVE  serTable[n].vector \notin Interval(ParRange(m, h))
  <2>0. ParBar(m) \in Nat
    BY ParallelAt
  <2>1. DevOf(ParBoard(m)) # DevOf(SerBoard(n)) \/ Outside(ParBar(m) + h, 0, v)
    <3>1. CASE ParBoard(m) = SerBoard(n)
      <4>1. Outside(ParBar(m), 0, v) /\ Outside(ParBar(m) + 1, 0, v)
        BY <1>3, <3>1, ParallelAt DEF ParBar
      <4>2. ParBar(m) + 0 = ParBar(m)
        BY <2>0
      <4>3. CASE h = 0
        BY <4>1, <4>2, <4>3
      <4>4. CASE h = 1
        BY <4>1, <4>4
      <4> QED BY <4>3, <4>4
    <3>2. CASE ParBoard(m) # SerBoard(n)
      BY <3>2, SerialAt, ParallelAt DEF CardsPart, BoardsFit, DevOf
    <3> QED BY <3>1, <3>2
  <2>2. ParBar(m) + h \in Nat /\ 0 \in Nat
    BY <2>0
  <2> HIDE DEF v
  <2> QED BY <1>5, <1>6, <2>1, <2>2, ByteOutside DEF ParRange
<1> QED BY <1>7, <1>8

\* What the ranges of the table are.
LEMMA RangeIs ==
    ASSUME CardsPart, Assigned, NEW r \in Ranges
    PROVE  \/ /\ r[2] \in DOMAIN serTable /\ r = <<"iobase", r[2]>>
              /\ StartOf(r) = serTable[r[2]].iobase
           \/ /\ r[2] \in DOMAIN parTable /\ r = <<"base", r[2]>>
              /\ StartOf(r) = ParRange(r[2], 0)
           \/ /\ r[2] \in DOMAIN parTable /\ r = <<"base_hi", r[2]>>
              /\ StartOf(r) = ParRange(r[2], 1)
<1>1. CASE r \in {"iobase"} \X DOMAIN serTable
  BY <1>1 DEF StartOf
<1>2. CASE r \in {"base", "base_hi"} \X DOMAIN parTable
  <2>1. r = <<r[1], r[2]>> /\ r[1] \in {"base", "base_hi"} /\ r[2] \in DOMAIN parTable
    BY <1>2
  <2>2. ParBar(r[2]) \in Nat
    BY <2>1, ParallelAt
  <2>3. ParBar(r[2]) + 0 = ParBar(r[2])
    BY <2>2
  <2>4. /\ parTable[r[2]].base = ParRange(r[2], 0)
        /\ parTable[r[2]].base_hi = ParRange(r[2], 1)
    BY <2>1, <2>3, ParallelAt DEF ParRange
  <2>5. CASE r[1] = "base"
    BY <2>1, <2>4, <2>5 DEF StartOf
  <2>6. CASE r[1] = "base_hi"
    BY <2>1, <2>4, <2>6 DEF StartOf
  <2> QED BY <2>1, <2>5, <2>6
<1> QED BY <1>1, <1>2 DEF Ranges

\* Two of them are apart.
LEMMA RangesApart ==
    ASSUME CardsPart, Assigned, NEW q \in Ranges, NEW r \in Ranges, q # r
    PROVE  Interval(StartOf(q)) \cap Interval(StartOf(r)) = {}
<1> DEFINE Serial(x) == /\ x[2] \in DOMAIN serTable /\ x = <<"iobase", x[2]>>
                        /\ StartOf(x) = serTable[x[2]].iobase
           Parallel(x, h) == /\ x[2] \in DOMAIN parTable
                             /\ x = <<IF h = 0 THEN "base" ELSE "base_hi", x[2]>>
                             /\ StartOf(x) = ParRange(x[2], h)
<1>1. \A x \in Ranges : Serial(x) \/ \E h \in {0, 1} : Parallel(x, h)
  <2> SUFFICES ASSUME NEW x \in Ranges PROVE Serial(x) \/ Parallel(x, 0) \/ Parallel(x, 1)
    OBVIOUS
  <2> QED BY RangeIs
<1>2. CASE Serial(q) /\ Serial(r)
  <2>1. q[2] # r[2]
    BY <1>2
  <2> QED BY <1>2, <2>1, SerialsApart
<1>3. ASSUME Serial(q), NEW h \in {0, 1}, Parallel(r, h)
      PROVE  Interval(StartOf(q)) \cap Interval(StartOf(r)) = {}
  BY <1>3, SerialParallelApart
<1>4. ASSUME Serial(r), NEW h \in {0, 1}, Parallel(q, h)
      PROVE  Interval(StartOf(q)) \cap Interval(StartOf(r)) = {}
  <2>1. Interval(StartOf(r)) \cap Interval(StartOf(q)) = {}
    BY <1>4, SerialParallelApart
  <2> QED BY <2>1
<1>5. ASSUME NEW g \in {0, 1}, NEW h \in {0, 1}, Parallel(q, g), Parallel(r, h)
      PROVE  Interval(StartOf(q)) \cap Interval(StartOf(r)) = {}
  <2>1. q[2] # r[2] \/ g # h
    BY <1>5
  <2> QED BY <1>5, <2>1, ParallelsApart
<1> HIDE DEF Serial, Parallel
<1>6. (Serial(q) \/ \E h \in {0, 1} : Parallel(q, h)) /\ (Serial(r) \/ \E h \in {0, 1} : Parallel(r, h))
  BY <1>1
<1> QED BY <1>2, <1>3, <1>4, <1>5, <1>6

\* Whatever cards are together, no two ranges of ports overlap in the I/O space,
\* and none covers an interrupt vector.
THEOREM PortsNeverOverlap == Spec => []PortsApart
<1>1. Parts => PortsApart
  <2>1. SUFFICES ASSUME CardsPart, Assigned PROVE PortsApart
    BY DEF Parts, PortsApart
  <2>2. ASSUME NEW q \in Ranges, NEW r \in Ranges, q # r
        PROVE  Interval(StartOf(q)) \cap Interval(StartOf(r)) = {}
    BY <2>1, <2>2, RangesApart
  <2>3. ASSUME NEW n \in DOMAIN serTable
        PROVE  LET p == serTable[n] IN
               /\ p.remap \/ \A r \in Ranges : p.vector \notin Interval(StartOf(r))
               /\ p.remap \/ n - 1 - SerFirst(p.board) \in p.mask
               /\ n - SerFirst(p.board) \in 1 .. SerPorts(p.board)
    <3>1. serTable[n].remap \/ \A r \in Ranges : serTable[n].vector \notin Interval(StartOf(r))
      <4>1. SUFFICES ASSUME ~serTable[n].remap, NEW r \in Ranges
                     PROVE  serTable[n].vector \notin Interval(StartOf(r))
        OBVIOUS
      <4>2. \/ r[2] \in DOMAIN serTable /\ StartOf(r) = serTable[r[2]].iobase
            \/ r[2] \in DOMAIN parTable /\ \E h \in {0, 1} : StartOf(r) = ParRange(r[2], h)
        BY <2>1, RangeIs
      <4> QED BY <2>1, <4>1, <4>2, VectorsApart
    <3>2. n - SerFirst(SerBoard(n)) \in 1 .. SerPorts(SerBoard(n)) /\ serTable[n].board = SerBoard(n)
      BY <2>1, SerialAt
    <3>3. serTable[n].remap \/ n - 1 - SerFirst(SerBoard(n)) \in serTable[n].mask
      <4>1. CASE ~serTable[n].remap
        <5>1. serTable[n].mask = 0 .. SerPorts(SerBoard(n)) - 1
          BY <2>1, <4>1, SerialAt DEF VectorMask
        <5>2. SerFirst(SerBoard(n)) \in Nat /\ SerPorts(SerBoard(n)) \in Nat /\ n \in Nat
          BY <2>1, FirstsAre, SerialAt, LiveIs DEF Live, CardsPart, BoardsFit
        <5> QED BY <3>2, <5>1, <5>2
      <4> QED BY <4>1
    <3> QED BY <3>1, <3>2, <3>3
  <2> QED BY <2>2, <2>3 DEF PortsApart
<1> QED BY <1>1, PartsHold, PTL

=============================================================================
