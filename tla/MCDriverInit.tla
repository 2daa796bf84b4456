---------------------------- MODULE MCDriverInit ----------------------------
(* Machines for DriverInit: each known card alone, and some combinations.  *)
EXTENDS DriverInit

Machine(cs, mayFail) == [cards |-> cs, mayFail |-> mayFail]

\* The card of entry e; every other port has its mode bits set.
CardFor(e) ==
    [id |-> IdOf(e), sub |-> Conf[e].sub, part |-> Conf[e].part, type |-> Conf[e].type,
     gpio |-> Conf[e].gpio, irq |-> 5, enables |-> TRUE, ahdc |-> {1, 3, 5, 7}, rs422 |-> {0, 6, 7}]

Entry(id, sub) ==
    CardFor(CHOOSE e \in DOMAIN Conf : IdOf(e) = id /\ Conf[e].sub = sub)

Dual     == Entry("golden", \h4037)
Quad     == Entry("golden", \h6056)
TwoPlus2 == Entry("golden", \h4089)
OnePlus1 == Entry("golden", \h5079)
Matrix16 == Entry("matrix", \h1016)
Sun16    == Entry("sun1999", \h0010)
Sun1Plus1 == Entry("sun1999", \h0101)
Rs485    == [Entry("sun1999", \h0002) EXCEPT !.part = \h42]
Unknown  == [Rs485 EXCEPT !.part = \h7F]
Test     == Entry("golden", \h9999)
Golden4036 == Entry("golden", \h0002)

Alone == {Machine(<<CardFor(e)>>, FALSE) : e \in DOMAIN Conf}

Together ==
    {Machine(<<Matrix16, Dual>>, FALSE), Machine(<<Sun16, Matrix16>>, FALSE),
     Machine(<<Sun16, Matrix16, Dual>>, FALSE),
     Machine(<<Rs485, Dual, Rs485, Dual, Dual>>, FALSE),
     Machine(<<Test, Rs485, Golden4036, Quad>>, FALSE), Machine(<<Unknown, Rs485>>, FALSE),
     Machine(<<TwoPlus2, OnePlus1>>, FALSE),
     Machine(<<Sun1Plus1, Test, Sun1Plus1>>, FALSE),
     Machine(<<Dual, [Quad EXCEPT !.irq = 0]>>, FALSE),
     Machine(<<Dual, [Quad EXCEPT !.enables = FALSE]>>, FALSE),
     Machine(<<Dual, [Rs485 EXCEPT !.sub = 0]>>, FALSE),
     Machine(<<[Test EXCEPT !.id = "golden_parallel", !.sub = \h0103]>>, FALSE)}

Failing == {Machine(<<TwoPlus2, Dual>>, TRUE), Machine(<<Sun1Plus1, OnePlus1>>, TRUE)}

MCSystems == Alone \cup Together \cup Failing
=============================================================================
