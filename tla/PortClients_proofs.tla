------------------------- MODULE PortClients_proofs -------------------------
(***************************************************************************)
(* Theorems about PortClients, for any number of ppdev files beside the    *)
(* printer.                                                                *)
(*                                                                         *)
(* A step of c leaves the other clients where they are (Frame), so that    *)
(* what IInv says of one client is proved for c alone (PlacedStep,         *)
(* FlaggedStep, OwnStep) and framed for the others.  What they share is    *)
(* treated by aspect: every step is one of a few moves of the port         *)
(* (PortMoves), of the registers (RegisterWrites), of the modes            *)
(* (ModeBrackets) and of the requests to the printer (RequestsMade), and   *)
(* each conjunct of IInv is shown to survive the moves of its aspect.  The *)
(* moves speak of the port's Holder: a waiter has the port from the first  *)
(* write of the hand-over on, and the rest of it (LockInv) changes only    *)
(* who port->cad names and what the registers hold.                        *)
(***************************************************************************)
EXTENDS PortClients, SequenceTheorems, TLAPS

----------------------------------------------------------------------------
(* Queues without repetitions *)

\* What the members and the indices of a sequence are.
LEMMA Members ==
    ASSUME NEW S, NEW q \in Seq(S)
    PROVE  /\ DOMAIN q = 1 .. Len(q) /\ Len(q) \in Nat
           /\ \A e : e \in ToSet(q) <=> \E i \in 1 .. Len(q) : q[i] = e
           /\ ToSet(q) \subseteq S
           /\ q = <<>> <=> Len(q) = 0
           /\ \A i \in 1 .. Len(q) : q[i] \in S
           /\ IsInjective(q) <=> \A i, j \in 1 .. Len(q) : q[i] = q[j] => i = j
  <1>1. DOMAIN q = 1 .. Len(q) /\ Len(q) \in Nat /\ \A i \in 1 .. Len(q) : q[i] \in S
    BY LenProperties, ElementOfSeq
  <1>2. q = <<>> <=> Len(q) = 0
    BY EmptySeq
  <1>3. \A e : e \in ToSet(q) <=> \E i \in 1 .. Len(q) : q[i] = e
    BY <1>1 DEF ToSet
  <1>4. IsInjective(q) <=> \A i, j \in 1 .. Len(q) : q[i] = q[j] => i = j
    BY <1>1 DEF IsInjective
  <1> QED BY <1>1, <1>2, <1>3, <1>4

\* p is q with e at its end; r is q without its k-th element.
Extends(p, q, e) == /\ Len(p) = Len(q) + 1
                    /\ \A i \in 1 .. Len(q) : p[i] = q[i]
                    /\ p[Len(q) + 1] = e
Skips(r, q, k) ==
    /\ k \in 1 .. Len(q) /\ Len(r) = Len(q) - 1
    /\ \A i \in 1 .. Len(q) - 1 : r[i] = IF i < k THEN q[i] ELSE q[i + 1]

\* A new element at the end keeps a sequence without repetitions.
LEMMA Longer ==
    ASSUME NEW S, NEW q \in Seq(S), IsInjective(q), NEW e, e \notin ToSet(q),
           NEW p \in Seq(S), Extends(p, q, e)
    PROVE  IsInjective(p) /\ ToSet(p) = ToSet(q) \cup {e}
  <1>0. PICK n \in Nat : /\ n = Len(q) /\ Len(p) = n + 1
                         /\ (\A i \in 1 .. n : p[i] = q[i]) /\ p[n + 1] = e
    BY Members DEF Extends
  <1>1. /\ \A x : x \in ToSet(q) <=> \E i \in 1 .. n : q[i] = x
        /\ \A i, j \in 1 .. n : q[i] = q[j] => i = j
    BY <1>0, Members
  <1>2. /\ \A x : x \in ToSet(p) <=> \E i \in 1 .. n + 1 : p[i] = x
        /\ IsInjective(p) <=> \A i, j \in 1 .. n + 1 : p[i] = p[j] => i = j
    BY <1>0, Members
  <1>3. \A i \in 1 .. n + 1 : i \in 1 .. n \/ i = n + 1
    OBVIOUS
  <1>4. (\A i \in 1 .. n : i \in 1 .. n + 1) /\ n + 1 \in 1 .. n + 1
    OBVIOUS
  <1>5. ASSUME NEW x PROVE x \in ToSet(p) <=> x \in ToSet(q) \cup {e}
    BY <1>0, <1>1, <1>2, <1>3, <1>4
  <1>6. \A i \in 1 .. n : q[i] # e
    BY <1>1
  <1>7. ASSUME NEW i \in 1 .. n + 1, NEW j \in 1 .. n + 1, p[i] = p[j]
        PROVE  i = j
    <2>1. CASE i \in 1 .. n /\ j \in 1 .. n
      BY <1>0, <1>1, <1>7, <2>1
    <2>2. CASE i = n + 1 /\ j \in 1 .. n
      BY <1>0, <1>6, <1>7, <2>2
    <2>3. CASE j = n + 1 /\ i \in 1 .. n
      BY <1>0, <1>6, <1>7, <2>3
    <2> QED BY <1>3, <2>1, <2>2, <2>3
  <1> QED BY <1>2, <1>5, <1>7

\* So does leaving one out, which keeps the order of the others.
LEMMA Shorter ==
    ASSUME NEW S, NEW q \in Seq(S), IsInjective(q), NEW k, NEW e, e = q[k],
           NEW r \in Seq(S), Skips(r, q, k)
    PROVE  /\ IsInjective(r) /\ ToSet(r) = ToSet(q) \ {e} /\ e \in ToSet(q)
           /\ \A i, j \in DOMAIN r : i < j =>
                \E m, l \in DOMAIN q : m < l /\ q[m] = r[i] /\ q[l] = r[j]
  <1>0. PICK n \in Nat \ {0} :
           /\ n = Len(q) /\ k \in 1 .. n /\ Len(r) = n - 1
           /\ \A i \in 1 .. n - 1 : r[i] = IF i < k THEN q[i] ELSE q[i + 1]
    <2>1. Len(q) \in Nat \ {0}
      BY Members DEF Skips
    <2> QED BY <2>1 DEF Skips
  <1>1. /\ DOMAIN q = 1 .. n
        /\ \A x : x \in ToSet(q) <=> \E i \in 1 .. n : q[i] = x
        /\ \A i, j \in 1 .. n : q[i] = q[j] => i = j
    BY <1>0, Members
  <1>2. /\ DOMAIN r = 1 .. n - 1
        /\ \A x : x \in ToSet(r) <=> \E i \in 1 .. n - 1 : r[i] = x
        /\ IsInjective(r) <=> \A i, j \in 1 .. n - 1 : r[i] = r[j] => i = j
    <2>1. /\ DOMAIN r = 1 .. Len(r)
          /\ \A x : x \in ToSet(r) <=> \E i \in 1 .. Len(r) : r[i] = x
          /\ IsInjective(r) <=> \A i, j \in 1 .. Len(r) : r[i] = r[j] => i = j
      BY Members
    <2> QED BY <1>0, <2>1
  <1>3. ASSUME NEW i \in 1 .. n - 1
        PROVE  \E m \in 1 .. n : /\ q[m] = r[i] /\ m # k
                                 /\ m = IF i < k THEN i ELSE i + 1
    <2>1. CASE i < k
      <3>1. i \in 1 .. n /\ i # k
        BY <1>0, <2>1
      <3> QED BY <1>0, <2>1, <3>1
    <2>2. CASE ~(i < k)
      <3>1. PICK m \in 1 .. n : m = i + 1 /\ m # k
        BY <1>0, <2>2
      <3>2. r[i] = q[m]
        BY <1>0, <2>2, <3>1
      <3> QED BY <1>0, <2>2, <3>1, <3>2
    <2> QED BY <1>0, <2>1, <2>2
  <1>4. ASSUME NEW i \in 1 .. n - 1, NEW j \in 1 .. n - 1, i < j
        PROVE  \E m, l \in 1 .. n : m < l /\ q[m] = r[i] /\ q[l] = r[j]
    <2>1. PICK m \in 1 .. n : q[m] = r[i] /\ m = IF i < k THEN i ELSE i + 1
      BY <1>0, <1>3
    <2>2. PICK l \in 1 .. n : q[l] = r[j] /\ l = IF j < k THEN j ELSE j + 1
      BY <1>0, <1>3
    <2>3. m < l
      BY <1>0, <1>4, <2>1, <2>2
    <2> QED BY <1>0, <2>1, <2>2, <2>3
  <1>5. ASSUME NEW i \in 1 .. n - 1, NEW j \in 1 .. n - 1, r[i] = r[j]
        PROVE  i = j
    <2>1. ASSUME NEW x \in 1 .. n - 1, NEW y \in 1 .. n - 1, r[x] = r[y], x < y
          PROVE  FALSE
      <3>1. PICK m, l \in 1 .. n : m < l /\ q[m] = r[x] /\ q[l] = r[y]
        BY <1>0, <1>4, <2>1
      <3> QED BY <1>0, <1>1, <2>1, <3>1
    <2>2. i = j \/ i < j \/ j < i
      BY <1>0
    <2> QED BY <1>0, <1>5, <2>1, <2>2
  <1>6. ASSUME NEW x \in ToSet(r) PROVE x \in ToSet(q) /\ x # e
    <2>1. PICK i \in 1 .. n - 1 : r[i] = x
      BY <1>0, <1>2
    <2>2. PICK m \in 1 .. n : q[m] = x /\ m # k
      BY <1>0, <1>3, <2>1
    <2> QED BY <1>0, <1>1, <2>2
  <1>7. ASSUME NEW x \in ToSet(q), x # e PROVE x \in ToSet(r)
    <2>1. PICK i \in 1 .. n : q[i] = x
      BY <1>0, <1>1
    <2>2. i # k
      BY <1>0, <1>7, <2>1
    <2>3. CASE i < k
      <3>1. i \in 1 .. n - 1
        BY <1>0, <2>3
      <3>2. r[i] = x
        BY <1>0, <2>1, <2>3, <3>1
      <3> QED BY <1>0, <1>2, <3>1, <3>2
    <2>4. CASE ~(i < k)
      <3>1. PICK j \in 1 .. n - 1 : j + 1 = i /\ ~(j < k)
        BY <1>0, <2>2, <2>4
      <3>2. r[j] = x
        BY <1>0, <2>1, <3>1
      <3> QED BY <1>0, <1>2, <3>2
    <2> QED BY <1>0, <2>3, <2>4
  <1>8. ToSet(r) = ToSet(q) \ {e}
    BY <1>0, <1>6, <1>7
  <1>9. e \in ToSet(q)
    BY <1>0, <1>1
  <1>10. IsInjective(r)
    BY <1>0, <1>2, <1>5
  <1>11. \A i, j \in DOMAIN r : i < j =>
            \E m, l \in DOMAIN q : m < l /\ q[m] = r[i] /\ q[l] = r[j]
    <2> SUFFICES ASSUME NEW i \in DOMAIN r, NEW j \in DOMAIN r, i < j
                 PROVE  \E m, l \in DOMAIN q : m < l /\ q[m] = r[i] /\ q[l] = r[j]
      OBVIOUS
    <2>0. i \in 1 .. n - 1 /\ j \in 1 .. n - 1 /\ i < j
      BY <1>2
    <2>1. PICK m, l \in 1 .. n : m < l /\ q[m] = r[i] /\ q[l] = r[j]
      BY <1>4, <2>0
    <2> QED BY <1>1, <2>1
  <1> QED BY <1>8, <1>9, <1>10, <1>11

\* What Append adds to a queue (a client that waits).
LEMMA Appended ==
    ASSUME NEW S, NEW q \in Seq(S), IsInjective(q), NEW e \in S, e \notin ToSet(q)
    PROVE  \E p \in Seq(S) :
             /\ p = Append(q, e)
             /\ IsInjective(p) /\ ToSet(p) = ToSet(q) \cup {e} /\ p # <<>>
             /\ \A i, j \in DOMAIN p : i < j =>
                  /\ i \in DOMAIN q /\ p[i] = q[i]
                  /\ \/ j \in DOMAIN q /\ p[j] = q[j]
                     \/ p[j] = e
  <1>1. PICK n \in Nat : n = Len(q) /\ DOMAIN q = 1 .. n
    BY Members
  <1>a. PICK p \in Seq(S) : p = Append(q, e)
    BY AppendProperties
  <1>2. /\ Len(p) = n + 1 /\ \A i \in 1 .. n : p[i] = q[i]
        /\ p[n + 1] = e
    BY <1>1, <1>a, AppendProperties
  <1>3. IsInjective(p) /\ ToSet(p) = ToSet(q) \cup {e}
    <2>1. Extends(p, q, e)
      BY <1>1, <1>2 DEF Extends
    <2> QED BY <2>1, Longer
  <1>4. DOMAIN p = 1 .. n + 1 /\ p # <<>>
    BY <1>2, Members
  <1>5. ASSUME NEW i \in DOMAIN p, NEW j \in DOMAIN p, i < j
        PROVE  /\ i \in DOMAIN q /\ p[i] = q[i]
               /\ \/ j \in DOMAIN q /\ p[j] = q[j]
                  \/ p[j] = e
    <2>1. i \in 1 .. n /\ (j \in 1 .. n \/ j = n + 1)
      BY <1>4, <1>5
    <2>2. p[i] = q[i]
      BY <1>2, <2>1
    <2>3. CASE j \in 1 .. n
      BY <1>1, <1>2, <2>1, <2>2, <2>3
    <2>4. CASE j = n + 1
      BY <1>1, <1>2, <2>1, <2>2, <2>4
    <2> QED BY <2>1, <2>3, <2>4
  <1> QED BY <1>a, <1>3, <1>4, <1>5

\* The elements of p stand in q, in the same order; and behind h, its first.
KeepsOrder(p, q) ==
    \A i, j \in DOMAIN p : i < j =>
       \E m, l \in DOMAIN q : m < l /\ q[m] = p[i] /\ q[l] = p[j]
Follows(p, h, q) ==
    /\ 1 \in DOMAIN q /\ q[1] = h
    /\ \A x \in ToSet(p) : \E j \in DOMAIN q : 1 < j /\ q[j] = x

\* What the first of a queue is, and what Tail leaves (the hand-over).
LEMMA Served ==
    ASSUME NEW S, NEW q \in Seq(S), IsInjective(q), q # <<>>
    PROVE  \E h \in S, p \in Seq(S) :
             /\ h = Head(q) /\ p = Tail(q)
             /\ IsInjective(p) /\ ToSet(p) = ToSet(q) \ {h} /\ h \in ToSet(q)
             /\ KeepsOrder(p, q) /\ Follows(p, h, q)
  <1>1. PICK n \in Nat \ {0} : n = Len(q) /\ DOMAIN q = 1 .. n
    BY Members
  <1>a. PICK p \in Seq(S) : p = Tail(q)
    BY HeadTailProperties
  <1>2. Len(p) = n - 1 /\ \A i \in 1 .. n - 1 : p[i] = q[i + 1]
    BY <1>1, <1>a, HeadTailProperties
  <1>b. PICK h \in S : h = Head(q)
    BY HeadTailProperties
  <1>3. h = q[1]
    BY <1>1, <1>b
  <1>4. 1 \in 1 .. n /\ \A i \in 1 .. n - 1 : ~(i < 1)
    BY <1>1
  <1>5. \A i \in 1 .. n - 1 : p[i] = IF i < 1 THEN q[i] ELSE q[i + 1]
    BY <1>2, <1>4
  <1>6. /\ IsInjective(p) /\ ToSet(p) = ToSet(q) \ {h} /\ h \in ToSet(q)
        /\ \A i, j \in DOMAIN p : i < j =>
             \E m, l \in DOMAIN q : m < l /\ q[m] = p[i] /\ q[l] = p[j]
    <2>1. Skips(p, q, 1)
      BY <1>1, <1>2, <1>4, <1>5 DEF Skips
    <2> QED BY <1>3, <2>1, Shorter
  <1>7. ASSUME NEW x \in ToSet(p) PROVE \E j \in DOMAIN q : 1 < j /\ q[j] = x
    <2>1. PICK i \in 1 .. n - 1 : p[i] = x
      <3>1. PICK i \in 1 .. Len(p) : p[i] = x
        BY Members
      <3> QED BY <1>2, <3>1
    <2>2. PICK j \in 1 .. n : j = i + 1 /\ 1 < j
      BY <1>1
    <2> QED BY <1>1, <1>2, <2>1, <2>2
  <1>8. KeepsOrder(p, q)
    BY <1>6 DEF KeepsOrder
  <1>9. Follows(p, h, q)
    BY <1>1, <1>3, <1>4, <1>7 DEF Follows
  <1> QED BY <1>a, <1>b, <1>6, <1>8, <1>9

\* What RemoveAt leaves (an unregistration).
LEMMA Removed ==
    ASSUME NEW S, NEW q \in Seq(S), IsInjective(q), NEW e \in ToSet(q)
    PROVE  \E r \in Seq(S) :
             /\ r = RemoveAt(q, CHOOSE i \in DOMAIN q : q[i] = e)
             /\ IsInjective(r) /\ ToSet(r) = ToSet(q) \ {e} /\ q # <<>>
             /\ KeepsOrder(r, q)
  <1>1. PICK n \in Nat : n = Len(q) /\ DOMAIN q = 1 .. n
    BY Members
  <1>2. \E i \in 1 .. n : q[i] = e
    BY <1>1, Members
  <1>3. PICK k \in 1 .. n : q[k] = e /\ k = CHOOSE i \in DOMAIN q : q[i] = e
    BY <1>1, <1>2
  <1>4. n # 0 /\ q # <<>> /\ \A i \in 1 .. n : q[i] \in S
    BY <1>1, <1>3, Members
  <1>5. PICK a \in Seq(S) : /\ a = SubSeq(q, 1, k - 1) /\ Len(a) = k - 1
                            /\ \A i \in 1 .. k - 1 : a[i] = q[i]
    <2>1. \A i \in 1 .. k - 1 : q[i] \in S
      BY <1>4
    <2>a. PICK m \in Int : m = k - 1
      OBVIOUS
    <2>b. /\ SubSeq(q, 1, m) \in Seq(S)
          /\ Len(SubSeq(q, 1, m)) = IF 1 <= m THEN m - 1 + 1 ELSE 0
          /\ \A i \in 1 .. m - 1 + 1 : SubSeq(q, 1, m)[i] = q[1 + i - 1]
      BY <2>1, <2>a, SubSeqProperties
    <2>2. PICK a \in Seq(S) :
             /\ a = SubSeq(q, 1, k - 1)
             /\ Len(a) = IF 1 <= m THEN m - 1 + 1 ELSE 0
             /\ \A i \in 1 .. m - 1 + 1 : a[i] = q[1 + i - 1]
      BY <2>a, <2>b
    <2>3. Len(a) = k - 1
      BY <2>a, <2>2
    <2>4. ASSUME NEW i \in 1 .. k - 1 PROVE a[i] = q[i]
      <3>1. i \in 1 .. m - 1 + 1 /\ 1 + i - 1 = i
        BY <2>a
      <3> QED BY <2>2, <3>1
    <2> QED BY <2>2, <2>3, <2>4
  <1>6. PICK b \in Seq(S) : /\ b = SubSeq(q, k + 1, n) /\ Len(b) = n - k
                            /\ \A i \in 1 .. n - k : b[i] = q[k + i]
    <2>1. \A i \in k + 1 .. n : q[i] \in S
      BY <1>4
    <2>a. PICK m \in Int : m = k + 1
      OBVIOUS
    <2>b. /\ SubSeq(q, m, n) \in Seq(S)
          /\ Len(SubSeq(q, m, n)) = IF m <= n THEN n - m + 1 ELSE 0
          /\ \A i \in 1 .. n - m + 1 : SubSeq(q, m, n)[i] = q[m + i - 1]
      BY <2>1, <2>a, SubSeqProperties
    <2>2. PICK b \in Seq(S) :
             /\ b = SubSeq(q, k + 1, n)
             /\ Len(b) = IF m <= n THEN n - m + 1 ELSE 0
             /\ \A i \in 1 .. n - m + 1 : b[i] = q[m + i - 1]
      BY <2>a, <2>b
    <2>3. Len(b) = n - k
      BY <2>a, <2>2
    <2>4. ASSUME NEW i \in 1 .. n - k PROVE b[i] = q[k + i]
      <3>1. i \in 1 .. n - m + 1 /\ m + i - 1 = k + i
        BY <2>a
      <3> QED BY <2>2, <3>1
    <2> QED BY <2>2, <2>3, <2>4
  <1>7. PICK r \in Seq(S) :
           /\ r = a \o b /\ Len(r) = Len(a) + Len(b)
           /\ \A i \in 1 .. Len(a) + Len(b) :
                r[i] = IF i <= Len(a) THEN a[i] ELSE b[i - Len(a)]
    <2>1. /\ a \o b \in Seq(S) /\ Len(a \o b) = Len(a) + Len(b)
          /\ \A i \in 1 .. Len(a) + Len(b) :
               (a \o b)[i] = IF i <= Len(a) THEN a[i] ELSE b[i - Len(a)]
      BY ConcatProperties
    <2> QED BY <2>1
  <1>8. r = RemoveAt(q, CHOOSE i \in DOMAIN q : q[i] = e)
    BY <1>1, <1>3, <1>5, <1>6, <1>7 DEF RemoveAt
  <1>9. /\ Len(r) = n - 1 /\ n \in Nat \ {0}
        /\ \A i \in 1 .. n - 1 : r[i] = IF i < k THEN q[i] ELSE q[i + 1]
    <2>1. Len(a) + Len(b) = n - 1
      BY <1>5, <1>6
    <2>2. /\ Len(r) = n - 1
          /\ \A i \in 1 .. n - 1 : r[i] = IF i <= k - 1 THEN a[i] ELSE b[i - (k - 1)]
      BY <1>5, <1>7, <2>1
    <2>3. ASSUME NEW i \in 1 .. n - 1, i < k PROVE r[i] = q[i]
      <3>1. i <= k - 1 /\ i \in 1 .. k - 1
        BY <2>3
      <3> QED BY <1>5, <2>2, <3>1
    <2>4. ASSUME NEW i \in 1 .. n - 1, ~(i < k) PROVE r[i] = q[i + 1]
      <3>1. PICK j \in 1 .. n - k : j = i - (k - 1) /\ k + j = i + 1
        BY <2>4
      <3>2. ~(i <= k - 1)
        BY <2>4
      <3> QED BY <1>6, <2>2, <3>1, <3>2
    <2> QED BY <1>4, <2>2, <2>3, <2>4
  <1>10. /\ IsInjective(r) /\ ToSet(r) = ToSet(q) \ {e}
         /\ \A i, j \in DOMAIN r : i < j =>
              \E m, l \in DOMAIN q : m < l /\ q[m] = r[i] /\ q[l] = r[j]
    <2>1. Skips(r, q, k)
      BY <1>1, <1>9 DEF Skips
    <2> QED BY <1>3, <2>1, Shorter
  <1>11. KeepsOrder(r, q)
    BY <1>10 DEF KeepsOrder
  <1> QED BY <1>4, <1>8, <1>10, <1>11

ControlType ==
    /\ pc \in [Clients -> Places]
    /\ job \in [Clients -> [dev : Clients \cup {NoDev}, reclaim : BOOLEAN,
                            then : Places]]
    /\ wdev \in [Clients -> Clients \cup {NoDev}]
    /\ registered \subseteq Files /\ claimed \subseteq Clients
    /\ fmode \in [Files -> Modes] /\ fsaved \in [Files -> Modes]
    /\ {owner, coming} \subseteq Clients \cup {NoDev}

\* A step of c leaves the others where they are.
Frame(c) ==
    /\ \A d \in Clients \ {c} : /\ pc'[d] = pc[d] /\ job'[d] = job[d]
                                /\ wdev'[d] = wdev[d]
                                /\ d \in claimed' <=> d \in claimed
    /\ uses' = uses
    /\ \A f \in Files \ {c} : /\ fmode'[f] = fmode[f] /\ fsaved'[f] = fsaved[f]
                              /\ f \in registered' <=> f \in registered

\* Where a release goes on that has served the queue or ends a hand-over.
LEMMA LeaveGoes ==
    ASSUME NEW c \in Clients, Hand(c) \/ GiveRegisters(c)
    PROVE  /\ pc[c] \in {"hand", "give"}
           /\ UNCHANGED <<saved, claimed, wdev, files, cut, mixed, uses>>
           /\ \/ job[c].reclaim /\ Goto(c, "claim") /\ UNCHANGED job
              \/ ~job[c].reclaim /\ Return(c, job[c].then)
              \/ pc[c] = "hand" /\ Goto(c, "give") /\ UNCHANGED job
  <1>1. CASE Hand(c)
    BY <1>1 DEF Hand, Leave
  <1>2. CASE GiveRegisters(c)
    BY <1>2 DEF GiveRegisters, Leave, history
  <1> QED BY <1>1, <1>2

\* Every step of c is framed.
LEMMA StepFrame ==
    ASSUME ControlType, NEW c \in Clients,
           \/ Arbitration(c) \/ CompatWrite(c)
           \/ c \in Files /\ PpStep(c)
           \/ c = Lp /\ LpStep
    PROVE  Frame(c)
  <1> USE ClientsAssumption DEF ControlType, Frame, Clients, files, history
  <1>1. CASE Claim(c)
    BY <1>1 DEF Claim, GiveTo, Refuse, NotesOvertaken, Return, Goto
  <1>2. CASE Woken(c)
    BY <1>2 DEF Woken, Return, Goto
  <1>3. CASE Interrupted(c)
    BY <1>3 DEF Interrupted, AfterSignal, Return, Goto
  <1>4. CASE Save(c)
    BY <1>4 DEF Save, Goto
  <1>5. CASE Hand(c) \/ GiveRegisters(c)
    BY <1>5, LeaveGoes DEF Return, Goto
  <1>6. CASE WriteStart(c)
    BY <1>6 DEF WriteStart, Drive, Goto
  <1>7. CASE ByteDies(c)
    BY <1>7 DEF ByteDies, Goto
  <1>8. CASE ByteOut(c)
    BY <1>8 DEF ByteOut, Goto
  <1>9. CASE ByteYield(c)
    BY <1>9 DEF ByteYield, StartRelease, NotesLending, Return, Goto
  <1>10. CASE ByteBusy(c)
    BY <1>10 DEF ByteBusy, StartRelease, NotesLending, Return, Goto
  <1>11. CASE c \in Files /\ PpOpen(c)
    BY <1>11 DEF PpOpen, Goto
  <1>12. CASE c \in Files /\ PpSetMode(c)
    BY <1>12 DEF PpSetMode
  <1>13. CASE c \in Files /\ PpClaim(c)
    BY <1>13 DEF PpClaim, StartClaim, Goto
  <1>14. CASE c \in Files /\ PpClaimed(c)
    BY <1>14 DEF PpClaimed, SwapIn, Goto
  <1>15. CASE c \in Files /\ PpSetDirection(c)
    BY <1>15 DEF PpSetDirection, MayUse, Drive
  <1>16. CASE c \in Files /\ PpYield(c)
    BY <1>16 DEF PpYield, MayUse, StartRelease, NotesLending, Return, Goto
  <1>17. CASE c \in Files /\ PpRelease(c)
    BY <1>17 DEF PpRelease, MayUse, SwapOut, StartRelease, NotesLending,
       Return, Goto
  <1>18. CASE c \in Files /\ PpRead(c)
    BY <1>18 DEF PpRead, MayUse, EppTransfer, Drive
  <1>19. CASE c \in Files /\ PpWrite(c)
    BY <1>19 DEF PpWrite, MayUse, EppTransfer, Drive, Goto
  <1>20. CASE c \in Files /\ PpWriteEnd(c)
    BY <1>20 DEF PpWriteEnd, Goto
  <1>21. CASE c \in Files /\ PpClose(c)
    BY <1>21 DEF PpClose, SwapOut, StartClaim, StartRelease, NotesLending,
       Return, Goto
  <1>22. CASE c \in Files /\ PpCloseClaimed(c)
    BY <1>22 DEF PpCloseClaimed, StartRelease, NotesLending, Return, Goto
  <1>23. CASE c \in Files /\ PpUnregister(c)
    BY <1>23 DEF PpUnregister, StartRelease, NotesLending, Return, Goto
  <1>24. CASE c = Lp /\ LpOpen
    BY <1>24 DEF LpOpen, LpClaim, StartClaim, Goto
  <1>25. CASE c = Lp /\ LpOpened
    BY <1>25 DEF LpOpened, LpRelease, StartRelease, NotesLending, Return, Goto
  <1>26. CASE c = Lp /\ LpWrite
    BY <1>26 DEF LpWrite, LpClaim, StartClaim, Goto
  <1>27. CASE c = Lp /\ LpReady
    BY <1>27 DEF LpReady, LpGoes, LpLend, StartRelease, NotesLending, Return,
       Goto
  <1>28. CASE c = Lp /\ LpWriteEnd
    BY <1>28 DEF LpWriteEnd, LpGoes, Goto
  <1>29. CASE c = Lp /\ LpAgain
    BY <1>29 DEF LpAgain, LpGoes, LpLend, StartRelease, NotesLending, Return,
       Goto
  <1>30. CASE c = Lp /\ LpHear
    BY <1>30 DEF LpHear, Goto
  <1>31. CASE c = Lp /\ LpGive
    BY <1>31 DEF LpGive, LpRelease, StartRelease, NotesLending, Return, Goto
  <1>32. CASE c = Lp /\ LpClose
    BY <1>32 DEF LpClose, LpClaim, StartClaim, Goto
  <1>33. CASE c = Lp /\ LpClosing
    BY <1>33 DEF LpClosing, LpRelease, StartRelease, NotesLending, Return,
       Goto
  <1>34. CASE GiveOwner(c)
    BY <1>34 DEF GiveOwner
  <1> QED BY <1>1, <1>2, <1>3, <1>4, <1>5, <1>6, <1>7, <1>8, <1>9, <1>10,
        <1>11, <1>12, <1>13, <1>14, <1>15, <1>16, <1>17, <1>18, <1>19, <1>20,
        <1>21, <1>22, <1>23, <1>24, <1>25, <1>26, <1>27, <1>28, <1>29, <1>30,
        <1>31, <1>32, <1>33, <1>34
     DEF Arbitration, CompatWrite, PpStep, LpStep

\* c itself stays at its places.
LEMMA PlacedStep ==
    ASSUME ControlType, PlaceInv, NEW c \in Clients,
           \/ Arbitration(c) \/ CompatWrite(c)
           \/ c \in Files /\ PpStep(c)
           \/ c = Lp /\ LpStep
    PROVE  Placed(c)'
  <1> USE ClientsAssumption DEF ControlType, Clients, Transit, Bytes,
        FileOnly, LpOnly, Placed, Returns, Claiming, Writing, NoJob, PlaceInv,
        port, files, history
  <1>1. CASE Claim(c)
    <2>1. /\ pc[c] = "claim" /\ UNCHANGED <<claimed, wdev, registered>>
          /\ \/ Return(c, job[c].then)
             \/ Goto(c, "wait") /\ UNCHANGED job
      BY <1>1 DEF Claim
    <2>2. CASE Return(c, job[c].then)
      BY <2>1, <2>2 DEF Return, Goto
    <2>3. CASE Goto(c, "wait") /\ UNCHANGED job
      BY <2>1, <2>3 DEF Goto
    <2> QED BY <2>1, <2>2, <2>3
  <1>2. CASE Woken(c)
    BY <1>2 DEF Woken, Return, Goto
  <1>3. CASE Interrupted(c)
    BY <1>3 DEF Interrupted, AfterSignal, Return, Goto
  <1>4. CASE Save(c)
    BY <1>4 DEF Save, Goto
  <1>5. CASE Hand(c) \/ GiveRegisters(c)
    <2>1. /\ pc[c] \in {"hand", "give"}
          /\ UNCHANGED <<claimed, wdev, registered>>
          /\ \/ job[c].reclaim /\ Goto(c, "claim") /\ UNCHANGED job
             \/ ~job[c].reclaim /\ Return(c, job[c].then)
             \/ pc[c] = "hand" /\ Goto(c, "give") /\ UNCHANGED job
      BY <1>5, LeaveGoes
    <2>2. CASE job[c].reclaim /\ Goto(c, "claim") /\ UNCHANGED job
      <3>1. pc'[c] = "claim" /\ job' = job
        BY <2>2 DEF Goto
      <3> QED BY <2>1, <2>2, <3>1
    <2>3. CASE ~job[c].reclaim /\ Return(c, job[c].then)
      BY <2>1, <2>3 DEF Return, Goto
    <2>4. CASE pc[c] = "hand" /\ Goto(c, "give") /\ UNCHANGED job
      <3>1. pc'[c] = "give" /\ job' = job
        BY <2>4 DEF Goto
      <3> QED BY <2>1, <2>4, <3>1
    <2> QED BY <2>1, <2>2, <2>3, <2>4
  <1>6. CASE WriteStart(c)
    BY <1>6 DEF WriteStart, Drive, Goto
  <1>7. CASE ByteDies(c)
    BY <1>7 DEF ByteDies, Goto
  <1>8. CASE ByteOut(c)
    <2>1. CASE Goto(c, "byte") /\ UNCHANGED wdev
      BY <1>8, <2>1 DEF ByteOut, Goto
    <2>2. CASE Goto(c, "write_end")
      BY <1>8, <2>2 DEF ByteOut, Goto
    <2> QED BY <1>8, <2>1, <2>2 DEF ByteOut
  <1>9. CASE ByteYield(c)
    <2>1. c \in Clients /\ Writing(c) /\ wdev[c] \in Clients
      BY <1>9 DEF ByteYield
    <2>2. CASE owner = wdev[c]
      BY <1>9, <2>1, <2>2 DEF ByteYield, StartRelease, Goto
    <2>3. CASE owner # wdev[c]
      BY <1>9, <2>1, <2>3 DEF ByteYield, StartRelease, Goto
    <2> QED BY <2>2, <2>3
  <1>10. CASE ByteBusy(c)
    <2>1. c \in Clients /\ Writing(c) /\ wdev[c] \in Clients
      BY <1>10 DEF ByteBusy
    <2>2. CASE owner = wdev[c]
      BY <1>10, <2>1, <2>2 DEF ByteBusy, StartRelease, Goto
    <2>3. CASE owner # wdev[c]
      BY <1>10, <2>1, <2>3 DEF ByteBusy, StartRelease, Goto
    <2> QED BY <2>2, <2>3
  <1>11. CASE c \in Files /\ PpOpen(c)
    BY <1>11 DEF PpOpen, Goto
  <1>12. CASE c \in Files /\ PpSetMode(c)
    BY <1>12 DEF PpSetMode
  <1>13. CASE c \in Files /\ PpClaim(c)
    BY <1>13 DEF PpClaim, StartClaim, Goto
  <1>14. CASE c \in Files /\ PpClaimed(c)
    BY <1>14 DEF PpClaimed, SwapIn, Goto
  <1>15. CASE c \in Files /\ PpSetDirection(c)
    BY <1>15 DEF PpSetDirection, MayUse, Drive
  <1>16. CASE c \in Files /\ PpYield(c)
    <2>1. pc[c] = "idle" /\ StartRelease(c, c, TRUE, "idle") /\ UNCHANGED wdev
      BY <1>16 DEF PpYield, MayUse
    <2>2. /\ pc'[c] \in {"save", "claim"}
          /\ job'[c] = [dev |-> c, reclaim |-> TRUE, then |-> "idle"]
      BY <2>1 DEF StartRelease, Goto
    <2> QED BY <1>16, <2>1, <2>2
  <1>17. CASE c \in Files /\ PpRelease(c)
    <2>1. CASE owner = c
      BY <1>17, <2>1 DEF PpRelease, MayUse, SwapOut, StartRelease, Goto
    <2>2. CASE owner # c
      BY <1>17, <2>2 DEF PpRelease, MayUse, SwapOut, StartRelease, Return, Goto
    <2> QED BY <2>1, <2>2
  <1>18. CASE c \in Files /\ PpRead(c)
    BY <1>18 DEF PpRead, MayUse, EppTransfer, Drive
  <1>19. CASE c \in Files /\ PpWrite(c)
    BY <1>19 DEF PpWrite, MayUse, EppTransfer, Drive, Goto
  <1>20. CASE c \in Files /\ PpWriteEnd(c)
    BY <1>20 DEF PpWriteEnd, Goto
  <1>21. CASE c \in Files /\ PpClose(c)
    <2>1. CASE StartClaim(c, c, "pp_close") /\ UNCHANGED wdev
      BY <1>21, <2>1 DEF StartClaim, Goto
    <2>2. CASE (Goto(c, "pp_unreg") \/ Goto(c, "closed")) /\ UNCHANGED <<job, wdev>>
      BY <1>21, <2>2 DEF Goto
    <2>3. CASE StartRelease(c, c, FALSE, "pp_unreg") /\ UNCHANGED wdev
      <3>1. CASE owner = c
        BY <1>21, <2>3, <3>1 DEF StartRelease, Goto
      <3>2. CASE owner # c
        BY <1>21, <2>3, <3>2 DEF StartRelease, Return, Goto
      <3> QED BY <3>1, <3>2
    <2> QED BY <1>21, <2>1, <2>2, <2>3 DEF PpClose
  <1>22. CASE c \in Files /\ PpCloseClaimed(c)
    <2>1. CASE owner = c
      BY <1>22, <2>1 DEF PpCloseClaimed, StartRelease, Goto
    <2>2. CASE owner # c
      BY <1>22, <2>2 DEF PpCloseClaimed, StartRelease, Return, Goto
    <2> QED BY <2>1, <2>2
  <1>23. CASE c \in Files /\ PpUnregister(c)
    <2>1. CASE owner = c
      <3>1. StartRelease(c, c, FALSE, "pp_unreg") /\ UNCHANGED wdev
        BY <1>23, <2>1 DEF PpUnregister
      <3> QED BY <1>23, <2>1, <3>1 DEF PpUnregister, StartRelease, Goto
    <2>2. CASE owner # c
      <3>1. pc[c] = "pp_unreg" /\ Goto(c, "closed") /\ UNCHANGED <<job, wdev>>
        BY <1>23, <2>2 DEF PpUnregister
      <3> QED BY <1>23, <3>1 DEF Goto
    <2> QED BY <2>1, <2>2
  <1>24. CASE c = Lp /\ LpOpen
    BY <1>24 DEF LpOpen, LpClaim, StartClaim, Goto
  <1>25. CASE c = Lp /\ LpOpened
    BY <1>25 DEF LpOpened, LpRelease, StartRelease, NotesLending, Return, Goto
  <1>26. CASE c = Lp /\ LpWrite
    BY <1>26 DEF LpWrite, LpClaim, StartClaim, Goto
  <1>27. CASE c = Lp /\ LpReady
    BY <1>27 DEF LpReady, LpGoes, LpLend, StartRelease, NotesLending, Return,
       Goto
  <1>28. CASE c = Lp /\ LpWriteEnd
    BY <1>28 DEF LpWriteEnd, LpGoes, Goto
  <1>29. CASE c = Lp /\ LpAgain
    BY <1>29 DEF LpAgain, LpGoes, LpLend, StartRelease, NotesLending, Return,
       Goto
  <1>30. CASE c = Lp /\ LpHear
    BY <1>30 DEF LpHear, Goto
  <1>31. CASE c = Lp /\ LpGive
    BY <1>31 DEF LpGive, LpRelease, StartRelease, NotesLending, Return, Goto
  <1>32. CASE c = Lp /\ LpClose
    BY <1>32 DEF LpClose, LpClaim, StartClaim, Goto
  <1>33. CASE c = Lp /\ LpClosing
    BY <1>33 DEF LpClosing, LpRelease, StartRelease, NotesLending, Return,
       Goto
  <1>34. CASE GiveOwner(c)
    BY <1>34 DEF GiveOwner
  <1> QED BY <1>1, <1>2, <1>3, <1>4, <1>5, <1>6, <1>7, <1>8, <1>9, <1>10,
        <1>11, <1>12, <1>13, <1>14, <1>15, <1>16, <1>17, <1>18, <1>19, <1>20,
        <1>21, <1>22, <1>23, <1>24, <1>25, <1>26, <1>27, <1>28, <1>29, <1>30,
        <1>31, <1>32, <1>33, <1>34
     DEF Arbitration, CompatWrite, PpStep, LpStep

\* c's flag follows its call.
LEMMA FlaggedStep ==
    ASSUME ControlType, PlaceInv, FlagInv, NEW c \in Clients,
           \/ Arbitration(c) \/ CompatWrite(c)
           \/ c \in Files /\ PpStep(c)
           \/ c = Lp /\ LpStep
    PROVE  Flagged(c)'
  <1> USE ClientsAssumption DEF ControlType, Clients, Transit, Bytes,
        FileOnly, LpOnly, Placed, Returns, Claiming, Writing, NoJob, PlaceInv,
        FlagInv, Flagged, Releasing, Serving, port, files, history
  <1>1. CASE Claim(c)
    <2>1. /\ pc[c] = "claim" /\ UNCHANGED <<claimed, wdev, registered>>
          /\ \/ Return(c, job[c].then)
             \/ Goto(c, "wait") /\ UNCHANGED job
      BY <1>1 DEF Claim
    <2>2. CASE Return(c, job[c].then)
      <3>1. pc'[c] = job[c].then
        BY <2>2 DEF Return, Goto
      <3>2. job[c].then \in Returns(c) /\ Claiming(c)
        BY <2>1
      <3>3. CASE c = Lp
        BY <2>1, <3>1, <3>2, <3>3
      <3>4. CASE c \in Files
        BY <2>1, <3>1, <3>2, <3>4
      <3> QED BY <3>3, <3>4
    <2>3. CASE Goto(c, "wait") /\ UNCHANGED job
      BY <2>1, <2>3 DEF Goto
    <2> QED BY <2>1, <2>2, <2>3
  <1>2. CASE Woken(c)
    <2>1. /\ pc[c] = "wait" /\ UNCHANGED <<claimed, registered>>
          /\ Return(c, job[c].then)
      BY <1>2 DEF Woken
    <2>2. pc'[c] = job[c].then
      BY <2>1 DEF Return, Goto
    <2>3. job[c].then \in Returns(c) /\ Claiming(c)
      BY <2>1
    <2>4. CASE c = Lp
      BY <2>1, <2>2, <2>3, <2>4
    <2>5. CASE c \in Files
      BY <2>1, <2>2, <2>3, <2>5
    <2> QED BY <2>4, <2>5
  <1>3. CASE Interrupted(c)
    <2>1. /\ pc[c] = "wait" /\ UNCHANGED <<claimed, registered>>
          /\ Return(c, AfterSignal(job[c].then))
      BY <1>3 DEF Interrupted
    <2>2. pc'[c] = AfterSignal(job[c].then)
      BY <2>1 DEF Return, Goto
    <2>3. AfterSignal(job[c].then) =
             IF job[c].then = "pp_claimed" THEN "idle"
             ELSE IF job[c].then = "byte_again" THEN "write_end"
             ELSE job[c].then
      BY DEF AfterSignal
    <2> QED BY <2>1, <2>2, <2>3
  <1>4. CASE Save(c)
    BY <1>4 DEF Save, Goto
  <1>5. CASE Hand(c) \/ GiveRegisters(c)
    <2>1. /\ pc[c] \in {"hand", "give"}
          /\ UNCHANGED <<claimed, wdev, registered>>
          /\ \/ job[c].reclaim /\ Goto(c, "claim") /\ UNCHANGED job
             \/ ~job[c].reclaim /\ Return(c, job[c].then)
             \/ pc[c] = "hand" /\ Goto(c, "give") /\ UNCHANGED job
      BY <1>5, LeaveGoes DEF files
    <2>2. CASE job[c].reclaim /\ Goto(c, "claim") /\ UNCHANGED job
      <3>1. pc'[c] = "claim" /\ job' = job
        BY <2>2 DEF Goto
      <3> QED BY <2>1, <2>2, <3>1
    <2>4. CASE pc[c] = "hand" /\ Goto(c, "give") /\ UNCHANGED job
      <3>1. pc'[c] = "give" /\ job' = job
        BY <2>4 DEF Goto
      <3> QED BY <2>1, <2>4, <3>1
    <2>3. CASE ~job[c].reclaim /\ Return(c, job[c].then)
      <3>1. /\ job[c].then \in (IF c = Lp THEN {"idle", "closed"} ELSE {"idle", "pp_unreg"})
            /\ c \notin claimed
        BY <2>1, <2>3
      <3>2. pc'[c] = job[c].then
        BY <2>1, <2>3 DEF Return, Goto
      <3> QED BY <2>1, <3>1, <3>2
    <2> QED BY <2>1, <2>2, <2>3, <2>4
  <1>6. CASE WriteStart(c)
    BY <1>6 DEF WriteStart, Drive, Goto
  <1>7. CASE ByteDies(c)
    BY <1>7 DEF ByteDies, Goto
  <1>8. CASE ByteOut(c)
    BY <1>8 DEF ByteOut, Goto
  <1>9. CASE ByteYield(c)
    BY <1>9 DEF ByteYield, StartRelease, NotesLending, Return, Goto
  <1>10. CASE ByteBusy(c)
    BY <1>10 DEF ByteBusy, StartRelease, NotesLending, Return, Goto
  <1>11. CASE c \in Files /\ PpOpen(c)
    BY <1>11 DEF PpOpen, Goto
  <1>12. CASE c \in Files /\ PpSetMode(c)
    BY <1>12 DEF PpSetMode
  <1>13. CASE c \in Files /\ PpClaim(c)
    BY <1>13 DEF PpClaim, StartClaim, Goto
  <1>14. CASE c \in Files /\ PpClaimed(c)
    BY <1>14 DEF PpClaimed, SwapIn, Goto
  <1>15. CASE c \in Files /\ PpSetDirection(c)
    BY <1>15 DEF PpSetDirection, MayUse, Drive
  <1>16. CASE c \in Files /\ PpYield(c)
    BY <1>16 DEF PpYield, MayUse, StartRelease, NotesLending, Return, Goto
  <1>17. CASE c \in Files /\ PpRelease(c)
    <2>1. CASE owner = c
      BY <1>17, <2>1 DEF PpRelease, MayUse, SwapOut, StartRelease, Goto
    <2>2. CASE owner # c
      BY <1>17, <2>2 DEF PpRelease, MayUse, SwapOut, StartRelease, Return, Goto
    <2> QED BY <2>1, <2>2
  <1>18. CASE c \in Files /\ PpRead(c)
    BY <1>18 DEF PpRead, MayUse, EppTransfer, Drive
  <1>19. CASE c \in Files /\ PpWrite(c)
    BY <1>19 DEF PpWrite, MayUse, EppTransfer, Drive, Goto
  <1>20. CASE c \in Files /\ PpWriteEnd(c)
    BY <1>20 DEF PpWriteEnd, Goto
  <1>21. CASE c \in Files /\ PpClose(c)
    BY <1>21 DEF PpClose, SwapOut, StartClaim, StartRelease, NotesLending,
       Return, Goto
  <1>22. CASE c \in Files /\ PpCloseClaimed(c)
    BY <1>22 DEF PpCloseClaimed, StartRelease, NotesLending, Return, Goto
  <1>23. CASE c \in Files /\ PpUnregister(c)
    BY <1>23 DEF PpUnregister, StartRelease, NotesLending, Return, Goto
  <1>24. CASE c = Lp /\ LpOpen
    BY <1>24 DEF LpOpen, LpClaim, StartClaim, Goto
  <1>25. CASE c = Lp /\ LpOpened
    BY <1>25 DEF LpOpened, LpRelease, StartRelease, NotesLending, Return, Goto
  <1>26. CASE c = Lp /\ LpWrite
    BY <1>26 DEF LpWrite, LpClaim, StartClaim, Goto
  <1>27. CASE c = Lp /\ LpReady
    BY <1>27 DEF LpReady, LpGoes, LpLend, StartRelease, NotesLending, Return,
       Goto
  <1>28. CASE c = Lp /\ LpWriteEnd
    BY <1>28 DEF LpWriteEnd, LpGoes, Goto
  <1>29. CASE c = Lp /\ LpAgain
    BY <1>29 DEF LpAgain, LpGoes, LpLend, StartRelease, NotesLending, Return,
       Goto
  <1>30. CASE c = Lp /\ LpHear
    BY <1>30 DEF LpHear, Goto
  <1>31. CASE c = Lp /\ LpGive
    BY <1>31 DEF LpGive, LpRelease, StartRelease, NotesLending, Return, Goto
  <1>32. CASE c = Lp /\ LpClose
    BY <1>32 DEF LpClose, LpClaim, StartClaim, Goto
  <1>33. CASE c = Lp /\ LpClosing
    BY <1>33 DEF LpClosing, LpRelease, StartRelease, NotesLending, Return,
       Goto
  <1>34. CASE GiveOwner(c)
    BY <1>34 DEF GiveOwner
  <1> QED BY <1>1, <1>2, <1>3, <1>4, <1>5, <1>6, <1>7, <1>8, <1>9, <1>10,
        <1>11, <1>12, <1>13, <1>14, <1>15, <1>16, <1>17, <1>18, <1>19, <1>20,
        <1>21, <1>22, <1>23, <1>24, <1>25, <1>26, <1>27, <1>28, <1>29, <1>30,
        <1>31, <1>32, <1>33, <1>34
     DEF Arbitration, CompatWrite, PpStep, LpStep

----------------------------------------------------------------------------
(* What a step does to the owner and the queue: nothing, a claim that gets  *)
(* the port or has to wait, a release, the hand-over, or an unregistration. *)

\* cad_lock is free before and after; or c hands the port to a waiter, in
\* the middle or at the end.
Alone(c) == coming = NoDev /\ coming' = NoDev /\ pc[c] # "give" /\ pc'[c] # "give"
Outside(c) == UNCHANGED <<owner, coming>> /\ pc[c] # "give" /\ pc'[c] # "give"
Names(c) == /\ pc[c] = "give" /\ pc'[c] = "give"
            /\ coming # NoDev /\ owner' = coming /\ coming' = coming
Unlocks(c) == /\ pc[c] = "give" /\ pc'[c] # "give"
              /\ owner' = owner /\ coming' = NoDev

Stays(c) == /\ Holder' = Holder /\ queue' = queue /\ pc'[c] # "save"
            /\ Serving(c) => Serving(c)' \/ Holder # NoDev \/ queue = <<>>
            /\ Outside(c) \/ Names(c) \/ Unlocks(c)
Takes(c, e) == /\ pc[c] = "claim" /\ pc'[c] = job[c].then /\ Alone(c)
               /\ Holder = NoDev /\ e \notin ToSet(queue)
               /\ Holder' = e /\ queue' = queue
Blocks(c, e) == /\ pc[c] = "claim" /\ pc'[c] = "wait" /\ Alone(c)
                /\ Holder \notin {NoDev, e} /\ e \notin ToSet(queue)
                /\ Holder' = Holder /\ queue' = Append(queue, e)
Frees(c, e) == /\ pc[c] \notin Transit /\ pc'[c] = "save" /\ Alone(c)
               /\ Holder = e /\ Holder' = NoDev /\ queue' = queue
Hands(c) == /\ pc[c] = "hand" /\ pc'[c] # "save"
            /\ Holder = NoDev /\ queue # <<>>
            /\ Holder' = Head(queue) /\ queue' = Tail(queue)
            /\ \/ Alone(c)
               \/ /\ owner = NoDev /\ coming = NoDev /\ owner' = owner
                  /\ coming' = Head(queue) /\ pc'[c] = "give" /\ "smp" \in uses
Leaves(c) == /\ pc[c] = "pp_unreg" /\ pc'[c] = "closed" /\ c \in Files
             /\ owner # c /\ Outside(c) /\ queue' = Unlisted(c)

Moves(c) == \/ Stays(c) \/ Hands(c) \/ Leaves(c)
            \/ \E e \in Clients : /\ Owns(c) => e = c
                                  /\ Takes(c, e) \/ Blocks(c, e) \/ Frees(c, e)

\* A release that is over goes on outside of it.
LEMMA LeaveEnds ==
    ASSUME ControlType, NEW c \in Clients, Placed(c), Leave(c),
           pc[c] \in {"hand", "give"}
    PROVE  pc'[c] \notin {"save", "hand", "give"}
  BY DEF Leave, Return, Goto, ControlType, Placed, Returns, Claiming, Transit

\* While a hand-over is under way its waiter has the port, which has it as
\* its owner or none.
LEMMA LockFacts ==
    ASSUME LockInv
    PROVE  /\ owner # NoDev => Holder = owner
           /\ coming # NoDev => "smp" \in uses /\ Holder = coming
           /\ \A c \in Clients : pc[c] = "give" => coming # NoDev
  BY DEF LockInv, Holder

\* A release either frees the port or leaves it alone.
LEMMA ReleaseMoves ==
    ASSUME ControlType, NEW c \in Clients, NEW e \in Clients, NEW reclaim,
           NEW place, place \notin {"save", "give"},
           StartRelease(c, e, reclaim, place), UNCHANGED <<coming, queue>>,
           pc[c] \notin Transit, Owns(c) => e = c
    PROVE  Moves(c)
  <1>0. coming = NoDev /\ pc[c] # "give" /\ ~Serving(c)
    BY DEF StartRelease, Serving, Transit
  <1>1. CASE owner = e
    <2>1. owner' = NoDev /\ pc'[c] = "save"
      BY <1>1 DEF StartRelease, Goto, ControlType
    <2> QED BY <1>0, <1>1, <2>1 DEF Moves, Frees, Alone, Holder
  <1>2. CASE owner # e
    <2>1. owner' = owner /\ pc'[c] \notin {"save", "give"}
      BY <1>2 DEF StartRelease, Return, Goto, ControlType
    <2> QED BY <1>0, <2>1 DEF Moves, Stays, Outside, Holder
  <1> QED BY <1>1, <1>2

\* Every step is one of these moves.
LEMMA PortMoves ==
    ASSUME TypeOK, ControlType, PlaceInv, LockInv, NEW c \in Clients,
           \/ Arbitration(c) \/ CompatWrite(c)
           \/ c \in Files /\ PpStep(c)
           \/ c = Lp /\ LpStep
    PROVE  Moves(c)
  <1> USE ClientsAssumption DEF ControlType, Clients, Transit, Bytes,
        FileOnly, LpOnly, Serving, port, Holder, Outside, Alone
  <1>1. CASE Claim(c)
    <2> DEFINE e == job[c].dev
    <2>1. e \in Clients /\ (Owns(c) => e = c) /\ pc[c] = "claim"
          /\ job[c].then \notin {"save", "give"}
      BY <1>1 DEF Claim, PlaceInv, Placed, Owns, Returns, Claiming
    <2>2. CASE owner = e
      BY <1>1, <2>1, <2>2 DEF Claim, Return, Goto, Moves, Stays
    <2>3. CASE owner = NoDev
      <3>1. Takes(c, e)
        BY <1>1, <2>1, <2>3 DEF Claim, GiveTo, Return, Goto, Takes
      <3> QED BY <2>1, <3>1 DEF Moves
    <2>4. CASE owner \notin {NoDev, e}
      <3>1. Blocks(c, e)
        BY <1>1, <2>1, <2>4 DEF Claim, Refuse, Goto, Blocks
      <3> QED BY <2>1, <3>1 DEF Moves
    <2> QED BY <2>2, <2>3, <2>4
  <1>2. CASE Woken(c)
    <2>1. pc[c] = "wait" /\ job[c].then \notin {"save", "give"}
          /\ UNCHANGED <<owner, coming, queue>>
      BY <1>2 DEF Woken, PlaceInv, Placed, Returns, Claiming
    <2> QED BY <1>2, <2>1 DEF Woken, Return, Goto, Moves, Stays
  <1>3. CASE Interrupted(c)
    <2>1. pc[c] = "wait" /\ job[c].then \notin {"save", "give"}
          /\ UNCHANGED <<owner, coming, queue>>
      BY <1>3 DEF Interrupted, PlaceInv, Placed, Returns, Claiming
    <2> QED BY <1>3, <2>1 DEF Interrupted, AfterSignal, Return, Goto, Moves, Stays
  <1>4. CASE Save(c)
    BY <1>4 DEF Save, Goto, Moves, Stays
  <1>5. CASE Hand(c)
    <2>1. pc[c] = "hand" /\ pc'[c] # "save"
      <3>1. pc[c] = "hand" /\ job[c].then # "save"
        BY <1>5 DEF Hand, PlaceInv, Placed, Returns, Claiming
      <3>2. Goto(c, "claim") \/ Goto(c, job[c].then) \/ Goto(c, "give")
        BY <1>5, LeaveGoes DEF Return
      <3> QED BY <3>1, <3>2 DEF Goto
    <2>0. Leave(c) => pc'[c] # "give"
      BY <2>1, LeaveEnds DEF PlaceInv
    <2>2. CASE queue = <<>> \/ owner = Head(queue)
      <3>1. owner = NoDev => queue = <<>>
        BY <2>2, Served DEF TypeOK
      <3>2. UNCHANGED <<owner, coming, queue>> /\ Leave(c)
        BY <1>5, <2>2, <3>1 DEF Hand
      <3>3. Holder # NoDev \/ queue = <<>>
        BY <3>1
      <3> QED BY <2>1, <2>0, <3>2, <3>3 DEF Moves, Stays
    <2>3. CASE queue # <<>> /\ owner = NoDev
      <3>1. PICK h \in Clients : h = Head(queue)
        BY <2>3, Served DEF TypeOK
      <3>2. /\ coming = NoDev
            /\ \/ GiveTo(h, Tail(queue)) /\ Leave(c)
               \/ /\ StartGive(h, Tail(queue)) /\ Goto(c, "give")
                  /\ "smp" \in uses
        BY <1>5, <2>3, <3>1 DEF Hand
      <3>3. CASE GiveTo(h, Tail(queue)) /\ Leave(c)
        <4>1. Hands(c)
          BY <2>0, <2>1, <2>3, <3>1, <3>2, <3>3 DEF GiveTo, Hands
        <4> QED BY <4>1 DEF Moves
      <3>4. CASE /\ StartGive(h, Tail(queue)) /\ Goto(c, "give")
                 /\ "smp" \in uses
        <4>1. pc'[c] = "give"
          BY <3>4 DEF Goto
        <4>2. Hands(c)
          BY <2>1, <2>3, <3>1, <3>2, <3>4, <4>1 DEF StartGive, Hands
        <4> QED BY <4>2 DEF Moves
      <3> QED BY <3>2, <3>3, <3>4
    <2>4. CASE queue # <<>> /\ owner # NoDev /\ owner # Head(queue)
      <3>1. Head(queue) \in ToSet(queue) /\ owner \notin {NoDev, Head(queue)}
        BY <2>4, Served DEF TypeOK
      <3>2. Refuse(Head(queue)) /\ Leave(c)
        BY <1>5, <2>4 DEF Hand
      <3>3. UNCHANGED <<owner, coming, queue>>
        BY <3>1, <3>2 DEF Refuse
      <3>4. Holder # NoDev
        BY <2>4
      <3> QED BY <2>1, <2>0, <3>2, <3>3, <3>4 DEF Moves, Stays
    <2> QED BY <2>2, <2>3, <2>4
  <1>6. CASE WriteStart(c)
    BY <1>6 DEF WriteStart, Drive, Goto, Moves, Stays
  <1>7. CASE ByteDies(c)
    BY <1>7 DEF ByteDies, Goto, Moves, Stays
  <1>8. CASE ByteOut(c)
    BY <1>8 DEF ByteOut, Goto, Moves, Stays
  <1>9. CASE ByteYield(c)
    <2>1. pc[c] \notin Transit /\ UNCHANGED <<coming, queue>>
      BY <1>9 DEF ByteYield
    <2>2. wdev[c] \in Clients /\ (Owns(c) => wdev[c] = c)
      BY <1>9 DEF ByteYield, PlaceInv, Placed, Owns, Writing
    <2>3. \E reclaim \in BOOLEAN, place \in Places \ {"save", "give"} :
             StartRelease(c, wdev[c], reclaim, place)
      BY <1>9 DEF ByteYield, Places
    <2> QED BY <2>1, <2>2, <2>3, ReleaseMoves
  <1>10. CASE ByteBusy(c)
    <2>1. pc[c] \notin Transit /\ UNCHANGED <<coming, queue>>
      BY <1>10 DEF ByteBusy
    <2>2. wdev[c] \in Clients /\ (Owns(c) => wdev[c] = c)
      BY <1>10 DEF ByteBusy, PlaceInv, Placed, Owns, Writing
    <2>3. \E reclaim \in BOOLEAN, place \in Places \ {"save", "give"} :
             StartRelease(c, wdev[c], reclaim, place)
      BY <1>10 DEF ByteBusy, Places
    <2> QED BY <2>1, <2>2, <2>3, ReleaseMoves
  <1>11. CASE c \in Files /\ PpOpen(c)
    BY <1>11 DEF PpOpen, Goto, Moves, Stays
  <1>12. CASE c \in Files /\ PpSetMode(c)
    BY <1>12 DEF PpSetMode, Moves, Stays
  <1>13. CASE c \in Files /\ PpClaim(c)
    BY <1>13 DEF PpClaim, StartClaim, Goto, Moves, Stays
  <1>14. CASE c \in Files /\ PpClaimed(c)
    BY <1>14 DEF PpClaimed, SwapIn, Goto, Moves, Stays
  <1>15. CASE c \in Files /\ PpSetDirection(c)
    BY <1>15 DEF PpSetDirection, MayUse, Drive, Moves, Stays
  <1>16. CASE c \in Files /\ PpYield(c)
    <2>1. pc[c] \notin Transit /\ UNCHANGED <<coming, queue>>
      BY <1>16 DEF PpYield, MayUse
    <2>2. c \in Clients /\ (Owns(c) => c = c)
      BY <1>16 DEF PpYield, MayUse, PlaceInv, Placed, Owns, Writing
    <2>3. \E reclaim \in BOOLEAN, place \in Places \ {"save", "give"} :
             StartRelease(c, c, reclaim, place)
      BY <1>16 DEF PpYield, MayUse, Places
    <2> QED BY <2>1, <2>2, <2>3, ReleaseMoves
  <1>17. CASE c \in Files /\ PpRelease(c)
    <2>1. pc[c] \notin Transit /\ UNCHANGED <<coming, queue>>
      BY <1>17 DEF PpRelease, MayUse
    <2>2. c \in Clients /\ (Owns(c) => c = c)
      BY <1>17 DEF PpRelease, MayUse, PlaceInv, Placed, Owns, Writing
    <2>3. \E reclaim \in BOOLEAN, place \in Places \ {"save", "give"} :
             StartRelease(c, c, reclaim, place)
      BY <1>17 DEF PpRelease, MayUse, Places
    <2> QED BY <2>1, <2>2, <2>3, ReleaseMoves
  <1>18. CASE c \in Files /\ PpRead(c)
    BY <1>18 DEF PpRead, MayUse, EppTransfer, Drive, Moves, Stays
  <1>19. CASE c \in Files /\ PpWrite(c)
    BY <1>19 DEF PpWrite, MayUse, EppTransfer, Drive, Goto, Moves, Stays
  <1>20. CASE c \in Files /\ PpWriteEnd(c)
    BY <1>20 DEF PpWriteEnd, Goto, Moves, Stays
  <1>21. CASE c \in Files /\ PpClose(c)
    <2>1. CASE pc'[c] \in {"claim", "pp_unreg", "closed"} /\ UNCHANGED <<owner, queue>>
      BY <1>21, <2>1 DEF PpClose, Moves, Stays
    <2>2. CASE c \in claimed /\ StartRelease(c, c, FALSE, "pp_unreg")
      BY <1>21, <2>2, ReleaseMoves DEF PpClose
    <2>3. \/ pc'[c] \in {"claim", "pp_unreg", "closed"} /\ UNCHANGED owner
          \/ c \in claimed /\ StartRelease(c, c, FALSE, "pp_unreg")
      BY <1>21 DEF PpClose, StartClaim, Goto
    <2> QED BY <1>21, <2>1, <2>2, <2>3 DEF PpClose
  <1>22. CASE c \in Files /\ PpCloseClaimed(c)
    <2>1. pc[c] \notin Transit /\ UNCHANGED <<coming, queue>>
      BY <1>22 DEF PpCloseClaimed
    <2>2. c \in Clients /\ (Owns(c) => c = c)
      BY <1>22 DEF PpCloseClaimed, PlaceInv, Placed, Owns, Writing
    <2>3. \E reclaim \in BOOLEAN, place \in Places \ {"save", "give"} :
             StartRelease(c, c, reclaim, place)
      BY <1>22 DEF PpCloseClaimed, Places
    <2> QED BY <2>1, <2>2, <2>3, ReleaseMoves
  <1>23. CASE c \in Files /\ PpUnregister(c)
    <2>1. CASE owner = c
      BY <1>23, <2>1, ReleaseMoves DEF PpUnregister
    <2>2. CASE owner # c
      BY <1>23, <2>2 DEF PpUnregister, Goto, Moves, Leaves
    <2> QED BY <2>1, <2>2
  <1>24. CASE c = Lp /\ LpOpen
    BY <1>24 DEF LpOpen, LpClaim, StartClaim, Goto, Moves, Stays
  <1>25. CASE c = Lp /\ LpOpened
    <2>1. pc[c] \notin Transit /\ UNCHANGED <<coming, queue>>
      BY <1>25 DEF LpOpened, LpRelease
    <2>2. c \in Clients /\ (Owns(c) => c = c)
      BY <1>25 DEF LpOpened, LpRelease, PlaceInv, Placed, Owns, Writing
    <2>3. \E reclaim \in BOOLEAN, place \in Places \ {"save", "give"} :
             StartRelease(c, c, reclaim, place)
      BY <1>25 DEF LpOpened, LpRelease, Places
    <2> QED BY <2>1, <2>2, <2>3, ReleaseMoves
  <1>26. CASE c = Lp /\ LpWrite
    BY <1>26 DEF LpWrite, LpClaim, StartClaim, Goto, Moves, Stays
  <1>27. CASE c = Lp /\ LpReady
    <2>1. CASE \E place \in Places \ {"save", "give"} : LpGoes(place)
      BY <1>27, <2>1 DEF LpReady, LpGoes, Goto, Moves, Stays
    <2>2. CASE \E place \in Places \ {"save", "give"} : LpLend(place)
      <3>1. pc[c] \notin Transit /\ UNCHANGED <<coming, queue>>
        BY <1>27, <2>2 DEF LpReady, LpLend
      <3>2. PICK place \in Places \ {"save", "give"} : StartRelease(c, c, TRUE, place)
        BY <1>27, <2>2 DEF LpLend
      <3> QED BY <3>1, <3>2, ReleaseMoves
    <2> QED BY <1>27, <2>1, <2>2 DEF LpReady, Places
  <1>28. CASE c = Lp /\ LpWriteEnd
    BY <1>28 DEF LpWriteEnd, LpGoes, Goto, Moves, Stays
  <1>29. CASE c = Lp /\ LpAgain
    <2>1. CASE \E place \in Places \ {"save", "give"} : LpGoes(place)
      BY <1>29, <2>1 DEF LpAgain, LpGoes, Goto, Moves, Stays
    <2>2. CASE \E place \in Places \ {"save", "give"} : LpLend(place)
      <3>1. pc[c] \notin Transit /\ UNCHANGED <<coming, queue>>
        BY <1>29, <2>2 DEF LpAgain, LpLend
      <3>2. PICK place \in Places \ {"save", "give"} : StartRelease(c, c, TRUE, place)
        BY <1>29, <2>2 DEF LpLend
      <3> QED BY <3>1, <3>2, ReleaseMoves
    <2> QED BY <1>29, <2>1, <2>2 DEF LpAgain, Places
  <1>30. CASE c = Lp /\ LpHear
    BY <1>30 DEF LpHear, Goto, Moves, Stays
  <1>31. CASE c = Lp /\ LpGive
    <2>1. pc[c] \notin Transit /\ UNCHANGED <<coming, queue>>
      BY <1>31 DEF LpGive, LpRelease
    <2>2. c \in Clients /\ (Owns(c) => c = c)
      BY <1>31 DEF LpGive, LpRelease, PlaceInv, Placed, Owns, Writing
    <2>3. \E reclaim \in BOOLEAN, place \in Places \ {"save", "give"} :
             StartRelease(c, c, reclaim, place)
      BY <1>31 DEF LpGive, LpRelease, Places
    <2> QED BY <2>1, <2>2, <2>3, ReleaseMoves
  <1>32. CASE c = Lp /\ LpClose
    BY <1>32 DEF LpClose, LpClaim, StartClaim, Goto, Moves, Stays
  <1>33. CASE c = Lp /\ LpClosing
    <2>1. pc[c] \notin Transit /\ UNCHANGED <<coming, queue>>
      BY <1>33 DEF LpClosing, LpRelease
    <2>2. c \in Clients /\ (Owns(c) => c = c)
      BY <1>33 DEF LpClosing, LpRelease, PlaceInv, Placed, Owns, Writing
    <2>3. \E reclaim \in BOOLEAN, place \in Places \ {"save", "give"} :
             StartRelease(c, c, reclaim, place)
      BY <1>33 DEF LpClosing, LpRelease, Places
    <2> QED BY <2>1, <2>2, <2>3, ReleaseMoves
  <1>34. CASE GiveOwner(c) \/ GiveRegisters(c)
    <2>0. coming # NoDev /\ Holder = coming /\ coming \in Clients
      BY <1>34, LockFacts DEF GiveOwner, GiveRegisters, TypeOK
    <2>1. CASE GiveOwner(c)
      <3>1. /\ pc[c] = "give" /\ pc' = pc /\ owner' = coming
            /\ coming' = coming /\ queue' = queue
        BY <2>1 DEF GiveOwner
      <3> QED BY <2>0, <3>1 DEF Moves, Stays, Names
    <2>2. CASE GiveRegisters(c)
      <3>1. /\ pc[c] = "give" /\ owner' = owner /\ coming' = NoDev
            /\ queue' = queue /\ Leave(c) /\ owner # NoDev
        BY <2>2 DEF GiveRegisters
      <3>2. pc'[c] \notin {"save", "give"}
        BY <3>1, LeaveEnds DEF PlaceInv
      <3>3. Holder = owner
        BY <3>1, LockFacts
      <3> QED BY <2>0, <3>1, <3>2, <3>3 DEF Moves, Stays, Unlocks
    <2> QED BY <1>34, <2>1, <2>2
  <1> QED BY <1>1, <1>2, <1>3, <1>4, <1>5, <1>6, <1>7, <1>8, <1>9, <1>10,
        <1>11, <1>12, <1>13, <1>14, <1>15, <1>16, <1>17, <1>18, <1>19, <1>20,
        <1>21, <1>22, <1>23, <1>24, <1>25, <1>26, <1>27, <1>28, <1>29, <1>30,
        <1>31, <1>32, <1>33, <1>34
     DEF Arbitration, CompatWrite, PpStep, LpStep

----------------------------------------------------------------------------
(* Types *)

CallType ==
    /\ pc \in [Clients -> Places]
    /\ job \in [Clients -> [dev : Clients \cup {NoDev}, reclaim : BOOLEAN,
                            then : Places]]
    /\ wdev \in [Clients -> Clients \cup {NoDev}]
    /\ registered \subseteq Files /\ claimed \subseteq Clients
    /\ mode \in Modes
    /\ fmode \in [Files -> Modes] /\ fsaved \in [Files -> Modes]

RegisterType ==
    /\ dir \in Directions
    /\ saved \in [Clients -> Directions]
    /\ mine \in [Clients -> Directions \cup {"any"}]
    /\ asked \subseteq Clients
    /\ preempt \in BOOLEAN /\ cut \in BOOLEAN /\ mixed \in BOOLEAN
    /\ uses \in Settings

LockType ==
    /\ {owner, coming} \subseteq Clients \cup {NoDev}
    /\ queue \in Seq(Clients) /\ IsInjective(queue)

\* TypeOK by aspect.
LEMMA TypeParts ==
    /\ TypeOK <=> CallType /\ RegisterType /\ LockType
    /\ TypeOK => ControlType
  BY DEF TypeOK, CallType, RegisterType, LockType, ControlType

Going == /\ pc \in [Clients -> Places]
         /\ job \in [Clients -> [dev : Clients \cup {NoDev}, reclaim : BOOLEAN,
                                 then : Places]]

\* Where a call goes has the right type.
LEMMA CallGoes ==
    ASSUME CallType, NEW c \in Clients, NEW place \in Places,
           NEW e \in Clients \cup {NoDev}, NEW reclaim \in BOOLEAN,
           \/ Goto(c, place) /\ UNCHANGED job
           \/ Return(c, place)
           \/ StartClaim(c, e, place)
           \/ StartRelease(c, e, reclaim, place)
    PROVE  Going'
  <1> USE DEF Going
  <1> DEFINE j == [dev |-> e, reclaim |-> reclaim, then |-> place]
             k == [dev |-> e, reclaim |-> FALSE, then |-> place]
             J == [dev : Clients \cup {NoDev}, reclaim : BOOLEAN, then : Places]
  <1>1. j \in J /\ k \in J /\ NoJob \in J /\ {"claim", "save"} \subseteq Places
    BY DEF NoJob, Places, Transit
  <1>2. pc \in [Clients -> Places] /\ job \in [Clients -> J]
    BY DEF CallType
  <1>3. CASE Goto(c, place) /\ UNCHANGED job
    BY <1>2, <1>3 DEF Goto
  <1>4. CASE Return(c, place)
    BY <1>1, <1>2, <1>4 DEF Return, Goto
  <1>5. CASE StartClaim(c, e, place)
    <2>1. job' = [job EXCEPT ![c] = k] /\ Goto(c, "claim")
      BY <1>5 DEF StartClaim
    <2> HIDE DEF J, k
    <2> QED BY <1>1, <1>2, <2>1 DEF Goto, J
  <1>6. CASE StartRelease(c, e, reclaim, place)
    <2>1. \/ job' = [job EXCEPT ![c] = j] /\ Goto(c, "save")
          \/ job' = [job EXCEPT ![c] = j] /\ Goto(c, "claim")
          \/ Return(c, place)
      BY <1>6 DEF StartRelease
    <2> HIDE DEF J, j
    <2> QED BY <1>1, <1>2, <2>1 DEF Goto, Return, J
  <1> QED BY <1>3, <1>4, <1>5, <1>6

\* The queue stays free of repetitions.
LEMMA MovesType ==
    ASSUME TypeOK, LockInv, NEW c \in Clients, Moves(c)
    PROVE  LockType'
  <1> USE DEF TypeOK, LockType, Outside, Names, Unlocks, Alone, Holder
  <1>1. CASE Stays(c)
    BY <1>1 DEF Stays
  <1>2. CASE Hands(c)
    <2>1. PICK h \in Clients, p \in Seq(Clients) :
             h = Head(queue) /\ p = Tail(queue) /\ IsInjective(p)
      BY <1>2, Served DEF Hands
    <2> QED BY <1>2, <2>1 DEF Hands
  <1>3. CASE Leaves(c)
    <2>1. CASE c \in ToSet(queue)
      <3>1. PICK r \in Seq(Clients) :
               /\ r = RemoveAt(queue, CHOOSE i \in DOMAIN queue : queue[i] = c)
               /\ IsInjective(r)
        BY <2>1, Removed
      <3> QED BY <1>3, <2>1, <3>1 DEF Leaves, Unlisted
    <2>2. CASE c \notin ToSet(queue)
      BY <1>3, <2>2 DEF Leaves, Unlisted
    <2> QED BY <2>1, <2>2
  <1>4. ASSUME NEW e \in Clients, Takes(c, e) PROVE LockType'
    BY <1>4 DEF Takes
  <1>5. ASSUME NEW e \in Clients, Blocks(c, e) PROVE LockType'
    <2>1. PICK p \in Seq(Clients) : p = Append(queue, e) /\ IsInjective(p)
      BY <1>5, Appended DEF Blocks
    <2> QED BY <1>5, <2>1 DEF Blocks
  <1>6. ASSUME NEW e \in Clients, Frees(c, e) PROVE LockType'
    BY <1>6 DEF Frees
  <1> QED BY <1>1, <1>2, <1>3, <1>4, <1>5, <1>6 DEF Moves

\* The clients' own variables keep their types.
LEMMA CallTypeStep ==
    ASSUME CallType, owner \in Clients \cup {NoDev}, NEW c \in Clients,
           \/ Arbitration(c) \/ CompatWrite(c)
           \/ c \in Files /\ PpStep(c)
           \/ c = Lp /\ LpStep
    PROVE  CallType'
  <1> USE ClientsAssumption DEF CallType, Clients, Places, Transit, Bytes,
        FileOnly, LpOnly, NoJob, port, files, history
  <1>1. CASE Claim(c)
    <2>1. PICK place \in Places, e \in Clients \cup {NoDev}, reclaim \in BOOLEAN :
            \/ Goto(c, place) /\ UNCHANGED job
            \/ Return(c, place)
      BY <1>1 DEF Claim
    <2>2. Going'
      BY <2>1, CallGoes
    <2> HIDE DEF Places
    <2> QED BY <1>1, <2>2 DEF Going, Claim
  <1>2. CASE Woken(c)
    BY <1>2 DEF Woken, Return, Goto
  <1>3. CASE Interrupted(c)
    BY <1>3 DEF Interrupted, AfterSignal, Return, Goto
  <1>4. CASE Save(c)
    BY <1>4 DEF Save, Goto
  <1>5. CASE Hand(c) \/ GiveRegisters(c)
    <2>1. PICK place \in Places, e \in Clients \cup {NoDev}, reclaim \in BOOLEAN :
            \/ Goto(c, place) /\ UNCHANGED job
            \/ Return(c, place)
      BY <1>5, LeaveGoes
    <2>2. Going'
      BY <2>1, CallGoes
    <2>3. UNCHANGED <<claimed, wdev, files>>
      BY <1>5, LeaveGoes
    <2> HIDE DEF Places
    <2> QED BY <2>2, <2>3 DEF Going
  <1>6. CASE WriteStart(c)
    BY <1>6 DEF WriteStart, Drive, Goto
  <1>7. CASE ByteDies(c)
    BY <1>7 DEF ByteDies, Goto
  <1>8. CASE ByteOut(c)
    BY <1>8 DEF ByteOut, Goto
  <1>9. CASE ByteYield(c)
    <2>1. PICK place \in Places, e \in Clients \cup {NoDev}, reclaim \in BOOLEAN :
            StartRelease(c, e, reclaim, place)
      BY <1>9 DEF ByteYield
    <2>2. Going'
      BY <2>1, CallGoes
    <2> HIDE DEF Places
    <2> QED BY <1>9, <2>2 DEF Going, ByteYield
  <1>10. CASE ByteBusy(c)
    <2>1. PICK place \in Places, e \in Clients \cup {NoDev}, reclaim \in BOOLEAN :
            StartRelease(c, e, reclaim, place)
      BY <1>10 DEF ByteBusy
    <2>2. Going'
      BY <2>1, CallGoes
    <2> HIDE DEF Places
    <2> QED BY <1>10, <2>2 DEF Going, ByteBusy
  <1>11. CASE c \in Files /\ PpOpen(c)
    BY <1>11 DEF PpOpen, Goto
  <1>12. CASE c \in Files /\ PpSetMode(c)
    BY <1>12 DEF PpSetMode
  <1>13. CASE c \in Files /\ PpClaim(c)
    BY <1>13 DEF PpClaim, StartClaim, Goto
  <1>14. CASE c \in Files /\ PpClaimed(c)
    BY <1>14 DEF PpClaimed, SwapIn, Goto
  <1>15. CASE c \in Files /\ PpSetDirection(c)
    BY <1>15 DEF PpSetDirection, MayUse, Drive
  <1>16. CASE c \in Files /\ PpYield(c)
    <2>1. PICK place \in Places, e \in Clients \cup {NoDev}, reclaim \in BOOLEAN :
            StartRelease(c, e, reclaim, place)
      BY <1>16 DEF PpYield, MayUse
    <2>2. Going'
      BY <2>1, CallGoes
    <2> HIDE DEF Places
    <2> QED BY <1>16, <2>2 DEF Going, PpYield, MayUse
  <1>17. CASE c \in Files /\ PpRelease(c)
    <2>1. PICK place \in Places, e \in Clients \cup {NoDev}, reclaim \in BOOLEAN :
            StartRelease(c, e, reclaim, place)
      BY <1>17 DEF PpRelease, MayUse
    <2>2. Going'
      BY <2>1, CallGoes
    <2> HIDE DEF Places
    <2> QED BY <1>17, <2>2 DEF Going, PpRelease, SwapOut
  <1>18. CASE c \in Files /\ PpRead(c)
    BY <1>18 DEF PpRead, MayUse, EppTransfer, Drive
  <1>19. CASE c \in Files /\ PpWrite(c)
    BY <1>19 DEF PpWrite, MayUse, EppTransfer, Drive, Goto
  <1>20. CASE c \in Files /\ PpWriteEnd(c)
    BY <1>20 DEF PpWriteEnd, Goto
  <1>21. CASE c \in Files /\ PpClose(c)
    <2>1. PICK place \in Places, e \in Clients \cup {NoDev}, reclaim \in BOOLEAN :
            \/ Goto(c, place) /\ UNCHANGED job
            \/ StartClaim(c, e, place)
            \/ StartRelease(c, e, reclaim, place)
      BY <1>21 DEF PpClose
    <2>2. Going'
      BY <2>1, CallGoes
    <2> HIDE DEF Places
    <2>3. claimed' \subseteq Clients /\ UNCHANGED <<registered, wdev, fsaved>>
      BY <1>21 DEF PpClose
    <2>4. "COMPAT" \in Modes /\ mode \in Modes /\ fsaved[c] \in Modes
      BY <1>21 DEF Modes
    <2>5. /\ mode' = mode \/ mode' = fsaved[c]
          /\ \/ fmode' = fmode \/ fmode' = [fmode EXCEPT ![c] = "COMPAT"]
             \/ fmode' = [fmode EXCEPT ![c] = mode]
      BY <1>21 DEF PpClose, SwapOut
    <2>6. mode' \in Modes /\ fmode' \in [Files -> Modes]
      BY <2>4, <2>5
    <2> QED BY <2>2, <2>3, <2>6 DEF Going
  <1>22. CASE c \in Files /\ PpCloseClaimed(c)
    <2>1. PICK place \in Places, e \in Clients \cup {NoDev}, reclaim \in BOOLEAN :
            StartRelease(c, e, reclaim, place)
      BY <1>22 DEF PpCloseClaimed
    <2>2. Going'
      BY <2>1, CallGoes
    <2> HIDE DEF Places
    <2> QED BY <1>22, <2>2 DEF Going, PpCloseClaimed
  <1>23. CASE c \in Files /\ PpUnregister(c)
    <2>1. PICK place \in Places, e \in Clients \cup {NoDev}, reclaim \in BOOLEAN :
            \/ Goto(c, place) /\ UNCHANGED job
            \/ StartRelease(c, e, reclaim, place)
      BY <1>23 DEF PpUnregister
    <2>2. Going'
      BY <2>1, CallGoes
    <2> HIDE DEF Places
    <2>3. registered' \subseteq Files /\ UNCHANGED <<mode, claimed, wdev>>
      BY <1>23 DEF PpUnregister
    <2>4. "COMPAT" \in Modes
      BY DEF Modes
    <2>5. /\ fmode' = fmode \/ fmode' = [fmode EXCEPT ![c] = "COMPAT"]
          /\ fsaved' = fsaved \/ fsaved' = [fsaved EXCEPT ![c] = "COMPAT"]
      BY <1>23 DEF PpUnregister
    <2>6. fmode' \in [Files -> Modes] /\ fsaved' \in [Files -> Modes]
      BY <2>4, <2>5
    <2> QED BY <2>2, <2>3, <2>6 DEF Going
  <1>24. CASE c = Lp /\ LpOpen
    <2>1. PICK place \in Places, e \in Clients \cup {NoDev}, reclaim \in BOOLEAN :
            \/ Goto(c, place) /\ UNCHANGED job
            \/ StartClaim(c, e, place)
      BY <1>24 DEF LpOpen, LpClaim
    <2>2. Going'
      BY <2>1, CallGoes
    <2> HIDE DEF Places
    <2> QED BY <1>24, <2>2 DEF Going, LpOpen, LpClaim
  <1>25. CASE c = Lp /\ LpOpened
    <2>1. PICK place \in Places, e \in Clients \cup {NoDev}, reclaim \in BOOLEAN :
            StartRelease(c, e, reclaim, place)
      BY <1>25 DEF LpOpened, LpRelease
    <2>2. Going'
      BY <2>1, CallGoes
    <2> HIDE DEF Places
    <2> QED BY <1>25, <2>2 DEF Going, LpOpened, LpRelease
  <1>26. CASE c = Lp /\ LpWrite
    <2>1. PICK place \in Places, e \in Clients \cup {NoDev}, reclaim \in BOOLEAN :
            \/ Goto(c, place) /\ UNCHANGED job
            \/ StartClaim(c, e, place)
      BY <1>26 DEF LpWrite, LpClaim
    <2>2. Going'
      BY <2>1, CallGoes
    <2> HIDE DEF Places
    <2> QED BY <1>26, <2>2 DEF Going, LpWrite, LpClaim
  <1>27. CASE c = Lp /\ LpReady
    <2>1. PICK place \in Places, e \in Clients \cup {NoDev}, reclaim \in BOOLEAN :
            \/ Goto(c, place) /\ UNCHANGED job
            \/ StartRelease(c, e, reclaim, place)
      BY <1>27 DEF LpReady, LpLend, LpGoes
    <2>2. Going'
      BY <2>1, CallGoes
    <2> HIDE DEF Places
    <2> QED BY <1>27, <2>2 DEF Going, LpReady, LpLend, LpGoes
  <1>28. CASE c = Lp /\ LpWriteEnd
    BY <1>28 DEF LpWriteEnd, LpGoes, Goto
  <1>29. CASE c = Lp /\ LpAgain
    <2>1. PICK place \in Places, e \in Clients \cup {NoDev}, reclaim \in BOOLEAN :
            \/ Goto(c, place) /\ UNCHANGED job
            \/ StartRelease(c, e, reclaim, place)
      BY <1>29 DEF LpAgain, LpLend, LpGoes
    <2>2. Going'
      BY <2>1, CallGoes
    <2> HIDE DEF Places
    <2> QED BY <1>29, <2>2 DEF Going, LpAgain, LpLend, LpGoes
  <1>30. CASE c = Lp /\ LpHear
    BY <1>30 DEF LpHear, Goto
  <1>31. CASE c = Lp /\ LpGive
    <2>1. PICK place \in Places, e \in Clients \cup {NoDev}, reclaim \in BOOLEAN :
            StartRelease(c, e, reclaim, place)
      BY <1>31 DEF LpGive, LpRelease
    <2>2. Going'
      BY <2>1, CallGoes
    <2> HIDE DEF Places
    <2> QED BY <1>31, <2>2 DEF Going, LpGive, LpRelease
  <1>32. CASE c = Lp /\ LpClose
    <2>1. PICK place \in Places, e \in Clients \cup {NoDev}, reclaim \in BOOLEAN :
            \/ Goto(c, place) /\ UNCHANGED job
            \/ StartClaim(c, e, place)
      BY <1>32 DEF LpClose, LpClaim
    <2>2. Going'
      BY <2>1, CallGoes
    <2> HIDE DEF Places
    <2> QED BY <1>32, <2>2 DEF Going, LpClose, LpClaim
  <1>33. CASE c = Lp /\ LpClosing
    <2>1. PICK place \in Places, e \in Clients \cup {NoDev}, reclaim \in BOOLEAN :
            StartRelease(c, e, reclaim, place)
      BY <1>33 DEF LpClosing, LpRelease
    <2>2. Going'
      BY <2>1, CallGoes
    <2> HIDE DEF Places
    <2> QED BY <1>33, <2>2 DEF Going, LpClosing, LpRelease
  <1>34. CASE GiveOwner(c)
    BY <1>34 DEF GiveOwner
  <1> QED BY <1>1, <1>2, <1>3, <1>4, <1>5, <1>6, <1>7, <1>8, <1>9, <1>10,
        <1>11, <1>12, <1>13, <1>14, <1>15, <1>16, <1>17, <1>18, <1>19, <1>20,
        <1>21, <1>22, <1>23, <1>24, <1>25, <1>26, <1>27, <1>28, <1>29, <1>30,
        <1>31, <1>32, <1>33, <1>34
     DEF Arbitration, CompatWrite, PpStep, LpStep

\* The registers and the history keep their types.
LEMMA RegisterTypeStep ==
    ASSUME RegisterType, LockType, PlaceInv, LockInv, NEW c \in Clients,
           \/ Arbitration(c) \/ CompatWrite(c)
           \/ c \in Files /\ PpStep(c)
           \/ c = Lp /\ LpStep
    PROVE  RegisterType'
  <1> USE ClientsAssumption DEF RegisterType, port, files, history
  <1>1. CASE Claim(c)
    <2>1. job[c].dev \in Clients /\ UNCHANGED <<saved, cut, mixed, uses>>
      BY <1>1 DEF Claim, PlaceInv, Placed, Transit
    <2>2. CASE UNCHANGED <<dir, preempt, asked, mine>>
      BY <2>1, <2>2
    <2>3. CASE \E rest : GiveTo(job[c].dev, rest)
      BY <2>1, <2>3 DEF GiveTo, NotesOvertaken
    <2>4. CASE Refuse(job[c].dev)
      BY <2>1, <2>4 DEF Refuse
    <2> QED BY <1>1, <2>2, <2>3, <2>4 DEF Claim
  <1>2. CASE Woken(c)
    BY <1>2 DEF Woken, Return, Goto, Directions
  <1>3. CASE Interrupted(c)
    BY <1>3 DEF Interrupted, AfterSignal, Return, Goto, Directions
  <1>4. CASE Save(c)
    BY <1>4 DEF Save, Goto, Directions
  <1>5. CASE Hand(c)
    <2>1. UNCHANGED <<saved, cut, mixed, uses>>
      BY <1>5, LeaveGoes
    <2>2. CASE UNCHANGED <<dir, preempt, asked, mine>>
      BY <2>1, <2>2
    <2>3. CASE queue # <<>>
      <3>1. PICK h \in Clients : h = Head(queue)
        BY <2>3, Served DEF LockType
      <3>2. CASE GiveTo(h, Tail(queue))
        BY <2>1, <3>2 DEF GiveTo, NotesOvertaken
      <3>3. CASE Refuse(h)
        BY <2>1, <3>3 DEF Refuse
      <3>4. CASE StartGive(h, Tail(queue))
        BY <2>1, <3>4 DEF StartGive, NotesOvertaken
      <3> QED BY <1>5, <2>2, <3>1, <3>2, <3>3, <3>4 DEF Hand
    <2> QED BY <1>5, <2>2, <2>3 DEF Hand
  <1>6. CASE WriteStart(c)
    BY <1>6 DEF WriteStart, Drive, Goto, Directions
  <1>7. CASE ByteDies(c)
    BY <1>7 DEF ByteDies, Goto, Directions
  <1>8. CASE ByteOut(c)
    BY <1>8 DEF ByteOut, Goto, Directions
  <1>9. CASE ByteYield(c)
    BY <1>9 DEF ByteYield, StartRelease, NotesLending, Return, Goto,
       Directions
  <1>10. CASE ByteBusy(c)
    BY <1>10 DEF ByteBusy, StartRelease, NotesLending, Return, Goto,
       Directions
  <1>11. CASE c \in Files /\ PpOpen(c)
    BY <1>11 DEF PpOpen, Goto, Directions
  <1>12. CASE c \in Files /\ PpSetMode(c)
    BY <1>12 DEF PpSetMode, Directions
  <1>13. CASE c \in Files /\ PpClaim(c)
    BY <1>13 DEF PpClaim, StartClaim, Goto, Directions
  <1>14. CASE c \in Files /\ PpClaimed(c)
    BY <1>14 DEF PpClaimed, SwapIn, Goto, Directions
  <1>15. CASE c \in Files /\ PpSetDirection(c)
    BY <1>15 DEF PpSetDirection, MayUse, Drive, Directions
  <1>16. CASE c \in Files /\ PpYield(c)
    BY <1>16 DEF PpYield, MayUse, StartRelease, NotesLending, Return, Goto,
       Directions
  <1>17. CASE c \in Files /\ PpRelease(c)
    BY <1>17 DEF PpRelease, MayUse, SwapOut, StartRelease, NotesLending,
       Return, Goto, Directions
  <1>18. CASE c \in Files /\ PpRead(c)
    BY <1>18 DEF PpRead, MayUse, EppTransfer, Drive, Directions
  <1>19. CASE c \in Files /\ PpWrite(c)
    BY <1>19 DEF PpWrite, MayUse, EppTransfer, Drive, Goto, Directions
  <1>20. CASE c \in Files /\ PpWriteEnd(c)
    BY <1>20 DEF PpWriteEnd, Goto, Directions
  <1>21. CASE c \in Files /\ PpClose(c)
    BY <1>21 DEF PpClose, SwapOut, StartClaim, StartRelease, NotesLending,
       Return, Goto, Directions
  <1>22. CASE c \in Files /\ PpCloseClaimed(c)
    BY <1>22 DEF PpCloseClaimed, StartRelease, NotesLending, Return, Goto,
       Directions
  <1>23. CASE c \in Files /\ PpUnregister(c)
    BY <1>23 DEF PpUnregister, StartRelease, NotesLending, Return, Goto,
       Directions
  <1>24. CASE c = Lp /\ LpOpen
    BY <1>24 DEF LpOpen, LpClaim, StartClaim, Goto, Directions
  <1>25. CASE c = Lp /\ LpOpened
    BY <1>25 DEF LpOpened, LpRelease, StartRelease, NotesLending, Return,
       Goto, Directions
  <1>26. CASE c = Lp /\ LpWrite
    BY <1>26 DEF LpWrite, LpClaim, StartClaim, Goto, Directions
  <1>27. CASE c = Lp /\ LpReady
    BY <1>27 DEF LpReady, LpGoes, LpLend, StartRelease, NotesLending, Return,
       Goto, Directions
  <1>28. CASE c = Lp /\ LpWriteEnd
    BY <1>28 DEF LpWriteEnd, LpGoes, Goto, Directions
  <1>29. CASE c = Lp /\ LpAgain
    BY <1>29 DEF LpAgain, LpGoes, LpLend, StartRelease, NotesLending, Return,
       Goto, Directions
  <1>30. CASE c = Lp /\ LpHear
    BY <1>30 DEF LpHear, Goto, Directions
  <1>31. CASE c = Lp /\ LpGive
    BY <1>31 DEF LpGive, LpRelease, StartRelease, NotesLending, Return, Goto,
       Directions
  <1>32. CASE c = Lp /\ LpClose
    BY <1>32 DEF LpClose, LpClaim, StartClaim, Goto, Directions
  <1>33. CASE c = Lp /\ LpClosing
    BY <1>33 DEF LpClosing, LpRelease, StartRelease, NotesLending, Return,
       Goto, Directions
  <1>34. CASE GiveOwner(c) \/ GiveRegisters(c)
    <2>1. coming \in Clients
      BY <1>34, LockFacts DEF GiveOwner, GiveRegisters, LockType
    <2>2. CASE GiveOwner(c)
      BY <2>2 DEF GiveOwner
    <2>3. CASE GiveRegisters(c)
      BY <2>1, <2>3 DEF GiveRegisters
    <2> QED BY <1>34, <2>2, <2>3
  <1> QED BY <1>1, <1>2, <1>3, <1>4, <1>5, <1>6, <1>7, <1>8, <1>9, <1>10,
        <1>11, <1>12, <1>13, <1>14, <1>15, <1>16, <1>17, <1>18, <1>19, <1>20,
        <1>21, <1>22, <1>23, <1>24, <1>25, <1>26, <1>27, <1>28, <1>29, <1>30,
        <1>31, <1>32, <1>33, <1>34
     DEF Arbitration, CompatWrite, PpStep, LpStep

\* Every step of c keeps TypeOK.
LEMMA TypeStep ==
    ASSUME TypeOK, PlaceInv, LockInv, NEW c \in Clients,
           \/ Arbitration(c) \/ CompatWrite(c)
           \/ c \in Files /\ PpStep(c)
           \/ c = Lp /\ LpStep
    PROVE  TypeOK'
  <1>1. CallType /\ RegisterType /\ LockType /\ ControlType
    BY TypeParts
  <1>2. CallType'
    BY <1>1, CallTypeStep DEF LockType
  <1>3. RegisterType'
    BY <1>1, RegisterTypeStep
  <1>4. LockType'
    BY <1>1, PortMoves, MovesType
  <1> QED BY <1>2, <1>3, <1>4 DEF TypeOK, CallType, RegisterType, LockType

----------------------------------------------------------------------------
(* Places and flags *)

\* The places and flags of all clients, from those of c.
LEMMA PlaceStep ==
    ASSUME ControlType, PlaceInv, FlagInv, NEW c \in Clients, Frame(c),
           Placed(c)', Flagged(c)'
    PROVE  PlaceInv' /\ FlagInv'
  <1>1. ASSUME NEW d \in Clients \ {c} PROVE Placed(d)'
    BY <1>1 DEF Frame, PlaceInv, Placed, Returns, Claiming, Writing
  <1>2. ASSUME NEW d \in Clients \ {c} PROVE Flagged(d)'
    BY <1>2 DEF Frame, FlagInv, Flagged, Releasing, Serving, Claiming
  <1> QED BY <1>1, <1>2 DEF PlaceInv, FlagInv

\* A waiter of a free port is served by the release that freed it.
LEMMA HandOverStep ==
    ASSUME TypeOK, ControlType, HandOverInv, NEW c \in Clients, Frame(c),
           Moves(c), pc' \in [Clients -> Places]
    PROVE  HandOverInv'
  <1> USE ClientsAssumption DEF Clients
  <1>0. \A e \in Clients : e # NoDev
    OBVIOUS
  <1>1. ASSUME NEW r \in Clients, Serving(r), r # c PROVE Serving(r)'
    BY <1>1 DEF Serving, Frame
  <1>2. SUFFICES ASSUME Holder' = NoDev, queue' # <<>>
                 PROVE  \E r \in Clients : Serving(r)'
    BY DEF HandOverInv, Serving
  <1>3. CASE Stays(c)
    <2>1. Holder = NoDev /\ queue # <<>>
      BY <1>2, <1>3 DEF Stays
    <2>2. PICK r \in Clients : Serving(r)
      BY <2>1 DEF HandOverInv
    <2>3. Serving(c) => Serving(c)'
      BY <1>3, <2>1 DEF Stays
    <2> QED BY <1>1, <2>2, <2>3
  <1>4. CASE Hands(c)
    <2>1. Head(queue) \in Clients
      BY <1>4, Served DEF Hands, TypeOK
    <2> QED BY <1>2, <1>4, <2>1 DEF Hands
  <1>5. CASE Leaves(c)
    <2>1. Holder = NoDev /\ ~Serving(c)
      BY <1>2, <1>5 DEF Leaves, Outside, Holder, Serving
    <2>2. queue # <<>>
      BY <1>2, <1>5, Members DEF Leaves, Unlisted, TypeOK, ToSet
    <2>3. PICK r \in Clients : Serving(r)
      BY <2>1, <2>2 DEF HandOverInv
    <2> QED BY <1>1, <2>1, <2>3
  <1>6. ASSUME NEW e \in Clients, Takes(c, e) \/ Blocks(c, e) \/ Frees(c, e)
        PROVE  Serving(c)'
    BY <1>2, <1>6, <1>0 DEF Takes, Blocks, Frees, Serving
  <1> QED BY <1>3, <1>4, <1>5, <1>6 DEF Moves

\* cad_lock has at most one hand-over under way.
LEMMA LockStep ==
    ASSUME TypeOK, LockInv, NEW c \in Clients, Frame(c), Moves(c)
    PROVE  LockInv'
  <1>0. /\ \A d \in Clients \ {c} : pc'[d] = pc[d]
        /\ uses' = uses /\ NoDev \notin Clients
    BY ClientsAssumption DEF Frame, Clients
  <1>1. CASE Outside(c) /\ ToSet(queue') \subseteq ToSet(queue)
    BY <1>0, <1>1 DEF LockInv, Outside
  <1>2. CASE Alone(c)
    BY <1>0, <1>2 DEF LockInv, Alone
  <1>3. CASE Names(c) /\ queue' = queue
    BY <1>0, <1>3 DEF LockInv, Names
  <1>4. CASE Unlocks(c)
    BY <1>0, <1>4 DEF LockInv, Unlocks
  <1>5. CASE Leaves(c)
    <2>1. ToSet(queue') \subseteq ToSet(queue)
      <3>0. queue \in Seq(Clients) /\ IsInjective(queue)
        BY DEF TypeOK
      <3>1. CASE c \in ToSet(queue)
        <4>1. PICK r \in Seq(Clients) :
                 /\ r = RemoveAt(queue, CHOOSE i \in DOMAIN queue : queue[i] = c)
                 /\ ToSet(r) = ToSet(queue) \ {c}
          BY <3>0, <3>1, Removed
        <4> QED BY <1>5, <3>1, <4>1 DEF Leaves, Unlisted
      <3>2. CASE c \notin ToSet(queue)
        BY <1>5, <3>2 DEF Leaves, Unlisted
      <3> QED BY <3>1, <3>2
    <2> QED BY <1>1, <1>5, <2>1 DEF Leaves
  <1>6. CASE Hands(c) /\ ~Alone(c)
    <2>0. queue \in Seq(Clients) /\ IsInjective(queue) /\ queue # <<>>
      BY <1>6 DEF TypeOK, Hands
    <2>1. PICK h \in Clients, p \in Seq(Clients) :
             /\ h = Head(queue) /\ p = Tail(queue)
             /\ ToSet(p) = ToSet(queue) \ {h}
      BY <2>0, Served
    <2>2. /\ owner = NoDev /\ coming = NoDev /\ owner' = owner /\ coming' = h
          /\ pc'[c] = "give" /\ "smp" \in uses /\ queue' = p
      BY <1>6, <2>1 DEF Hands
    <2> QED BY <1>0, <2>1, <2>2 DEF LockInv
  <1> QED
    BY <1>1, <1>2, <1>3, <1>4, <1>5, <1>6
       DEF Moves, Stays, Takes, Blocks, Frees

\* What went wrong stays noted.
LEMMA NotedStep ==
    ASSUME RegisterType, NEW c \in Clients,
           \/ Arbitration(c) \/ CompatWrite(c)
           \/ c \in Files /\ PpStep(c)
           \/ c = Lp /\ LpStep
    PROVE  (cut => cut') /\ (mixed => mixed')
  <1> USE DEF RegisterType, history
  <1>1. CASE Claim(c)
    BY <1>1 DEF Claim
  <1>2. CASE Woken(c)
    BY <1>2 DEF Woken
  <1>3. CASE Interrupted(c)
    BY <1>3 DEF Interrupted
  <1>4. CASE Save(c)
    BY <1>4 DEF Save
  <1>5. CASE Hand(c) \/ GiveRegisters(c)
    BY <1>5, LeaveGoes
  <1>6. CASE WriteStart(c)
    BY <1>6 DEF WriteStart
  <1>7. CASE ByteDies(c)
    BY <1>7 DEF ByteDies
  <1>8. CASE ByteOut(c)
    BY <1>8 DEF ByteOut
  <1>9. CASE ByteYield(c)
    BY <1>9 DEF ByteYield, StartRelease, NotesLending
  <1>10. CASE ByteBusy(c)
    BY <1>10 DEF ByteBusy, StartRelease, NotesLending
  <1>11. CASE c \in Files /\ PpOpen(c)
    BY <1>11 DEF PpOpen
  <1>12. CASE c \in Files /\ PpSetMode(c)
    BY <1>12 DEF PpSetMode
  <1>13. CASE c \in Files /\ PpClaim(c)
    BY <1>13 DEF PpClaim
  <1>14. CASE c \in Files /\ PpClaimed(c)
    BY <1>14 DEF PpClaimed
  <1>15. CASE c \in Files /\ PpSetDirection(c)
    BY <1>15 DEF PpSetDirection
  <1>16. CASE c \in Files /\ PpYield(c)
    BY <1>16 DEF PpYield, StartRelease, NotesLending
  <1>17. CASE c \in Files /\ PpRelease(c)
    BY <1>17 DEF PpRelease, StartRelease, NotesLending
  <1>18. CASE c \in Files /\ PpRead(c)
    BY <1>18 DEF PpRead
  <1>19. CASE c \in Files /\ PpWrite(c)
    BY <1>19 DEF PpWrite
  <1>20. CASE c \in Files /\ PpWriteEnd(c)
    BY <1>20 DEF PpWriteEnd
  <1>21. CASE c \in Files /\ PpClose(c)
    BY <1>21 DEF PpClose, StartRelease, NotesLending
  <1>22. CASE c \in Files /\ PpCloseClaimed(c)
    BY <1>22 DEF PpCloseClaimed, StartRelease, NotesLending
  <1>23. CASE c \in Files /\ PpUnregister(c)
    BY <1>23 DEF PpUnregister, StartRelease, NotesLending
  <1>24. CASE c = Lp /\ LpOpen
    BY <1>24 DEF LpOpen, LpClaim
  <1>25. CASE c = Lp /\ LpOpened
    BY <1>25 DEF LpOpened, LpRelease, StartRelease, NotesLending
  <1>26. CASE c = Lp /\ LpWrite
    BY <1>26 DEF LpWrite, LpClaim
  <1>27. CASE c = Lp /\ LpReady
    BY <1>27 DEF LpReady, LpGoes, LpLend, StartRelease, NotesLending
  <1>28. CASE c = Lp /\ LpWriteEnd
    BY <1>28 DEF LpWriteEnd, LpGoes
  <1>29. CASE c = Lp /\ LpAgain
    BY <1>29 DEF LpAgain, LpGoes, LpLend, StartRelease, NotesLending
  <1>30. CASE c = Lp /\ LpHear
    BY <1>30 DEF LpHear
  <1>31. CASE c = Lp /\ LpGive
    BY <1>31 DEF LpGive, LpRelease, StartRelease, NotesLending
  <1>32. CASE c = Lp /\ LpClose
    BY <1>32 DEF LpClose, LpClaim
  <1>33. CASE c = Lp /\ LpClosing
    BY <1>33 DEF LpClosing, LpRelease, StartRelease, NotesLending
  <1>34. CASE GiveOwner(c)
    BY <1>34 DEF GiveOwner
  <1> QED BY <1>1, <1>2, <1>3, <1>4, <1>5, <1>6, <1>7, <1>8, <1>9, <1>10,
        <1>11, <1>12, <1>13, <1>14, <1>15, <1>16, <1>17, <1>18, <1>19, <1>20,
        <1>21, <1>22, <1>23, <1>24, <1>25, <1>26, <1>27, <1>28, <1>29, <1>30,
        <1>31, <1>32, <1>33, <1>34
     DEF Arbitration, CompatWrite, PpStep, LpStep

----------------------------------------------------------------------------
(* Who owns the port *)

\* The queue after a move of c, for its other members.
LEMMA QueueOfOthers ==
    ASSUME TypeOK, NEW c \in Clients, Moves(c), Owns(c), NEW d \in Clients \ {c}
    PROVE  /\ d \in ToSet(queue') => d \in ToSet(queue)
           /\ d \in ToSet(queue) => d \in ToSet(queue') \/ Holder' = d
           /\ Holder' = d => \/ Holder = d
                             \/ d \in ToSet(queue) /\ d \notin ToSet(queue')
           /\ Holder = d => Holder' = d
  <1> USE DEF TypeOK
  <1>0. NoDev \notin Clients
    BY ClientsAssumption DEF Clients
  <1>1. CASE Stays(c)
    BY <1>1 DEF Stays
  <1>2. CASE Hands(c)
    <2>1. PICK h \in Clients, p \in Seq(Clients) :
             /\ h = Head(queue) /\ p = Tail(queue)
             /\ ToSet(p) = ToSet(queue) \ {h} /\ h \in ToSet(queue)
      BY <1>2, Served DEF Hands
    <2>2. Holder' = h /\ queue' = p /\ Holder = NoDev
      BY <1>2, <2>1 DEF Hands
    <2> QED BY <1>0, <2>1, <2>2
  <1>3. CASE Leaves(c)
    <2>1. CASE c \in ToSet(queue)
      <3>1. PICK r \in Seq(Clients) :
               /\ r = RemoveAt(queue, CHOOSE i \in DOMAIN queue : queue[i] = c)
               /\ IsInjective(r) /\ ToSet(r) = ToSet(queue) \ {c}
               /\ queue # <<>> /\ KeepsOrder(r, queue)
        BY <2>1, Removed
      <3>2. queue' = r /\ Holder' = Holder
        BY <1>3, <2>1, <3>1 DEF Leaves, Unlisted, Outside, Holder
      <3> QED BY <3>1, <3>2
    <2>2. CASE c \notin ToSet(queue)
      BY <1>3, <2>2 DEF Leaves, Unlisted, Outside, Holder
    <2> QED BY <2>1, <2>2
  <1>4. CASE Takes(c, c)
    BY <1>0, <1>4 DEF Takes
  <1>5. CASE Blocks(c, c)
    <2>0. queue \in Seq(Clients) /\ IsInjective(queue) /\ c \notin ToSet(queue)
      BY <1>5 DEF Blocks
    <2>1. PICK p \in Seq(Clients) :
             p = Append(queue, c) /\ ToSet(p) = ToSet(queue) \cup {c}
      BY <2>0, Appended
    <2>2. queue' = p /\ Holder' = Holder
      BY <1>5, <2>1 DEF Blocks
    <2> QED BY <2>1, <2>2
  <1>6. CASE Frees(c, c)
    BY <1>0, <1>6 DEF Frees
  <1> QED BY <1>1, <1>2, <1>3, <1>4, <1>5, <1>6 DEF Moves

\* The others keep what they own and wait for.
LEMMA OwnOthers ==
    ASSUME TypeOK, ControlType, \A d \in Clients : Owns(d),
           NEW c \in Clients, Frame(c), Moves(c), NEW d \in Clients \ {c}
    PROVE  Owns(d)'
  <1>1. /\ pc'[d] = pc[d] /\ job'[d] = job[d] /\ wdev'[d] = wdev[d]
        /\ d \in claimed' <=> d \in claimed
        /\ uses' = uses
    BY DEF Frame
  <1>2. /\ d \in ToSet(queue') => d \in ToSet(queue)
        /\ d \in ToSet(queue) => d \in ToSet(queue') \/ Holder' = d
        /\ Holder' = d => \/ Holder = d
                          \/ d \in ToSet(queue) /\ d \notin ToSet(queue')
        /\ Holder = d => Holder' = d
    BY QueueOfOthers
  <1>3. Owns(d)
    OBVIOUS
  <1> QED BY <1>1, <1>2, <1>3 DEF Owns, Writing, Releasing, Serving

\* Who waits is listed.
LEMMA BlockLists ==
    ASSUME TypeOK, NEW c \in Clients, queue' = Append(queue, c),
           c \notin ToSet(queue)
    PROVE  c \in ToSet(queue')
  <1>1. PICK p \in Seq(Clients) :
           p = Append(queue, c) /\ ToSet(p) = ToSet(queue) \cup {c}
    <2>1. queue \in Seq(Clients) /\ IsInjective(queue)
      BY DEF TypeOK
    <2> QED BY <2>1, Appended
  <1> QED BY <1>1

\* A release of c hands the port to somebody else, who is in the queue.
LEMMA HandLeaves ==
    ASSUME TypeOK, NEW c \in Clients, Moves(c), pc[c] \in {"hand", "give"},
           c \notin ToSet(queue), Holder # c
    PROVE  Holder' # c /\ c \notin ToSet(queue')
  <1>1. CASE Stays(c)
    BY <1>1 DEF Stays
  <1>2. CASE Hands(c)
    <2>1. PICK h \in Clients, p \in Seq(Clients) :
             /\ h = Head(queue) /\ p = Tail(queue)
             /\ ToSet(p) = ToSet(queue) \ {h} /\ h \in ToSet(queue)
      BY <1>2, Served DEF Hands, TypeOK
    <2>2. Holder' = h /\ queue' = p
      BY <1>2, <2>1 DEF Hands
    <2> QED BY <2>1, <2>2
  <1> QED BY <1>1, <1>2 DEF Moves, Takes, Blocks, Frees, Leaves, Transit

\* c acts for itself.
LEMMA OwnStep ==
    ASSUME TypeOK, ControlType, PlaceInv, FlagInv, LockInv, NEW c \in Clients,
           Owns(c), Moves(c), ~cut',
           \/ Arbitration(c) \/ CompatWrite(c)
           \/ c \in Files /\ PpStep(c)
           \/ c = Lp /\ LpStep
    PROVE  Owns(c)'
  <1> USE ClientsAssumption DEF ControlType, Clients, Transit, Bytes,
        FileOnly, LpOnly, Placed, Returns, Claiming, Writing, NoJob, PlaceInv,
        FlagInv, Flagged, Releasing, Serving, Owns, port, files, history
  <1>0. /\ owner # NoDev => Holder = owner
        /\ coming # NoDev => "smp" \in uses
    BY LockFacts
  <1>1. CASE Claim(c)
    <2>1. /\ pc[c] = "claim" /\ job[c].dev = c
          /\ UNCHANGED <<claimed, wdev, uses>>
      BY <1>1 DEF Claim
    <2>2. CASE owner = c
      <3>1. Holder' = Holder /\ queue' = queue /\ Return(c, job[c].then)
        BY <1>1, <2>1, <2>2 DEF Claim, Holder
      <3>2. Holder = c
        BY <1>0, <2>2
      <3> QED BY <2>1, <3>1, <3>2 DEF Return, Goto
    <2>3. CASE owner = NoDev
      <3>1. /\ c \notin ToSet(queue) /\ Holder' = c /\ queue' = queue
            /\ Return(c, job[c].then)
        BY <1>1, <2>1, <2>3 DEF Claim, GiveTo, Holder
      <3> QED BY <2>1, <3>1 DEF Return, Goto
    <2>4. CASE owner \notin {NoDev, c}
      <3>1. /\ Holder' = Holder /\ queue' = Append(queue, c)
            /\ c \notin ToSet(queue) /\ Holder # c
            /\ Goto(c, "wait") /\ UNCHANGED job
        BY <1>1, <2>1, <2>4 DEF Claim, Refuse, Holder
      <3>3. c \in ToSet(queue')
        BY <3>1, BlockLists
      <3> QED BY <2>1, <3>1, <3>3 DEF Goto
    <2> QED BY <2>2, <2>3, <2>4
  <1>2. CASE Woken(c)
    <2>1. /\ pc[c] = "wait" /\ Holder = c /\ c \notin ToSet(queue)
          /\ Return(c, job[c].then) /\ UNCHANGED <<port, claimed, wdev, uses>>
      BY <1>2 DEF Woken
    <2>2. pc'[c] = job[c].then
      BY <2>1 DEF Return, Goto
    <2>3. /\ job[c].then \notin Transit \cup {"dead"}
          /\ job[c].then \in Bytes => wdev[c] = c
      BY <2>1
    <2>4. Holder' = Holder /\ queue' = queue /\ wdev' = wdev
      BY <2>1 DEF Holder
    <2> QED BY <2>1, <2>2, <2>3, <2>4
  <1>3. CASE Interrupted(c)
    BY <1>3 DEF Holder, Interrupted, AfterSignal, Return, Goto
  <1>4. CASE Save(c)
    BY <1>4 DEF Holder, Save, Goto
  <1>5. CASE Hand(c) \/ GiveRegisters(c)
    <2>1. /\ pc[c] \in {"hand", "give"} /\ job[c].dev = c /\ Holder # c
          /\ c \notin ToSet(queue) /\ UNCHANGED <<claimed, wdev, uses>>
      BY <1>5, LeaveGoes
    <2>2. Holder' # c /\ c \notin ToSet(queue')
      BY <2>1, HandLeaves
    <2>3. \/ job[c].reclaim /\ Goto(c, "claim") /\ UNCHANGED job
          \/ ~job[c].reclaim /\ Return(c, job[c].then)
          \/ pc[c] = "hand" /\ Goto(c, "give") /\ UNCHANGED job
      BY <1>5, LeaveGoes
    <2>4. CASE job[c].reclaim /\ Goto(c, "claim") /\ UNCHANGED job
      BY <2>1, <2>2, <2>4 DEF Goto
    <2>5. CASE ~job[c].reclaim /\ Return(c, job[c].then)
      <3>1. job[c].then \in {"idle", "closed", "pp_unreg"} /\ c \notin claimed
        BY <2>1, <2>5
      <3>2. pc'[c] = job[c].then /\ job'[c] = NoJob
        BY <2>1, <2>5 DEF Return, Goto
      <3> QED BY <2>1, <2>2, <3>1, <3>2
    <2>6. CASE Goto(c, "give") /\ UNCHANGED job
      BY <2>1, <2>2, <2>6 DEF Goto
    <2> QED BY <2>3, <2>4, <2>5, <2>6
  <1>6. CASE WriteStart(c)
    BY <1>6, <1>0 DEF Holder, WriteStart, Drive, Goto
  <1>7. CASE ByteDies(c)
    BY <1>7, <1>0 DEF Holder, ByteDies, Goto
  <1>8. CASE ByteOut(c)
    BY <1>8 DEF Holder, ByteOut, Goto
  <1>9. CASE ByteYield(c)
    BY <1>9 DEF Holder, ByteYield, StartRelease, NotesLending, Return, Goto
  <1>10. CASE ByteBusy(c)
    BY <1>10 DEF Holder, ByteBusy, StartRelease, NotesLending, Return, Goto
  <1>11. CASE c \in Files /\ PpOpen(c)
    BY <1>11 DEF Holder, PpOpen, Goto
  <1>12. CASE c \in Files /\ PpSetMode(c)
    BY <1>12 DEF Holder, PpSetMode
  <1>13. CASE c \in Files /\ PpClaim(c)
    BY <1>13 DEF Holder, PpClaim, StartClaim, Goto
  <1>14. CASE c \in Files /\ PpClaimed(c)
    BY <1>14 DEF Holder, PpClaimed, SwapIn, Goto
  <1>15. CASE c \in Files /\ PpSetDirection(c)
    BY <1>15 DEF Holder, PpSetDirection, MayUse, Drive
  <1>16. CASE c \in Files /\ PpYield(c)
    BY <1>16 DEF Holder, PpYield, MayUse, StartRelease, NotesLending, Return, Goto
  <1>17. CASE c \in Files /\ PpRelease(c)
    BY <1>17 DEF Holder, PpRelease, MayUse, SwapOut, StartRelease, NotesLending,
       Return, Goto
  <1>18. CASE c \in Files /\ PpRead(c)
    BY <1>18 DEF Holder, PpRead, MayUse, EppTransfer, Drive
  <1>19. CASE c \in Files /\ PpWrite(c)
    BY <1>19 DEF Holder, PpWrite, MayUse, EppTransfer, Drive, Goto
  <1>20. CASE c \in Files /\ PpWriteEnd(c)
    BY <1>20 DEF Holder, PpWriteEnd, Goto
  <1>21. CASE c \in Files /\ PpClose(c)
    BY <1>21 DEF Holder, PpClose, SwapOut, StartClaim, StartRelease, NotesLending,
       Return, Goto
  <1>22. CASE c \in Files /\ PpCloseClaimed(c)
    BY <1>22 DEF Holder, PpCloseClaimed, StartRelease, NotesLending, Return, Goto
  <1>23. CASE c \in Files /\ PpUnregister(c)
    <2>1. pc[c] = "pp_unreg" /\ UNCHANGED <<claimed, wdev, uses, coming>>
      BY <1>23 DEF PpUnregister
    <2>2. CASE owner = c
      BY <1>23, <2>1, <2>2 DEF Holder, PpUnregister, StartRelease, Goto
    <2>3. CASE owner # c
      <3>0. cut' = (cut \/ coming = c)
        BY <1>23, <2>3 DEF PpUnregister
      <3>1. coming # c
        BY <3>0
      <3>3. owner' = owner /\ job' = job /\ queue' = Unlisted(c)
        BY <1>23, <2>3 DEF PpUnregister
      <3>5. Goto(c, "closed")
        BY <1>23, <2>3 DEF PpUnregister
      <3>4. pc'[c] = "closed"
        BY <3>5 DEF Goto
      <3>2. Holder # c /\ Holder' # c
        BY <2>1, <2>3, <3>1, <3>3 DEF Holder
      <3> QED BY <2>1, <3>1, <3>2, <3>3, <3>4
    <2> QED BY <2>2, <2>3
  <1>24. CASE c = Lp /\ LpOpen
    BY <1>24 DEF Holder, LpOpen, LpClaim, StartClaim, Goto
  <1>25. CASE c = Lp /\ LpOpened
    BY <1>25 DEF Holder, LpOpened, LpRelease, StartRelease, NotesLending, Return, Goto
  <1>26. CASE c = Lp /\ LpWrite
    BY <1>26 DEF Holder, LpWrite, LpClaim, StartClaim, Goto
  <1>27. CASE c = Lp /\ LpReady
    BY <1>27 DEF Holder, LpReady, LpGoes, LpLend, StartRelease, NotesLending, Return,
       Goto
  <1>28. CASE c = Lp /\ LpWriteEnd
    BY <1>28 DEF Holder, LpWriteEnd, LpGoes, Goto
  <1>29. CASE c = Lp /\ LpAgain
    BY <1>29 DEF Holder, LpAgain, LpGoes, LpLend, StartRelease, NotesLending, Return,
       Goto
  <1>30. CASE c = Lp /\ LpHear
    BY <1>30 DEF Holder, LpHear, Goto
  <1>31. CASE c = Lp /\ LpGive
    BY <1>31 DEF Holder, LpGive, LpRelease, StartRelease, NotesLending, Return, Goto
  <1>32. CASE c = Lp /\ LpClose
    BY <1>32 DEF Holder, LpClose, LpClaim, StartClaim, Goto
  <1>33. CASE c = Lp /\ LpClosing
    BY <1>33 DEF Holder, LpClosing, LpRelease, StartRelease, NotesLending, Return,
       Goto
  <1>34. CASE GiveOwner(c)
    <2>1. /\ pc' = pc /\ job' = job /\ pc[c] = "give"
          /\ UNCHANGED <<claimed, wdev, uses>>
      BY <1>34 DEF GiveOwner
    <2>2. Holder' # c /\ c \notin ToSet(queue')
      BY <2>1, HandLeaves
    <2> QED BY <2>1, <2>2
  <1> QED BY <1>1, <1>2, <1>3, <1>4, <1>5, <1>6, <1>7, <1>8, <1>9, <1>10,
        <1>11, <1>12, <1>13, <1>14, <1>15, <1>16, <1>17, <1>18, <1>19, <1>20,
        <1>21, <1>22, <1>23, <1>24, <1>25, <1>26, <1>27, <1>28, <1>29, <1>30,
        <1>31, <1>32, <1>33, <1>34
     DEF Arbitration, CompatWrite, PpStep, LpStep

----------------------------------------------------------------------------
(* What a step does to the registers: nothing, a write of the owner, a      *)
(* claim that restores them, a release, the save of a release, or the end   *)
(* of a device.                                                             *)

Quiet(c) == /\ UNCHANGED <<coming, dir, saved, mine>>
            /\ coming = NoDev => owner' = owner
            /\ pc[c] # "save" /\ pc'[c] # "save"
Drives(c) == /\ Holder = c /\ UNCHANGED <<owner, coming, saved>>
             /\ \E d \in Directions : Drive(c, d)
             /\ pc[c] # "save" /\ pc'[c] # "save"
Gives(c) == /\ owner = NoDev /\ coming = NoDev /\ UNCHANGED saved
            /\ \E e \in Clients : \E rest : GiveTo(e, rest)
            /\ pc[c] # "save" /\ pc'[c] # "save"
Starts(c) == /\ owner = NoDev /\ coming = NoDev /\ UNCHANGED saved
             /\ \E e \in Clients : \E rest : StartGive(e, rest)
             /\ pc[c] # "save" /\ pc'[c] # "save"
Restores(c) == /\ coming # NoDev /\ owner = coming
               /\ coming' = NoDev /\ dir' = saved[coming]
               /\ UNCHANGED <<owner, saved, mine>>
               /\ pc[c] # "save" /\ pc'[c] # "save"
Lets(c) == /\ owner = c /\ owner' = NoDev /\ coming = NoDev
           /\ UNCHANGED <<coming, dir, saved, mine>>
           /\ pc[c] # "save" /\ pc'[c] = "save"
Stores(c) == /\ pc[c] = "save" /\ pc'[c] = "hand"
             /\ saved' = [saved EXCEPT ![c] = dir]
             /\ UNCHANGED <<owner, coming, dir, mine>>
Forgets(c) == /\ owner # c /\ UNCHANGED <<owner, coming, dir>>
              /\ saved' = [saved EXCEPT ![c] = "forward"]
              /\ mine' = [mine EXCEPT ![c] = "forward"]
              /\ pc[c] # "save" /\ pc'[c] # "save"

Writes(c) == \/ Quiet(c) \/ Drives(c) \/ Gives(c) \/ Starts(c) \/ Restores(c)
             \/ Lets(c) \/ Stores(c) \/ Forgets(c)

\* A release of the own device, for the registers.
LEMMA ReleaseWrites ==
    ASSUME ControlType, NEW c \in Clients, NEW reclaim, NEW place,
           place # "save", StartRelease(c, c, reclaim, place),
           UNCHANGED <<coming, dir, saved, mine>>, pc[c] \notin Transit
    PROVE  Writes(c)
  <1>1. pc[c] # "save" /\ coming = NoDev
    BY DEF Transit, StartRelease
  <1>2. CASE owner = c
    <2>1. owner' = NoDev /\ pc'[c] = "save"
      BY <1>2 DEF StartRelease, Goto, ControlType
    <2> QED BY <1>1, <1>2, <2>1 DEF Writes, Lets
  <1>3. CASE owner # c
    <2>1. owner' = owner /\ pc'[c] # "save"
      BY <1>3 DEF StartRelease, Return, Goto, ControlType
    <2> QED BY <1>1, <2>1 DEF Writes, Quiet
  <1> QED BY <1>2, <1>3

\* Every step leaves the registers alone or is one of these.
LEMMA RegisterWrites ==
    ASSUME TypeOK, ControlType, PlaceInv, FlagInv, LockInv, NEW c \in Clients,
           Owns(c),
           \/ Arbitration(c) \/ CompatWrite(c)
           \/ c \in Files /\ PpStep(c)
           \/ c = Lp /\ LpStep
    PROVE  Writes(c)
  <1> USE ClientsAssumption DEF ControlType, PlaceInv, FlagInv, Owns
  <1>1. CASE Claim(c)
    <2>1. /\ pc[c] = "claim" /\ job[c].dev = c /\ job[c].then # "save"
          /\ UNCHANGED saved
      BY <1>1 DEF Claim, Placed, Returns, Claiming, Transit
    <2>2. pc'[c] # "save"
      BY <1>1, <2>1 DEF Claim, Return, Goto
    <2>3. CASE UNCHANGED <<owner, coming, dir, mine>>
      BY <2>1, <2>2, <2>3 DEF Writes, Quiet
    <2>4. CASE owner = NoDev /\ coming = NoDev /\ GiveTo(c, queue)
      BY <2>1, <2>2, <2>4 DEF Writes, Gives
    <2>5. \/ UNCHANGED <<owner, coming, dir, mine>>
          \/ owner = NoDev /\ coming = NoDev /\ GiveTo(c, queue)
      <3>0. c # NoDev
        BY DEF Clients
      <3>1. CASE owner = c
        BY <1>1, <2>1, <3>0, <3>1 DEF Claim
      <3>2. CASE owner = NoDev
        BY <1>1, <2>1, <3>0, <3>2 DEF Claim
      <3>3. CASE owner \notin {NoDev, c}
        BY <1>1, <2>1, <3>0, <3>3 DEF Claim, Refuse
      <3> QED BY <3>1, <3>2, <3>3
    <2> QED BY <2>3, <2>4, <2>5
  <1>2. CASE Woken(c)
    <2>1. /\ UNCHANGED <<owner, coming, dir, saved, mine>>
          /\ pc[c] # "save" /\ pc'[c] # "save"
      BY <1>2 DEF Woken, Return, Goto, port, files, history, Placed, Transit, Returns, Claiming
    <2> QED BY <2>1 DEF Writes, Quiet
  <1>3. CASE Interrupted(c)
    <2>1. /\ UNCHANGED <<owner, coming, dir, saved, mine>>
          /\ pc[c] # "save" /\ pc'[c] # "save"
      BY <1>3 DEF Interrupted, AfterSignal, Return, Goto, port, files, history, Placed, Transit, Returns, Claiming
    <2> QED BY <2>1 DEF Writes, Quiet
  <1>4. CASE Save(c)
    <2>1. pc[c] = "save" /\ job[c].dev = c
          /\ UNCHANGED <<owner, coming, dir, mine>>
      BY <1>4 DEF Save, Transit, history
    <2>2. /\ saved' = [saved EXCEPT ![c] = dir] /\ pc'[c] = "hand"
      BY <1>4, <2>1 DEF Save, Goto
    <2> QED BY <2>1, <2>2 DEF Writes, Stores
  <1>5. CASE Hand(c)
    <2>1. pc[c] \in {"hand", "give"} /\ pc'[c] # "save" /\ UNCHANGED saved
      <3>1. pc[c] \in {"hand", "give"} /\ job[c].then # "save" /\ UNCHANGED saved
        BY <1>5, LeaveGoes DEF Placed, Returns, Claiming, Transit
      <3>2. Goto(c, "claim") \/ Goto(c, job[c].then) \/ Goto(c, "give")
        BY <1>5, LeaveGoes DEF Return
      <3> QED BY <3>1, <3>2 DEF Goto
    <2>2. CASE UNCHANGED <<owner, coming, dir, mine>>
      BY <2>1, <2>2 DEF Writes, Quiet
    <2>3. CASE /\ queue # <<>> /\ owner = NoDev /\ coming = NoDev
               /\ \/ GiveTo(Head(queue), Tail(queue))
                  \/ StartGive(Head(queue), Tail(queue))
      <3>1. Head(queue) \in Clients
        BY <2>3, Served DEF TypeOK
      <3> QED BY <2>1, <2>3, <3>1 DEF Writes, Gives, Starts
    <2>4. \/ UNCHANGED <<owner, coming, dir, mine>>
          \/ /\ queue # <<>> /\ owner = NoDev /\ coming = NoDev
             /\ \/ GiveTo(Head(queue), Tail(queue))
                \/ StartGive(Head(queue), Tail(queue))
      BY <1>5 DEF Hand, Refuse
    <2> QED BY <2>2, <2>3, <2>4
  <1>6. CASE WriteStart(c)
    <2>1. pc[c] \notin Transit /\ c \in claimed
      BY <1>6 DEF WriteStart, Transit, Flagged
    <2>2. Holder = c
      BY <2>1
    <2>3. \E d \in Directions : Drive(c, d)
      BY <1>6 DEF WriteStart, Directions
    <2>4. /\ UNCHANGED <<owner, coming, saved>> /\ pc'[c] # "save" /\ pc[c] # "save"
      BY <1>6, <2>1 DEF WriteStart, Goto, Transit
    <2> QED BY <2>2, <2>3, <2>4 DEF Writes, Drives
  <1>7. CASE ByteDies(c)
    <2>1. /\ UNCHANGED <<owner, coming, dir, saved, mine>>
          /\ pc[c] # "save" /\ pc'[c] # "save"
      BY <1>7 DEF ByteDies, Goto, port, files, history, Bytes
    <2> QED BY <2>1 DEF Writes, Quiet
  <1>8. CASE ByteOut(c)
    <2>1. /\ UNCHANGED <<owner, coming, dir, saved, mine>>
          /\ pc[c] # "save" /\ pc'[c] # "save"
      BY <1>8 DEF ByteOut, Goto, port, files, history, Bytes
    <2> QED BY <2>1 DEF Writes, Quiet
  <1>9. CASE ByteYield(c)
    <2>1. /\ pc[c] \notin Transit /\ UNCHANGED <<coming, dir, saved, mine>>
          /\ wdev[c] = c
      BY <1>9 DEF ByteYield, Transit, Bytes, Writing
    <2>2. StartRelease(c, c, TRUE, "byte")
      BY <1>9, <2>1 DEF ByteYield
    <2> QED BY <2>1, <2>2, ReleaseWrites
  <1>10. CASE ByteBusy(c)
    <2>1. /\ pc[c] \notin Transit /\ UNCHANGED <<coming, dir, saved, mine>>
          /\ wdev[c] = c
      BY <1>10 DEF ByteBusy, Transit, Bytes, Writing
    <2>2. StartRelease(c, c, TRUE, "byte_again")
      BY <1>10, <2>1 DEF ByteBusy
    <2> QED BY <2>1, <2>2, ReleaseWrites
  <1>11. CASE c \in Files /\ PpOpen(c)
    <2>1. /\ UNCHANGED <<owner, coming, dir, saved, mine>>
          /\ pc[c] # "save" /\ pc'[c] # "save"
      BY <1>11 DEF PpOpen, Goto, port, files, history
    <2> QED BY <2>1 DEF Writes, Quiet
  <1>12. CASE c \in Files /\ PpSetMode(c)
    <2>1. /\ UNCHANGED <<owner, coming, dir, saved, mine>>
          /\ pc[c] # "save" /\ pc'[c] # "save"
      BY <1>12 DEF PpSetMode, port, files, history
    <2> QED BY <2>1 DEF Writes, Quiet
  <1>13. CASE c \in Files /\ PpClaim(c)
    <2>1. /\ UNCHANGED <<owner, coming, dir, saved, mine>>
          /\ pc[c] # "save" /\ pc'[c] # "save"
      BY <1>13 DEF PpClaim, StartClaim, Goto, port, files, history
    <2> QED BY <2>1 DEF Writes, Quiet
  <1>14. CASE c \in Files /\ PpClaimed(c)
    <2>1. /\ UNCHANGED <<owner, coming, dir, saved, mine>>
          /\ pc[c] # "save" /\ pc'[c] # "save"
      BY <1>14 DEF PpClaimed, SwapIn, Goto, port, files, history
    <2> QED BY <2>1 DEF Writes, Quiet
  <1>15. CASE c \in Files /\ PpSetDirection(c)
    <2>1. pc[c] \notin Transit /\ c \in claimed
      BY <1>15 DEF PpSetDirection, MayUse, Transit, Flagged
    <2>2. Holder = c
      BY <2>1
    <2>3. \E d \in Directions : Drive(c, d)
      BY <1>15 DEF PpSetDirection, MayUse, Directions
    <2>4. /\ UNCHANGED <<owner, coming, saved>> /\ pc'[c] # "save" /\ pc[c] # "save"
      BY <1>15, <2>1 DEF PpSetDirection, MayUse, Goto, Transit
    <2> QED BY <2>2, <2>3, <2>4 DEF Writes, Drives
  <1>16. CASE c \in Files /\ PpYield(c)
    <2>1. pc[c] \notin Transit /\ UNCHANGED <<coming, dir, saved, mine>>
      BY <1>16 DEF PpYield, MayUse, Transit, Bytes
    <2>2. \E reclaim \in BOOLEAN, place \in Places \ {"save"} :
             StartRelease(c, c, reclaim, place)
      BY <1>16 DEF PpYield, MayUse, Places, FileOnly, Writing
    <2> QED BY <2>1, <2>2, ReleaseWrites
  <1>17. CASE c \in Files /\ PpRelease(c)
    <2>1. pc[c] \notin Transit /\ UNCHANGED <<coming, dir, saved, mine>>
      BY <1>17 DEF PpRelease, MayUse, Transit, Bytes
    <2>2. \E reclaim \in BOOLEAN, place \in Places \ {"save"} :
             StartRelease(c, c, reclaim, place)
      BY <1>17 DEF PpRelease, MayUse, Places, FileOnly, Writing
    <2> QED BY <2>1, <2>2, ReleaseWrites
  <1>18. CASE c \in Files /\ PpRead(c)
    <2>1. pc[c] \notin Transit /\ c \in claimed
      BY <1>18 DEF PpRead, MayUse, EppTransfer, Transit, Flagged
    <2>2. Holder = c
      BY <2>1
    <2>3. \E d \in Directions : Drive(c, d)
      BY <1>18 DEF PpRead, MayUse, EppTransfer, Directions
    <2>4. /\ UNCHANGED <<owner, coming, saved>> /\ pc'[c] # "save" /\ pc[c] # "save"
      BY <1>18, <2>1 DEF PpRead, MayUse, EppTransfer, Goto, Transit
    <2> QED BY <2>2, <2>3, <2>4 DEF Writes, Drives
  <1>19. CASE c \in Files /\ PpWrite(c)
    <2>1. pc[c] = "idle" /\ c \in claimed /\ Holder = c
      BY <1>19 DEF PpWrite, MayUse, Transit
    <2>2. CASE EppTransfer(c)
      BY <2>1, <2>2 DEF EppTransfer, Directions, Writes, Drives
    <2>3. CASE Goto(c, "write") /\ UNCHANGED <<port, mine>>
      BY <2>1, <2>3 DEF Goto, port, Writes, Quiet
    <2> QED BY <1>19, <2>2, <2>3 DEF PpWrite
  <1>20. CASE c \in Files /\ PpWriteEnd(c)
    <2>1. /\ UNCHANGED <<owner, coming, dir, saved, mine>>
          /\ pc[c] # "save" /\ pc'[c] # "save"
      BY <1>20 DEF PpWriteEnd, Goto, port, files, history
    <2> QED BY <2>1 DEF Writes, Quiet
  <1>21. CASE c \in Files /\ PpClose(c)
    <2>1. pc[c] = "idle" /\ UNCHANGED <<coming, dir, saved, mine>>
      BY <1>21 DEF PpClose
    <2>2. \/ pc'[c] \in {"claim", "pp_unreg", "closed"} /\ UNCHANGED owner
          \/ StartRelease(c, c, FALSE, "pp_unreg")
      BY <1>21 DEF PpClose, StartClaim, Goto
    <2>3. CASE pc'[c] \in {"claim", "pp_unreg", "closed"} /\ UNCHANGED owner
      BY <2>1, <2>3 DEF Writes, Quiet
    <2>4. CASE StartRelease(c, c, FALSE, "pp_unreg")
      BY <2>1, <2>4, ReleaseWrites DEF Transit
    <2> QED BY <2>2, <2>3, <2>4
  <1>22. CASE c \in Files /\ PpCloseClaimed(c)
    <2>1. pc[c] \notin Transit /\ UNCHANGED <<coming, dir, saved, mine>>
      BY <1>22 DEF PpCloseClaimed, Transit, Bytes
    <2>2. \E reclaim \in BOOLEAN, place \in Places \ {"save"} :
             StartRelease(c, c, reclaim, place)
      BY <1>22 DEF PpCloseClaimed, Places, FileOnly, Writing
    <2> QED BY <2>1, <2>2, ReleaseWrites
  <1>23. CASE c \in Files /\ PpUnregister(c)
    <2>1. CASE owner = c
      <3>1. /\ pc[c] \notin Transit /\ UNCHANGED <<coming, dir, saved, mine>>
            /\ StartRelease(c, c, FALSE, "pp_unreg")
        BY <1>23, <2>1 DEF PpUnregister, Transit
      <3> QED BY <3>1, ReleaseWrites
    <2>2. CASE owner # c
      BY <1>23, <2>2 DEF PpUnregister, Goto, Writes, Forgets
    <2> QED BY <2>1, <2>2
  <1>24. CASE c = Lp /\ LpOpen
    <2>1. /\ UNCHANGED <<owner, coming, dir, saved, mine>>
          /\ pc[c] # "save" /\ pc'[c] # "save"
      BY <1>24 DEF LpOpen, LpClaim, StartClaim, Goto, port, files, history
    <2> QED BY <2>1 DEF Writes, Quiet
  <1>25. CASE c = Lp /\ LpOpened
    <2>1. pc[c] \notin Transit /\ UNCHANGED <<coming, dir, saved, mine>>
      BY <1>25 DEF LpOpened, LpRelease, Transit, Bytes
    <2>2. \E reclaim \in BOOLEAN, place \in Places \ {"save"} :
             StartRelease(c, c, reclaim, place)
      BY <1>25 DEF LpOpened, LpRelease, Places, FileOnly, Writing
    <2> QED BY <2>1, <2>2, ReleaseWrites
  <1>26. CASE c = Lp /\ LpWrite
    <2>1. /\ UNCHANGED <<owner, coming, dir, saved, mine>>
          /\ pc[c] # "save" /\ pc'[c] # "save"
      BY <1>26 DEF LpWrite, LpClaim, StartClaim, Goto, port, files, history
    <2> QED BY <2>1 DEF Writes, Quiet
  <1>27. CASE c = Lp /\ LpReady
    <2>1. CASE \E place \in Places \ {"save"} : LpGoes(place)
      BY <1>27, <2>1 DEF LpReady, LpGoes, Goto, Writes, Quiet, port, history
    <2>2. CASE \E place \in Places \ {"save"} : LpLend(place)
      <3>1. pc[c] \notin Transit /\ UNCHANGED <<coming, dir, saved, mine>>
        BY <1>27, <2>2 DEF LpReady, LpLend, Transit
      <3>2. PICK place \in Places \ {"save"} : StartRelease(c, c, TRUE, place)
        BY <1>27, <2>2 DEF LpLend
      <3> QED BY <3>1, <3>2, ReleaseWrites
    <2>3. {"lp_hear", "lp_again", "lp_ready", "write"} \subseteq Places \ {"save"}
      BY DEF Places, LpOnly
    <2> QED BY <1>27, <2>1, <2>2, <2>3 DEF LpReady
  <1>28. CASE c = Lp /\ LpWriteEnd
    <2>1. /\ UNCHANGED <<owner, coming, dir, saved, mine>>
          /\ pc[c] # "save" /\ pc'[c] # "save"
      BY <1>28 DEF LpWriteEnd, LpGoes, Goto, port, files, history
    <2> QED BY <2>1 DEF Writes, Quiet
  <1>29. CASE c = Lp /\ LpAgain
    <2>1. CASE \E place \in Places \ {"save"} : LpGoes(place)
      BY <1>29, <2>1 DEF LpAgain, LpGoes, Goto, Writes, Quiet, port, history
    <2>2. CASE \E place \in Places \ {"save"} : LpLend(place)
      <3>1. pc[c] \notin Transit /\ UNCHANGED <<coming, dir, saved, mine>>
        BY <1>29, <2>2 DEF LpAgain, LpLend, Transit
      <3>2. PICK place \in Places \ {"save"} : StartRelease(c, c, TRUE, place)
        BY <1>29, <2>2 DEF LpLend
      <3> QED BY <3>1, <3>2, ReleaseWrites
    <2>3. {"lp_hear", "lp_again", "lp_ready", "write"} \subseteq Places \ {"save"}
      BY DEF Places, LpOnly
    <2> QED BY <1>29, <2>1, <2>2, <2>3 DEF LpAgain
  <1>30. CASE c = Lp /\ LpHear
    <2>1. /\ UNCHANGED <<owner, coming, dir, saved, mine>>
          /\ pc[c] # "save" /\ pc'[c] # "save"
      BY <1>30 DEF LpHear, Goto, port, files, history
    <2> QED BY <2>1 DEF Writes, Quiet
  <1>31. CASE c = Lp /\ LpGive
    <2>1. pc[c] \notin Transit /\ UNCHANGED <<coming, dir, saved, mine>>
      BY <1>31 DEF LpGive, LpRelease, Transit, Bytes
    <2>2. \E reclaim \in BOOLEAN, place \in Places \ {"save"} :
             StartRelease(c, c, reclaim, place)
      BY <1>31 DEF LpGive, LpRelease, Places, FileOnly, Writing
    <2> QED BY <2>1, <2>2, ReleaseWrites
  <1>32. CASE c = Lp /\ LpClose
    <2>1. /\ UNCHANGED <<owner, coming, dir, saved, mine>>
          /\ pc[c] # "save" /\ pc'[c] # "save"
      BY <1>32 DEF LpClose, LpClaim, StartClaim, Goto, port, files, history
    <2> QED BY <2>1 DEF Writes, Quiet
  <1>33. CASE c = Lp /\ LpClosing
    <2>1. pc[c] \notin Transit /\ UNCHANGED <<coming, dir, saved, mine>>
      BY <1>33 DEF LpClosing, LpRelease, Transit, Bytes
    <2>2. \E reclaim \in BOOLEAN, place \in Places \ {"save"} :
             StartRelease(c, c, reclaim, place)
      BY <1>33 DEF LpClosing, LpRelease, Places, FileOnly, Writing
    <2> QED BY <2>1, <2>2, ReleaseWrites
  <1>34. CASE GiveOwner(c) \/ GiveRegisters(c)
    <2>0. coming # NoDev /\ Holder = coming /\ (owner # NoDev => Holder = owner)
      BY <1>34, LockFacts DEF GiveOwner, GiveRegisters
    <2>1. CASE GiveOwner(c)
      BY <2>0, <2>1 DEF GiveOwner, history, Writes, Quiet
    <2>2. CASE GiveRegisters(c)
      <3>1. /\ pc[c] = "give" /\ owner # NoDev /\ coming' = NoDev
            /\ dir' = saved[coming] /\ UNCHANGED <<owner, saved, mine>>
            /\ Leave(c)
        BY <2>2 DEF GiveRegisters, history
      <3>2. pc'[c] # "save"
        BY <3>1, LeaveEnds
      <3> QED BY <2>0, <3>1, <3>2 DEF Writes, Restores
    <2> QED BY <1>34, <2>1, <2>2
  <1> QED BY <1>1, <1>2, <1>3, <1>4, <1>5, <1>6, <1>7, <1>8, <1>9, <1>10,
        <1>11, <1>12, <1>13, <1>14, <1>15, <1>16, <1>17, <1>18, <1>19, <1>20,
        <1>21, <1>22, <1>23, <1>24, <1>25, <1>26, <1>27, <1>28, <1>29, <1>30,
        <1>31, <1>32, <1>33, <1>34
     DEF Arbitration, CompatWrite, PpStep, LpStep

\* Every move keeps the registers of all clients.
LEMMA KeptStep ==
    ASSUME TypeOK, \A d \in Clients : Owns(d) /\ Kept(d),
           NEW c \in Clients, Writes(c), Frame(c), NEW d \in Clients
    PROVE  Kept(d)'
  <1> USE DEF Kept, Holder
  <1>0. /\ mine \in [Clients -> Directions \cup {"any"}]
        /\ saved \in [Clients -> Directions] /\ NoDev \notin Clients
        /\ d # c => pc'[d] = pc[d]
    BY ClientsAssumption DEF TypeOK, Frame, Clients
  <1>1. CASE Quiet(c)
    BY <1>0, <1>1 DEF Quiet
  <1>2. CASE Drives(c)
    BY <1>0, <1>2 DEF Drives, Drive
  <1>3. CASE Gives(c)
    <2>1. PICK e \in Clients : \E rest : GiveTo(e, rest)
      BY <1>3 DEF Gives
    <2>2. /\ owner = NoDev /\ owner' = e /\ dir' = saved[e] /\ UNCHANGED saved
          /\ coming = NoDev /\ coming' = NoDev
      BY <1>3, <2>1 DEF Gives, GiveTo
    <2>3. mine'[d] = IF pc[d] = "save" THEN "any" ELSE mine[d]
      <3>1. mine'[d] = IF \E r \in Clients : pc[r] = "save" /\ job[r].dev = d
                       THEN "any" ELSE mine[d]
        BY <2>1 DEF GiveTo, NotesOvertaken
      <3>2. \A r \in Clients : pc[r] = "save" => job[r].dev = r
        BY DEF Owns, Transit
      <3> QED BY <3>1, <3>2
    <2>4. pc'[d] = "save" <=> pc[d] = "save"
      BY <1>0, <1>3 DEF Gives
    <2> QED BY <1>0, <2>2, <2>3, <2>4
  <1>4. CASE Lets(c)
    BY <1>0, <1>4 DEF Lets
  <1>5. CASE Stores(c)
    <2>1. Holder # c
      BY <1>5 DEF Stores, Owns, Releasing, Serving
    <2> QED BY <1>0, <1>5, <2>1 DEF Stores
  <1>6. CASE Forgets(c)
    BY <1>0, <1>6 DEF Forgets
  <1>7. CASE Starts(c)
    <2>1. PICK e \in Clients : \E rest : StartGive(e, rest)
      BY <1>7 DEF Starts
    <2>2. /\ owner = NoDev /\ owner' = NoDev /\ UNCHANGED <<dir, saved>>
          /\ coming = NoDev /\ coming' = e
      BY <1>7, <2>1 DEF Starts, StartGive
    <2>3. mine'[d] = IF pc[d] = "save" THEN "any" ELSE mine[d]
      <3>1. mine'[d] = IF \E r \in Clients : pc[r] = "save" /\ job[r].dev = d
                       THEN "any" ELSE mine[d]
        BY <2>1 DEF StartGive, NotesOvertaken
      <3>2. \A r \in Clients : pc[r] = "save" => job[r].dev = r
        BY DEF Owns, Transit
      <3> QED BY <3>1, <3>2
    <2>4. pc'[d] = "save" <=> pc[d] = "save"
      BY <1>0, <1>7 DEF Starts
    <2> QED BY <1>0, <2>2, <2>3, <2>4
  <1>8. CASE Restores(c)
    BY <1>0, <1>8 DEF Restores
  <1> QED BY <1>1, <1>2, <1>3, <1>4, <1>5, <1>6, <1>7, <1>8 DEF Writes

----------------------------------------------------------------------------
(* What a step does to the modes: nothing, the end or the begin of a loan,  *)
(* PPSETMODE, PPCLAIM or PPRELEASE.                                         *)

\* Files with the port claimed; those of them that lend it.
Claimers == claimed \cap Files
Away(c) == c \in Claimers /\ pc[c] \in Transit

\* A file that has the port claimed lends it while it is in transit.
LEMMA LendsAway ==
    ASSUME NEW c \in Clients, Flagged(c)
    PROVE  Lends(c) <=> Away(c)
  BY DEF Lends, Away, Claimers, Flagged, Releasing, Serving, Claiming, Transit

ModesSame == /\ mode' = mode /\ Claimers' = Claimers
             /\ \A f \in Claimers : fmode'[f] = fmode[f] /\ fsaved'[f] = fsaved[f]

Calm(c) == /\ ModesSame
           /\ c \in Claimers => (pc'[c] \in Transit <=> pc[c] \in Transit)
Back(c) == /\ ModesSame /\ c \in Claimers
           /\ pc[c] \in Transit /\ pc'[c] \notin Transit
           /\ Holder \in {c, NoDev} /\ Holder' = c
Lent(c) == /\ ModesSame /\ c \in Claimers /\ Holder = c /\ Holder' = NoDev
           /\ pc[c] \notin Transit /\ pc'[c] \in Transit
           /\ ~mixed' => \A f \in Files \ {c} : ~Lends(f)
Sets(c) == /\ Claimers' = Claimers /\ fsaved' = fsaved /\ Holder' = Holder
           /\ pc[c] \notin Transit /\ pc'[c] \notin Transit
           /\ \E m \in Modes : /\ fmode' = [fmode EXCEPT ![c] = m]
                               /\ mode' = IF c \in Claimers THEN m ELSE mode
           /\ c \in Files
Enters(c) == /\ c \in Files \ Claimers /\ Claimers' = Claimers \cup {c}
             /\ SwapIn(c) /\ fmode' = fmode /\ Holder = c /\ Holder' = Holder
             /\ pc[c] \notin Transit /\ pc'[c] \notin Transit
Quits(c) == /\ c \in Claimers /\ Claimers' = Claimers \ {c}
            /\ SwapOut(c) /\ fsaved' = fsaved /\ Holder = c /\ Holder' = NoDev
            /\ pc[c] \notin Transit

Brackets(c) == Calm(c) \/ Back(c) \/ Lent(c) \/ Sets(c) \/ Enters(c) \/ Quits(c)

\* A release that claims again is a loan.
LEMMA ReleaseLends ==
    ASSUME ControlType, NEW c \in Clients, Owns(c), c \in claimed,
           pc[c] \notin Transit, NEW place, StartRelease(c, c, TRUE, place),
           UNCHANGED <<coming, files, claimed>>
    PROVE  Brackets(c)
  <1>1. ModesSame /\ Holder = c
    BY DEF ModesSame, Claimers, files, Owns
  <1>0. coming = NoDev
    BY DEF StartRelease
  <1>2. Holder' = NoDev /\ pc'[c] \in Transit
    BY <1>0, <1>1 DEF StartRelease, Goto, ControlType, Transit, Holder
  <1>3. CASE c \in Files
    <2>1. ~mixed' => \A f \in Files \ {c} : ~Lends(f)
      BY <1>3 DEF StartRelease, NotesLending
    <2> QED BY <1>1, <1>2, <1>3, <2>1 DEF Brackets, Lent, Claimers
  <1>4. CASE c \notin Files
    BY <1>1, <1>4 DEF Brackets, Calm, Claimers
  <1> QED BY <1>3, <1>4

\* Every step leaves the modes alone or is one of these.
LEMMA ModeBrackets ==
    ASSUME ControlType, PlaceInv, FlagInv, LockInv, NEW c \in Clients,
           Owns(c), ~cut',
           \/ Arbitration(c) \/ CompatWrite(c)
           \/ c \in Files /\ PpStep(c)
           \/ c = Lp /\ LpStep
    PROVE  Brackets(c)
  <1> USE ClientsAssumption DEF ControlType, PlaceInv, FlagInv, Owns
  <1>0. owner # NoDev => Holder = owner
    BY LockFacts
  <1>1. CASE Claim(c)
    <2>1. /\ ModesSame /\ pc[c] = "claim" /\ job[c].dev = c
          /\ job[c].then \notin Transit
      BY <1>1 DEF Claim, ModesSame, Claimers, files, Placed, Returns, Claiming, Transit
    <2>2. CASE c \notin Claimers
      BY <2>1, <2>2 DEF Brackets, Calm
    <2>3. CASE Goto(c, "wait")
      <3>1. pc'[c] = "wait"
        BY <2>3 DEF Goto
      <3> QED BY <2>1, <3>1 DEF Brackets, Calm, Transit
    <2>4. CASE /\ c \in Claimers /\ Return(c, job[c].then)
               /\ Holder \in {c, NoDev} /\ Holder' = c
      <3>1. pc'[c] = job[c].then
        BY <2>4 DEF Return, Goto
      <3> QED BY <2>1, <2>4, <3>1 DEF Brackets, Back, Transit
    <2>5. \/ Goto(c, "wait")
          \/ Return(c, job[c].then) /\ Holder \in {c, NoDev} /\ Holder' = c
      <3>1. CASE owner = c
        BY <1>0, <1>1, <2>1, <3>1 DEF Claim, Holder, Clients
      <3>2. CASE owner = NoDev
        BY <1>1, <2>1, <3>2 DEF Claim, GiveTo, Holder, Clients
      <3>3. CASE owner \notin {NoDev, c}
        BY <1>1, <2>1, <3>3 DEF Claim
      <3> QED BY <3>1, <3>2, <3>3
    <2> QED BY <2>2, <2>3, <2>4, <2>5
  <1>2. CASE Woken(c)
    <2>1. /\ ModesSame /\ pc[c] = "wait" /\ job[c].then \notin Transit
          /\ Holder = c /\ Holder' = c /\ pc'[c] = job[c].then
      BY <1>2 DEF Woken, Return, Goto, ModesSame, Claimers, files, port, Placed,
         Returns, Claiming, Transit, Holder
    <2>2. CASE c \notin Claimers
      BY <2>1, <2>2 DEF Brackets, Calm
    <2>3. CASE c \in Claimers
      BY <2>1, <2>3 DEF Brackets, Back, Transit
    <2> QED BY <2>2, <2>3
  <1>3. CASE Interrupted(c)
    <2>1. ModesSame /\ pc[c] = "wait" /\ job[c].then = "pp_claimed"
      BY <1>3 DEF Interrupted, ModesSame, Claimers, files
    <2>2. c \notin Claimers
      BY <2>1 DEF Claimers, Flagged, Placed, Returns, Claiming, Transit
    <2> QED BY <2>1, <2>2 DEF Brackets, Calm
  <1>4. CASE Save(c)
    <2>1. ModesSame
      BY <1>4 DEF Save, ModesSame, Claimers, files
    <2>2. c \in Claimers => (pc'[c] \in Transit <=> pc[c] \in Transit)
      BY <1>4 DEF Save, Goto, Transit, Bytes, Claimers
    <2> QED BY <2>1, <2>2 DEF Brackets, Calm
  <1>5. CASE Hand(c) \/ GiveRegisters(c)
    <2>1. ModesSame /\ pc[c] \in {"hand", "give"}
      BY <1>5, LeaveGoes DEF ModesSame, Claimers, files
    <2>2. c \in Claimers => job[c].reclaim
      BY <2>1 DEF Claimers, Flagged, Releasing, Serving
    <2>3. c \in Claimers => Goto(c, "claim") \/ Goto(c, "give")
      BY <1>5, <2>2, LeaveGoes
    <2>4. c \in Claimers => pc'[c] \in Transit
      BY <2>3 DEF Goto, Transit
    <2> QED BY <2>1, <2>4 DEF Brackets, Calm, Transit
  <1>6. CASE WriteStart(c)
    <2>1. ModesSame
      BY <1>6 DEF WriteStart, ModesSame, Claimers, files
    <2>2. c \in Claimers => (pc'[c] \in Transit <=> pc[c] \in Transit)
      BY <1>6 DEF WriteStart, Goto, Transit, Bytes, Claimers
    <2> QED BY <2>1, <2>2 DEF Brackets, Calm
  <1>7. CASE ByteDies(c)
    <2>1. ModesSame
      BY <1>7 DEF ByteDies, ModesSame, Claimers, files
    <2>2. c \in Claimers => (pc'[c] \in Transit <=> pc[c] \in Transit)
      BY <1>7 DEF ByteDies, Goto, Transit, Bytes, Claimers
    <2> QED BY <2>1, <2>2 DEF Brackets, Calm
  <1>8. CASE ByteOut(c)
    <2>1. ModesSame
      BY <1>8 DEF ByteOut, ModesSame, Claimers, files
    <2>2. c \in Claimers => (pc'[c] \in Transit <=> pc[c] \in Transit)
      BY <1>8 DEF ByteOut, Goto, Transit, Bytes, Claimers
    <2> QED BY <2>1, <2>2 DEF Brackets, Calm
  <1>9. CASE ByteYield(c)
    <2>1. /\ pc[c] \notin Transit /\ c \in claimed /\ UNCHANGED <<coming, files, claimed>>
          /\ wdev[c] = c
      BY <1>9 DEF ByteYield, Transit, Flagged, Bytes, Writing
    <2>2. StartRelease(c, c, TRUE, "byte")
      BY <1>9, <2>1 DEF ByteYield
    <2> QED BY <2>1, <2>2, ReleaseLends
  <1>10. CASE ByteBusy(c)
    <2>1. /\ pc[c] \notin Transit /\ c \in claimed /\ UNCHANGED <<coming, files, claimed>>
          /\ wdev[c] = c
      BY <1>10 DEF ByteBusy, Transit, Flagged, Bytes, Writing
    <2>2. StartRelease(c, c, TRUE, "byte_again")
      BY <1>10, <2>1 DEF ByteBusy
    <2> QED BY <2>1, <2>2, ReleaseLends
  <1>11. CASE c \in Files /\ PpOpen(c)
    <2>1. ModesSame
      BY <1>11 DEF PpOpen, ModesSame, Claimers, files
    <2>2. c \in Claimers => (pc'[c] \in Transit <=> pc[c] \in Transit)
      BY <1>11 DEF PpOpen, Goto, Transit, Bytes, Claimers
    <2> QED BY <2>1, <2>2 DEF Brackets, Calm
  <1>12. CASE c \in Files /\ PpSetMode(c)
    BY <1>12 DEF PpSetMode, port, Claimers, Transit, Brackets, Sets, Holder
  <1>13. CASE c \in Files /\ PpClaim(c)
    <2>1. ModesSame
      BY <1>13 DEF PpClaim, StartClaim, ModesSame, Claimers, files
    <2>2. c \in Claimers => (pc'[c] \in Transit <=> pc[c] \in Transit)
      BY <1>13 DEF PpClaim, StartClaim, Goto, Transit, Bytes, Claimers
    <2> QED BY <2>1, <2>2 DEF Brackets, Calm
  <1>14. CASE c \in Files /\ PpClaimed(c)
    <2>1. pc[c] = "pp_claimed" /\ c \notin claimed /\ Holder = c
      BY <1>14 DEF PpClaimed, Flagged, FileOnly
    <2>2. /\ Claimers' = Claimers \cup {c} /\ SwapIn(c) /\ fmode' = fmode
          /\ Holder' = Holder /\ pc'[c] = "idle"
      BY <1>14 DEF PpClaimed, Goto, Claimers, port, Holder
    <2> QED BY <1>14, <2>1, <2>2 DEF Brackets, Enters, Transit, Claimers
  <1>15. CASE c \in Files /\ PpSetDirection(c)
    <2>1. ModesSame
      BY <1>15 DEF PpSetDirection, MayUse, ModesSame, Claimers, files
    <2>2. c \in Claimers => (pc'[c] \in Transit <=> pc[c] \in Transit)
      BY <1>15 DEF PpSetDirection, MayUse, Goto, Transit, Bytes, Claimers
    <2> QED BY <2>1, <2>2 DEF Brackets, Calm
  <1>16. CASE c \in Files /\ PpYield(c)
    <2>1. /\ pc[c] \notin Transit /\ c \in claimed /\ UNCHANGED <<coming, files, claimed>>
          /\ \E place \in Places : StartRelease(c, c, TRUE, place)
      BY <1>16 DEF PpYield, MayUse, Transit, Flagged, Places, Bytes
    <2> QED BY <2>1, ReleaseLends
  <1>17. CASE c \in Files /\ PpRelease(c)
    <2>1. /\ c \in Claimers /\ Claimers' = Claimers \ {c} /\ SwapOut(c)
          /\ fsaved' = fsaved /\ pc[c] \notin Transit /\ Holder = c
      BY <1>17 DEF PpRelease, MayUse, Claimers, Transit
    <2>2. Holder' = NoDev
      <3>1. coming = NoDev /\ coming' = NoDev /\ owner = c
        BY <1>17, <2>1 DEF PpRelease, StartRelease, Holder
      <3> QED BY <1>17, <3>1 DEF PpRelease, StartRelease, Holder
    <2> QED BY <2>1, <2>2 DEF Brackets, Quits
  <1>18. CASE c \in Files /\ PpRead(c)
    <2>1. ModesSame
      BY <1>18 DEF PpRead, MayUse, EppTransfer, ModesSame, Claimers, files
    <2>2. c \in Claimers => (pc'[c] \in Transit <=> pc[c] \in Transit)
      BY <1>18 DEF PpRead, MayUse, EppTransfer, Goto, Transit, Bytes, Claimers
    <2> QED BY <2>1, <2>2 DEF Brackets, Calm
  <1>19. CASE c \in Files /\ PpWrite(c)
    <2>1. ModesSame
      BY <1>19 DEF PpWrite, MayUse, EppTransfer, ModesSame, Claimers, files
    <2>2. c \in Claimers => (pc'[c] \in Transit <=> pc[c] \in Transit)
      BY <1>19 DEF PpWrite, MayUse, EppTransfer, Goto, Transit, Bytes, Claimers
    <2> QED BY <2>1, <2>2 DEF Brackets, Calm
  <1>20. CASE c \in Files /\ PpWriteEnd(c)
    <2>1. ModesSame
      BY <1>20 DEF PpWriteEnd, ModesSame, Claimers, files
    <2>2. c \in Claimers => (pc'[c] \in Transit <=> pc[c] \in Transit)
      BY <1>20 DEF PpWriteEnd, Goto, Transit, Bytes, Claimers
    <2> QED BY <2>1, <2>2 DEF Brackets, Calm
  <1>21. CASE c \in Files /\ PpClose(c)
    <2>1. CASE c \notin claimed
      <3>1. ModesSame /\ c \notin Claimers
        BY <1>21, <2>1 DEF PpClose, ModesSame, Claimers
      <3> QED BY <3>1 DEF Brackets, Calm
    <2>2. CASE c \in claimed
      <3>1. /\ c \in Claimers /\ Claimers' = Claimers \ {c} /\ SwapOut(c)
            /\ fsaved' = fsaved /\ pc[c] \notin Transit /\ Holder = c
        BY <1>21, <2>2 DEF PpClose, Claimers, Transit, Flagged
      <3>2. Holder' = NoDev
        <4>1. StartRelease(c, c, FALSE, "pp_unreg") /\ coming' = coming
          BY <1>21, <2>2 DEF PpClose, Flagged
        <4>2. coming = NoDev /\ owner = c
          BY <3>1, <4>1 DEF StartRelease, Holder
        <4> QED BY <4>1, <4>2 DEF StartRelease, Holder
      <3> QED BY <3>1, <3>2 DEF Brackets, Quits
    <2> QED BY <2>1, <2>2
  <1>22. CASE c \in Files /\ PpCloseClaimed(c)
    <2>1. c \notin claimed
      BY <1>22 DEF PpCloseClaimed, Flagged, FileOnly
    <2>2. ModesSame /\ c \notin Claimers
      BY <1>22, <2>1 DEF PpCloseClaimed, ModesSame, Claimers
    <2> QED BY <2>2 DEF Brackets, Calm
  <1>23. CASE c \in Files /\ PpUnregister(c)
    <2>1. c \notin claimed
      BY <1>23 DEF PpUnregister, Flagged, FileOnly
    <2>2. ModesSame /\ c \notin Claimers
      BY <1>23, <2>1 DEF PpUnregister, ModesSame, Claimers
    <2> QED BY <2>2 DEF Brackets, Calm
  <1>24. CASE c = Lp /\ LpOpen
    <2>1. ModesSame /\ c \notin Claimers
      BY <1>24 DEF LpOpen, LpClaim, ModesSame, Claimers, files
    <2> QED BY <2>1 DEF Brackets, Calm
  <1>25. CASE c = Lp /\ LpOpened
    <2>1. ModesSame /\ c \notin Claimers
      BY <1>25 DEF LpOpened, LpRelease, ModesSame, Claimers, files
    <2> QED BY <2>1 DEF Brackets, Calm
  <1>26. CASE c = Lp /\ LpWrite
    <2>1. ModesSame /\ c \notin Claimers
      BY <1>26 DEF LpWrite, LpClaim, ModesSame, Claimers, files
    <2> QED BY <2>1 DEF Brackets, Calm
  <1>27. CASE c = Lp /\ LpReady
    <2>1. ModesSame /\ c \notin Claimers
      BY <1>27 DEF LpReady, LpGoes, LpLend, ModesSame, Claimers, files
    <2> QED BY <2>1 DEF Brackets, Calm
  <1>28. CASE c = Lp /\ LpWriteEnd
    <2>1. ModesSame /\ c \notin Claimers
      BY <1>28 DEF LpWriteEnd, LpGoes, ModesSame, Claimers, files
    <2> QED BY <2>1 DEF Brackets, Calm
  <1>29. CASE c = Lp /\ LpAgain
    <2>1. ModesSame /\ c \notin Claimers
      BY <1>29 DEF LpAgain, LpGoes, LpLend, ModesSame, Claimers, files
    <2> QED BY <2>1 DEF Brackets, Calm
  <1>30. CASE c = Lp /\ LpHear
    <2>1. ModesSame /\ c \notin Claimers
      BY <1>30 DEF LpHear, ModesSame, Claimers, files
    <2> QED BY <2>1 DEF Brackets, Calm
  <1>31. CASE c = Lp /\ LpGive
    <2>1. ModesSame /\ c \notin Claimers
      BY <1>31 DEF LpGive, LpRelease, ModesSame, Claimers, files
    <2> QED BY <2>1 DEF Brackets, Calm
  <1>32. CASE c = Lp /\ LpClose
    <2>1. ModesSame /\ c \notin Claimers
      BY <1>32 DEF LpClose, LpClaim, ModesSame, Claimers, files
    <2> QED BY <2>1 DEF Brackets, Calm
  <1>33. CASE c = Lp /\ LpClosing
    <2>1. ModesSame /\ c \notin Claimers
      BY <1>33 DEF LpClosing, LpRelease, ModesSame, Claimers, files
    <2> QED BY <2>1 DEF Brackets, Calm
  <1>34. CASE GiveOwner(c)
    BY <1>34 DEF GiveOwner, ModesSame, Claimers, files, Brackets, Calm
  <1> QED BY <1>1, <1>2, <1>3, <1>4, <1>5, <1>6, <1>7, <1>8, <1>9, <1>10,
        <1>11, <1>12, <1>13, <1>14, <1>15, <1>16, <1>17, <1>18, <1>19, <1>20,
        <1>21, <1>22, <1>23, <1>24, <1>25, <1>26, <1>27, <1>28, <1>29, <1>30,
        <1>31, <1>32, <1>33, <1>34
     DEF Arbitration, CompatWrite, PpStep, LpStep

\* The modes as a stack of at most two files.
StackInv ==
    /\ \A f, g \in Files : Away(f) /\ Away(g) => f = g
    /\ \A f \in Claimers :
         /\ Holder = f => mode = fmode[f]
         /\ Away(f) => fsaved[f] = "COMPAT"
         /\ Away(f) /\ Holder \notin Claimers => mode = fmode[f]
         /\ ~Away(f) => \A g \in Files : Away(g) => fsaved[f] = fmode[g]
         /\ ~Away(f) /\ (\A g \in Files : ~Away(g)) => fsaved[f] = "COMPAT"
    /\ Claimers = {} => mode = "COMPAT"

\* ModeInv in terms of Claimers and Away.
LEMMA StackIsModes ==
    ASSUME \A c \in Clients : Flagged(c)
    PROVE  ModeInv <=> (~cut /\ ~mixed => StackInv)
  <1>1. \A f \in Files : Lends(f) <=> Away(f)
    BY LendsAway DEF Clients
  <1> QED BY <1>1 DEF ModeInv, StackInv, Claimers

\* Every bracket keeps the stack of modes.
LEMMA StackStep ==
    ASSUME TypeOK, ControlType, \A d \in Clients : Owns(d) /\ Flagged(d), StackInv,
           NEW c \in Clients, Frame(c), Moves(c), Brackets(c), ~mixed'
    PROVE  StackInv'
  <1>0. /\ NoDev \notin Files /\ Files \subseteq Clients /\ c # NoDev
        /\ Claimers \subseteq Files /\ Claimers' \subseteq Files
    BY ClientsAssumption DEF Clients, Claimers
  <1>1. \A f \in Files : f \in Claimers /\ ~Away(f) => Holder = f
    BY <1>0 DEF Owns, Away, Claimers
  <1>2. \A f \in Files \ {c} : pc'[f] = pc[f]
    BY <1>0 DEF Frame
  <1>3. CASE Calm(c)
    <2>1. \A f \in Files : Away(f)' <=> Away(f)
      BY <1>0, <1>2, <1>3 DEF Calm, ModesSame, Away
    <2>2. \/ Holder' = Holder
          \/ Holder = NoDev /\ Holder' \in Clients
          \/ Holder \notin Claimers /\ Holder' = NoDev
      <3>1. ASSUME NEW e \in Clients, e = c, Frees(c, e)
            PROVE  Holder \notin Claimers /\ Holder' = NoDev
        BY <1>3, <3>1 DEF Frees, Calm, Transit
      <3>2. Hands(c) => Head(queue) \in Clients
        BY Served DEF Hands, TypeOK
      <3>3. Leaves(c) => Holder' = Holder
        BY DEF Leaves, Outside, Holder
      <3>4. (\E e \in Clients :
                e = c /\ (Takes(c, e) \/ Blocks(c, e) \/ Frees(c, e)))
            => \/ Holder' = Holder
               \/ Holder = NoDev /\ Holder' \in Clients
               \/ Holder \notin Claimers /\ Holder' = NoDev
        BY <3>1 DEF Takes, Blocks
      <3>5. CASE Hands(c)
        BY <3>2, <3>5 DEF Hands
      <3>6. Owns(c)
        OBVIOUS
      <3>7. \/ Stays(c) \/ Hands(c) \/ Leaves(c)
            \/ \E e \in Clients :
                 e = c /\ (Takes(c, e) \/ Blocks(c, e) \/ Frees(c, e))
        BY <3>6 DEF Moves
      <3> QED
        BY <3>3, <3>4, <3>5, <3>7 DEF Stays
    <2>3. ModesSame
      BY <1>3 DEF Calm
    <2>4. /\ \A f, g \in Files : Away(f)' /\ Away(g)' => f = g
          /\ Claimers' = {} => mode' = "COMPAT"
      BY <2>1, <2>3 DEF StackInv, ModesSame
    <2>5. ASSUME NEW f \in Claimers, Holder' = f PROVE mode' = fmode'[f]
      BY <1>0, <1>1, <2>2, <2>3, <2>5 DEF StackInv, ModesSame
    <2>6. ASSUME NEW f \in Claimers, Away(f)
          PROVE  /\ fsaved'[f] = "COMPAT"
                 /\ Holder' \notin Claimers => mode' = fmode'[f]
      BY <1>0, <2>2, <2>3, <2>6 DEF StackInv, ModesSame
    <2>7. ASSUME NEW f \in Claimers, ~Away(f)
          PROVE  /\ \A g \in Files : Away(g) => fsaved'[f] = fmode'[g]
                 /\ (\A g \in Files : ~Away(g)) => fsaved'[f] = "COMPAT"
      BY <1>0, <2>3, <2>7 DEF StackInv, ModesSame, Away
    <2> QED BY <1>0, <2>1, <2>3, <2>4, <2>5, <2>6, <2>7 DEF StackInv, ModesSame
  <1>4. CASE Back(c)
    <2>1. ModesSame /\ c \in Claimers /\ Away(c) /\ ~Away(c)' /\ Holder' = c
          /\ Holder \in {c, NoDev}
      BY <1>4 DEF Back, Away, ModesSame
    <2>2. \A f \in Files \ {c} : ~Away(f) /\ ~Away(f)' /\ f \notin Claimers
      BY <1>0, <1>1, <1>2, <2>1 DEF StackInv, Away, ModesSame
    <2>3. mode = fmode[c] /\ fsaved[c] = "COMPAT"
      BY <1>0, <2>1 DEF StackInv
    <2> QED BY <1>0, <2>1, <2>2, <2>3 DEF StackInv, ModesSame
  <1>5. CASE Lent(c)
    <2>1. /\ ModesSame /\ c \in Claimers /\ ~Away(c) /\ Away(c)'
          /\ Holder' = NoDev /\ Holder = c
      BY <1>5 DEF Lent, Away, ModesSame
    <2>2. \A f \in Files \ {c} : ~Away(f) /\ ~Away(f)' /\ f \notin Claimers
      BY <1>0, <1>1, <1>2, <1>5, <2>1, LendsAway DEF Lent, Away, ModesSame
    <2>3. mode = fmode[c] /\ fsaved[c] = "COMPAT"
      BY <1>0, <2>1, <2>2 DEF StackInv
    <2> QED BY <1>0, <2>1, <2>2, <2>3 DEF StackInv, ModesSame
  <1>6. CASE Sets(c)
    <2>1. \A f \in Files : ~Away(c) /\ (Away(f)' <=> Away(f))
      BY <1>0, <1>2, <1>6 DEF Sets, Away
    <2>2. /\ \A f \in Files \ {c} : fmode'[f] = fmode[f]
          /\ c \in Claimers => fmode'[c] = mode'
          /\ c \notin Claimers => mode' = mode
          /\ c \in Files
      BY <1>6 DEF Sets, ControlType
    <2>3. Claimers' = Claimers /\ fsaved' = fsaved /\ Holder' = Holder
      BY <1>6 DEF Sets
    <2>4. c \in Claimers => Holder = c
      BY <1>1, <2>1, <2>2
    <2> QED BY <1>0, <1>1, <2>1, <2>2, <2>3, <2>4 DEF StackInv
  <1>7. CASE Enters(c)
    <2>1. \A f \in Files : ~Away(c)' /\ (Away(f)' <=> Away(f))
      BY <1>0, <1>2, <1>7 DEF Enters, Away
    <2>2. /\ fsaved'[c] = mode /\ mode' = fmode[c] /\ fmode' = fmode
          /\ \A f \in Files \ {c} : fsaved'[f] = fsaved[f]
          /\ Holder = c /\ Holder' = c /\ c \in Files \ Claimers
          /\ Claimers' = Claimers \cup {c}
      BY <1>7 DEF Enters, SwapIn, ControlType
    <2>3. \A f \in Claimers : Away(f)
      BY <1>0, <1>1, <2>2
    <2> QED BY <1>0, <2>1, <2>2, <2>3 DEF StackInv, Away
  <1>8. CASE Quits(c)
    <2>1. /\ \A f \in Files \ {c} : Away(f)' <=> Away(f)
          /\ ~Away(c) /\ ~Away(c)'
      BY <1>0, <1>2, <1>8 DEF Quits, Away
    <2>2. /\ fsaved' = fsaved /\ mode' = fsaved[c]
          /\ \A f \in Files \ {c} : fmode'[f] = fmode[f]
          /\ Holder = c /\ Holder' = NoDev /\ c \in Claimers
          /\ Claimers' = Claimers \ {c}
      BY <1>8 DEF Quits, SwapOut, ControlType
    <2>3. \A f \in Claimers \ {c} : Away(f)
      BY <1>0, <1>1, <2>2
    <2> QED BY <1>0, <2>1, <2>2, <2>3 DEF StackInv, Away
  <1> QED BY <1>3, <1>4, <1>5, <1>6, <1>7, <1>8 DEF Brackets

----------------------------------------------------------------------------
(* What a step does to the requests: nothing, the printer hears them, a     *)
(* claim gets the port, a release, the hand-over, an unregistration, or a   *)
(* claim that is refused.                                                   *)

Silent(c) == /\ UNCHANGED <<Holder, queue, asked, preempt>>
             /\ Serving(c) => Serving(c)' \/ queue = <<>>
             /\ pc[c] # "lp_give"
Hears(c) == /\ UNCHANGED <<Holder, queue, asked>> /\ c = Lp
            /\ pc[c] = "lp_hear" /\ (preempt => pc'[c] = "lp_give")
Asks(c, e) == /\ Holder # NoDev /\ Holder # e /\ Holder' = Holder
              /\ \/ queue' = queue /\ e \in ToSet(queue)
                 \/ queue' = Append(queue, e) /\ e \notin ToSet(queue)
              /\ Holder = Lp => preempt'
              /\ asked' = IF Holder = Lp THEN asked \cup {e} ELSE asked \ {e}
Gains(c) == Takes(c, c) /\ asked' = asked \ {c} /\ UNCHANGED preempt
Loses(c) == Holder' = NoDev /\ UNCHANGED <<queue, asked>>
Serves(c) == Hands(c) /\ asked' = asked \ {Head(queue)}
Forgoes(c) == Leaves(c) /\ asked' = asked \ {c} /\ UNCHANGED preempt

Requests(c) == \/ Silent(c) \/ Hears(c) \/ Gains(c)
               \/ Loses(c) \/ Serves(c) \/ Forgoes(c)
               \/ \E e \in Clients : Asks(c, e)

\* A release of the own device, for the requests.
LEMMA ReleaseLoses ==
    ASSUME NEW c \in Clients, NEW reclaim, NEW place, Holder = c,
           StartRelease(c, c, reclaim, place), UNCHANGED <<coming, queue, asked>>
    PROVE  Requests(c)
  <1>1. Holder' = NoDev
    BY DEF StartRelease, Holder
  <1> QED BY <1>1 DEF Requests, Loses

\* Every step leaves the requests alone or is one of these.
LEMMA RequestsMade ==
    ASSUME TypeOK, ControlType, PlaceInv, FlagInv, LockInv,
           \A d \in Clients : Owns(d), NEW c \in Clients,
           \/ Arbitration(c) \/ CompatWrite(c)
           \/ c \in Files /\ PpStep(c)
           \/ c = Lp /\ LpStep
    PROVE  Requests(c)
  <1> USE ClientsAssumption DEF ControlType, PlaceInv, FlagInv, Owns
  <1>0. owner # NoDev => Holder = owner
    BY LockFacts
  <1>1. CASE Claim(c)
    <2>0. c # NoDev
      BY DEF Clients
    <2>1. /\ pc[c] = "claim" /\ job[c].dev = c /\ ~Serving(c)
      BY <1>1 DEF Claim, Transit, Serving
    <2>2. CASE owner = c
      <3>1. UNCHANGED <<owner, coming, queue, asked, preempt>>
        BY <1>1, <2>0, <2>1, <2>2 DEF Claim
      <3> QED BY <2>1, <3>1 DEF Requests, Silent, Holder
    <2>3. CASE owner = NoDev
      <3>1. /\ c \notin ToSet(queue) /\ GiveTo(c, queue)
            /\ Return(c, job[c].then)
        BY <1>1, <2>0, <2>1, <2>3 DEF Claim
      <3>2. pc'[c] = job[c].then /\ pc'[c] # "give"
        BY <2>1, <3>1 DEF Return, Goto, Placed, Returns, Claiming, Transit
      <3>3. coming = NoDev /\ coming' = NoDev /\ owner' = c
        BY <1>1, <2>0, <2>1, <2>3 DEF Claim, GiveTo
      <3> QED BY <2>1, <2>3, <3>1, <3>2, <3>3
              DEF Requests, Gains, Takes, GiveTo, Alone, Holder
    <2>4. CASE owner \notin {NoDev, c}
      <3>1. c \notin ToSet(queue) /\ Refuse(c) /\ coming = NoDev
        BY <1>1, <2>0, <2>1, <2>4 DEF Claim
      <3>2. Asks(c, c)
        BY <2>4, <3>1 DEF Asks, Refuse, Holder
      <3> QED BY <3>2 DEF Requests
    <2> QED BY <2>2, <2>3, <2>4
  <1>2. CASE Woken(c)
    <2>1. UNCHANGED <<owner, coming, queue, asked, preempt>>
      BY <1>2 DEF Woken, port
    <2>2. ~Serving(c) /\ pc[c] # "lp_give"
      BY <1>2 DEF Woken, Bytes, Serving
    <2> QED BY <2>1, <2>2 DEF Requests, Silent, Holder
  <1>3. CASE Interrupted(c)
    <2>1. UNCHANGED <<owner, coming, queue, asked, preempt>>
      BY <1>3 DEF Interrupted, port
    <2>2. ~Serving(c) /\ pc[c] # "lp_give"
      BY <1>3 DEF Interrupted, Bytes, Serving
    <2> QED BY <2>1, <2>2 DEF Requests, Silent, Holder
  <1>4. CASE Save(c)
    <2>1. UNCHANGED <<owner, coming, queue, asked, preempt>>
      BY <1>4 DEF Save
    <2>2. Serving(c)' /\ pc[c] = "save"
      BY <1>4 DEF Save, Goto, Serving
    <2> QED BY <2>1, <2>2 DEF Requests, Silent, Holder
  <1>5. CASE Hand(c)
    <2>1. pc[c] = "hand" /\ pc'[c] # "save"
      <3>1. pc[c] = "hand" /\ job[c].then # "save"
        BY <1>5 DEF Hand, Placed, Transit, Returns, Claiming
      <3>2. Goto(c, "claim") \/ Goto(c, job[c].then) \/ Goto(c, "give")
        BY <1>5, LeaveGoes DEF Return
      <3> QED BY <3>1, <3>2 DEF Goto
    <2>2. CASE queue = <<>>
      BY <1>5, <2>1, <2>2 DEF Hand, Requests, Silent, Holder
    <2>3. CASE queue # <<>>
      <3>1. PICK h \in Clients : h = Head(queue) /\ h \in ToSet(queue)
        BY <2>3, Served DEF TypeOK
      <3>2. owner # h /\ h # NoDev
        BY <1>0, <3>1 DEF Clients
      <3>3. CASE owner = NoDev
        <4>1. coming = NoDev
          BY <1>5, <2>3, <3>1, <3>2, <3>3 DEF Hand
        <4>2. CASE GiveTo(h, Tail(queue)) /\ Leave(c)
          <5>1. pc'[c] # "give"
            BY <2>1, <4>2, LeaveEnds
          <5>2. Serves(c)
            BY <2>1, <2>3, <3>1, <3>3, <4>1, <4>2, <5>1
               DEF GiveTo, Serves, Hands, Alone, Holder
          <5> QED BY <5>2 DEF Requests
        <4>3. CASE /\ StartGive(h, Tail(queue)) /\ Goto(c, "give")
                   /\ "smp" \in uses
          <5>1. pc'[c] = "give"
            BY <4>3 DEF Goto
          <5>2. Serves(c)
            BY <2>1, <2>3, <3>1, <3>2, <3>3, <4>1, <4>3, <5>1
               DEF StartGive, Serves, Hands, Holder
          <5> QED BY <5>2 DEF Requests
        <4> QED BY <1>5, <2>3, <3>1, <3>2, <3>3, <4>2, <4>3 DEF Hand
      <3>4. CASE owner # NoDev
        <4>1. Refuse(h) /\ coming = NoDev
          BY <1>5, <2>3, <3>1, <3>2, <3>4 DEF Hand
        <4>2. Asks(c, h)
          BY <3>1, <3>2, <3>4, <4>1 DEF Asks, Refuse, Holder
        <4> QED BY <4>2 DEF Requests
      <3> QED BY <3>3, <3>4
    <2> QED BY <2>2, <2>3
  <1>6. CASE WriteStart(c)
    <2>1. UNCHANGED <<owner, coming, queue, asked, preempt>>
      BY <1>6 DEF WriteStart, port
    <2>2. ~Serving(c) /\ pc[c] # "lp_give"
      BY <1>6 DEF WriteStart, Bytes, Serving
    <2> QED BY <2>1, <2>2 DEF Requests, Silent, Holder
  <1>7. CASE ByteDies(c)
    <2>1. UNCHANGED <<owner, coming, queue, asked, preempt>>
      BY <1>7 DEF ByteDies, port
    <2>2. ~Serving(c) /\ pc[c] # "lp_give"
      BY <1>7 DEF ByteDies, Bytes, Serving
    <2> QED BY <2>1, <2>2 DEF Requests, Silent, Holder
  <1>8. CASE ByteOut(c)
    <2>1. UNCHANGED <<owner, coming, queue, asked, preempt>>
      BY <1>8 DEF ByteOut, port
    <2>2. ~Serving(c) /\ pc[c] # "lp_give"
      BY <1>8 DEF ByteOut, Bytes, Serving
    <2> QED BY <2>1, <2>2 DEF Requests, Silent, Holder
  <1>9. CASE ByteYield(c)
    <2>1. Holder = c /\ wdev[c] = c /\ UNCHANGED <<coming, queue, asked>>
      BY <1>9 DEF ByteYield, Transit, Flagged, Bytes, Writing
    <2>2. StartRelease(c, c, TRUE, "byte")
      BY <1>9, <2>1 DEF ByteYield
    <2> QED BY <2>1, <2>2, ReleaseLoses
  <1>10. CASE ByteBusy(c)
    <2>1. Holder = c /\ wdev[c] = c /\ UNCHANGED <<coming, queue, asked>>
      BY <1>10 DEF ByteBusy, Transit, Flagged, Bytes, Writing
    <2>2. StartRelease(c, c, TRUE, "byte_again")
      BY <1>10, <2>1 DEF ByteBusy
    <2> QED BY <2>1, <2>2, ReleaseLoses
  <1>11. CASE c \in Files /\ PpOpen(c)
    <2>1. UNCHANGED <<owner, coming, queue, asked, preempt>>
      BY <1>11 DEF PpOpen, port
    <2>2. ~Serving(c) /\ pc[c] # "lp_give"
      BY <1>11 DEF PpOpen, Bytes, Serving
    <2> QED BY <2>1, <2>2 DEF Requests, Silent, Holder
  <1>12. CASE c \in Files /\ PpSetMode(c)
    <2>1. UNCHANGED <<owner, coming, queue, asked, preempt>>
      BY <1>12 DEF PpSetMode, port
    <2>2. ~Serving(c) /\ pc[c] # "lp_give"
      BY <1>12 DEF PpSetMode, Bytes, Serving
    <2> QED BY <2>1, <2>2 DEF Requests, Silent, Holder
  <1>13. CASE c \in Files /\ PpClaim(c)
    <2>1. UNCHANGED <<owner, coming, queue, asked, preempt>>
      BY <1>13 DEF PpClaim, port
    <2>2. ~Serving(c) /\ pc[c] # "lp_give"
      BY <1>13 DEF PpClaim, Bytes, Serving
    <2> QED BY <2>1, <2>2 DEF Requests, Silent, Holder
  <1>14. CASE c \in Files /\ PpClaimed(c)
    <2>1. UNCHANGED <<owner, coming, queue, asked, preempt>>
      BY <1>14 DEF PpClaimed, port
    <2>2. ~Serving(c) /\ pc[c] # "lp_give"
      BY <1>14 DEF PpClaimed, Bytes, Serving
    <2> QED BY <2>1, <2>2 DEF Requests, Silent, Holder
  <1>15. CASE c \in Files /\ PpSetDirection(c)
    <2>1. UNCHANGED <<owner, coming, queue, asked, preempt>>
      BY <1>15 DEF PpSetDirection, MayUse, port
    <2>2. ~Serving(c) /\ pc[c] # "lp_give"
      BY <1>15 DEF PpSetDirection, MayUse, Bytes, Serving
    <2> QED BY <2>1, <2>2 DEF Requests, Silent, Holder
  <1>16. CASE c \in Files /\ PpYield(c)
    <2>1. /\ Holder = c /\ UNCHANGED <<coming, queue, asked>>
          /\ \E reclaim, place : StartRelease(c, c, reclaim, place)
      BY <1>16 DEF PpYield, MayUse, Flagged, Transit
    <2> QED BY <2>1, ReleaseLoses
  <1>17. CASE c \in Files /\ PpRelease(c)
    <2>1. /\ Holder = c /\ UNCHANGED <<coming, queue, asked>>
          /\ \E reclaim, place : StartRelease(c, c, reclaim, place)
      BY <1>17 DEF PpRelease, MayUse, Flagged, Transit
    <2> QED BY <2>1, ReleaseLoses
  <1>18. CASE c \in Files /\ PpRead(c)
    <2>1. UNCHANGED <<owner, coming, queue, asked, preempt>>
      BY <1>18 DEF PpRead, MayUse, EppTransfer, port
    <2>2. ~Serving(c) /\ pc[c] # "lp_give"
      BY <1>18 DEF PpRead, MayUse, EppTransfer, Bytes, Serving
    <2> QED BY <2>1, <2>2 DEF Requests, Silent, Holder
  <1>19. CASE c \in Files /\ PpWrite(c)
    <2>1. UNCHANGED <<owner, coming, queue, asked, preempt>>
      BY <1>19 DEF PpWrite, MayUse, EppTransfer, port
    <2>2. ~Serving(c) /\ pc[c] # "lp_give"
      BY <1>19 DEF PpWrite, MayUse, EppTransfer, Bytes, Serving
    <2> QED BY <2>1, <2>2 DEF Requests, Silent, Holder
  <1>20. CASE c \in Files /\ PpWriteEnd(c)
    <2>1. UNCHANGED <<owner, coming, queue, asked, preempt>>
      BY <1>20 DEF PpWriteEnd, port
    <2>2. ~Serving(c) /\ pc[c] # "lp_give"
      BY <1>20 DEF PpWriteEnd, Bytes, Serving
    <2> QED BY <2>1, <2>2 DEF Requests, Silent, Holder
  <1>21. CASE c \in Files /\ PpClose(c)
    <2>1. CASE c \notin claimed
      BY <1>21, <2>1 DEF PpClose, Requests, Silent, Serving, Holder
    <2>2. CASE c \in claimed
      <3>1. /\ Holder = c /\ UNCHANGED <<coming, queue, asked>>
            /\ StartRelease(c, c, FALSE, "pp_unreg")
        BY <1>21, <2>2 DEF PpClose, Transit, Flagged
      <3> QED BY <3>1, ReleaseLoses
    <2> QED BY <2>1, <2>2
  <1>22. CASE c \in Files /\ PpCloseClaimed(c)
    <2>1. /\ Holder = c /\ UNCHANGED <<coming, queue, asked>>
          /\ \E reclaim, place : StartRelease(c, c, reclaim, place)
      BY <1>22 DEF PpCloseClaimed, Flagged, Transit
    <2> QED BY <2>1, ReleaseLoses
  <1>23. CASE c \in Files /\ PpUnregister(c)
    <2>1. CASE owner = c
      <3>1. /\ UNCHANGED <<coming, queue, asked>>
            /\ StartRelease(c, c, FALSE, "pp_unreg")
        BY <1>23, <2>1 DEF PpUnregister
      <3>2. Holder = c
        BY <2>1, <3>1 DEF StartRelease, Holder
      <3> QED BY <3>1, <3>2, ReleaseLoses
    <2>2. CASE owner # c
      <3>1. /\ pc[c] = "pp_unreg" /\ pc'[c] = "closed" /\ c \in Files
            /\ UNCHANGED <<owner, coming, preempt>>
            /\ queue' = Unlisted(c) /\ asked' = asked \ {c}
        <4>1. /\ pc[c] = "pp_unreg" /\ c \in Files
              /\ UNCHANGED <<coming, preempt>>
          BY <1>23 DEF PpUnregister
        <4>2. /\ Goto(c, "closed") /\ owner' = owner
              /\ queue' = Unlisted(c) /\ asked' = asked \ {c}
          BY <1>23, <2>2 DEF PpUnregister
        <4> QED BY <4>1, <4>2 DEF Goto
      <3>2. Forgoes(c)
        BY <2>2, <3>1 DEF Forgoes, Leaves, Outside
      <3> QED BY <3>2 DEF Requests
    <2> QED BY <2>1, <2>2
  <1>24. CASE c = Lp /\ LpOpen
    <2>1. UNCHANGED <<owner, coming, queue, asked, preempt>>
      BY <1>24 DEF LpOpen, LpClaim, port
    <2>2. ~Serving(c) /\ pc[c] # "lp_give"
      BY <1>24 DEF LpOpen, LpClaim, Bytes, Serving
    <2> QED BY <2>1, <2>2 DEF Requests, Silent, Holder
  <1>25. CASE c = Lp /\ LpOpened
    <2>1. /\ Holder = c /\ UNCHANGED <<coming, queue, asked>>
          /\ \E reclaim, place : StartRelease(c, c, reclaim, place)
      BY <1>25 DEF LpOpened, LpRelease, LpOnly, Flagged, Transit
    <2> QED BY <2>1, ReleaseLoses
  <1>26. CASE c = Lp /\ LpWrite
    <2>1. UNCHANGED <<owner, coming, queue, asked, preempt>>
      BY <1>26 DEF LpWrite, LpClaim, port
    <2>2. ~Serving(c) /\ pc[c] # "lp_give"
      BY <1>26 DEF LpWrite, LpClaim, Bytes, Serving
    <2> QED BY <2>1, <2>2 DEF Requests, Silent, Holder
  <1>27. CASE c = Lp /\ LpReady
    <2>1. pc[c] # "lp_give" /\ ~Serving(c) /\ Holder = c
      BY <1>27 DEF LpReady, Serving, Flagged, LpOnly, Transit
    <2>2. CASE \E place : LpGoes(place)
      BY <2>1, <2>2 DEF LpGoes, port, Requests, Silent, Holder
    <2>3. CASE \E place : LpLend(place)
      <3>1. /\ UNCHANGED <<coming, queue, asked>>
            /\ \E place : StartRelease(c, c, TRUE, place)
        BY <1>27, <2>3 DEF LpLend
      <3> QED BY <2>1, <3>1, ReleaseLoses
    <2> QED BY <1>27, <2>2, <2>3 DEF LpReady
  <1>28. CASE c = Lp /\ LpWriteEnd
    <2>1. UNCHANGED <<owner, coming, queue, asked, preempt>>
      BY <1>28 DEF LpWriteEnd, LpGoes, port
    <2>2. ~Serving(c) /\ pc[c] # "lp_give"
      BY <1>28 DEF LpWriteEnd, LpGoes, Bytes, Serving
    <2> QED BY <2>1, <2>2 DEF Requests, Silent, Holder
  <1>29. CASE c = Lp /\ LpAgain
    <2>1. pc[c] # "lp_give" /\ ~Serving(c) /\ Holder = c
      BY <1>29 DEF LpAgain, Serving, Flagged, LpOnly, Transit
    <2>2. CASE \E place : LpGoes(place)
      BY <2>1, <2>2 DEF LpGoes, port, Requests, Silent, Holder
    <2>3. CASE \E place : LpLend(place)
      <3>1. /\ UNCHANGED <<coming, queue, asked>>
            /\ \E place : StartRelease(c, c, TRUE, place)
        BY <1>29, <2>3 DEF LpLend
      <3> QED BY <2>1, <3>1, ReleaseLoses
    <2> QED BY <1>29, <2>2, <2>3 DEF LpAgain
  <1>30. CASE c = Lp /\ LpHear
    BY <1>30 DEF LpHear, Goto, port, Requests, Hears, Holder
  <1>31. CASE c = Lp /\ LpGive
    <2>1. /\ Holder = c /\ UNCHANGED <<coming, queue, asked>>
          /\ \E reclaim, place : StartRelease(c, c, reclaim, place)
      BY <1>31 DEF LpGive, LpRelease, LpOnly, Flagged, Transit
    <2> QED BY <2>1, ReleaseLoses
  <1>32. CASE c = Lp /\ LpClose
    <2>1. UNCHANGED <<owner, coming, queue, asked, preempt>>
      BY <1>32 DEF LpClose, LpClaim, port
    <2>2. ~Serving(c) /\ pc[c] # "lp_give"
      BY <1>32 DEF LpClose, LpClaim, Bytes, Serving
    <2> QED BY <2>1, <2>2 DEF Requests, Silent, Holder
  <1>33. CASE c = Lp /\ LpClosing
    <2>1. /\ Holder = c /\ UNCHANGED <<coming, queue, asked>>
          /\ \E reclaim, place : StartRelease(c, c, reclaim, place)
      BY <1>33 DEF LpClosing, LpRelease, LpOnly, Flagged, Transit
    <2> QED BY <2>1, ReleaseLoses
  <1>34. CASE GiveOwner(c) \/ GiveRegisters(c)
    <2>1. /\ pc[c] = "give" /\ UNCHANGED <<queue, asked, preempt>>
          /\ owner' \in {owner, coming} /\ coming' \in {coming, NoDev}
      BY <1>34 DEF GiveOwner, GiveRegisters
    <2>2. Holder' = Holder
      BY <1>34, <2>1 DEF GiveOwner, GiveRegisters, Holder, LockInv
    <2> QED BY <2>1, <2>2 DEF Requests, Silent, Serving
  <1> QED BY <1>1, <1>2, <1>3, <1>4, <1>5, <1>6, <1>7, <1>8, <1>9, <1>10,
        <1>11, <1>12, <1>13, <1>14, <1>15, <1>16, <1>17, <1>18, <1>19, <1>20,
        <1>21, <1>22, <1>23, <1>24, <1>25, <1>26, <1>27, <1>28, <1>29, <1>30,
        <1>31, <1>32, <1>33, <1>34
     DEF Arbitration, CompatWrite, PpStep, LpStep

\* Nobody behind the printer has asked it.
Behind(q, a) == \A i, j \in DOMAIN q : i < j /\ q[i] = Lp => q[j] \notin a

\* Every move keeps the requests to the printer.
LEMMA AskedStep ==
    ASSUME TypeOK, ControlType, \A d \in Clients : Owns(d), HandOverInv,
           Behind(queue, asked), ~cut, LpHearsAskers,
           NEW c \in Clients, Frame(c), Requests(c)
    PROVE  Behind(queue', asked') /\ LpHearsAskers'
  <1>0. /\ queue \in Seq(Clients) /\ IsInjective(queue) /\ Lp \in Clients
        /\ NoDev \notin Clients
    BY ClientsAssumption DEF TypeOK, Clients
  <1>a. Holder = Lp => \A i \in DOMAIN queue : queue[i] # Lp
    BY <1>0, Members DEF Owns
  <1>b. \A r \in Clients \ {c} : Serving(r) => Serving(r)'
    BY DEF Frame, Serving
  <1>c. Lp # c => (pc[Lp] = "lp_give" => pc'[Lp] = "lp_give")
    BY <1>0 DEF Frame
  <1>1. CASE Silent(c)
    <2>1. queue = <<>> => asked \cap ToSet(queue) = {}
      <3>1. /\ queue = <<>> <=> Len(queue) = 0
            /\ \A e : e \in ToSet(queue) <=> \E i \in 1 .. Len(queue) : queue[i] = e
        BY <1>0, Members
      <3>2. queue = <<>> => \A e : e \notin ToSet(queue)
        BY <3>1
      <3> QED BY <3>2
    <2> QED BY <1>b, <1>c, <1>1, <2>1 DEF Silent, Behind, LpHearsAskers, Serving
  <1>2. CASE Hears(c)
    BY <1>b, <1>c, <1>2 DEF Hears, Behind, LpHearsAskers, Serving
  <1>3. CASE Gains(c)
    <2>1. Holder = NoDev /\ Holder' = c /\ queue' = queue /\ asked' = asked \ {c}
          /\ pc[c] = "claim"
      BY <1>3 DEF Gains, Takes
    <2>2. ASSUME asked' \cap ToSet(queue) # {}
          PROVE  \E r \in Clients : Serving(r)'
      <3>1. queue # <<>>
        BY <1>0, <2>2, Members
      <3>2. PICK r \in Clients : Serving(r)
        BY <2>1, <3>1 DEF HandOverInv
      <3>3. r # c
        BY <2>1, <3>2 DEF Serving
      <3> QED BY <1>b, <3>2, <3>3
    <2> QED BY <2>1, <2>2 DEF Behind, LpHearsAskers, Serving
  <1>4. CASE Loses(c)
    BY <1>0, <1>4 DEF Loses, Behind, LpHearsAskers
  <1>5. CASE Serves(c)
    <2>0. queue # <<>>
      BY <1>5 DEF Serves, Hands
    <2>1. PICK h \in Clients, p \in Seq(Clients) :
             /\ h = Head(queue) /\ p = Tail(queue)
             /\ IsInjective(p) /\ ToSet(p) = ToSet(queue) \ {h}
             /\ h \in ToSet(queue)
             /\ KeepsOrder(p, queue) /\ Follows(p, h, queue)
      BY <1>0, <2>0, Served
    <2>2. Holder' = h /\ queue' = p /\ asked' = asked \ {h}
      BY <1>5, <2>1 DEF Serves, Hands
    <2>3. Behind(p, asked \ {h})
      BY <2>1 DEF Behind, KeepsOrder
    <2>4. h = Lp => asked \cap ToSet(p) = {}
      BY <2>1 DEF Behind, Follows
    <2> QED BY <2>2, <2>3, <2>4 DEF LpHearsAskers
  <1>6. CASE Forgoes(c)
    <2>1. /\ Holder' = Holder /\ queue' = Unlisted(c) /\ asked' = asked \ {c}
          /\ preempt' = preempt /\ pc[c] = "pp_unreg"
      BY <1>6 DEF Forgoes, Leaves, Outside, Holder
    <2>2. Behind(queue', asked') /\ ToSet(queue') \subseteq ToSet(queue)
      <3>1. CASE c \in ToSet(queue)
        <4>1. PICK r \in Seq(Clients) :
                 /\ r = RemoveAt(queue, CHOOSE i \in DOMAIN queue : queue[i] = c)
                 /\ IsInjective(r) /\ ToSet(r) = ToSet(queue) \ {c}
                 /\ KeepsOrder(r, queue)
          BY <1>0, <3>1, Removed
        <4>2. queue' = r
          BY <2>1, <3>1, <4>1 DEF Unlisted
        <4>3. Behind(r, asked \ {c})
          BY <4>1 DEF Behind, KeepsOrder
        <4> QED BY <2>1, <4>1, <4>2, <4>3
      <3>2. CASE c \notin ToSet(queue)
        BY <2>1, <3>2 DEF Unlisted, Behind
      <3> QED BY <3>1, <3>2
    <2> QED BY <1>b, <1>c, <2>1, <2>2 DEF LpHearsAskers, Serving
  <1>7. ASSUME NEW e \in Clients, Asks(c, e)
        PROVE  Behind(queue', asked') /\ LpHearsAskers'
    <2>1. LpHearsAskers'
      BY <1>7 DEF Asks, LpHearsAskers
    <2>2. CASE queue' = queue
      <3>1. CASE Holder = Lp
        BY <1>a, <2>1, <2>2, <3>1 DEF Behind
      <3>2. CASE Holder # Lp
        <4>1. asked' \subseteq asked
          BY <1>7, <3>2 DEF Asks
        <4> QED BY <2>1, <2>2, <4>1 DEF Behind
      <3> QED BY <2>1, <3>1, <3>2
    <2>3. CASE queue' = Append(queue, e) /\ e \notin ToSet(queue)
      <3>1. PICK p \in Seq(Clients) :
               /\ p = Append(queue, e)
               /\ \A i, j \in DOMAIN p : i < j =>
                    /\ i \in DOMAIN queue /\ p[i] = queue[i]
                    /\ \/ j \in DOMAIN queue /\ p[j] = queue[j]
                       \/ p[j] = e
        BY <1>0, <2>3, Appended
      <3>2. queue' = p
        BY <2>3, <3>1
      <3>3. CASE Holder = Lp
        <4>1. \A i, j \in DOMAIN p : i < j => p[i] # Lp
          BY <1>a, <3>1, <3>3
        <4> QED BY <2>1, <3>2, <4>1 DEF Behind
      <3>4. CASE Holder # Lp
        <4>1. asked' = asked \ {e}
          BY <1>7, <3>4 DEF Asks
        <4>2. Behind(p, asked \ {e})
          BY <3>1 DEF Behind
        <4> QED BY <2>1, <3>2, <4>1, <4>2
      <3> QED BY <3>3, <3>4
    <2> QED BY <1>7, <2>1, <2>2, <2>3 DEF Asks
  <1> QED BY <1>1, <1>2, <1>3, <1>4, <1>5, <1>6, <1>7 DEF Requests

----------------------------------------------------------------------------
(* The theorems *)

\* Every step of a client keeps the inductive invariant.
LEMMA ClientStep ==
    ASSUME IInv, NEW c \in Clients,
           \/ Arbitration(c) \/ CompatWrite(c)
           \/ c \in Files /\ PpStep(c)
           \/ c = Lp /\ LpStep
    PROVE  IInv'
  <1>1. /\ TypeOK /\ PlaceInv /\ FlagInv /\ LockInv /\ HandOverInv /\ OwnInv
        /\ SavedInv /\ ModeInv /\ AskedInv /\ ControlType
    BY TypeParts DEF IInv
  <1>2. Frame(c)
    BY <1>1, StepFrame
  <1>3. Moves(c)
    BY <1>1, PortMoves
  <1>4. TypeOK'
    BY <1>1, TypeStep
  <1>5. PlaceInv' /\ FlagInv'
    <2>1. Placed(c)'
      BY <1>1, PlacedStep
    <2>2. Flagged(c)'
      BY <1>1, FlaggedStep
    <2> QED BY <1>1, <1>2, <2>1, <2>2, PlaceStep
  <1>6. HandOverInv'
    BY <1>1, <1>2, <1>3, <1>4, HandOverStep DEF TypeOK
  <1>12. LockInv'
    BY <1>1, <1>2, <1>3, LockStep
  <1>7. (cut' = FALSE => ~cut) /\ (~cut' => ~cut) /\ (~mixed' => ~mixed)
    BY <1>1, NotedStep DEF TypeOK, RegisterType
  <1>8. OwnInv'
    <2>1. SUFFICES ASSUME ~cut', NEW d \in Clients PROVE Owns(d)'
      BY DEF OwnInv
    <2>2. \A e \in Clients : Owns(e)
      BY <1>1, <1>7, <2>1 DEF OwnInv
    <2>3. CASE d = c
      <3>1. Owns(c)'
        BY <1>1, <1>3, <2>1, <2>2, OwnStep
      <3> QED BY <2>3, <3>1
    <2>4. CASE d # c
      BY <1>1, <1>2, <1>3, <2>2, <2>4, OwnOthers
    <2> QED BY <2>3, <2>4
  <1>9. SavedInv'
    <2>1. SUFFICES ASSUME ~cut', NEW d \in Clients PROVE Kept(d)'
      BY DEF SavedInv
    <2>2. \A e \in Clients : Owns(e) /\ Kept(e)
      BY <1>1, <1>7, <2>1 DEF OwnInv, SavedInv
    <2>3. Writes(c)
      BY <1>1, <2>2, RegisterWrites
    <2> QED BY <1>1, <1>2, <2>2, <2>3, KeptStep
  <1>10. ModeInv'
    <2>1. SUFFICES ASSUME ~cut', ~mixed' PROVE ModeInv'
      BY DEF ModeInv
    <2>2. \A e \in Clients : Owns(e) /\ Flagged(e)
      BY <1>1, <1>7, <2>1 DEF OwnInv, FlagInv
    <2>3. StackInv
      BY <1>1, <1>7, <2>1, <2>2, StackIsModes
    <2>4. Brackets(c)
      BY <1>1, <2>1, <2>2, ModeBrackets
    <2>5. StackInv'
      BY <1>1, <1>2, <1>3, <2>1, <2>2, <2>3, <2>4, StackStep
    <2>6. ASSUME NEW f \in Files PROVE Lends(f)' <=> Away(f)'
      <3>1. Flagged(f)'
        BY <1>5 DEF FlagInv, Clients
      <3> QED
        BY <3>1 DEF Lends, Away, Claimers, Flagged, Releasing, Serving,
                   Claiming, Transit
    <2> QED BY <2>5, <2>6 DEF ModeInv, StackInv, Claimers
  <1>11. AskedInv'
    <2>1. SUFFICES ASSUME ~cut' PROVE AskedInv'
      BY DEF AskedInv
    <2>2. \A e \in Clients : Owns(e)
      BY <1>1, <1>7, <2>1 DEF OwnInv
    <2>3. Behind(queue, asked) /\ LpHearsAskers /\ ~cut
      BY <1>1, <1>7, <2>1 DEF AskedInv, Behind
    <2>4. Requests(c)
      BY <1>1, <2>2, RequestsMade
    <2>5. Behind(queue', asked') /\ LpHearsAskers'
      BY <1>1, <1>2, <2>2, <2>3, <2>4, AskedStep
    <2> QED BY <2>5 DEF AskedInv, Behind
  <1> QED BY <1>4, <1>5, <1>6, <1>8, <1>9, <1>10, <1>11, <1>12 DEF IInv

\* It holds at first.
LEMMA InvInit == Init => IInv
  <1> SUFFICES ASSUME Init PROVE IInv
    OBVIOUS
  <1> USE ClientsAssumption DEF Init
  <1>1. TypeOK
    <2>1. <<>> \in Seq(Clients) /\ IsInjective(<<>>)
      <3>1. <<>> \in Seq(Clients) /\ DOMAIN <<>> = {}
        BY EmptySeq
      <3> QED BY <3>1 DEF IsInjective
    <2>2. NoJob \in [dev : Clients \cup {NoDev}, reclaim : BOOLEAN, then : Places]
      BY DEF NoJob, Places
    <2>3. "closed" \in Places /\ "COMPAT" \in Modes /\ "forward" \in Directions
      BY DEF Places, Modes, Directions
    <2> HIDE DEF NoJob, Places
    <2> QED BY <2>1, <2>2, <2>3 DEF TypeOK
  <1>2. ToSet(<<>>) = {} /\ DOMAIN <<>> = {}
    BY EmptySeq DEF ToSet
  <1>3. PlaceInv /\ FlagInv
    BY DEF PlaceInv, Placed, FlagInv, Flagged, Writing, Releasing, Serving,
       Claiming, Transit, Bytes, FileOnly, LpOnly, Clients
  <1>9. LockInv
    BY DEF LockInv
  <1>4. HandOverInv
    BY DEF HandOverInv
  <1>5. OwnInv
    BY <1>2 DEF OwnInv, Owns, Writing, Releasing, Serving, Transit, Bytes,
       Clients, Holder
  <1>6. SavedInv
    BY DEF SavedInv, Kept, Holder, Clients
  <1>7. ModeInv
    BY DEF ModeInv, Lends, Clients
  <1>8. AskedInv
    BY <1>2 DEF AskedInv, LpHearsAskers
  <1> QED BY <1>1, <1>3, <1>4, <1>5, <1>6, <1>7, <1>8, <1>9 DEF IInv

\* It is inductive.
LEMMA InvNext == IInv /\ [Next]_vars => IInv'
  <1> SUFFICES ASSUME IInv, [Next]_vars PROVE IInv'
    OBVIOUS
  <1>1. CASE Next
    <2>1. ASSUME NEW c \in Clients, Arbitration(c) \/ CompatWrite(c)
          PROVE  IInv'
      BY <2>1, ClientStep
    <2>2. ASSUME NEW f \in Files, PpStep(f) PROVE IInv'
      <3>1. f \in Clients
        BY DEF Clients
      <3>2. \/ Arbitration(f) \/ CompatWrite(f)
            \/ f \in Files /\ PpStep(f)
            \/ f = Lp /\ LpStep
        BY <2>2
      <3> QED BY <3>1, <3>2, ClientStep
    <2>3. CASE LpStep
      <3>1. Lp \in Clients
        BY DEF Clients
      <3> QED BY <2>3, <3>1, ClientStep
    <2> QED BY <1>1, <2>1, <2>2, <2>3 DEF Next
  <1>2. CASE UNCHANGED vars
    <2>1. /\ UNCHANGED <<pc, job, owner, coming, queue, dir, saved, mode,
                         registered, claimed>>
          /\ UNCHANGED <<fmode, fsaved, wdev, preempt, mine, asked, cut, mixed,
                         uses>>
      BY <1>2 DEF vars, port, files, history
    <2>2. TypeOK' /\ HandOverInv' /\ LockInv'
      BY <2>1 DEF IInv, TypeOK, HandOverInv, Serving, LockInv, Holder
    <2>3. PlaceInv' /\ FlagInv'
      BY <2>1 DEF IInv, PlaceInv, Placed, Returns, Writing, FlagInv, Flagged,
         Releasing, Serving, Claiming
    <2>4. OwnInv' /\ SavedInv'
      BY <2>1 DEF IInv, OwnInv, Owns, Writing, Releasing, Serving, SavedInv, Kept,
         Holder
    <2>5. ModeInv' /\ AskedInv'
      BY <2>1 DEF IInv, ModeInv, Lends, AskedInv, LpHearsAskers, Serving,
         Holder
    <2> QED BY <2>2, <2>3, <2>4, <2>5 DEF IInv
  <1> QED BY <1>1, <1>2

\* The inductive invariant holds in every state of every instance.
THEOREM InvariantHolds == Spec => []IInv
  BY InvInit, InvNext, PTL DEF Spec

\* All variables keep their types; no device is ever listed twice.
THEOREM TypeCorrect == Spec => []TypeOK
  <1>1. IInv => TypeOK
    BY DEF IInv
  <1> QED BY <1>1, InvariantHolds, PTL

\* As long as no claim whose result nobody looks at was cut by a signal, a
\* client that believes it has the port owns it or is being handed it, and a
\* compatibility write acts for its caller; only on more than one CPU can the
\* owner be missing meanwhile, and a write go through NULL.
THEOREM OwnersUse == Spec => []UsesAsOwner
  <1>1. IInv => UsesAsOwner
    <2> SUFFICES ASSUME IInv, ~cut, NEW c \in Clients
                 PROVE  /\ c \in claimed /\ pc[c] \notin Transit => Holder = c
                        /\ pc[c] \in Bytes => c \in claimed /\ wdev[c] = c
                        /\ Holder # owner \/ pc[c] = "dead" => "smp" \in uses
      BY DEF UsesAsOwner
    <2>1. Owns(c) /\ Flagged(c) /\ LockInv
      BY DEF IInv, OwnInv, FlagInv
    <2>2. Holder # owner => "smp" \in uses
      BY <2>1, LockFacts DEF Holder
    <2> QED BY <2>1, <2>2 DEF Owns, Flagged, Writing
  <1> QED BY <1>1, InvariantHolds, PTL

\* save_state and restore_state keep the registers of the clients apart: an
\* owner that is not still being handed the port finds the direction it left.
THEOREM RegistersAreKept == Spec => []RegistersKept
  <1>1. IInv => RegistersKept
    BY DEF IInv, SavedInv, Kept, RegistersKept
  <1> QED BY <1>1, InvariantHolds, PTL

\* The mode swaps of PPCLAIM and PPRELEASE pair: a file has the port in its
\* own mode, and a port no file has is in compatibility mode.
THEOREM ModesArePaired == Spec => []ModesPaired
  <1>1. IInv => ModesPaired
    BY DEF IInv, ModeInv, ModesPaired
  <1> QED BY <1>1, InvariantHolds, PTL

\* Whoever asked the printer for the port and waits when the printer has it
\* will be heard.
THEOREM AskersAreHeard == Spec => []LpHearsAskers
  <1>1. IInv => LpHearsAskers
    BY DEF IInv, AskedInv, LpHearsAskers
  <1> QED BY <1>1, InvariantHolds, PTL

=============================================================================
