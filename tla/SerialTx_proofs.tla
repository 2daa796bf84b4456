-------------------------- MODULE SerialTx_proofs --------------------------
(***************************************************************************)
(* Theorems about SerialTx, for any number of writers, any size of the     *)
(* ring and of the UART's FIFO, and every flow control setting.            *)
(***************************************************************************)
EXTENDS SerialTx, SequenceTheorems, TLAPS

----------------------------------------------------------------------------
(* The ring buffer *)

\* A function on 1 .. n is a sequence of length n.
LEMMA FunctionIsSeq ==
    ASSUME NEW S, NEW n \in Nat, NEW f \in [1 .. n -> S]
    PROVE  f \in Seq(S) /\ Len(f) = n
  <1>1. f \in Seq(S)
    BY SeqDef
  <1>2. DOMAIN f = 1 .. n /\ DOMAIN f = 1 .. Len(f) /\ Len(f) \in Nat
    BY <1>1, LenProperties
  <1> QED BY <1>1, <1>2

\* A position that has run past the end once is wrapped by one subtraction.
LEMMA Wrap ==
    ASSUME NEW a \in Nat, a < 2 * Size
    PROVE  /\ a % Size \in 0 .. Size - 1
           /\ a % Size = IF a < Size THEN a ELSE a - Size
  <1>1. Size \in Nat \ {0}
    BY SerialTxAssumption
  <1> QED BY <1>1, SMT

\* What the ring holds and what it still takes, as numbers.
LEMMA RingCounts ==
    ASSUME TypeOK
    PROVE  /\ Pending = IF tail <= head THEN head - tail ELSE head + Size - tail
           /\ Pending \in 0 .. Size - 1
           /\ Room = Size - 1 - Pending
           /\ Pending = 0 <=> Empty
  <1>1. /\ Size \in Nat \ {0} /\ head \in 0 .. Size - 1 /\ tail \in 0 .. Size - 1
    BY SerialTxAssumption DEF TypeOK
  <1>2. /\ head + Size - tail \in Nat /\ head + Size - tail < 2 * Size
        /\ tail + Size - head - 1 \in Nat /\ tail + Size - head - 1 < 2 * Size
    BY <1>1
  <1>3. Pending = IF tail <= head THEN head - tail ELSE head + Size - tail
    BY <1>1, <1>2, Wrap DEF Pending
  <1>4. Room = IF tail <= head THEN tail + Size - head - 1 ELSE tail - head - 1
    BY <1>1, <1>2, Wrap DEF Room
  <1> QED BY <1>1, <1>3, <1>4 DEF Empty

\* Where the i-th byte in the buffer is.
Slot(i) == IF tail + i - 1 < Size THEN tail + i - 1 ELSE tail + i - 1 - Size

\* The bytes in the ring, by their place.
LEMMA BufferedIs ==
    ASSUME TypeOK
    PROVE  /\ Buffered = [i \in 1 .. Pending |-> buf[Slot(i)]]
           /\ \A i \in 1 .. Pending : Slot(i) \in 0 .. Size - 1
           /\ Buffered \in Seq(0 .. MaxBytes) /\ Len(Buffered) = Pending
  <1>1. /\ Size \in Nat \ {0} /\ tail \in 0 .. Size - 1 /\ MaxBytes \in Nat
        /\ buf \in [0 .. Size - 1 -> 0 .. MaxBytes]
    BY SerialTxAssumption DEF TypeOK
  <1>2. Pending \in 0 .. Size - 1
    BY RingCounts
  <1>3. ASSUME NEW i \in 1 .. Pending
        PROVE  (tail + i - 1) % Size = Slot(i) /\ Slot(i) \in 0 .. Size - 1
    <2>1. tail + i - 1 \in Nat /\ tail + i - 1 < 2 * Size
      BY <1>1, <1>2
    <2>2. ASSUME NEW a \in Nat, a = tail + i - 1
          PROVE  a % Size = IF a < Size THEN a ELSE a - Size
      BY <2>1, <2>2, Wrap
    <2> QED BY <1>1, <1>2, <2>1, <2>2 DEF Slot
  <1>4. Buffered = [i \in 1 .. Pending |-> buf[Slot(i)]]
    BY <1>3 DEF Buffered
  <1>5. Buffered \in [1 .. Pending -> 0 .. MaxBytes]
    BY <1>1, <1>3, <1>4
  <1>6. Buffered \in Seq(0 .. MaxBytes) /\ Len(Buffered) = Pending
    BY <1>2, <1>5, FunctionIsSeq, SerialTxAssumption
  <1> QED BY <1>3, <1>4, <1>6

----------------------------------------------------------------------------
(* The stream: what was sent, followed by what is in the buffer *)

Count == Len(sent) + Pending
Byte(i) == IF i <= Len(sent) THEN sent[i] ELSE buf[Slot(i - Len(sent))]

StreamInv ==
    /\ \A i, j \in 1 .. Count : i < j => Byte(i) < Byte(j)
    /\ \A b \in Nat : b \in 1 .. accepted <=>
                        b \in flushed \/ \E i \in 1 .. Count : Byte(i) = b
    /\ \A i \in 1 .. Count : Byte(i) \notin flushed

\* The bytes of the stream, sent or in the ring, by their numbers.
LEMMA StreamType ==
    ASSUME TypeOK
    PROVE  /\ Len(sent) \in Nat /\ Pending \in Nat /\ Count \in Nat
           /\ \A i \in 1 .. Count : Byte(i) \in 0 .. MaxBytes
           /\ \A i \in 1 .. Len(sent) : i \in 1 .. Count /\ Byte(i) = sent[i]
           /\ \A i \in 1 .. Pending :
                /\ Len(sent) + i \in 1 .. Count
                /\ Byte(Len(sent) + i) = Buffered[i]
           /\ \A i \in 1 .. Count : i \in 1 .. Len(sent) \/ i - Len(sent) \in 1 .. Pending
  <1>1. /\ Len(sent) \in Nat /\ MaxBytes \in Nat
        /\ \A i \in 1 .. Len(sent) : sent[i] \in 0 .. MaxBytes
    BY SerialTxAssumption DEF TypeOK
  <1>2. Pending \in Nat
    BY RingCounts, SerialTxAssumption
  <1>3. \A i \in 1 .. Pending : Buffered[i] = buf[Slot(i)] /\ buf[Slot(i)] \in 0 .. MaxBytes
    <2> TAKE i \in 1 .. Pending
    <2>1. Buffered[i] = buf[Slot(i)] /\ Slot(i) \in 0 .. Size - 1
      BY BufferedIs
    <2> QED BY <2>1 DEF TypeOK
  <1>4. \A i \in 1 .. Count : i \in 1 .. Len(sent) \/ i - Len(sent) \in 1 .. Pending
    BY <1>1, <1>2 DEF Count
  <1>5. \A i \in 1 .. Len(sent) : i \in 1 .. Count /\ Byte(i) = sent[i]
    BY <1>1, <1>2 DEF Count, Byte
  <1>6. ASSUME NEW i \in 1 .. Pending
        PROVE  /\ Len(sent) + i \in 1 .. Count
               /\ Byte(Len(sent) + i) = Buffered[i]
    <2>1. ~(Len(sent) + i <= Len(sent)) /\ Len(sent) + i - Len(sent) = i
      BY <1>1, <1>2
    <2>2. Byte(Len(sent) + i) = buf[Slot(i)]
      BY <2>1 DEF Byte
    <2> QED BY <1>1, <1>2, <1>3, <2>2 DEF Count
  <1>7. \A i \in 1 .. Count : Byte(i) \in 0 .. MaxBytes
    <2> TAKE i \in 1 .. Count
    <2>1. CASE i \in 1 .. Len(sent)
      BY <1>1, <1>5, <2>1
    <2>2. CASE i - Len(sent) \in 1 .. Pending
      <3>1. Len(sent) + (i - Len(sent)) = i
        BY <1>1
      <3> QED BY <1>3, <1>6, <2>2, <3>1
    <2> QED BY <1>4, <2>1, <2>2
  <1>8. Count \in Nat
    BY <1>1, <1>2 DEF Count
  <1> QED BY <1>1, <1>2, <1>4, <1>5, <1>6, <1>7, <1>8

\* StreamInv is TxStream, without the sequence operators.
LEMMA StreamIsTxStream == TypeOK => (StreamInv <=> TxStream)
  <1> SUFFICES ASSUME TypeOK PROVE StreamInv <=> TxStream
    OBVIOUS
  <1> DEFINE out == sent \o Buffered
             Sent == {sent[i] : i \in DOMAIN sent}
             Held == {Buffered[i] : i \in 1 .. Pending}
  <1>1. /\ sent \in Seq(0 .. MaxBytes) /\ Buffered \in Seq(0 .. MaxBytes)
        /\ Len(Buffered) = Pending /\ DOMAIN sent = 1 .. Len(sent)
    <2>1. sent \in Seq(1 .. MaxBytes) /\ 1 .. MaxBytes \subseteq 0 .. MaxBytes
      BY SerialTxAssumption DEF TypeOK
    <2> QED BY <2>1, BufferedIs, SeqMonotonic, LenProperties
  <1>2. DOMAIN out = 1 .. Count
    BY <1>1 DEF Count
  <1>3. \A i \in 1 .. Count : out[i] = Byte(i)
    <2> TAKE i \in 1 .. Count
    <2>1. CASE i \in 1 .. Len(sent)
      BY <1>1, <2>1, StreamType
    <2>2. CASE i - Len(sent) \in 1 .. Pending
      <3>1. Len(sent) + (i - Len(sent)) = i /\ Byte(i) = Buffered[i - Len(sent)]
        BY <2>2, StreamType
      <3> QED BY <1>1, <2>2, <3>1, StreamType
    <2> QED BY <2>1, <2>2, StreamType
  <1>4. \A b : b \in Sent \cup Held <=> \E i \in 1 .. Count : Byte(i) = b
    <2> TAKE b
    <2>1. ASSUME b \in Sent \cup Held PROVE \E i \in 1 .. Count : Byte(i) = b
      BY <1>1, <2>1, StreamType
    <2>2. ASSUME NEW i \in 1 .. Count, Byte(i) = b PROVE b \in Sent \cup Held
      <3>1. CASE i \in 1 .. Len(sent)
        BY <1>1, <2>2, <3>1, StreamType
      <3>2. CASE i - Len(sent) \in 1 .. Pending
        <4>1. Len(sent) + (i - Len(sent)) = i /\ Byte(i) = Buffered[i - Len(sent)]
          BY <3>2, StreamType
        <4> QED BY <2>2, <3>2, <4>1
      <3> QED BY <3>1, <3>2, StreamType
    <2> QED BY <2>1, <2>2
  <1>5. /\ \A b \in Sent \cup Held : b \in Nat
        /\ flushed \subseteq Nat /\ 1 .. accepted \subseteq Nat
    <2>1. \A i \in 1 .. Count : Byte(i) \in Nat
      BY StreamType, SerialTxAssumption
    <2>2. flushed \subseteq Nat /\ 1 .. accepted \subseteq Nat
      BY SerialTxAssumption DEF TypeOK
    <2> QED BY <1>4, <2>1, <2>2
  <1>6. TxStream <=> /\ \A i, j \in DOMAIN out : i < j => out[i] < out[j]
                     /\ Sent \cup Held \cup flushed = 1 .. accepted
                     /\ flushed \cap (Sent \cup Held) = {}
    BY DEF TxStream
  <1> HIDE DEF out, Sent, Held
  <1>7. (\A i, j \in DOMAIN out : i < j => out[i] < out[j])
          <=> \A i, j \in 1 .. Count : i < j => Byte(i) < Byte(j)
    BY <1>2, <1>3
  <1>8. Sent \cup Held \cup flushed = 1 .. accepted <=>
          \A b \in Nat : b \in 1 .. accepted <=>
                           b \in flushed \/ \E i \in 1 .. Count : Byte(i) = b
    BY <1>4, <1>5
  <1>9. flushed \cap (Sent \cup Held) = {} <=> \A i \in 1 .. Count : Byte(i) \notin flushed
    BY <1>4
  <1> QED BY <1>6, <1>7, <1>8, <1>9 DEF StreamInv

----------------------------------------------------------------------------
(* What the three users of the ring do to the stream *)

RingType ==
    /\ buf \in [0 .. Size - 1 -> 0 .. MaxBytes]
    /\ head \in 0 .. Size - 1 /\ tail \in 0 .. Size - 1
    /\ accepted \in 0 .. MaxBytes /\ sent \in Seq(1 .. MaxBytes)
    /\ flushed \subseteq 1 .. MaxBytes

\* A write appends the bytes it has room for, in the slots behind the others.
LEMMA WriteEffect ==
    ASSUME TypeOK, NEW w \in Writers, NEW n \in 1 .. MaxBytes, Write(w, n)
    PROVE  /\ RingType'
           /\ \E k \in Nat :
                /\ accepted' = accepted + k
                /\ Count' = Count + k
                /\ \A i \in 1 .. Count : Byte(i)' = Byte(i)
                /\ \A i \in Count + 1 .. Count + k : Byte(i)' = accepted + (i - Count)
           /\ UNCHANGED flushed
  <1> DEFINE k == Smaller(n, Room)
  <1>1. /\ Size \in Nat \ {0} /\ head \in 0 .. Size - 1 /\ tail \in 0 .. Size - 1
        /\ MaxBytes \in Nat /\ accepted \in 0 .. MaxBytes
        /\ buf \in [0 .. Size - 1 -> 0 .. MaxBytes]
        /\ sent \in Seq(1 .. MaxBytes) /\ flushed \subseteq 1 .. MaxBytes
    BY SerialTxAssumption DEF TypeOK
  <1>2. /\ Pending = IF tail <= head THEN head - tail ELSE head + Size - tail
        /\ Pending \in 0 .. Size - 1 /\ Room = Size - 1 - Pending
    BY RingCounts
  <1>3. k \in Nat /\ k <= Room /\ k <= n
    BY <1>1, <1>2 DEF Smaller
  <1> HIDE DEF k
  <1>4. /\ accepted + n <= MaxBytes
        /\ buf' = [i \in 0 .. Size - 1 |->
                     LET j == (i + Size - head) % Size IN
                     IF j < k THEN accepted + j + 1 ELSE buf[i]]
        /\ head' = (head + k) % Size
        /\ accepted' = accepted + k
        /\ UNCHANGED <<tail, sent, flushed>>
    BY DEF Write, k
  <1>0. tail' = tail /\ sent' = sent /\ flushed' = flushed
    BY <1>4
  <1>5. head' = IF head + k < Size THEN head + k ELSE head + k - Size
    <2>1. head + k \in Nat /\ head + k < 2 * Size
      BY <1>1, <1>2, <1>3
    <2>2. ASSUME NEW a \in Nat, a = head + k
          PROVE  a % Size = IF a < Size THEN a ELSE a - Size
      BY <2>1, <2>2, Wrap
    <2> QED BY <1>1, <1>3, <1>4, <2>1, <2>2
  <1>6. head' \in 0 .. Size - 1
    BY <1>1, <1>2, <1>3, <1>5
  <1>7. ASSUME NEW i \in 0 .. Size - 1
        PROVE  buf'[i] = IF head <= i
                           THEN IF i - head < k THEN accepted + (i - head) + 1
                                                ELSE buf[i]
                           ELSE IF i + Size - head < k
                                  THEN accepted + (i + Size - head) + 1
                                  ELSE buf[i]
    <2>1. i + Size - head \in Nat /\ i + Size - head < 2 * Size
      BY <1>1
    <2>2. ASSUME NEW a \in Nat, a = i + Size - head
          PROVE  a % Size = IF a < Size THEN a ELSE a - Size
      BY <2>1, <2>2, Wrap
    <2>3. (i + Size - head) % Size = IF head <= i THEN i - head ELSE i + Size - head
      BY <1>1, <2>1, <2>2
    <2> QED BY <1>4, <2>3
  <1>8. buf' \in [0 .. Size - 1 -> 0 .. MaxBytes]
    <2>1. ASSUME NEW i \in 0 .. Size - 1 PROVE buf'[i] \in 0 .. MaxBytes
      BY <1>1, <1>3, <1>4, <1>7, <2>1
    <2>2. buf' = [i \in 0 .. Size - 1 |-> buf'[i]]
      BY <1>4
    <2> QED BY <2>1, <2>2
  <1>9. RingType'
    BY <1>1, <1>3, <1>4, <1>6, <1>8 DEF RingType
  <1>10. Pending' = Pending + k
    <2>1. Pending' = (head' + Size - tail) % Size
      BY <1>0 DEF Pending
    <2>2. ASSUME NEW h \in 0 .. Size - 1
          PROVE  (h + Size - tail) % Size =
                   IF tail <= h THEN h - tail ELSE h + Size - tail
      <3>1. h + Size - tail \in Nat /\ h + Size - tail < 2 * Size
        BY <1>1
      <3>2. ASSUME NEW a \in Nat, a = h + Size - tail
            PROVE  a % Size = IF a < Size THEN a ELSE a - Size
        BY <3>1, <3>2, Wrap
      <3> QED BY <1>1, <3>1, <3>2
    <2>3. Pending' = IF tail <= head' THEN head' - tail ELSE head' + Size - tail
      BY <1>6, <2>1, <2>2
    <2> QED BY <1>1, <1>2, <1>3, <1>5, <2>3
  <1>11. Len(sent) \in Nat /\ Count' = Count + k
    BY <1>1, <1>2, <1>3, <1>4, <1>10 DEF Count
  <1>12. ASSUME NEW j \in 1 .. Pending + k
         PROVE  /\ Slot(j) \in 0 .. Size - 1 /\ Slot(j)' = Slot(j)
                /\ buf'[Slot(j)] = IF j <= Pending THEN buf[Slot(j)]
                                   ELSE accepted + (j - Pending)
    <2>1. Slot(j) \in 0 .. Size - 1 /\ Slot(j)' = Slot(j)
      BY <1>1, <1>2, <1>3, <1>4 DEF Slot
    <2>2. buf'[Slot(j)] = IF head <= Slot(j)
                            THEN IF Slot(j) - head < k
                                   THEN accepted + (Slot(j) - head) + 1
                                   ELSE buf[Slot(j)]
                            ELSE IF Slot(j) + Size - head < k
                                   THEN accepted + (Slot(j) + Size - head) + 1
                                   ELSE buf[Slot(j)]
      BY <1>7, <2>1
    <2>3. CASE j <= Pending
      <3>1. ~(head <= Slot(j) /\ Slot(j) - head < k)
        BY <1>1, <1>2, <1>3, <2>3 DEF Slot
      <3>2. ~(head > Slot(j) /\ Slot(j) + Size - head < k)
        BY <1>1, <1>2, <1>3, <2>3 DEF Slot
      <3> QED BY <1>1, <2>1, <2>2, <2>3, <3>1, <3>2
    <2>4. CASE j > Pending
      <3>1. \/ head <= Slot(j) /\ Slot(j) - head = j - Pending - 1
            \/ head > Slot(j) /\ Slot(j) + Size - head = j - Pending - 1
        BY <1>1, <1>2, <1>3, <2>4 DEF Slot
      <3>2. /\ j - Pending - 1 < k /\ ~(j <= Pending)
            /\ accepted + (j - Pending - 1) + 1 = accepted + (j - Pending)
        BY <1>1, <1>2, <1>3, <2>4
      <3>3. CASE head <= Slot(j)
        BY <1>1, <2>1, <2>2, <3>1, <3>2, <3>3
      <3>4. CASE ~(head <= Slot(j))
        BY <1>1, <2>1, <2>2, <3>1, <3>2, <3>4
      <3> QED BY <2>1, <3>2, <3>3, <3>4
    <2> QED BY <1>2, <2>1, <2>3, <2>4
  <1>13. ASSUME NEW i \in 1 .. Count PROVE Byte(i)' = Byte(i)
    <2>1. CASE i <= Len(sent)
      BY <1>4, <2>1 DEF Byte
    <2>2. CASE ~(i <= Len(sent))
      <3>1. i - Len(sent) \in 1 .. Pending + k /\ i - Len(sent) <= Pending
        BY <1>2, <1>3, <1>11, <2>2 DEF Count
      <3> QED BY <1>4, <1>12, <2>2, <3>1 DEF Byte
    <2> QED BY <2>1, <2>2
  <1>14. ASSUME NEW i \in Count + 1 .. Count + k
         PROVE  Byte(i)' = accepted + (i - Count)
    <2>1. /\ i - Len(sent) \in 1 .. Pending + k
          /\ ~(i - Len(sent) <= Pending) /\ ~(i <= Len(sent))
          /\ i - Len(sent) - Pending = i - Count
      <3>1. /\ Len(sent) \in Nat /\ Pending \in Nat /\ k \in Nat
            /\ Count = Len(sent) + Pending
        BY <1>1, <1>2, <1>3, <1>11 DEF Count
      <3> QED BY <3>1
    <2>2. buf'[Slot(i - Len(sent))] = accepted + (i - Len(sent) - Pending)
      BY <1>12, <2>1
    <2>3. Slot(i - Len(sent))' = Slot(i - Len(sent))
      BY <1>0 DEF Slot
    <2> QED BY <1>0, <2>1, <2>2, <2>3 DEF Byte
  <1> QED BY <1>3, <1>4, <1>9, <1>11, <1>13, <1>14

\* A flush moves the bytes in the buffer to the flushed ones.
LEMMA FlushEffect ==
    ASSUME TypeOK, NEW w \in Writers, FlushBuffer(w), \A i \in 1 .. Count : Byte(i) >= 1
    PROVE  /\ RingType' /\ Count' = Len(sent) /\ accepted' = accepted
           /\ \A i \in 1 .. Len(sent) : Byte(i)' = Byte(i)
           /\ \A b : b \in flushed' <=> \/ b \in flushed
                                        \/ \E i \in Len(sent) + 1 .. Count : Byte(i) = b
  <1>1. /\ Size \in Nat \ {0} /\ MaxBytes \in Nat
        /\ buf \in [0 .. Size - 1 -> 0 .. MaxBytes]
        /\ accepted \in 0 .. MaxBytes /\ sent \in Seq(1 .. MaxBytes)
        /\ flushed \subseteq 1 .. MaxBytes /\ Len(sent) \in Nat
    BY SerialTxAssumption DEF TypeOK
  <1>2. /\ head' = 0 /\ tail' = 0 /\ UNCHANGED <<buf, accepted, sent>>
        /\ flushed' = flushed \cup {Buffered[i] : i \in 1 .. Pending}
    BY DEF FlushBuffer
  <1>3. Pending' = 0
    <2>1. Pending' = Size % Size
      BY <1>1, <1>2 DEF Pending
    <2>2. ASSUME NEW a \in Nat, a = Size PROVE a % Size = 0
      BY <1>1, <2>2, Wrap
    <2> QED BY <1>1, <2>1, <2>2
  <1>4. Count' = Len(sent)
    BY <1>1, <1>2, <1>3 DEF Count
  <1>5. \A i \in 1 .. Len(sent) : Byte(i)' = Byte(i)
    BY <1>2 DEF Byte
  <1>6. \A b : (\E i \in 1 .. Pending : Buffered[i] = b)
                 <=> \E i \in Len(sent) + 1 .. Count : Byte(i) = b
    <2> TAKE b
    <2>1. ASSUME NEW i \in 1 .. Pending, Buffered[i] = b
          PROVE  \E j \in Len(sent) + 1 .. Count : Byte(j) = b
      <3>1. Len(sent) + i \in Len(sent) + 1 .. Count /\ Byte(Len(sent) + i) = b
        BY <1>1, <2>1, StreamType
      <3> QED BY <3>1
    <2>2. ASSUME NEW i \in Len(sent) + 1 .. Count, Byte(i) = b
          PROVE  \E j \in 1 .. Pending : Buffered[j] = b
      <3>1. i \in 1 .. Count /\ i \notin 1 .. Len(sent)
        BY <1>1, StreamType
      <3>2. i - Len(sent) \in 1 .. Pending /\ Len(sent) + (i - Len(sent)) = i
        BY <1>1, <3>1, StreamType
      <3>3. Buffered[i - Len(sent)] = b
        BY <2>2, <3>2, StreamType
      <3> QED BY <3>2, <3>3
    <2> QED BY <2>1, <2>2
  <1>7. \A b : b \in flushed' <=> \/ b \in flushed
                                  \/ \E i \in Len(sent) + 1 .. Count : Byte(i) = b
    BY <1>2, <1>6
  <1>8. flushed' \subseteq 1 .. MaxBytes
    <2> SUFFICES ASSUME NEW b \in flushed', b \notin flushed PROVE b \in 1 .. MaxBytes
      BY <1>1
    <2>1. PICK i \in Len(sent) + 1 .. Count : Byte(i) = b
      BY <1>7
    <2>2. i \in 1 .. Count
      BY <1>1, StreamType
    <2>3. Byte(i) >= 1 /\ Byte(i) \in 0 .. MaxBytes
      BY <2>2, StreamType
    <2> QED BY <1>1, <2>1, <2>3
  <1>9. RingType'
    BY <1>1, <1>2, <1>8 DEF RingType
  <1> QED BY <1>2, <1>4, <1>5, <1>7, <1>9

\* The handler moves bytes from the buffer to the end of what was sent.
LEMMA TransmitEffect ==
    ASSUME TypeOK, IsrTransmit, \A i \in 1 .. Count : Byte(i) >= 1
    PROVE  /\ RingType' /\ Count' = Count /\ UNCHANGED <<accepted, flushed>>
           /\ \A i \in 1 .. Count : Byte(i)' = Byte(i)
  <1> DEFINE k == Smaller(Fifo, Pending)
  <1>1. /\ Size \in Nat \ {0} /\ head \in 0 .. Size - 1 /\ tail \in 0 .. Size - 1
        /\ MaxBytes \in Nat /\ accepted \in 0 .. MaxBytes /\ Fifo \in Nat
        /\ buf \in [0 .. Size - 1 -> 0 .. MaxBytes]
        /\ sent \in Seq(1 .. MaxBytes) /\ flushed \subseteq 1 .. MaxBytes
        /\ Len(sent) \in Nat
    BY SerialTxAssumption DEF TypeOK
  <1>2. /\ Pending = IF tail <= head THEN head - tail ELSE head + Size - tail
        /\ Pending \in 0 .. Size - 1
    BY RingCounts
  <1>3. k \in Nat /\ k <= Pending
    BY <1>1, <1>2 DEF Smaller
  <1> HIDE DEF k
  <1>4. /\ sent' = sent \o SubSeq(Buffered, 1, k)
        /\ tail' = (tail + k) % Size
        /\ UNCHANGED <<buf, head, accepted, flushed>>
    BY DEF IsrTransmit, k
  <1>5. \A i \in 1 .. Pending : Buffered[i] \in 1 .. MaxBytes /\ Buffered[i] = buf[Slot(i)]
    <2> TAKE i \in 1 .. Pending
    <2>1. Len(sent) + i \in 1 .. Count /\ Byte(Len(sent) + i) = Buffered[i]
      BY StreamType
    <2>2. Byte(Len(sent) + i) >= 1 /\ Byte(Len(sent) + i) \in 0 .. MaxBytes
      BY <2>1, StreamType
    <2>3. Buffered[i] = buf[Slot(i)]
      BY BufferedIs
    <2> QED BY <1>1, <2>1, <2>2, <2>3
  <1>6. /\ SubSeq(Buffered, 1, k) \in Seq(1 .. MaxBytes)
        /\ Len(SubSeq(Buffered, 1, k)) = k
        /\ \A i \in 1 .. k : SubSeq(Buffered, 1, k)[i] = buf[Slot(i)]
    <2>1. \A i \in 1 .. k : i \in 1 .. Pending
      BY <1>2, <1>3
    <2>2. /\ SubSeq(Buffered, 1, k) \in Seq(1 .. MaxBytes)
          /\ Len(SubSeq(Buffered, 1, k)) = IF 1 <= k THEN k - 1 + 1 ELSE 0
          /\ \A i \in 1 .. k - 1 + 1 : SubSeq(Buffered, 1, k)[i] = Buffered[1 + i - 1]
      BY <1>3, <1>5, <2>1, SubSeqProperties
    <2>3. k - 1 + 1 = k /\ \A i \in 1 .. k : 1 + i - 1 = i
      BY <1>3
    <2> QED BY <1>3, <1>5, <2>1, <2>2, <2>3
  <1>7. /\ sent' \in Seq(1 .. MaxBytes) /\ Len(sent') = Len(sent) + k
        /\ \A i \in 1 .. Len(sent) : sent'[i] = sent[i]
        /\ \A i \in 1 .. Len(sent) + k : ~(i <= Len(sent)) =>
              sent'[i] = buf[Slot(i - Len(sent))]
    <2>1. /\ sent' \in Seq(1 .. MaxBytes) /\ Len(sent') = Len(sent) + k
          /\ \A i \in 1 .. Len(sent) + k :
               sent'[i] = IF i <= Len(sent) THEN sent[i]
                          ELSE SubSeq(Buffered, 1, k)[i - Len(sent)]
      <3>1. PICK b \in Seq(1 .. MaxBytes) : b = SubSeq(Buffered, 1, k) /\ Len(b) = k
        BY <1>6
      <3>2. sent' = sent \o b
        BY <1>4, <3>1
      <3>3. /\ sent' \in Seq(1 .. MaxBytes) /\ Len(sent') = Len(sent) + Len(b)
            /\ \A i \in 1 .. Len(sent) + Len(b) :
                 sent'[i] = IF i <= Len(sent) THEN sent[i] ELSE b[i - Len(sent)]
        BY <1>1, <3>2, ConcatProperties
      <3> QED BY <3>1, <3>3
    <2>2. \A i \in 1 .. Len(sent) + k : ~(i <= Len(sent)) => i - Len(sent) \in 1 .. k
      BY <1>1, <1>3
    <2>3. \A i \in 1 .. Len(sent) : i \in 1 .. Len(sent) + k /\ i <= Len(sent)
      BY <1>1, <1>3
    <2>4. ASSUME NEW i \in 1 .. Len(sent) + k, ~(i <= Len(sent))
          PROVE  sent'[i] = buf[Slot(i - Len(sent))]
      <3>1. sent'[i] = SubSeq(Buffered, 1, k)[i - Len(sent)]
        BY <2>1, <2>4
      <3> QED BY <1>6, <2>2, <2>4, <3>1
    <2> QED BY <2>1, <2>3, <2>4
  <1>8. tail' = IF tail + k < Size THEN tail + k ELSE tail + k - Size
    <2>1. tail + k \in Nat /\ tail + k < 2 * Size
      BY <1>1, <1>2, <1>3
    <2>2. ASSUME NEW a \in Nat, a = tail + k
          PROVE  a % Size = IF a < Size THEN a ELSE a - Size
      BY <2>1, <2>2, Wrap
    <2> QED BY <1>1, <1>3, <1>4, <2>1, <2>2
  <1>9. tail' \in 0 .. Size - 1
    BY <1>1, <1>2, <1>3, <1>8
  <1>10. Pending' = Pending - k
    <2>1. Pending' = (head + Size - tail') % Size
      BY <1>4 DEF Pending
    <2>2. ASSUME NEW t \in 0 .. Size - 1
          PROVE  (head + Size - t) % Size =
                   IF t <= head THEN head - t ELSE head + Size - t
      <3>1. head + Size - t \in Nat /\ head + Size - t < 2 * Size
        BY <1>1
      <3>2. ASSUME NEW a \in Nat, a = head + Size - t
            PROVE  a % Size = IF a < Size THEN a ELSE a - Size
        BY <3>1, <3>2, Wrap
      <3> QED BY <1>1, <3>1, <3>2
    <2>3. Pending' = IF tail' <= head THEN head - tail' ELSE head + Size - tail'
      BY <1>9, <2>1, <2>2
    <2> QED BY <1>1, <1>2, <1>3, <1>8, <2>3
  <1>11. Count' = Count
    <2>1. Count' = Len(sent') + Pending'
      BY DEF Count
    <2>2. Len(sent') + Pending' = Len(sent) + k + (Pending - k)
      BY <1>7, <1>10
    <2>3. Len(sent) + k + (Pending - k) = Len(sent) + Pending
      <3>1. \A l, p, q \in Nat : l + q + (p - q) = l + p
        OBVIOUS
      <3> QED BY <1>3, <3>1, StreamType
    <2> QED BY <2>1, <2>2, <2>3 DEF Count
  <1>12. ASSUME NEW j \in k + 1 .. Pending
         PROVE  Slot(j) = IF tail' + (j - k) - 1 < Size THEN tail' + (j - k) - 1
                          ELSE tail' + (j - k) - 1 - Size
    BY <1>1, <1>2, <1>3, <1>8 DEF Slot
  <1>13. ASSUME NEW i \in 1 .. Count PROVE Byte(i)' = Byte(i)
    <2>1. CASE i <= Len(sent)
      <3>1. i <= Len(sent') /\ i \in 1 .. Len(sent)
        BY <1>1, <1>3, <1>7, <2>1, StreamType
      <3> QED BY <1>7, <2>1, <3>1 DEF Byte
    <2>2. CASE ~(i <= Len(sent)) /\ i <= Len(sent) + k
      <3>1. i \in 1 .. Len(sent) + k /\ i <= Len(sent')
        BY <1>1, <1>3, <1>7, <2>2, StreamType
      <3> QED BY <1>7, <2>2, <3>1 DEF Byte
    <2>3. CASE ~(i <= Len(sent) + k)
      <3>1. i - Len(sent) \in k + 1 .. Pending /\ ~(i <= Len(sent))
        BY <1>1, <1>2, <1>3, <2>3 DEF Count
      <3>2. ~(i <= Len(sent')) /\ i - Len(sent') = (i - Len(sent)) - k
        BY <1>1, <1>3, <1>7, <2>3
      <3>3. Byte(i)' = buf'[IF tail' + (i - Len(sent')) - 1 < Size
                              THEN tail' + (i - Len(sent')) - 1
                              ELSE tail' + (i - Len(sent')) - 1 - Size]
        BY <3>2 DEF Byte, Slot
      <3>4. Slot(i - Len(sent)) = IF tail' + (i - Len(sent')) - 1 < Size
                                    THEN tail' + (i - Len(sent')) - 1
                                    ELSE tail' + (i - Len(sent')) - 1 - Size
        BY <1>12, <3>1, <3>2
      <3> QED BY <1>4, <3>1, <3>3, <3>4 DEF Byte
    <2> QED BY <2>1, <2>2, <2>3
  <1>14. RingType'
    BY <1>1, <1>4, <1>7, <1>9 DEF RingType
  <1> QED BY <1>4, <1>11, <1>13, <1>14

----------------------------------------------------------------------------
(* Types, and the stream, are kept by every step *)

ControlType ==
    /\ pc \in [Threads -> Locations] /\ then \in [Threads -> Locations]
    /\ reg \in [Threads -> SUBSET Bits]
    /\ lock \in Threads \cup {"nobody"}
    /\ ier \subseteq Bits /\ hw \subseteq Bits
    /\ thri \in BOOLEAN /\ thrEmpty \in BOOLEAN
    /\ stopped \in BOOLEAN /\ hwStopped \in BOOLEAN /\ ctsFlow \in BOOLEAN
    /\ cts \in BOOLEAN /\ ctsDelta \in BOOLEAN
    /\ setting \in Settings
    /\ cause \in {"none", "thri", "msi", "rdi"}

\* The types in two halves, those of the ring and those of the control state.
LEMMA TypeParts == TypeOK <=> RingType /\ ControlType
  BY DEF TypeOK, RingType, ControlType

\* Only a write, a flush and the handler that fills the UART touch the ring.
LEMMA RingUsers ==
    ASSUME [Next]_vars
    PROVE  \/ \E w \in Writers, n \in 1 .. MaxBytes : Write(w, n)
           \/ \E w \in Writers : FlushBuffer(w)
           \/ IsrTransmit
           \/ UNCHANGED <<ring, history>>
  <1>1. ASSUME NEW t \in Threads, ThreadStep(t) PROVE UNCHANGED <<ring, history>>
    BY <1>1 DEF ThreadStep, SetIer, WriteIer, Unlock, StartTest, Start
  <1>2. CASE IsrStep
    <2>1. CASE IsrTransmit
      BY <2>1
    <2>2. CASE ~IsrTransmit
      BY <1>2, <2>2 DEF IsrStep, IsrLock, IsrReceive, IsrPush, IsrRelock, IsrStopTx,
                        IsrModem
    <2> QED BY <2>1, <2>2
  <1>3. ASSUME NEW w \in Writers, WriterCall(w)
        PROVE  \/ \E n \in 1 .. MaxBytes : Write(w, n)
               \/ FlushBuffer(w)
               \/ UNCHANGED <<ring, history>>
    BY <1>3 DEF WriterCall, FlushChars
  <1>4. CASE TtyCall \/ TtyStep
    BY <1>4 DEF TtyCall, TtyStep, TtyStop, TtyStart, Stop
  <1>5. CASE ChangeCrtscts \/ TermiosStep
    BY <1>5 DEF ChangeCrtscts, TermiosStep, SetMsi, ReleaseTermios, Restart
  <1>6. CASE IsrEnter \/ Drain \/ CtsChange \/ UNCHANGED vars
    BY <1>6 DEF IsrEnter, Drain, CtsChange, vars
  <1> QED BY <1>1, <1>2, <1>3, <1>4, <1>5, <1>6 DEF Next

\* The bytes of the stream are accepted ones, numbered from 1.
LEMMA BytesArePositive ==
    ASSUME TypeOK, StreamInv, NEW i \in 1 .. Count
    PROVE  Byte(i) \in 1 .. accepted /\ accepted \in Nat
  <1>1. accepted \in Nat
    BY SerialTxAssumption DEF TypeOK
  <1>2. Byte(i) \in Nat
    BY StreamType, SerialTxAssumption
  <1> QED BY <1>1, <1>2 DEF StreamInv

\* A write keeps the stream: its bytes are numbered after the others.
LEMMA WriteStream ==
    ASSUME TypeOK, StreamInv, NEW w \in Writers, NEW n \in 1 .. MaxBytes, Write(w, n)
    PROVE  StreamInv'
  <1>1. Count \in Nat /\ accepted \in Nat /\ flushed \subseteq 1 .. accepted
    <2>1. flushed \subseteq Nat
      BY SerialTxAssumption DEF TypeOK
    <2> QED BY <2>1, StreamType, SerialTxAssumption DEF StreamInv, TypeOK
  <1>2. PICK k \in Nat :
          /\ accepted' = accepted + k
          /\ Count' = Count + k
          /\ \A i \in 1 .. Count : Byte(i)' = Byte(i)
          /\ \A i \in Count + 1 .. Count + k : Byte(i)' = accepted + (i - Count)
    BY WriteEffect
  <1>3. flushed' = flushed
    BY WriteEffect
  <1>4. ASSUME NEW i \in 1 .. Count + k
        PROVE  \/ /\ i \in 1 .. Count /\ Byte(i)' = Byte(i)
                  /\ Byte(i) \in 1 .. accepted
               \/ /\ i \in Count + 1 .. Count + k /\ i > Count
                  /\ Byte(i)' = accepted + (i - Count)
    BY <1>1, <1>2, BytesArePositive
  <1>5. \A i, j \in 1 .. Count + k : i < j => Byte(i)' < Byte(j)'
    <2> SUFFICES ASSUME NEW i \in 1 .. Count + k, NEW j \in 1 .. Count + k, i < j
                 PROVE  Byte(i)' < Byte(j)'
      OBVIOUS
    <2>1. CASE i \in 1 .. Count /\ j \in 1 .. Count
      BY <1>2, <2>1 DEF StreamInv
    <2>2. CASE i \in 1 .. Count /\ j > Count
      BY <1>1, <1>4, <2>2
    <2>3. CASE i > Count
      BY <1>1, <1>4, <2>3
    <2> QED BY <1>1, <2>1, <2>2, <2>3
  <1>6. ASSUME NEW b \in Nat
        PROVE  b \in 1 .. accepted + k <=>
                 b \in flushed \/ \E i \in 1 .. Count + k : Byte(i)' = b
    <2>1. CASE b \in 1 .. accepted
      <3>1. b \in flushed \/ \E i \in 1 .. Count : Byte(i) = b
        BY <2>1 DEF StreamInv
      <3>2. \A i \in 1 .. Count : i \in 1 .. Count + k
        BY <1>1
      <3> QED BY <1>1, <1>2, <2>1, <3>1, <3>2
    <2>2. CASE b \in accepted + 1 .. accepted + k
      <3>1. PICK j \in Nat : j = b - accepted + Count
        BY <1>1, <2>2
      <3>2. /\ j \in Count + 1 .. Count + k /\ j \in 1 .. Count + k
            /\ accepted + (j - Count) = b
        BY <1>1, <2>2, <3>1
      <3> QED BY <1>1, <1>2, <2>2, <3>2
    <2>3. CASE b \notin 1 .. accepted + k
      <3>1. b \notin flushed
        BY <1>1, <2>3
      <3>2. ASSUME NEW i \in 1 .. Count + k PROVE Byte(i)' # b
        BY <1>1, <1>4, <2>3
      <3> QED BY <2>3, <3>1, <3>2
    <2> QED BY <1>1, <2>1, <2>2, <2>3
  <1>7. \A i \in 1 .. Count + k : Byte(i)' \notin flushed
    <2> TAKE i \in 1 .. Count + k
    <2>1. CASE i \in 1 .. Count
      BY <1>2, <2>1 DEF StreamInv
    <2>2. CASE i > Count /\ Byte(i)' = accepted + (i - Count)
      <3>1. Byte(i)' \notin 1 .. accepted
        BY <1>1, <2>2
      <3> QED BY <1>1, <3>1
    <2> QED BY <1>4, <2>1, <2>2
  <1>8. /\ \A i, j \in 1 .. Count' : i < j => Byte(i)' < Byte(j)'
        /\ \A b \in Nat : b \in 1 .. accepted' <=>
                            b \in flushed' \/ \E i \in 1 .. Count' : Byte(i)' = b
        /\ \A i \in 1 .. Count' : Byte(i)' \notin flushed'
    BY <1>2, <1>3, <1>5, <1>6, <1>7
  <1> QED BY <1>8 DEF StreamInv

\* Flushing moves the bytes of the ring to the flushed ones.
LEMMA FlushStream ==
    ASSUME TypeOK, StreamInv, NEW w \in Writers, FlushBuffer(w)
    PROVE  StreamInv'
  <1>1. Count \in Nat /\ Len(sent) \in Nat /\ Len(sent) <= Count
    <2>1. Pending \in Nat /\ Len(sent) \in Nat
      BY StreamType
    <2> QED BY <2>1 DEF Count
  <1>2. /\ Count' = Len(sent) /\ accepted' = accepted
        /\ \A i \in 1 .. Len(sent) : Byte(i)' = Byte(i)
        /\ \A b : b \in flushed' <=> \/ b \in flushed
                                     \/ \E i \in Len(sent) + 1 .. Count : Byte(i) = b
    BY FlushEffect, BytesArePositive
  <1>3. \A i \in 1 .. Count : i \in 1 .. Len(sent) \/ i \in Len(sent) + 1 .. Count
    BY <1>1
  <1>4. /\ \A i \in 1 .. Len(sent) : i \in 1 .. Count
        /\ \A i \in Len(sent) + 1 .. Count : i \in 1 .. Count
    BY <1>1
  <1>5. \A b \in Nat : b \in 1 .. accepted <=>
                         b \in flushed' \/ \E i \in 1 .. Len(sent) : Byte(i) = b
    BY <1>2, <1>3, <1>4 DEF StreamInv
  <1>6. \A i, j \in 1 .. Len(sent) : i < j => Byte(i) < Byte(j)
    BY <1>4 DEF StreamInv
  <1>7. ASSUME NEW i \in 1 .. Len(sent) PROVE Byte(i) \notin flushed'
    <2>1. ASSUME NEW j \in Len(sent) + 1 .. Count PROVE Byte(i) # Byte(j)
      <3>1. i < j /\ i \in 1 .. Count /\ j \in 1 .. Count
        BY <1>1, <1>4
      <3>2. Byte(i) < Byte(j) /\ Byte(i) \in Nat /\ Byte(j) \in Nat
        BY <3>1, StreamType DEF StreamInv
      <3> QED BY <3>2
    <2> QED BY <1>2, <1>4, <2>1 DEF StreamInv
  <1>8. /\ \A i, j \in 1 .. Count' : i < j => Byte(i)' < Byte(j)'
        /\ \A b \in Nat : b \in 1 .. accepted' <=>
                            b \in flushed' \/ \E i \in 1 .. Count' : Byte(i)' = b
        /\ \A i \in 1 .. Count' : Byte(i)' \notin flushed'
    BY <1>2, <1>5, <1>6, <1>7
  <1> QED BY <1>8 DEF StreamInv

\* Every step keeps the stream.
LEMMA StreamStep ==
    ASSUME TypeOK, StreamInv, [Next]_vars
    PROVE  RingType' /\ StreamInv'
  <1>1. ASSUME NEW w \in Writers, NEW n \in 1 .. MaxBytes, Write(w, n)
        PROVE  RingType' /\ StreamInv'
    BY <1>1, WriteEffect, WriteStream
  <1>2. ASSUME NEW w \in Writers, FlushBuffer(w)
        PROVE  RingType' /\ StreamInv'
    BY <1>2, FlushEffect, FlushStream, BytesArePositive
  <1>3. CASE IsrTransmit
    <2>1. /\ RingType' /\ Count' = Count /\ UNCHANGED <<accepted, flushed>>
          /\ \A i \in 1 .. Count : Byte(i)' = Byte(i)
      BY <1>3, TransmitEffect, BytesArePositive
    <2>2. /\ \A i, j \in 1 .. Count' : i < j => Byte(i)' < Byte(j)'
          /\ \A b \in Nat : b \in 1 .. accepted' <=>
                              b \in flushed' \/ \E i \in 1 .. Count' : Byte(i)' = b
          /\ \A i \in 1 .. Count' : Byte(i)' \notin flushed'
      BY <2>1 DEF StreamInv
    <2> QED BY <2>1, <2>2 DEF StreamInv
  <1>4. CASE UNCHANGED <<ring, history>>
    <2>1. RingType
      BY TypeParts
    <2>2. RingType'
      BY <1>4, <2>1 DEF RingType, ring, history
    <2>3. /\ Count' = Count /\ accepted' = accepted /\ flushed' = flushed
          /\ \A i : Byte(i)' = Byte(i)
      BY <1>4 DEF ring, history, Count, Pending, Byte, Slot
    <2>4. /\ \A i, j \in 1 .. Count' : i < j => Byte(i)' < Byte(j)'
          /\ \A b \in Nat : b \in 1 .. accepted' <=>
                              b \in flushed' \/ \E i \in 1 .. Count' : Byte(i)' = b
          /\ \A i \in 1 .. Count' : Byte(i)' \notin flushed'
      BY <2>3 DEF StreamInv
    <2> QED BY <2>2, <2>4 DEF StreamInv
  <1> QED BY <1>1, <1>2, <1>3, <1>4, RingUsers

\* start_tx and stop_tx: the caller goes on, or it has a register to change in
\* which only THRI differs.
LEMMA TxCall ==
    ASSUME ier \subseteq Bits, NEW t, NEW next,
           start_tx(t, next) \/ stop_tx(t, next)
    PROVE  \/ /\ pc' = [pc EXCEPT ![t] = next] /\ UNCHANGED <<reg, then>>
           \/ \E v \in SUBSET Bits :
                /\ "MSI" \in v <=> "MSI" \in ier
                /\ reg' = [reg EXCEPT ![t] = v] /\ then' = [then EXCEPT ![t] = next]
                /\ pc' = [pc EXCEPT ![t] = "set_ier"]
  <1>1. /\ ier \cup {"THRI"} \in SUBSET Bits
        /\ "MSI" \in ier \cup {"THRI"} <=> "MSI" \in ier
        /\ ier \ {"THRI"} \in SUBSET Bits
        /\ "MSI" \in ier \ {"THRI"} <=> "MSI" \in ier
    BY DEF Bits
  <1>2. CASE start_tx(t, next)
    BY <1>1, <1>2 DEF start_tx, ChangeIer, Skip, Goto
  <1>3. CASE stop_tx(t, next)
    BY <1>1, <1>3 DEF stop_tx, ChangeIer, Skip, Goto
  <1> QED BY <1>2, <1>3

\* Where a call of start_tx or stop_tx leads has the right types.
LEMMA TxCallType ==
    ASSUME ControlType, NEW t \in Threads, NEW next \in Locations,
           start_tx(t, next) \/ stop_tx(t, next)
    PROVE  /\ pc' \in [Threads -> Locations] /\ then' \in [Threads -> Locations]
           /\ reg' \in [Threads -> SUBSET Bits]
  <1>1. ier \subseteq Bits
    BY DEF ControlType
  <1>2. CASE pc' = [pc EXCEPT ![t] = next] /\ UNCHANGED <<reg, then>>
    BY <1>2 DEF ControlType
  <1>3. ASSUME NEW v \in SUBSET Bits,
               reg' = [reg EXCEPT ![t] = v], then' = [then EXCEPT ![t] = next],
               pc' = [pc EXCEPT ![t] = "set_ier"]
        PROVE  /\ pc' \in [Threads -> Locations] /\ then' \in [Threads -> Locations]
               /\ reg' \in [Threads -> SUBSET Bits]
    <2>1. "set_ier" \in Locations
      BY DEF Locations
    <2> QED BY <1>3, <2>1 DEF ControlType
  <1> QED BY <1>1, <1>2, <1>3, TxCall

\* Every step keeps the types of the control state.
LEMMA ControlStep ==
    ASSUME ControlType, [Next]_vars
    PROVE  ControlType'
  <1>1. ASSUME NEW t \in Threads, ThreadStep(t) PROVE ControlType'
    <2>1. CASE SetIer(t)
      BY <2>1 DEF SetIer, Goto, ControlType, Locations, flow, line
    <2>2. CASE WriteIer(t)
      <3>1. PICK v \in {reg[t], ier} : WriteRegister(v)
        BY <2>2 DEF WriteIer
      <3>2. hw' \subseteq Bits /\ thri' \in BOOLEAN
        BY <3>1 DEF ControlType, WriteRegister
      <3>3. pc' \in [Threads -> Locations]
        BY <2>2 DEF WriteIer, Goto, ControlType
      <3> QED BY <2>2, <3>2, <3>3 DEF WriteIer, ControlType, flow, line
    <2>3. CASE Unlock(t)
      BY <2>3 DEF Unlock, Goto, ControlType, Threads, Locations, shadow, flow,
         line
    <2>4. CASE StartTest(t)
      BY <2>4 DEF StartTest, Goto, ControlType, Threads, Locations, shadow,
         flow, line
    <2>5. CASE Start(t)
      <3>1. t \in Threads /\ {"idle"} \subseteq Locations
        BY DEF Threads, Locations
      <3>2. /\ pc' \in [Threads -> Locations] /\ then' \in [Threads -> Locations]
            /\ reg' \in [Threads -> SUBSET Bits]
        BY <2>5, <3>1, TxCallType DEF Start
      <3> QED BY <2>5, <3>1, <3>2 DEF Start, ControlType, Threads, shadow, flow, line
    <2> QED BY <1>1, <2>1, <2>2, <2>3, <2>4, <2>5 DEF ThreadStep
  <1>2. CASE IsrStep
    <2>1. CASE IsrLock
      BY <2>1 DEF IsrLock, Acquire, Goto, ControlType, Threads, Locations,
         shadow, flow, line
    <2>2. CASE IsrReceive
      <3>1. "isr" \in Threads /\ {"rx", "push"} \subseteq Locations
        BY DEF Threads, Locations
      <3>2. /\ pc' \in [Threads -> Locations] /\ then' \in [Threads -> Locations]
            /\ reg' \in [Threads -> SUBSET Bits]
        BY <2>2, <3>1, TxCallType DEF IsrReceive, Skip, Goto, ControlType
      <3>3. stopped' \in BOOLEAN
        BY <2>2 DEF IsrReceive, ControlType
      <3>4. UNCHANGED <<lock, shadow, thrEmpty, hwStopped, ctsFlow, line, cause>>
        BY <2>2 DEF IsrReceive
      <3> QED BY <3>2, <3>3, <3>4 DEF ControlType, shadow, line
    <2>3. CASE IsrPush
      BY <2>3 DEF IsrPush, Goto, ControlType, Threads, Locations, shadow,
         flow, line
    <2>4. CASE IsrRelock
      BY <2>4 DEF IsrRelock, Acquire, Goto, ControlType, Threads, Locations,
         shadow, flow, line
    <2>5. CASE IsrStopTx
      <3>1. "isr" \in Threads /\ {"modem"} \subseteq Locations
        BY DEF Threads, Locations
      <3>2. /\ pc' \in [Threads -> Locations] /\ then' \in [Threads -> Locations]
            /\ reg' \in [Threads -> SUBSET Bits]
        BY <2>5, <3>1, TxCallType DEF IsrStopTx
      <3> QED BY <2>5, <3>1, <3>2 DEF IsrStopTx, ControlType, Threads, shadow, flow, line
    <2>6. CASE IsrTransmit
      BY <2>6 DEF IsrTransmit, Goto, ControlType, Threads, Locations, flow,
         line
    <2>7. CASE IsrModem
      <3>1. "isr" \in Threads /\ {"unlock"} \subseteq Locations
        BY DEF Threads, Locations
      <3>2. /\ pc' \in [Threads -> Locations] /\ then' \in [Threads -> Locations]
            /\ reg' \in [Threads -> SUBSET Bits]
        BY <2>7, <3>1, TxCallType DEF IsrModem, Skip, Goto, ControlType
      <3>3. hwStopped' \in BOOLEAN /\ ctsDelta' \in BOOLEAN
        BY <2>7 DEF IsrModem, ControlType
      <3>4. UNCHANGED <<lock, shadow, thrEmpty, stopped, ctsFlow, cts, cause, setting>>
        BY <2>7 DEF IsrModem
      <3> QED BY <3>2, <3>3, <3>4 DEF ControlType, shadow
    <2> QED BY <1>2, <2>1, <2>2, <2>3, <2>4, <2>5, <2>6, <2>7 DEF IsrStep
  <1>3. ASSUME NEW w \in Writers, WriterCall(w) PROVE ControlType'
    <2>1. ASSUME NEW n \in 1 .. MaxBytes, Write(w, n) PROVE ControlType'
      BY <2>1 DEF Write, Goto, ControlType, Threads, Locations, shadow, flow,
         line
    <2>2. CASE FlushChars(w)
      BY <2>2 DEF FlushChars, Goto, ControlType, Threads, Locations, shadow,
         flow, line
    <2>3. CASE FlushBuffer(w)
      BY <2>3 DEF FlushBuffer, ControlType, Threads, Locations, shadow, flow,
         line
    <2> QED BY <1>3, <2>1, <2>2, <2>3 DEF WriterCall
  <1>4. CASE TtyCall \/ TtyStep
    <2>1. CASE TtyStop
      BY <2>1 DEF TtyStop, Goto, ControlType, Threads, Locations, shadow,
         flow, line
    <2>2. CASE TtyStart
      <3>1. pc' \in [Threads -> Locations]
        BY <2>2 DEF TtyStart, Goto, ControlType, Locations
      <3> QED BY <2>2, <3>1 DEF TtyStart, ControlType, shadow, line
    <2>3. CASE Stop
      <3>1. "tty" \in Threads /\ {"unlock"} \subseteq Locations
        BY DEF Threads, Locations
      <3>2. /\ pc' \in [Threads -> Locations] /\ then' \in [Threads -> Locations]
            /\ reg' \in [Threads -> SUBSET Bits]
        BY <2>3, <3>1, TxCallType DEF Stop
      <3> QED BY <2>3, <3>1, <3>2 DEF Stop, ControlType, Threads, shadow, flow, line, Acquire
    <2> QED BY <1>4, <2>1, <2>2, <2>3 DEF TtyCall, TtyStep
  <1>5. CASE (MayRun("termios") /\ ChangeCrtscts) \/ TermiosStep
    <2>1. CASE ChangeCrtscts
      BY <2>1 DEF ChangeCrtscts, Goto, ControlType, Threads, Locations,
         shadow, flow, line
    <2>2. CASE SetMsi
      BY <2>2 DEF SetMsi, Acquire, ChangeIer, Goto, ControlType, Threads,
         Locations, shadow, flow, line, Bits
    <2>3. CASE ReleaseTermios
      BY <2>3 DEF ReleaseTermios, Goto, ControlType, Threads, Locations,
         shadow, flow, line
    <2>4. CASE Restart
      <3>1. "termios" \in Threads /\ {"unlock"} \subseteq Locations
        BY DEF Threads, Locations
      <3>2. /\ pc' \in [Threads -> Locations] /\ then' \in [Threads -> Locations]
            /\ reg' \in [Threads -> SUBSET Bits]
        BY <2>4, <3>1, TxCallType DEF Restart, Skip, Goto, ControlType
      <3> QED BY <2>4, <3>1, <3>2 DEF Restart, ControlType, Threads, shadow, flow, line, Acquire
    <2> QED BY <1>5, <2>1, <2>2, <2>3, <2>4 DEF TermiosStep
  <1>6. CASE IsrEnter
    <2>1. pc' \in [Threads -> Locations]
      BY <1>6 DEF IsrEnter, Goto, ControlType, Locations
    <2>2. /\ thri' \in BOOLEAN /\ cause' \in {"none", "thri", "msi", "rdi"}
      BY <1>6 DEF IsrEnter, ControlType
    <2>3. UNCHANGED <<reg, then, lock, ier, hw, thrEmpty, flow, line>>
      BY <1>6 DEF IsrEnter
    <2> QED BY <2>1, <2>2, <2>3 DEF ControlType, flow, line
  <1>7. CASE Drain
    BY <1>7 DEF Drain, ControlType, flow, line
  <1>8. CASE CtsChange
    BY <1>8 DEF CtsChange, ControlType, shadow, flow
  <1>9. CASE UNCHANGED vars
    BY <1>9 DEF vars, ControlType, shadow, flow, line
  <1> QED BY <1>1, <1>2, <1>3, <1>4, <1>5, <1>6, <1>7, <1>8, <1>9 DEF Next

\* The initial states are in the types.
LEMMA TypeInit == Init => TypeOK
  <1> SUFFICES ASSUME Init PROVE TypeOK
    OBVIOUS
  <1>1. Size \in Nat \ {0} /\ MaxBytes \in Nat
    BY SerialTxAssumption
  <1>2. RingType
    BY <1>1 DEF Init, RingType
  <1>3. ControlType
    BY DEF Init, ControlType, Locations
  <1> QED BY <1>2, <1>3, TypeParts

\* At first the stream is empty.
LEMMA StreamInit == Init => StreamInv
  <1> SUFFICES ASSUME Init PROVE StreamInv
    OBVIOUS
  <1>1. TypeOK /\ head = 0 /\ tail = 0 /\ accepted = 0 /\ flushed = {} /\ sent = <<>>
    BY TypeInit DEF Init
  <1>2. Len(sent) = 0 /\ Pending = 0
    BY <1>1, RingCounts, SerialTxAssumption, EmptySeq
  <1>3. Count = 0
    BY <1>2 DEF Count
  <1> QED BY <1>1, <1>3 DEF StreamInv

\* Types and stream, in every state.
LEMMA StreamInductive == Spec => [](TypeOK /\ StreamInv)
  <1>1. Init => TypeOK /\ StreamInv
    BY TypeInit, StreamInit
  <1>2. ASSUME TypeOK, StreamInv, [Next]_vars PROVE TypeOK' /\ StreamInv'
    <2>1. ControlType /\ (RingType' /\ ControlType' => TypeOK')
      BY <1>2 DEF TypeOK, RingType, ControlType
    <2>2. RingType' /\ StreamInv'
      BY <1>2, StreamStep
    <2>3. ControlType'
      BY <1>2, <2>1, ControlStep
    <2> QED BY <2>1, <2>2, <2>3
  <1> QED BY <1>1, <1>2, PTL DEF Spec

\* Every variable has its type (TypeOK), for any number of writers, size of
\* the ring and of the FIFO, and settings.
THEOREM TypeCorrect == Spec => []TypeOK
  BY StreamInductive, PTL

\* The stream of bytes is kept (TxStream): snx_ser_write, transmit_chars and
\* flush_buffer lose, repeat and reorder nothing, whoever writes, with the
\* lock missing around start_tx, on any number of processors.
THEOREM StreamIsKept == Spec => []TxStream
  <1>1. TypeOK /\ StreamInv => TxStream
    BY StreamIsTxStream
  <1> QED BY <1>1, StreamInductive, PTL

----------------------------------------------------------------------------
(* The control state: places, the lock, one processor, the modem interrupt *)

\* Each thread stays at its own places.
LEMMA PlaceStep ==
    ASSUME ControlType, PlaceInv, [Next]_vars
    PROVE  PlaceInv'
  <1> USE SerialTxAssumption DEF Threads, Changing, PlaceInv, ControlType
  <1>1. ASSUME NEW t \in Threads, ThreadStep(t) PROVE PlaceInv'
    <2>1. CASE SetIer(t)
      BY <2>1 DEF SetIer, Goto
    <2>2. CASE WriteIer(t)
      <3>1. pc[t] = "write_ier" /\ Goto(t, then[t]) /\ UNCHANGED <<then, lock>>
        BY <2>2 DEF WriteIer
      <3> QED BY <3>1 DEF Goto
    <2>3. CASE Unlock(t)
      BY <2>3 DEF Unlock, Goto
    <2>4. CASE StartTest(t)
      BY <2>4 DEF StartTest, Goto
    <2>5. CASE Start(t)
      BY <2>5 DEF Start, start_tx, ChangeIer, Skip, Goto
    <2> QED BY <1>1, <2>1, <2>2, <2>3, <2>4, <2>5 DEF ThreadStep
  <1>2. CASE IsrStep
    <2>1. CASE IsrLock
      BY <2>1 DEF IsrLock, Acquire, Goto
    <2>2. CASE IsrReceive
      BY <2>2 DEF IsrReceive, start_tx, stop_tx, ChangeIer, Skip, Goto
    <2>3. CASE IsrPush
      BY <2>3 DEF IsrPush, Goto
    <2>4. CASE IsrRelock
      BY <2>4 DEF IsrRelock, Acquire, Goto
    <2>5. CASE IsrStopTx
      BY <2>5 DEF IsrStopTx, stop_tx, ChangeIer, Skip, Goto
    <2>6. CASE IsrTransmit
      BY <2>6 DEF IsrTransmit, Goto
    <2>7. CASE IsrModem
      BY <2>7 DEF IsrModem, start_tx, stop_tx, ChangeIer, Skip, Goto
    <2> QED BY <1>2, <2>1, <2>2, <2>3, <2>4, <2>5, <2>6, <2>7 DEF IsrStep
  <1>3. ASSUME NEW w \in Writers, WriterCall(w) PROVE PlaceInv'
    <2>1. ASSUME NEW n \in 1 .. MaxBytes, Write(w, n) PROVE PlaceInv'
      BY <2>1 DEF Write, Goto
    <2>2. CASE FlushChars(w)
      BY <2>2 DEF FlushChars, Goto
    <2>3. CASE FlushBuffer(w)
      BY <2>3 DEF FlushBuffer
    <2> QED BY <1>3, <2>1, <2>2, <2>3 DEF WriterCall
  <1>4. CASE TtyCall \/ TtyStep
    <2>1. CASE TtyStop
      BY <2>1 DEF TtyStop, Goto
    <2>2. CASE TtyStart
      BY <2>2 DEF TtyStart, Goto
    <2>3. CASE Stop
      BY <2>3 DEF Stop, Acquire, stop_tx, ChangeIer, Skip, Goto
    <2> QED BY <1>4, <2>1, <2>2, <2>3 DEF TtyCall, TtyStep
  <1>5. CASE (MayRun("termios") /\ ChangeCrtscts) \/ TermiosStep
    <2>1. CASE ChangeCrtscts
      BY <2>1 DEF ChangeCrtscts, Goto
    <2>2. CASE SetMsi
      BY <2>2 DEF SetMsi, Acquire, ChangeIer, Goto
    <2>3. CASE ReleaseTermios
      BY <2>3 DEF ReleaseTermios, Goto
    <2>4. CASE Restart
      BY <2>4 DEF Restart, Acquire, start_tx, ChangeIer, Skip, Goto
    <2> QED BY <1>5, <2>1, <2>2, <2>3, <2>4 DEF TermiosStep
  <1>6. CASE IsrEnter
    BY <1>6 DEF IsrEnter, Goto
  <1>7. CASE Drain
    BY <1>7 DEF Drain
  <1>8. CASE CtsChange
    BY <1>8 DEF CtsChange
  <1>9. CASE UNCHANGED vars
    BY <1>9 DEF vars
  <1> QED BY <1>1, <1>2, <1>3, <1>4, <1>5, <1>6, <1>7, <1>8, <1>9 DEF Next

\* port->lock is held in the sections that need it, and by one thread.
LEMMA LockStep ==
    ASSUME ControlType, PlaceInv, LockInv, [Next]_vars
    PROVE  LockInv'
  <1> USE SerialTxAssumption DEF Threads, Changing, PlaceInv, ControlType,
            Holds, LockInv
  <1>1. ASSUME NEW t \in Threads, ThreadStep(t) PROVE LockInv'
    <2>1. CASE SetIer(t)
      BY <2>1 DEF SetIer, Goto
    <2>2. CASE WriteIer(t)
      <3>1. pc[t] = "write_ier" /\ Goto(t, then[t]) /\ UNCHANGED <<then, lock>>
        BY <2>2 DEF WriteIer
      <3> QED BY <3>1 DEF Goto
    <2>3. CASE Unlock(t)
      BY <2>3 DEF Unlock, Goto
    <2>4. CASE StartTest(t)
      BY <2>4 DEF StartTest, Goto
    <2>5. CASE Start(t)
      BY <2>5 DEF Start, start_tx, ChangeIer, Skip, Goto
    <2> QED BY <1>1, <2>1, <2>2, <2>3, <2>4, <2>5 DEF ThreadStep
  <1>2. CASE IsrStep
    <2>1. CASE IsrLock
      BY <2>1 DEF IsrLock, Acquire, Goto
    <2>2. CASE IsrReceive
      BY <2>2 DEF IsrReceive, start_tx, stop_tx, ChangeIer, Skip, Goto
    <2>3. CASE IsrPush
      BY <2>3 DEF IsrPush, Goto
    <2>4. CASE IsrRelock
      BY <2>4 DEF IsrRelock, Acquire, Goto
    <2>5. CASE IsrStopTx
      BY <2>5 DEF IsrStopTx, stop_tx, ChangeIer, Skip, Goto
    <2>6. CASE IsrTransmit
      BY <2>6 DEF IsrTransmit, Goto
    <2>7. CASE IsrModem
      BY <2>7 DEF IsrModem, start_tx, stop_tx, ChangeIer, Skip, Goto
    <2> QED BY <1>2, <2>1, <2>2, <2>3, <2>4, <2>5, <2>6, <2>7 DEF IsrStep
  <1>3. ASSUME NEW w \in Writers, WriterCall(w) PROVE LockInv'
    <2>1. ASSUME NEW n \in 1 .. MaxBytes, Write(w, n) PROVE LockInv'
      BY <2>1 DEF Write, Goto
    <2>2. CASE FlushChars(w)
      BY <2>2 DEF FlushChars, Goto
    <2>3. CASE FlushBuffer(w)
      BY <2>3 DEF FlushBuffer
    <2> QED BY <1>3, <2>1, <2>2, <2>3 DEF WriterCall
  <1>4. CASE TtyCall \/ TtyStep
    <2>1. CASE TtyStop
      BY <2>1 DEF TtyStop, Goto
    <2>2. CASE TtyStart
      BY <2>2 DEF TtyStart, Goto
    <2>3. CASE Stop
      BY <2>3 DEF Stop, Acquire, stop_tx, ChangeIer, Skip, Goto
    <2> QED BY <1>4, <2>1, <2>2, <2>3 DEF TtyCall, TtyStep
  <1>5. CASE (MayRun("termios") /\ ChangeCrtscts) \/ TermiosStep
    <2>1. CASE ChangeCrtscts
      BY <2>1 DEF ChangeCrtscts, Goto
    <2>2. CASE SetMsi
      BY <2>2 DEF SetMsi, Acquire, ChangeIer, Goto
    <2>3. CASE ReleaseTermios
      BY <2>3 DEF ReleaseTermios, Goto
    <2>4. CASE Restart
      BY <2>4 DEF Restart, Acquire, start_tx, ChangeIer, Skip, Goto
    <2> QED BY <1>5, <2>1, <2>2, <2>3, <2>4 DEF TermiosStep
  <1>6. CASE IsrEnter
    BY <1>6 DEF IsrEnter, Goto
  <1>7. CASE Drain
    BY <1>7 DEF Drain
  <1>8. CASE CtsChange
    BY <1>8 DEF CtsChange
  <1>9. CASE UNCHANGED vars
    BY <1>9 DEF vars
  <1> QED BY <1>1, <1>2, <1>3, <1>4, <1>5, <1>6, <1>7, <1>8, <1>9 DEF Next

\* On one processor one thread is in a call.
LEMMA OneCallStep ==
    ASSUME ControlType, PlaceInv, LockInv, OneCallInv, [Next]_vars
    PROVE  OneCallInv'
  <1> USE SerialTxAssumption DEF Threads, Changing, PlaceInv, ControlType,
            Holds, LockInv, OneCallInv, OneCpu, line, MayRun
  <1>1. ASSUME NEW t \in Threads, ThreadStep(t) PROVE OneCallInv'
    <2>0. MayRun(t)
      BY <1>1 DEF ThreadStep
    <2>1. CASE SetIer(t)
      BY <2>0, <2>1 DEF SetIer, Goto
    <2>2. CASE WriteIer(t)
      <3>1. pc[t] = "write_ier" /\ Goto(t, then[t]) /\ UNCHANGED <<then, lock, setting>>
        BY <2>2 DEF WriteIer, line
      <3> QED BY <2>0, <3>1 DEF Goto
    <2>3. CASE Unlock(t)
      BY <2>0, <2>3 DEF Unlock, Goto
    <2>4. CASE StartTest(t)
      BY <2>0, <2>4 DEF StartTest, Goto
    <2>5. CASE Start(t)
      BY <2>0, <2>5 DEF Start, start_tx, ChangeIer, Skip, Goto
    <2> QED BY <1>1, <2>1, <2>2, <2>3, <2>4, <2>5 DEF ThreadStep
  <1>2. CASE IsrStep
    <2>1. CASE IsrLock
      BY <2>1 DEF IsrLock, Acquire, Goto
    <2>2. CASE IsrReceive
      BY <2>2 DEF IsrReceive, start_tx, stop_tx, ChangeIer, Skip, Goto
    <2>3. CASE IsrPush
      BY <2>3 DEF IsrPush, Goto
    <2>4. CASE IsrRelock
      BY <2>4 DEF IsrRelock, Acquire, Goto
    <2>5. CASE IsrStopTx
      BY <2>5 DEF IsrStopTx, stop_tx, ChangeIer, Skip, Goto
    <2>6. CASE IsrTransmit
      BY <2>6 DEF IsrTransmit, Goto
    <2>7. CASE IsrModem
      BY <2>7 DEF IsrModem, start_tx, stop_tx, ChangeIer, Skip, Goto
    <2> QED BY <1>2, <2>1, <2>2, <2>3, <2>4, <2>5, <2>6, <2>7 DEF IsrStep
  <1>3. ASSUME NEW w \in Writers, WriterCall(w) PROVE OneCallInv'
    <2>0. MayRun(w)
      BY <1>3 DEF WriterCall
    <2>1. ASSUME NEW n \in 1 .. MaxBytes, Write(w, n) PROVE OneCallInv'
      BY <2>0, <2>1 DEF Write, Goto
    <2>2. CASE FlushChars(w)
      BY <2>0, <2>2 DEF FlushChars, Goto
    <2>3. CASE FlushBuffer(w)
      BY <2>0, <2>3 DEF FlushBuffer
    <2> QED BY <1>3, <2>1, <2>2, <2>3 DEF WriterCall
  <1>4. CASE TtyCall \/ TtyStep
    <2>0. MayRun("tty")
      BY <1>4 DEF TtyCall, TtyStep
    <2>1. CASE TtyStop
      BY <2>0, <2>1 DEF TtyStop, Goto
    <2>2. CASE TtyStart
      BY <2>0, <2>2 DEF TtyStart, Goto
    <2>3. CASE Stop
      BY <2>0, <2>3 DEF Stop, Acquire, stop_tx, ChangeIer, Skip, Goto
    <2> QED BY <1>4, <2>1, <2>2, <2>3 DEF TtyCall, TtyStep
  <1>5. CASE (MayRun("termios") /\ ChangeCrtscts) \/ TermiosStep
    <2>0. MayRun("termios")
      BY <1>5 DEF TermiosStep
    <2>1. CASE ChangeCrtscts
      BY <2>0, <2>1 DEF ChangeCrtscts, Goto
    <2>2. CASE SetMsi
      BY <2>0, <2>2 DEF SetMsi, Acquire, ChangeIer, Goto
    <2>3. CASE ReleaseTermios
      BY <2>0, <2>3 DEF ReleaseTermios, Goto
    <2>4. CASE Restart
      BY <2>0, <2>4 DEF Restart, Acquire, start_tx, ChangeIer, Skip, Goto
    <2> QED BY <1>5, <2>1, <2>2, <2>3, <2>4 DEF TermiosStep
  <1>6. CASE IsrEnter
    BY <1>6 DEF IsrEnter, Goto
  <1>7. CASE Drain
    BY <1>7 DEF Drain
  <1>8. CASE CtsChange
    BY <1>8 DEF CtsChange
  <1>9. CASE UNCHANGED vars
    BY <1>9 DEF vars
  <1> QED BY <1>1, <1>2, <1>3, <1>4, <1>5, <1>6, <1>7, <1>8, <1>9 DEF Next

\* On one processor the modem interrupt stays what CRTSCTS asks for.
LEMMA MsiStep ==
    ASSUME ControlType, PlaceInv, LockInv, OneCallInv, MsiInv, [Next]_vars
    PROVE  MsiInv'
  <1> USE SerialTxAssumption DEF Threads, Changing, PlaceInv, ControlType,
            Holds, LockInv, OneCallInv, OneCpu, line, shadow, flow, MayRun,
            MsiInv, AsAsked
  <1>1. ASSUME NEW t \in Threads, ThreadStep(t) PROVE MsiInv'
    <2>0. MayRun(t)
      BY <1>1 DEF ThreadStep
    <2>1. CASE SetIer(t)
      BY <2>0, <2>1 DEF SetIer, Goto
    <2>2. CASE WriteIer(t)
      <3>1. PICK v \in {reg[t], ier} : WriteRegister(v)
        BY <2>2 DEF WriteIer
      <3>2. hw' = v
        BY <3>1 DEF WriteRegister
      <3>3. /\ pc[t] = "write_ier" /\ Goto(t, then[t])
            /\ UNCHANGED <<reg, then, lock, ier, ctsFlow, setting>>
        BY <2>2 DEF WriteIer, flow, line
      <3> QED BY <2>0, <3>1, <3>2, <3>3 DEF Goto
    <2>3. CASE Unlock(t)
      BY <2>0, <2>3 DEF Unlock, Goto
    <2>4. CASE StartTest(t)
      BY <2>0, <2>4 DEF StartTest, Goto
    <2>5. CASE Start(t)
      BY <2>0, <2>5 DEF Start, start_tx, ChangeIer, Skip, Goto
    <2> QED BY <1>1, <2>1, <2>2, <2>3, <2>4, <2>5 DEF ThreadStep
  <1>2. CASE IsrStep
    <2>1. CASE IsrLock
      BY <2>1 DEF IsrLock, Acquire, Goto
    <2>2. CASE IsrReceive
      BY <2>2 DEF IsrReceive, start_tx, stop_tx, ChangeIer, Skip, Goto
    <2>3. CASE IsrPush
      BY <2>3 DEF IsrPush, Goto
    <2>4. CASE IsrRelock
      BY <2>4 DEF IsrRelock, Acquire, Goto
    <2>5. CASE IsrStopTx
      BY <2>5 DEF IsrStopTx, stop_tx, ChangeIer, Skip, Goto
    <2>6. CASE IsrTransmit
      BY <2>6 DEF IsrTransmit, Goto
    <2>7. CASE IsrModem
      BY <2>7 DEF IsrModem, start_tx, stop_tx, ChangeIer, Skip, Goto
    <2> QED BY <1>2, <2>1, <2>2, <2>3, <2>4, <2>5, <2>6, <2>7 DEF IsrStep
  <1>3. ASSUME NEW w \in Writers, WriterCall(w) PROVE MsiInv'
    <2>0. MayRun(w)
      BY <1>3 DEF WriterCall
    <2>1. ASSUME NEW n \in 1 .. MaxBytes, Write(w, n) PROVE MsiInv'
      BY <2>0, <2>1 DEF Write, Goto
    <2>2. CASE FlushChars(w)
      BY <2>0, <2>2 DEF FlushChars, Goto
    <2>3. CASE FlushBuffer(w)
      BY <2>0, <2>3 DEF FlushBuffer
    <2> QED BY <1>3, <2>1, <2>2, <2>3 DEF WriterCall
  <1>4. CASE TtyCall \/ TtyStep
    <2>0. MayRun("tty")
      BY <1>4 DEF TtyCall, TtyStep
    <2>1. CASE TtyStop
      BY <2>0, <2>1 DEF TtyStop, Goto
    <2>2. CASE TtyStart
      BY <2>0, <2>2 DEF TtyStart, Goto
    <2>3. CASE Stop
      BY <2>0, <2>3 DEF Stop, Acquire, stop_tx, ChangeIer, Skip, Goto
    <2> QED BY <1>4, <2>1, <2>2, <2>3 DEF TtyCall, TtyStep
  <1>5. CASE (MayRun("termios") /\ ChangeCrtscts) \/ TermiosStep
    <2>0. MayRun("termios")
      BY <1>5 DEF TermiosStep
    <2>1. CASE ChangeCrtscts
      BY <2>0, <2>1 DEF ChangeCrtscts, Goto
    <2>2. CASE SetMsi
      BY <2>0, <2>2 DEF SetMsi, Acquire, ChangeIer, Goto
    <2>3. CASE ReleaseTermios
      BY <2>0, <2>3 DEF ReleaseTermios, Goto
    <2>4. CASE Restart
      BY <2>0, <2>4 DEF Restart, Acquire, start_tx, ChangeIer, Skip, Goto
    <2> QED BY <1>5, <2>1, <2>2, <2>3, <2>4 DEF TermiosStep
  <1>6. CASE IsrEnter
    BY <1>6 DEF IsrEnter, Goto
  <1>7. CASE Drain
    BY <1>7 DEF Drain
  <1>8. CASE CtsChange
    BY <1>8 DEF CtsChange
  <1>9. CASE UNCHANGED vars
    BY <1>9 DEF vars
  <1> QED BY <1>1, <1>2, <1>3, <1>4, <1>5, <1>6, <1>7, <1>8, <1>9 DEF Next

----------------------------------------------------------------------------
(* One processor, no flow control *)

\* Without flow control, on one processor, nothing stops output.
LEMMA PlainStep ==
    ASSUME ControlType, PlaceInv, LockInv, OneCallInv, Plain,
           PlainInv, ShadowInv, StartInv, [Next]_vars
    PROVE  PlainInv'
  <1> USE SerialTxAssumption DEF Threads, Changing, PlaceInv, ControlType,
            Holds, LockInv, OneCallInv, Plain, OneCpu, SoftFlow, HardFlow,
            line, shadow, flow, MayRun, PlainInv, ShadowInv
  <1>1. ASSUME NEW t \in Threads, ThreadStep(t) PROVE PlainInv'
    <2>0. MayRun(t)
      BY <1>1 DEF ThreadStep
    <2>1. CASE SetIer(t)
      BY <2>0, <2>1 DEF SetIer, Goto
    <2>2. CASE WriteIer(t)
      <3>1. PICK v \in {reg[t], ier} : WriteRegister(v)
        BY <2>2 DEF WriteIer
      <3>2. /\ hw' = v
            /\ thri' = IF "THRI" \in v /\ "THRI" \notin hw THEN thrEmpty
                      ELSE thri /\ "THRI" \in v
        BY <3>1 DEF WriteRegister
      <3>3. /\ pc[t] = "write_ier" /\ Goto(t, then[t])
            /\ UNCHANGED <<reg, then, lock, ier, stopped, hwStopped, ctsFlow, cts,
                           ctsDelta, cause, setting, thrEmpty, head, tail>>
        BY <2>2 DEF WriteIer, flow, line, ring
      <3> QED BY <2>0, <3>1, <3>2, <3>3 DEF Goto
    <2>3. CASE Unlock(t)
      BY <2>0, <2>3 DEF Unlock, Goto
    <2>4. CASE StartTest(t)
      BY <2>0, <2>4 DEF StartTest, Goto
    <2>5. CASE Start(t)
      BY <2>0, <2>5 DEF Start, start_tx, ChangeIer, Skip, Goto
    <2> QED BY <1>1, <2>1, <2>2, <2>3, <2>4, <2>5 DEF ThreadStep
  <1>2. CASE IsrStep
    <2>1. CASE IsrLock
      BY <2>1 DEF IsrLock, Acquire, Goto
    <2>2. CASE IsrReceive
      BY <2>2 DEF IsrReceive, start_tx, stop_tx, ChangeIer, Skip, Goto
    <2>3. CASE IsrPush
      BY <2>3 DEF IsrPush, Goto
    <2>4. CASE IsrRelock
      BY <2>4 DEF IsrRelock, Acquire, Goto
    <2>5. CASE IsrStopTx
      BY <2>5 DEF IsrStopTx, stop_tx, ChangeIer, Skip, Goto
    <2>6. CASE IsrTransmit
      BY <2>6 DEF IsrTransmit, Goto
    <2>7. CASE IsrModem
      BY <2>7 DEF IsrModem, start_tx, stop_tx, ChangeIer, Skip, Goto
    <2> QED BY <1>2, <2>1, <2>2, <2>3, <2>4, <2>5, <2>6, <2>7 DEF IsrStep
  <1>3. ASSUME NEW w \in Writers, WriterCall(w) PROVE PlainInv'
    <2>0. MayRun(w)
      BY <1>3 DEF WriterCall
    <2>1. ASSUME NEW n \in 1 .. MaxBytes, Write(w, n) PROVE PlainInv'
      BY <2>0, <2>1 DEF Write, Goto
    <2>2. CASE FlushChars(w)
      BY <2>0, <2>2 DEF FlushChars, Goto
    <2>3. CASE FlushBuffer(w)
      BY <2>0, <2>3 DEF FlushBuffer
    <2> QED BY <1>3, <2>1, <2>2, <2>3 DEF WriterCall
  <1>4. CASE TtyCall \/ TtyStep
    <2>0. MayRun("tty")
      BY <1>4 DEF TtyCall, TtyStep
    <2>1. CASE TtyStop
      BY <2>0, <2>1 DEF TtyStop, Goto
    <2>2. CASE TtyStart
      BY <2>0, <2>2 DEF TtyStart, Goto
    <2>3. CASE Stop
      BY <2>0, <2>3 DEF Stop, Acquire, stop_tx, ChangeIer, Skip, Goto
    <2> QED BY <1>4, <2>1, <2>2, <2>3 DEF TtyCall, TtyStep
  <1>5. CASE (MayRun("termios") /\ ChangeCrtscts) \/ TermiosStep
    <2>0. MayRun("termios")
      BY <1>5 DEF TermiosStep
    <2>1. CASE ChangeCrtscts
      BY <2>0, <2>1 DEF ChangeCrtscts, Goto
    <2>2. CASE SetMsi
      BY <2>0, <2>2 DEF SetMsi, Acquire, ChangeIer, Goto
    <2>3. CASE ReleaseTermios
      BY <2>0, <2>3 DEF ReleaseTermios, Goto
    <2>4. CASE Restart
      BY <2>0, <2>4 DEF Restart, Acquire, start_tx, ChangeIer, Skip, Goto
    <2> QED BY <1>5, <2>1, <2>2, <2>3, <2>4 DEF TermiosStep
  <1>6. CASE IsrEnter
    BY <1>6 DEF IsrEnter, Goto
  <1>7. CASE Drain
    BY <1>7 DEF Drain
  <1>8. CASE CtsChange
    BY <1>8 DEF CtsChange
  <1>9. CASE UNCHANGED vars
    BY <1>9 DEF vars
  <1> QED BY <1>1, <1>2, <1>3, <1>4, <1>5, <1>6, <1>7, <1>8, <1>9 DEF Next

\* The shadow is the register, but for the thread changing it.
LEMMA ShadowStep ==
    ASSUME ControlType, PlaceInv, LockInv, OneCallInv, Plain,
           PlainInv, ShadowInv, StartInv, [Next]_vars
    PROVE  ShadowInv'
  <1> USE SerialTxAssumption DEF Threads, Changing, PlaceInv, ControlType,
            Holds, LockInv, OneCallInv, Plain, OneCpu, SoftFlow, HardFlow,
            line, shadow, flow, MayRun, PlainInv, ShadowInv
  <1>1. ASSUME NEW t \in Threads, ThreadStep(t) PROVE ShadowInv'
    <2>0. MayRun(t)
      BY <1>1 DEF ThreadStep
    <2>1. CASE SetIer(t)
      BY <2>0, <2>1 DEF SetIer, Goto
    <2>2. CASE WriteIer(t)
      <3>1. PICK v \in {reg[t], ier} : WriteRegister(v)
        BY <2>2 DEF WriteIer
      <3>2. /\ hw' = v
            /\ thri' = IF "THRI" \in v /\ "THRI" \notin hw THEN thrEmpty
                      ELSE thri /\ "THRI" \in v
        BY <3>1 DEF WriteRegister
      <3>3. /\ pc[t] = "write_ier" /\ Goto(t, then[t])
            /\ UNCHANGED <<reg, then, lock, ier, stopped, hwStopped, ctsFlow, cts,
                           ctsDelta, cause, setting, thrEmpty, head, tail>>
        BY <2>2 DEF WriteIer, flow, line, ring
      <3> QED BY <2>0, <3>1, <3>2, <3>3 DEF Goto
    <2>3. CASE Unlock(t)
      BY <2>0, <2>3 DEF Unlock, Goto
    <2>4. CASE StartTest(t)
      BY <2>0, <2>4 DEF StartTest, Goto
    <2>5. CASE Start(t)
      BY <2>0, <2>5 DEF Start, start_tx, ChangeIer, Skip, Goto
    <2> QED BY <1>1, <2>1, <2>2, <2>3, <2>4, <2>5 DEF ThreadStep
  <1>2. CASE IsrStep
    <2>1. CASE IsrLock
      BY <2>1 DEF IsrLock, Acquire, Goto
    <2>2. CASE IsrReceive
      BY <2>2 DEF IsrReceive, start_tx, stop_tx, ChangeIer, Skip, Goto
    <2>3. CASE IsrPush
      BY <2>3 DEF IsrPush, Goto
    <2>4. CASE IsrRelock
      BY <2>4 DEF IsrRelock, Acquire, Goto
    <2>5. CASE IsrStopTx
      BY <2>5 DEF IsrStopTx, stop_tx, ChangeIer, Skip, Goto
    <2>6. CASE IsrTransmit
      BY <2>6 DEF IsrTransmit, Goto
    <2>7. CASE IsrModem
      BY <2>7 DEF IsrModem, start_tx, stop_tx, ChangeIer, Skip, Goto
    <2> QED BY <1>2, <2>1, <2>2, <2>3, <2>4, <2>5, <2>6, <2>7 DEF IsrStep
  <1>3. ASSUME NEW w \in Writers, WriterCall(w) PROVE ShadowInv'
    <2>0. MayRun(w)
      BY <1>3 DEF WriterCall
    <2>1. ASSUME NEW n \in 1 .. MaxBytes, Write(w, n) PROVE ShadowInv'
      BY <2>0, <2>1 DEF Write, Goto
    <2>2. CASE FlushChars(w)
      BY <2>0, <2>2 DEF FlushChars, Goto
    <2>3. CASE FlushBuffer(w)
      BY <2>0, <2>3 DEF FlushBuffer
    <2> QED BY <1>3, <2>1, <2>2, <2>3 DEF WriterCall
  <1>4. CASE TtyCall \/ TtyStep
    <2>0. MayRun("tty")
      BY <1>4 DEF TtyCall, TtyStep
    <2>1. CASE TtyStop
      BY <2>0, <2>1 DEF TtyStop, Goto
    <2>2. CASE TtyStart
      BY <2>0, <2>2 DEF TtyStart, Goto
    <2>3. CASE Stop
      BY <2>0, <2>3 DEF Stop, Acquire, stop_tx, ChangeIer, Skip, Goto
    <2> QED BY <1>4, <2>1, <2>2, <2>3 DEF TtyCall, TtyStep
  <1>5. CASE (MayRun("termios") /\ ChangeCrtscts) \/ TermiosStep
    <2>0. MayRun("termios")
      BY <1>5 DEF TermiosStep
    <2>1. CASE ChangeCrtscts
      BY <2>0, <2>1 DEF ChangeCrtscts, Goto
    <2>2. CASE SetMsi
      BY <2>0, <2>2 DEF SetMsi, Acquire, ChangeIer, Goto
    <2>3. CASE ReleaseTermios
      BY <2>0, <2>3 DEF ReleaseTermios, Goto
    <2>4. CASE Restart
      BY <2>0, <2>4 DEF Restart, Acquire, start_tx, ChangeIer, Skip, Goto
    <2> QED BY <1>5, <2>1, <2>2, <2>3, <2>4 DEF TermiosStep
  <1>6. CASE IsrEnter
    BY <1>6 DEF IsrEnter, Goto
  <1>7. CASE Drain
    BY <1>7 DEF Drain
  <1>8. CASE CtsChange
    BY <1>8 DEF CtsChange
  <1>9. CASE UNCHANGED vars
    BY <1>9 DEF vars
  <1> QED BY <1>1, <1>2, <1>3, <1>4, <1>5, <1>6, <1>7, <1>8, <1>9 DEF Next

\* Bytes in the buffer are on their way.
LEMMA StartStep ==
    ASSUME ControlType, PlaceInv, LockInv, OneCallInv, Plain,
           PlainInv, ShadowInv, StartInv, [Next]_vars
    PROVE  StartInv'
  <1> USE SerialTxAssumption DEF Threads, Changing, PlaceInv, ControlType,
            Holds, LockInv, OneCallInv, Plain, OneCpu, SoftFlow, HardFlow,
            line, shadow, flow, MayRun, PlainInv, ShadowInv, StartInv, Empty,
            ring
  <1>1. ASSUME NEW t \in Threads, ThreadStep(t) PROVE StartInv'
    <2>0. MayRun(t)
      BY <1>1 DEF ThreadStep
    <2>1. CASE SetIer(t)
      BY <2>0, <2>1 DEF SetIer, Goto
    <2>2. CASE WriteIer(t)
      <3>1. PICK v \in {reg[t], ier} : WriteRegister(v)
        BY <2>2 DEF WriteIer
      <3>2. /\ hw' = v
            /\ thri' = IF "THRI" \in v /\ "THRI" \notin hw THEN thrEmpty
                      ELSE thri /\ "THRI" \in v
        BY <3>1 DEF WriteRegister
      <3>3. /\ pc[t] = "write_ier" /\ Goto(t, then[t])
            /\ UNCHANGED <<reg, then, lock, ier, stopped, hwStopped, ctsFlow, cts,
                           ctsDelta, cause, setting, thrEmpty, head, tail>>
        BY <2>2 DEF WriteIer, flow, line, ring
      <3> QED BY <2>0, <3>1, <3>2, <3>3 DEF Goto
    <2>3. CASE Unlock(t)
      BY <2>0, <2>3 DEF Unlock, Goto
    <2>4. CASE StartTest(t)
      BY <2>0, <2>4 DEF StartTest, Goto
    <2>5. CASE Start(t)
      BY <2>0, <2>5 DEF Start, start_tx, ChangeIer, Skip, Goto
    <2> QED BY <1>1, <2>1, <2>2, <2>3, <2>4, <2>5 DEF ThreadStep
  <1>2. CASE IsrStep
    <2>1. CASE IsrLock
      BY <2>1 DEF IsrLock, Acquire, Goto
    <2>2. CASE IsrReceive
      BY <2>2 DEF IsrReceive, start_tx, stop_tx, ChangeIer, Skip, Goto
    <2>3. CASE IsrPush
      BY <2>3 DEF IsrPush, Goto
    <2>4. CASE IsrRelock
      BY <2>4 DEF IsrRelock, Acquire, Goto
    <2>5. CASE IsrStopTx
      BY <2>5 DEF IsrStopTx, stop_tx, ChangeIer, Skip, Goto
    <2>6. CASE IsrTransmit
      BY <2>6 DEF IsrTransmit, Goto
    <2>7. CASE IsrModem
      BY <2>7 DEF IsrModem, start_tx, stop_tx, ChangeIer, Skip, Goto
    <2> QED BY <1>2, <2>1, <2>2, <2>3, <2>4, <2>5, <2>6, <2>7 DEF IsrStep
  <1>3. ASSUME NEW w \in Writers, WriterCall(w) PROVE StartInv'
    <2>0. MayRun(w)
      BY <1>3 DEF WriterCall
    <2>1. ASSUME NEW n \in 1 .. MaxBytes, Write(w, n) PROVE StartInv'
      BY <2>0, <2>1 DEF Write, Goto
    <2>2. CASE FlushChars(w)
      BY <2>0, <2>2 DEF FlushChars, Goto
    <2>3. CASE FlushBuffer(w)
      BY <2>0, <2>3 DEF FlushBuffer
    <2> QED BY <1>3, <2>1, <2>2, <2>3 DEF WriterCall
  <1>4. CASE TtyCall \/ TtyStep
    <2>0. MayRun("tty")
      BY <1>4 DEF TtyCall, TtyStep
    <2>1. CASE TtyStop
      BY <2>0, <2>1 DEF TtyStop, Goto
    <2>2. CASE TtyStart
      BY <2>0, <2>2 DEF TtyStart, Goto
    <2>3. CASE Stop
      BY <2>0, <2>3 DEF Stop, Acquire, stop_tx, ChangeIer, Skip, Goto
    <2> QED BY <1>4, <2>1, <2>2, <2>3 DEF TtyCall, TtyStep
  <1>5. CASE (MayRun("termios") /\ ChangeCrtscts) \/ TermiosStep
    <2>0. MayRun("termios")
      BY <1>5 DEF TermiosStep
    <2>1. CASE ChangeCrtscts
      BY <2>0, <2>1 DEF ChangeCrtscts, Goto
    <2>2. CASE SetMsi
      BY <2>0, <2>2 DEF SetMsi, Acquire, ChangeIer, Goto
    <2>3. CASE ReleaseTermios
      BY <2>0, <2>3 DEF ReleaseTermios, Goto
    <2>4. CASE Restart
      BY <2>0, <2>4 DEF Restart, Acquire, start_tx, ChangeIer, Skip, Goto
    <2> QED BY <1>5, <2>1, <2>2, <2>3, <2>4 DEF TermiosStep
  <1>6. CASE IsrEnter
    BY <1>6 DEF IsrEnter, Goto
  <1>7. CASE Drain
    BY <1>7 DEF Drain
  <1>8. CASE CtsChange
    BY <1>8 DEF CtsChange
  <1>9. CASE UNCHANGED vars
    BY <1>9 DEF vars
  <1> QED BY <1>1, <1>2, <1>3, <1>4, <1>5, <1>6, <1>7, <1>8, <1>9 DEF Next

\* How a behaviour is set up does not change.
LEMMA SettingStep ==
    ASSUME [Next]_vars
    PROVE  setting' = setting
  <1>1. ASSUME NEW t \in Threads, ThreadStep(t) PROVE setting' = setting
    BY <1>1 DEF ThreadStep, SetIer, WriteIer, Unlock, StartTest, Start, line
  <1>2. CASE IsrStep
    BY <1>2 DEF IsrStep, IsrLock, IsrReceive, IsrPush, IsrRelock, IsrStopTx,
                IsrTransmit, IsrModem, line
  <1>3. ASSUME NEW w \in Writers, WriterCall(w) PROVE setting' = setting
    BY <1>3 DEF WriterCall, Write, FlushChars, FlushBuffer, line
  <1>4. CASE TtyCall \/ TtyStep
    BY <1>4 DEF TtyCall, TtyStep, TtyStop, TtyStart, Stop, line
  <1>5. CASE ChangeCrtscts \/ TermiosStep
    BY <1>5 DEF ChangeCrtscts, TermiosStep, SetMsi, ReleaseTermios, Restart, line
  <1>6. CASE IsrEnter \/ Drain \/ CtsChange \/ UNCHANGED vars
    BY <1>6 DEF IsrEnter, Drain, CtsChange, vars, line
  <1> QED BY <1>1, <1>2, <1>3, <1>4, <1>5, <1>6 DEF Next

----------------------------------------------------------------------------
(* The theorems about the control state *)

ControlInv == ControlType /\ PlaceInv /\ LockInv /\ OneCallInv /\ MsiInv
PlainParts == Plain => PlainInv /\ ShadowInv /\ StartInv

\* No thread is in a call and no lock is held at first.
LEMMA ControlInit == Init => ControlInv /\ PlainParts
  <1> SUFFICES ASSUME Init PROVE ControlInv /\ PlainParts
    OBVIOUS
  <1>1. ControlType
    BY TypeInit, TypeParts
  <1>2. \A t \in Threads : t # "nobody"
    BY SerialTxAssumption DEF Threads
  <1>3. PlaceInv /\ OneCallInv /\ MsiInv
    BY DEF Init, PlaceInv, OneCallInv, MsiInv, AsAsked, Changing, Threads
  <1>4. LockInv
    BY <1>2 DEF Init, LockInv, Holds, Changing
  <1>5. PlainInv /\ ShadowInv /\ StartInv
    BY DEF Init, PlainInv, ShadowInv, StartInv, Changing, Threads, Empty
  <1> QED BY <1>1, <1>3, <1>4, <1>5 DEF ControlInv, PlainParts

\* Every step keeps the control part.
LEMMA ControlInvStep ==
    ASSUME ControlInv, PlainParts, [Next]_vars
    PROVE  ControlInv' /\ PlainParts'
  <1>1. ControlInv'
    BY ControlStep, PlaceStep, LockStep, OneCallStep, MsiStep DEF ControlInv
  <1>2. Plain' => Plain
    <2>1. setting' = setting
      BY SettingStep
    <2> QED BY <2>1 DEF Plain, OneCpu, SoftFlow, HardFlow
  <1>3. ASSUME Plain PROVE PlainInv' /\ ShadowInv' /\ StartInv'
    BY <1>3, PlainStep, ShadowStep, StartStep DEF ControlInv, PlainParts
  <1> QED BY <1>1, <1>2, <1>3 DEF PlainParts

\* The control part, in every state.
LEMMA ControlInductive == Spec => [](ControlInv /\ PlainParts)
  BY ControlInit, ControlInvStep, PTL DEF Spec

\* IInv, the invariant TLC checks on small instances, holds for all of them:
\* the stream and the types, and with them who holds port->lock where.
THEOREM InvariantHolds == Spec => []IInv
  <1>1. TypeOK /\ StreamInv /\ ControlInv /\ PlainParts => IInv
    BY StreamIsTxStream DEF ControlInv, PlainParts, IInv
  <1> QED BY <1>1, StreamInductive, ControlInductive, PTL

\* On one processor the modem interrupt enable follows CRTSCTS (ModemIrqKept):
\* no start_tx, stop_tx or interrupt between the steps of sunix_ser_set_termios
\* writes an older one back, whatever flow control is in use.
THEOREM ModemIrqIsKept == Spec => []ModemIrqKept
  <1>1. ControlInv => ModemIrqKept
    BY DEF ControlInv, ModemIrqKept, MsiInv, AsAsked, Quiet, Changing, Threads
  <1> QED BY <1>1, ControlInductive, PTL

\* On one processor without flow control the shadow register is what the UART
\* was told whenever nothing runs (ShadowIsTrue), though start_tx changes both
\* without the lock.  With flow control this is false.
THEOREM ShadowIsKept == Spec => [](Plain => ShadowIsTrue)
  <1>1. PlainParts => (Plain => ShadowIsTrue)
    BY DEF PlainParts, ShadowInv, ShadowIsTrue, Quiet
  <1> QED BY <1>1, ControlInductive, PTL

\* On one processor without flow control no start is lost (NoLostStart): when
\* nothing runs, buffered bytes have the transmit interrupt enabled, and
\* pending or the UART busy.  With flow control this is false.
THEOREM StartIsNotLost == Spec => [](Plain => NoLostStart)
  <1>1. PlainParts => (Plain => NoLostStart)
    <2> SUFFICES ASSUME Plain, PlainInv, ShadowInv, StartInv PROVE NoLostStart
      BY DEF PlainParts
    <2> QED BY DEF StartInv, NoLostStart, Quiet, Threads, Changing
  <1> QED BY <1>1, ControlInductive, PTL

=============================================================================
