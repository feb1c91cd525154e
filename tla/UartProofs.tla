------------------------------ MODULE UartProofs ------------------------------
(***************************************************************************)
(* The serial driver.  The receive ring loses, repeats and reorders        *)
(* nothing, for every size of the ring and of the FIFO and every number of *)
(* bytes; the transmit ring keeps the order of what it is given, and loses *)
(* nothing, beside a second way into the same FIFO.                        *)
(*                                                                         *)
(* InOrder speaks of concatenations; the induction is done on Order, which *)
(* says the same position by position.                                     *)
(***************************************************************************)
EXTENDS UartRx, UartTx, TLAPS, SequenceTheorems

\* Where each accepted byte is: sent, in the ring, or in the FIFO.
Order ==
  /\ Len(rcvd) = Len(sent) + Used + Len(fifo)
  /\ \A k \in 1 .. Len(sent) : rcvd[k] = sent[k]
  /\ \A k \in 1 .. Used : rcvd[Len(sent) + k] = buf[Wrap(pOut + k - 1)]
  /\ \A k \in 1 .. Len(fifo) : rcvd[Len(sent) + Used + k] = fifo[k]

IInv == TypeOK /\ RingConsistent /\ Order

------------------------------------------------------------------------------
(* Wrap stays inside the ring.                                             *)
LEMMA WrapType ==
  ASSUME NEW i \in 0 .. 2 * Size - 1
  PROVE  Wrap(i) \in 0 .. Size - 1
  BY SizesOK DEF Wrap

(* Positions less than Size apart do not meet.                             *)
LEMMA WrapInjective ==
  ASSUME NEW i \in 0 .. 2 * Size - 1, NEW j \in 0 .. 2 * Size - 1,
         Wrap(i) = Wrap(j), i - j < Size, j - i < Size
  PROVE  i = j
  BY SizesOK DEF Wrap

(* Moving on twice is moving on once by the sum.                           *)
LEMMA WrapTwice ==
  ASSUME NEW p \in 0 .. Size - 1, NEW m \in 0 .. Size, NEW n \in 0 .. Size,
         m + n <= Size
  PROVE  Wrap(Wrap(p + m) + n) = Wrap(p + m + n)
  BY SizesOK DEF Wrap

(* Uart_rx_buff_enq writes the FIFO behind the newest byte of the ring and *)
(* touches none of the bytes in use.                                       *)
LEMMA EnqStores ==
  ASSUME TypeOK, RingConsistent, Enq, Fits
  PROVE  /\ buf' \in [0 .. Size - 1 -> Byte \cup {0}]
         /\ \A k \in 1 .. Len(fifo) : buf'[Wrap(pIn + k - 1)] = fifo[k]
         /\ \A k \in 1 .. Used : buf'[Wrap(pOut + k - 1)] = buf[Wrap(pOut + k - 1)]
<1> DEFINE At(k) == Wrap(pIn + k - 1)
           Pick(i) == CHOOSE k \in 1 .. Len(fifo) : i = At(k)
           Hit(i) == \E k \in 1 .. Len(fifo) : i = At(k)
<1>1. /\ Len(fifo) \in Nat /\ Len(fifo) < space
      /\ pIn \in 0 .. Size - 1 /\ pOut \in 0 .. Size - 1 /\ space \in 1 .. Size
      /\ \A k \in 1 .. Len(fifo) : fifo[k] \in Byte
  BY SizesOK DEF TypeOK, RingConsistent, Fits
<1>2. buf' = [i \in 0 .. Size - 1 |-> IF Hit(i) THEN fifo[Pick(i)] ELSE buf[i]]
  BY DEF Enq, TypeOK
<1>3. \A i : Hit(i) => Pick(i) \in 1 .. Len(fifo) /\ i = At(Pick(i))
  OBVIOUS
<1>4. buf' \in [0 .. Size - 1 -> Byte \cup {0}]
  <2>1. \A i \in 0 .. Size - 1 : buf[i] \in Byte \cup {0}
    BY DEF TypeOK
  <2> HIDE DEF Hit, Pick
  <2> QED BY <1>1, <1>2, <1>3, <2>1
<1>5. ASSUME NEW k \in 1 .. Len(fifo)
      PROVE  buf'[At(k)] = fifo[k]
  <2>1. At(k) \in 0 .. Size - 1
    BY <1>1, WrapType, SizesOK
  <2>2. Hit(At(k))
    OBVIOUS
  <2>3. PICK j \in 1 .. Len(fifo) : j = Pick(At(k)) /\ At(k) = At(j)
    BY <1>3, <2>2
  <2>4. j = k
    <3>1. pIn + k - 1 \in 0 .. 2 * Size - 1 /\ pIn + j - 1 \in 0 .. 2 * Size - 1
      BY <1>1, SizesOK
    <3>2. /\ (pIn + k - 1) - (pIn + j - 1) < Size
          /\ (pIn + j - 1) - (pIn + k - 1) < Size
      BY <1>1, SizesOK
    <3>3. pIn + k - 1 = pIn + j - 1
      BY <2>3, <3>1, <3>2, WrapInjective
    <3> QED BY <1>1, <3>3
  <2> HIDE DEF Hit, Pick
  <2> QED BY <1>2, <2>1, <2>2, <2>3, <2>4
<1>6. ASSUME NEW k \in 1 .. Used
      PROVE  buf'[Wrap(pOut + k - 1)] = buf[Wrap(pOut + k - 1)]
  <2>1. Used \in 0 .. Size - 1 /\ Used + Len(fifo) < Size
    BY <1>1, SizesOK DEF Used
  <2>2. Wrap(pOut + k - 1) \in 0 .. Size - 1
    BY <1>1, <2>1, WrapType, SizesOK
  <2>3. ASSUME NEW j \in 1 .. Len(fifo)
        PROVE  At(j) # Wrap(pOut + k - 1)
    <3>1. At(j) = Wrap(pOut + (Used + j - 1))
      <4>1. Wrap(Wrap(pOut + Used) + (j - 1)) = Wrap(pOut + Used + (j - 1))
        <5>1. /\ pOut \in 0 .. Size - 1 /\ Used \in 0 .. Size
              /\ j - 1 \in 0 .. Size /\ Used + (j - 1) <= Size
          BY <1>1, <2>1, SizesOK
        <5> QED BY <5>1, WrapTwice
      <4>2. Wrap(Wrap(pOut + Used) + (j - 1)) = At(j)
        <5>1. Wrap(pOut + Used) = pIn
          BY DEF RingConsistent
        <5>2. pIn + (j - 1) = pIn + j - 1
          BY <1>1
        <5> QED BY <5>1, <5>2
      <4>3. pOut + Used + (j - 1) = pOut + (Used + j - 1)
        BY <1>1, <2>1
      <4> QED BY <4>1, <4>2, <4>3
    <3>2. /\ pOut + (Used + j - 1) \in 0 .. 2 * Size - 1
          /\ pOut + k - 1 \in 0 .. 2 * Size - 1
          /\ (pOut + (Used + j - 1)) - (pOut + k - 1) < Size
          /\ (pOut + k - 1) - (pOut + (Used + j - 1)) < Size
          /\ pOut + (Used + j - 1) # pOut + k - 1
      BY <1>1, <2>1, SizesOK
    <3> QED BY <3>1, <3>2, WrapInjective
  <2>4. ~Hit(Wrap(pOut + k - 1))
    BY <2>3
  <2> HIDE DEF Hit, Pick
  <2> QED BY <1>2, <2>2, <2>4
<1> QED BY <1>4, <1>5, <1>6

------------------------------------------------------------------------------
(* Every state keeps the ring, its positions and its counter consistent.   *)
LEMMA InitInductive == Init => IInv
<1> SUFFICES ASSUME Init PROVE IInv
  OBVIOUS
<1>1. Used = 0
  BY SizesOK DEF Init, Used
<1>2. TypeOK
  BY SizesOK DEF Init, TypeOK, Byte
<1>3. RingConsistent
  BY <1>1, SizesOK DEF Init, RingConsistent, Wrap
<1>4. Order
  BY <1>1, SizesOK DEF Init, Order
<1> QED BY <1>2, <1>3, <1>4 DEF IInv

(* Uart_rx_buff_enq moves the whole FIFO behind the ring, or nothing.      *)
LEMMA EnqInductive ==
  ASSUME IInv, Enq, UNCHANGED <<rcvd, sent>>
  PROVE  /\ fifo' \in Seq(Byte) /\ Len(fifo') <= FifoLen
         /\ buf' \in [0 .. Size - 1 -> Byte \cup {0}]
         /\ pIn' \in 0 .. Size - 1 /\ pOut' \in 0 .. Size - 1
         /\ space' \in 0 .. Size
         /\ RingConsistent' /\ Order'
<1> USE DEF IInv
<1>1. CASE ~Fits
  <2>1. UNCHANGED <<fifo, ringVars, rcvd, sent>>
    BY <1>1 DEF Enq
  <2>2. RingConsistent'
    BY <2>1 DEF RingConsistent, Used, ringVars
  <2>3. Order'
    BY <2>1 DEF Order, Used, ringVars, Wrap
  <2> QED BY <2>1, <2>2, <2>3 DEF TypeOK, ringVars
<1>2. CASE Fits
  <2> DEFINE n == Len(fifo)
  <2>1. /\ n \in Nat /\ n <= FifoLen /\ n < space
        /\ pIn \in 0 .. Size - 1 /\ pOut \in 0 .. Size - 1
        /\ space \in 1 .. Size /\ Size \in Nat \ {0}
        /\ Used \in 0 .. Size - 1 /\ Used + n < Size
    BY <1>2, SizesOK DEF TypeOK, RingConsistent, Fits, Used
  <2>2. /\ pIn' = Wrap(pIn + n) /\ space' = space - n
        /\ fifo' = << >> /\ pOut' = pOut /\ rcvd' = rcvd /\ sent' = sent
    BY <1>2 DEF Enq
  <2>3. Used' = Used + n
    BY <2>1, <2>2 DEF Used
  <2>4. pIn = Wrap(pOut + Used)
    BY DEF RingConsistent
  <2>5. pIn' = Wrap(pOut + Used + n)
    <3>1. Used \in 0 .. Size /\ n \in 0 .. Size /\ Used + n <= Size
      BY <2>1
    <3> QED BY <2>1, <2>2, <2>4, <3>1, WrapTwice
  <2>6. RingConsistent'
    <3>1. space' >= 1
      BY <2>1, <2>2
    <3>2. pOut + Used + n = pOut + (Used + n)
      BY <2>1
    <3> QED BY <2>2, <2>3, <2>5, <3>1, <3>2 DEF RingConsistent, Wrap
  <2>7. Order'
    <3>1. \A k \in 1 .. n : buf'[Wrap(pIn + k - 1)] = fifo[k]
      BY <1>2, EnqStores
    <3>2. \A k \in 1 .. Used : buf'[Wrap(pOut + k - 1)] = buf[Wrap(pOut + k - 1)]
      BY <1>2, EnqStores
    <3>3. Len(sent) \in Nat /\ Len(fifo') = 0
      BY <2>2 DEF TypeOK
    <3>4. Len(rcvd') = Len(sent') + Used' + Len(fifo')
      BY <2>1, <2>2, <2>3, <3>3 DEF Order
    <3>5. \A k \in 1 .. Len(sent') : rcvd'[k] = sent'[k]
      BY <2>2 DEF Order
    <3>6. ASSUME NEW k \in 1 .. Used'
          PROVE  rcvd'[Len(sent') + k] = buf'[Wrap(pOut' + k - 1)]
      <4>1. CASE k \in 1 .. Used
        BY <2>2, <3>2, <4>1 DEF Order
      <4>2. CASE k \notin 1 .. Used
        <5>1. PICK j \in 1 .. n : k = Used + j
          <6>1. k - Used \in 1 .. n /\ k = Used + (k - Used)
            BY <2>1, <2>3, <4>2
          <6> QED BY <6>1
        <5>2. rcvd[Len(sent) + Used + j] = buf'[Wrap(pIn + j - 1)]
          BY <3>1, <5>1 DEF Order
        <5>3. Wrap(pIn + (j - 1)) = Wrap(pOut + Used + (j - 1))
          <6>1. Used \in 0 .. Size /\ j - 1 \in 0 .. Size /\ Used + (j - 1) <= Size
            BY <2>1, <5>1
          <6> QED BY <2>1, <2>4, <6>1, WrapTwice
        <5>4. /\ pIn + (j - 1) = pIn + j - 1
              /\ pOut + Used + (j - 1) = pOut + k - 1
              /\ Len(sent) + Used + j = Len(sent) + k
          BY <2>1, <3>3, <5>1
        <5> QED BY <2>2, <5>2, <5>3, <5>4
      <4> QED BY <4>1, <4>2
    <3>7. \A k \in 1 .. Len(fifo') : rcvd'[Len(sent') + Used' + k] = fifo'[k]
      BY <3>3
    <3>8. QED
      BY <2>2, <3>4, <3>5, <3>6, <3>7 DEF Order, Wrap
  <2>8. pIn' \in 0 .. Size - 1
    <3>1. pIn + n \in 0 .. 2 * Size - 1
      BY <2>1
    <3> QED BY <2>2, <3>1, WrapType
  <2>9. buf' \in [0 .. Size - 1 -> Byte \cup {0}]
    BY <1>2, EnqStores
  <2>10. fifo' \in Seq(Byte) /\ Len(fifo') <= FifoLen /\ space' \in 0 .. Size
    BY <2>1, <2>2, SizesOK
  <2> QED BY <2>1, <2>2, <2>6, <2>7, <2>8, <2>9, <2>10
<1> QED BY <1>1, <1>2

------------------------------------------------------------------------------
(* What rx_buff_deq takes out: the oldest n bytes of the ring, whichever of *)
(* its two branches runs.                                                   *)
LEMMA DeqTakesOldest ==
  ASSUME IInv, NEW n \in 1 .. Used
  PROVE  /\ OutAfter(n) = Wrap(pOut + n)
         /\ \A k \in 1 .. n : OutByte(k) = buf[Wrap(pOut + k - 1)]
<1>1. /\ pIn \in 0 .. Size - 1 /\ pOut \in 0 .. Size - 1
      /\ Size \in Nat \ {0} /\ Used \in 0 .. Size - 1 /\ n \in 1 .. Size - 1
      /\ n <= Used /\ pIn = Wrap(pOut + Used)
  BY SizesOK DEF IInv, TypeOK, RingConsistent, Used
<1>2. CASE pOut <= pIn
  <2>1. pOut + Used < Size
    BY <1>1, <1>2 DEF Wrap
  <2> QED BY <1>1, <1>2, <2>1 DEF OutAfter, OutByte, Wrap
<1>3. CASE ~(pOut <= pIn)
  BY <1>3 DEF OutAfter, OutByte
<1> QED BY <1>2, <1>3

LEMMA UartRecvInductive ==
  ASSUME IInv, UartRecv
  PROVE  IInv'
<1>0. PICK n \in 1 .. Used :
        /\ pOut' = OutAfter(n) /\ space' = space + n
        /\ sent' = sent \o [k \in 1 .. n |-> OutByte(k)]
        /\ UNCHANGED <<fifo, buf, pIn, intr, quiet, isr, timerOn, arrived, rcvd>>
  <2>1. Used \in Nat /\ DeqMax \in Nat
    BY SizesOK DEF IInv, TypeOK, RingConsistent, Used
  <2>2. Least(DeqMax, Used) > 0 => Least(DeqMax, Used) \in 1 .. Used
    BY <2>1 DEF Least
  <2> QED BY <2>2 DEF UartRecv
<1>1. /\ pIn \in 0 .. Size - 1 /\ pOut \in 0 .. Size - 1 /\ Size \in Nat \ {0}
      /\ Used \in 0 .. Size - 1 /\ n \in 1 .. Used /\ space = Size - Used
      /\ pIn = Wrap(pOut + Used) /\ Len(fifo) \in Nat /\ Len(sent) \in Nat
  BY SizesOK DEF IInv, TypeOK, RingConsistent, Used
<1>2. /\ pOut' = Wrap(pOut + n) /\ space' = space + n
      /\ sent' = sent \o [k \in 1 .. n |-> OutByte(k)]
      /\ UNCHANGED <<fifo, buf, pIn, intr, quiet, isr, timerOn, arrived, rcvd>>
  BY <1>0, DeqTakesOldest
<1>3. Used' = Used - n
  BY <1>1, <1>2 DEF Used
<1>4. \A k \in 1 .. n : OutByte(k) = rcvd[Len(sent) + k] /\ OutByte(k) \in Byte
  <2> SUFFICES ASSUME NEW k \in 1 .. n
               PROVE  OutByte(k) = rcvd[Len(sent) + k] /\ OutByte(k) \in Byte
    OBVIOUS
  <2>1. OutByte(k) = rcvd[Len(sent) + k]
    <3>1. OutByte(k) = buf[Wrap(pOut + k - 1)]
      BY DeqTakesOldest
    <3>2. k \in 1 .. Used
      BY <1>1
    <3> QED BY <3>1, <3>2 DEF IInv, Order
  <2>2. Len(sent) + k \in 1 .. Len(rcvd) /\ rcvd \in Seq(Byte)
    BY <1>1 DEF IInv, Order, TypeOK
  <2> QED BY <2>1, <2>2
<1> DEFINE out == [k \in 1 .. n |-> OutByte(k)]
<1>5. out \in Seq(Byte) /\ Len(out) = n
  BY <1>1, <1>4
<1>6. /\ sent' \in Seq(Byte) /\ Len(sent') = Len(sent) + n
      /\ \A k \in 1 .. Len(sent') :
           sent'[k] = IF k <= Len(sent) THEN sent[k] ELSE out[k - Len(sent)]
  <2>1. sent \in Seq(Byte) /\ sent' = sent \o out
    BY <1>2 DEF IInv, TypeOK
  <2> HIDE DEF out
  <2>2. /\ sent \o out \in Seq(Byte)
        /\ Len(sent \o out) = Len(sent) + Len(out)
        /\ \A k \in 1 .. Len(sent) + Len(out) :
             (sent \o out)[k] = IF k <= Len(sent) THEN sent[k] ELSE out[k - Len(sent)]
    BY <1>5, <2>1, ConcatProperties
  <2> QED BY <1>5, <2>1, <2>2
<1>7. ASSUME NEW i \in 0 .. Size - n
      PROVE  Wrap(pOut' + i) = Wrap(pOut + n + i)
  <2>1. i \in 0 .. Size /\ n \in 0 .. Size /\ n + i <= Size
    BY <1>1
  <2> QED BY <1>1, <1>2, <2>1, WrapTwice
<1>8. TypeOK'
  <2>1. pOut' \in 0 .. Size - 1
    <3>1. pOut + n \in 0 .. 2 * Size - 1
      BY <1>1
    <3> QED BY <1>2, <3>1, WrapType
  <2>2. space' \in 0 .. Size
    BY <1>1, <1>2
  <2> QED BY <1>2, <1>6, <2>1, <2>2 DEF IInv, TypeOK
<1>9. RingConsistent'
  <2>1. Wrap(pOut' + (Used - n)) = Wrap(pOut + n + (Used - n))
    <3>1. Used - n \in 0 .. Size - n
      BY <1>1
    <3> QED BY <1>7, <3>1
  <2>2. pOut + n + (Used - n) = pOut + Used
    BY <1>1
  <2>3. space' >= 1
    BY <1>1, <1>2
  <2> QED BY <1>1, <1>2, <1>3, <2>1, <2>2, <2>3 DEF RingConsistent, Wrap
<1>10. Order'
  <2>1. Len(rcvd') = Len(sent') + Used' + Len(fifo')
    <3>1. Len(rcvd) = Len(sent) + Used + Len(fifo)
      BY DEF IInv, Order
    <3>2. Len(sent) + n + (Used - n) + Len(fifo) = Len(sent) + Used + Len(fifo)
      BY <1>1
    <3>3. Len(sent') = Len(sent) + n
      BY <1>6
    <3> QED BY <1>2, <1>3, <3>1, <3>2, <3>3
  <2>2. ASSUME NEW k \in 1 .. Len(sent')
        PROVE  rcvd'[k] = sent'[k]
    <3>1. CASE k <= Len(sent)
      <4>1. k \in 1 .. Len(sent)
        BY <1>1, <1>6, <3>1
      <4>2. rcvd[k] = sent[k]
        BY <4>1 DEF IInv, Order
      <4>3. sent'[k] = sent[k]
        BY <1>6, <3>1
      <4> QED BY <1>2, <4>2, <4>3
    <3>2. CASE ~(k <= Len(sent))
      <4>1. k - Len(sent) \in 1 .. n /\ Len(sent) + (k - Len(sent)) = k
        BY <1>1, <1>6, <3>2
      <4>2. out[k - Len(sent)] = rcvd[k]
        BY <1>4, <4>1
      <4> QED BY <1>2, <1>6, <3>2, <4>2
    <3> QED BY <3>1, <3>2
  <2>3. ASSUME NEW k \in 1 .. Used'
        PROVE  rcvd'[Len(sent') + k] = buf'[Wrap(pOut' + k - 1)]
    <3>1. n + k \in 1 .. Used /\ k - 1 \in 0 .. Size - n
      BY <1>1, <1>3
    <3>2. rcvd[Len(sent) + (n + k)] = buf[Wrap(pOut + (n + k) - 1)]
      BY <3>1 DEF IInv, Order
    <3>3. Wrap(pOut' + (k - 1)) = Wrap(pOut + n + (k - 1))
      BY <1>7, <3>1
    <3>4. /\ Len(sent) + (n + k) = Len(sent') + k
          /\ pOut + (n + k) - 1 = pOut + n + (k - 1)
      BY <1>1, <1>6
    <3>5. pOut' + (k - 1) = pOut' + k - 1
      BY <1>8, <3>1 DEF TypeOK
    <3> QED BY <1>2, <3>2, <3>3, <3>4, <3>5
  <2>4. \A k \in 1 .. Len(fifo') : rcvd'[Len(sent') + Used' + k] = fifo'[k]
    <3>1. Len(sent') + Used' = Len(sent) + Used
      BY <1>1, <1>3, <1>6
    <3> QED BY <1>2, <3>1 DEF IInv, Order
  <2> QED BY <2>1, <2>2, <2>3, <2>4 DEF Order, Wrap
<1> QED BY <1>8, <1>9, <1>10 DEF IInv

------------------------------------------------------------------------------
(* A step that leaves the two ends of the path alone keeps ring and order. *)
LEMMA RingUntouched ==
  ASSUME IInv, UNCHANGED <<fifo, ringVars, rcvd, sent>>
  PROVE  RingConsistent' /\ Order'
  BY DEF IInv, RingConsistent, Order, Used, Wrap, ringVars

LEMMA ArriveInductive ==
  ASSUME IInv, Arrive
  PROVE  IInv'
<1>1. /\ arrived \in Nat /\ arrived < MaxBytes /\ MaxBytes \in Nat
      /\ arrived' = arrived + 1 /\ arrived + 1 \in Byte
      /\ UNCHANGED <<buf, pIn, pOut, space, isr, timerOn, sent>> /\ quiet' = FALSE
      /\ Len(fifo) \in Nat /\ Len(rcvd) \in Nat /\ Len(sent) \in Nat /\ Used \in Nat
  BY SizesOK DEF IInv, TypeOK, RingConsistent, Arrive, ringVars, Byte, Used
<1>2. Used' = Used /\ RingConsistent'
  BY <1>1 DEF Used, IInv, RingConsistent, Wrap
<1>3. CASE /\ Len(fifo) < FifoLen
           /\ fifo' = Append(fifo, arrived + 1)
           /\ rcvd' = Append(rcvd, arrived + 1)
           /\ UNCHANGED intr
  <2>1. /\ fifo' \in Seq(Byte) /\ Len(fifo') = Len(fifo) + 1
        /\ fifo'[Len(fifo) + 1] = arrived + 1
        /\ \A k \in 1 .. Len(fifo) : fifo'[k] = fifo[k]
    BY <1>1, <1>3 DEF IInv, TypeOK
  <2>2. /\ rcvd' \in Seq(Byte) /\ Len(rcvd') = Len(rcvd) + 1
        /\ rcvd'[Len(rcvd) + 1] = arrived + 1
        /\ \A k \in 1 .. Len(rcvd) : rcvd'[k] = rcvd[k]
    BY <1>1, <1>3 DEF IInv, TypeOK
  <2>3. TypeOK'
    <3>1. Len(fifo') <= FifoLen
      BY <1>1, <1>3, <2>1, SizesOK
    <3>2. arrived' \in 0 .. MaxBytes
      BY <1>1
    <3>3. quiet' \in BOOLEAN /\ intr' = intr
      BY <1>1, <1>3
    <3> QED BY <1>1, <2>1, <2>2, <3>1, <3>2, <3>3 DEF IInv, TypeOK
  <2>4. Order'
    <3>1. Len(rcvd) = Len(sent) + Used + Len(fifo)
      BY DEF IInv, Order
    <3>2. Len(rcvd') = Len(sent') + Used' + Len(fifo')
      BY <1>1, <1>2, <2>1, <2>2, <3>1
    <3>3. \A k \in 1 .. Len(sent') : rcvd'[k] = sent'[k]
      <4>1. \A k \in 1 .. Len(sent) : k \in 1 .. Len(rcvd)
        BY <1>1, <3>1
      <4> QED BY <1>1, <2>2, <4>1 DEF IInv, Order
    <3>4. \A k \in 1 .. Used' : rcvd'[Len(sent') + k] = buf'[Wrap(pOut' + k - 1)]
      <4>1. \A k \in 1 .. Used : Len(sent) + k \in 1 .. Len(rcvd)
        BY <1>1, <3>1
      <4> QED BY <1>1, <1>2, <2>2, <4>1 DEF IInv, Order
    <3>5. ASSUME NEW k \in 1 .. Len(fifo')
          PROVE  rcvd'[Len(sent') + Used' + k] = fifo'[k]
      <4>1. CASE k \in 1 .. Len(fifo)
        <5>1. Len(sent) + Used + k \in 1 .. Len(rcvd)
          BY <1>1, <3>1, <4>1
        <5> QED BY <1>1, <1>2, <2>1, <2>2, <4>1, <5>1 DEF IInv, Order
      <4>2. CASE k \notin 1 .. Len(fifo)
        <5>1. k = Len(fifo) + 1 /\ Len(sent) + Used + k = Len(rcvd) + 1
          BY <1>1, <2>1, <3>1, <4>2
        <5> QED BY <1>1, <1>2, <2>1, <2>2, <5>1
      <4> QED BY <4>1, <4>2
    <3> QED BY <3>2, <3>3, <3>4, <3>5 DEF Order, Wrap
  <2> QED BY <1>2, <2>3, <2>4 DEF IInv
<1>4. CASE /\ intr' = intr \cup {"OVF"}
           /\ UNCHANGED <<fifo, rcvd>>
  <2>1. TypeOK'
    <3>1. arrived' \in 0 .. MaxBytes
      BY <1>1
    <3>2. quiet' \in BOOLEAN /\ intr' \in SUBSET {"TOUT", "OVF", "FRM"}
      BY <1>1, <1>4 DEF IInv, TypeOK
    <3> QED BY <1>1, <1>4, <3>1, <3>2 DEF IInv, TypeOK
  <2>2. RingConsistent' /\ Order'
    BY <1>1, <1>4, RingUntouched DEF ringVars
  <2> QED BY <2>1, <2>2 DEF IInv
<1> QED BY <1>3, <1>4 DEF Arrive

LEMMA IsrPassInductive ==
  ASSUME IInv, IsrPass
  PROVE  IInv'
<1>1. /\ intr' \in SUBSET {"TOUT", "OVF", "FRM"} /\ isr' = TRUE
      /\ UNCHANGED <<quiet, timerOn, arrived, rcvd, sent>>
  BY DEF IInv, TypeOK, IsrPass, IsrFrameError, IsrFull, IsrTimeout, IsrOverflow
<1>2. CASE Enq
  BY <1>1, <1>2, EnqInductive DEF IInv, TypeOK
<1>3. CASE IsrFrameError
  <2>1. UNCHANGED <<fifo, ringVars>>
    BY <1>3 DEF IsrFrameError
  <2>2. RingConsistent' /\ Order'
    BY <1>1, <2>1, RingUntouched
  <2> QED BY <1>1, <2>1, <2>2 DEF IInv, TypeOK, ringVars
<1> QED BY <1>2, <1>3 DEF IsrPass, IsrFull, IsrTimeout, IsrOverflow

LEMMA StepInductive == IInv /\ [Next]_vars => IInv'
<1> SUFFICES ASSUME IInv, [Next]_vars
             PROVE  IInv'
  OBVIOUS
<1>1. CASE Arrive
  BY <1>1, ArriveInductive
<1>2. CASE Timeout \/ FrameError
  <2>1. UNCHANGED <<fifo, ringVars, rcvd, sent>>
    BY <1>2 DEF Timeout, FrameError
  <2>2. TypeOK'
    <3>1. arrived' \in 0 .. MaxBytes
      BY <1>2, SizesOK DEF IInv, TypeOK, Timeout, FrameError
    <3>2. quiet' \in BOOLEAN /\ intr' \in SUBSET {"TOUT", "OVF", "FRM"}
      BY <1>2 DEF IInv, TypeOK, Timeout, FrameError
    <3> QED BY <1>2, <2>1, <3>1, <3>2 DEF IInv, TypeOK, ringVars, Timeout, FrameError
  <2> QED BY <2>1, <2>2, RingUntouched DEF IInv
<1>3. CASE IsrPass
  BY <1>3, IsrPassInductive
<1>4. CASE IsrReturn \/ UartInit
  <2>1. UNCHANGED <<fifo, ringVars, rcvd, sent>>
    BY <1>4 DEF IsrReturn, UartInit
  <2>2. TypeOK'
    BY <1>4, <2>1 DEF IInv, TypeOK, ringVars, IsrReturn, UartInit
  <2> QED BY <2>1, <2>2, RingUntouched DEF IInv
<1>5. CASE UartRecv
  BY <1>5, UartRecvInductive
<1>6. CASE UNCHANGED vars
  BY <1>6, RingUntouched DEF vars, ringVars, IInv, TypeOK
<1> QED BY <1>1, <1>2, <1>3, <1>4, <1>5, <1>6 DEF Next

THEOREM Inductive == Spec => []IInv
  BY InitInductive, StepInductive, PTL DEF Spec

(* The two handlers of the ring never leave its positions, counters or      *)
(* buffer outside their types.                                              *)
THEOREM TypeCorrect == Spec => []TypeOK
<1>1. IInv => TypeOK
  BY DEF IInv
<1> QED BY <1>1, Inductive, PTL

(* Uart_rx_buff_enq and rx_buff_deq agree on pInPos, pOutPos and Space.     *)
THEOREM RingAlwaysConsistent == Spec => []RingConsistent
<1>1. IInv => RingConsistent
  BY DEF IInv
<1> QED BY <1>1, Inductive, PTL

(* Order, position by position, is InOrder.                                 *)
LEMMA OrderIsInOrder == IInv => InOrder
<1> SUFFICES ASSUME IInv PROVE InOrder
  OBVIOUS
<1>1. /\ fifo \in Seq(Byte) /\ rcvd \in Seq(Byte) /\ sent \in Seq(Byte)
      /\ Used \in Nat /\ Len(rcvd) = Len(sent) + Used + Len(fifo)
      /\ Len(sent) \in Nat /\ Len(fifo) \in Nat
  BY SizesOK DEF IInv, TypeOK, RingConsistent, Order, Used
<1>2. RingData \in Seq(Byte) /\ Len(RingData) = Used
      /\ \A k \in 1 .. Used : RingData[k] = rcvd[Len(sent) + k]
  <2>1. \A k \in 1 .. Used : /\ buf[Wrap(pOut + k - 1)] = rcvd[Len(sent) + k]
                             /\ rcvd[Len(sent) + k] \in Byte
    <3>1. \A k \in 1 .. Used : Len(sent) + k \in 1 .. Len(rcvd)
      BY <1>1
    <3> QED BY <1>1, <3>1 DEF IInv, Order
  <2> QED BY <1>1, <2>1 DEF RingData
<1>3. /\ sent \o RingData \in Seq(Byte)
      /\ Len(sent \o RingData) = Len(sent) + Used
      /\ \A k \in 1 .. Len(sent) + Used : (sent \o RingData)[k] = rcvd[k]
  <2>1. /\ sent \o RingData \in Seq(Byte)
        /\ Len(sent \o RingData) = Len(sent) + Used
        /\ \A k \in 1 .. Len(sent) + Used :
             (sent \o RingData)[k] = IF k <= Len(sent) THEN sent[k]
                                     ELSE RingData[k - Len(sent)]
    BY <1>1, <1>2, ConcatProperties
  <2>2. ASSUME NEW k \in 1 .. Len(sent) + Used
        PROVE  (sent \o RingData)[k] = rcvd[k]
    <3>1. CASE k <= Len(sent)
      BY <1>1, <2>1, <3>1 DEF IInv, Order
    <3>2. CASE ~(k <= Len(sent))
      <4>1. k - Len(sent) \in 1 .. Used /\ Len(sent) + (k - Len(sent)) = k
        BY <1>1, <3>2
      <4> QED BY <1>2, <2>1, <3>2, <4>1
    <3> QED BY <3>1, <3>2
  <2> QED BY <2>1, <2>2
<1> DEFINE front == sent \o RingData
<1>4. /\ front \o fifo \in Seq(Byte)
      /\ Len(front \o fifo) = Len(rcvd)
      /\ \A k \in 1 .. Len(rcvd) : (front \o fifo)[k] = rcvd[k]
  <2> HIDE DEF front
  <2>1. /\ front \o fifo \in Seq(Byte)
        /\ Len(front \o fifo) = Len(front) + Len(fifo)
        /\ \A k \in 1 .. Len(front) + Len(fifo) :
             (front \o fifo)[k] = IF k <= Len(front) THEN front[k]
                                  ELSE fifo[k - Len(front)]
    <3>1. front \in Seq(Byte)
      BY <1>3 DEF front
    <3> QED BY <1>1, <3>1, ConcatProperties
  <2>2. Len(front) = Len(sent) + Used /\ \A k \in 1 .. Len(front) : front[k] = rcvd[k]
    BY <1>3 DEF front
  <2>3. ASSUME NEW k \in 1 .. Len(rcvd)
        PROVE  (front \o fifo)[k] = rcvd[k]
    <3>1. CASE k <= Len(front)
      BY <1>1, <2>1, <2>2, <3>1
    <3>2. CASE ~(k <= Len(front))
      <4>1. /\ k - Len(front) \in 1 .. Len(fifo)
            /\ Len(sent) + Used + (k - Len(front)) = k
        BY <1>1, <2>2, <3>2
      <4>2. rcvd[k] = fifo[k - Len(front)]
        BY <4>1 DEF IInv, Order
      <4> QED BY <1>1, <2>1, <2>2, <3>2, <4>1, <4>2
    <3> QED BY <3>1, <3>2
  <2> QED BY <1>1, <2>1, <2>2, <2>3
<1>5. front \o fifo = rcvd
  <2> HIDE DEF front
  <2> QED BY <1>1, <1>4, SeqEqual
<1> QED BY <1>5 DEF InOrder

(* No byte the FIFO accepted is lost, duplicated or reordered between the   *)
(* UART handler and the network pump.                                       *)
THEOREM NothingLost == Spec => []InOrder
  BY Inductive, OrderIsInOrder, PTL

------------------------------------------------------------------------------
(* The byte stream, step by step: an accepted byte is an Accept, a run of   *)
(* the pump a Deliver, everything else a stutter.                           *)
LEMMA ArriveAccepts ==
  ASSUME IInv, Arrive
  PROVE  Stream!Accept \/ UNCHANGED <<rcvd, sent>>
<1>1. CASE UNCHANGED rcvd
  BY <1>1 DEF Arrive
<1>2. CASE Len(fifo) < FifoLen /\ rcvd' = Append(rcvd, arrived + 1)
  <2>1. arrived + 1 \in Byte
    BY SizesOK DEF IInv, TypeOK, Arrive, Byte
  <2>2. Len(rcvd) - Len(sent) < Size - 1 + FifoLen
    BY <1>2, SizesOK DEF IInv, TypeOK, RingConsistent, Order, Used
  <2> QED BY <1>2, <2>1, <2>2 DEF Stream!Accept, Arrive
<1> QED BY <1>1, <1>2 DEF Arrive

LEMMA UartRecvDelivers ==
  ASSUME IInv, UartRecv
  PROVE  Stream!Deliver
<1> DEFINE prefix == SubSeq(rcvd, 1, Len(sent'))
<1>1. IInv'
  BY UartRecvInductive
<1>2. /\ sent' \in Seq(Byte) /\ rcvd \in Seq(Byte) /\ rcvd' = rcvd
      /\ Len(sent') \in Nat /\ Len(sent') <= Len(rcvd) /\ Len(rcvd) \in Nat
      /\ \A k \in 1 .. Len(sent') : rcvd[k] = sent'[k]
  <2>1. rcvd' = rcvd
    BY DEF UartRecv
  <2>2. Len(rcvd') = Len(sent') + Used' + Len(fifo') /\ Used' \in Nat
    <3>1. Len(rcvd') = Len(sent') + Used' + Len(fifo')
      BY <1>1 DEF IInv, Order
    <3>2. Used' \in Nat
      <4>1. space' \in 0 .. Size
        BY <1>1 DEF IInv, TypeOK
      <4>2. \A x \in 0 .. Size : Size - x \in Nat
        BY SizesOK
      <4> QED BY <4>1, <4>2 DEF Used
    <3> QED BY <3>1, <3>2
  <2>3. sent' \in Seq(Byte) /\ rcvd' \in Seq(Byte) /\ Len(fifo') \in Nat
    BY <1>1 DEF IInv, TypeOK
  <2> QED BY <1>1, <2>1, <2>2, <2>3 DEF IInv, Order
<1>3. sent' = prefix
  <2>1. prefix \in Seq(Byte) /\ Len(prefix) = Len(sent')
        /\ \A k \in 1 .. Len(sent') : prefix[k] = rcvd[k]
    BY <1>2
  <2> HIDE DEF prefix
  <2> QED BY <1>2, <2>1, SeqEqual
<1>4. \E n \in 1 .. DeqMax : Len(sent') = Len(sent) + n
  <2>1. Used \in Nat /\ DeqMax \in Nat /\ sent \in Seq(Byte)
    BY SizesOK DEF IInv, TypeOK, RingConsistent, Used
  <2>2. PICK n : n = Least(DeqMax, Used) /\ n > 0
                 /\ sent' = sent \o [k \in 1 .. n |-> OutByte(k)]
    BY DEF UartRecv
  <2>3. n \in 1 .. DeqMax /\ n \in 1 .. Used
    BY <2>1, <2>2 DEF Least
  <2> DEFINE out == [k \in 1 .. n |-> OutByte(k)]
  <2>4. Len(out) = n /\ out \in Seq({OutByte(k) : k \in 1 .. n} \cup Byte)
    BY <2>3
  <2>5. sent \in Seq({OutByte(k) : k \in 1 .. n} \cup Byte)
    BY <2>1
  <2> HIDE DEF out
  <2>6. Len(sent \o out) = Len(sent) + n
    BY <2>4, <2>5, ConcatProperties
  <2> QED BY <2>2, <2>3, <2>6 DEF out
<1>5. PICK n \in 1 .. DeqMax : Len(sent') = Len(sent) + n
  BY <1>4
<1>6. /\ Len(sent) + n <= Len(rcvd)
      /\ sent' = SubSeq(rcvd, 1, Len(sent) + n)
      /\ UNCHANGED rcvd
  BY <1>2, <1>3, <1>5
<1> QED BY <1>6 DEF Stream!Deliver

(* The ring, its two handlers and the pump implement the byte stream.       *)
THEOREM Implements == Spec => ImplementsByteStream
<1>1. Init => Stream!Init
  BY DEF Init, Stream!Init
<1>2. IInv /\ [Next]_vars => [Stream!Next]_<<rcvd, sent>>
  <2> SUFFICES ASSUME IInv, [Next]_vars
               PROVE  [Stream!Next]_<<rcvd, sent>>
    OBVIOUS
  <2>1. CASE Arrive
    BY <2>1, ArriveAccepts DEF Stream!Next
  <2>2. CASE UartRecv
    BY <2>2, UartRecvDelivers DEF Stream!Next
  <2>3. CASE Timeout \/ FrameError \/ IsrPass \/ IsrReturn \/ UartInit
    BY <2>3 DEF Timeout, FrameError, IsrPass, IsrReturn, UartInit
  <2>4. CASE UNCHANGED vars
    BY <2>4 DEF vars
  <2> QED BY <2>1, <2>2, <2>3, <2>4 DEF Next
<1> QED BY <1>1, <1>2, Inductive, PTL DEF Spec, ImplementsByteStream, Stream!Spec

------------------------------------------------------------------------------
\* The transmit path.

TxByte == {"queued", "direct"} \X Nat

TxTypeOK ==
  /\ txFifo \in Seq(TxByte) /\ Len(txFifo) <= TxFifoLen /\ line \in Seq(TxByte)
  /\ tbuf \in [0 .. TxSize - 1 -> TxByte]
  /\ tIn \in 0 .. TxSize - 1 /\ tOut \in 0 .. TxSize - 1 /\ tSpace \in 0 .. TxSize
  /\ ring \in BOOLEAN /\ ena \in BOOLEAN /\ answered \in BOOLEAN
  /\ pc \in {"idle", "copy", "enable", "write", "finish"} /\ len \in Nat
  /\ queued \in Nat /\ direct \in Nat /\ dropped \subseteq 1 .. direct

\* The ring holds the newest of the queued bytes and its positions enclose them.
TxRingGood ==
  /\ tIn = TxWrap(tOut + InRing) /\ InRing <= queued
  /\ \A k \in 1 .. InRing : tbuf[TxWrap(tOut + k - 1)] = QByte((queued - InRing) + k)

\* Each way's bytes come in order.
Ordered(s) == \A i, j \in 1 .. Len(s) : i < j /\ s[i][1] = s[j][1] => s[i][2] < s[j][2]
BytesOf(s) == {s[i] : i \in 1 .. Len(s)}

Sent == line \o txFifo
SentGood ==
  /\ Ordered(Sent)
  /\ BytesOf(Sent) = {QByte(k) : k \in 1 .. (queued - InRing)}
                       \cup {DByte(k) : k \in (1 .. direct) \ dropped}

\* Without the ring nobody fills the FIFO between the look and the write.
DropsExplained ==
  queued = 0 => dropped = {} /\ (pc = "write" => Len(txFifo) < TxLimit)

\* The FIFO holds the last bytes taken out of the ring, and nothing else.
FifoQueued ==
  /\ Len(txFifo) <= queued - InRing
  /\ \A i \in 1 .. Len(txFifo) : txFifo[i] = QByte((queued - InRing - Len(txFifo)) + i)

\* What UART_CheckOutputFinished has seen stays true: of the FIFO, up to what the handler
\* puts there after the first look, and of the ring.
FinishGood ==
  /\ ~ring => InRing = 0
  /\ answered => pc = "idle" /\ InRing = 0
  /\ pc = "finish" \/ answered => FifoQueued

TxInv == TxTypeOK /\ TxRingGood /\ SentGood /\ DropsExplained /\ FinishGood

------------------------------------------------------------------------------
\* Positions in the ring.
LEMMA TxWrapType ==
  ASSUME NEW i \in 0 .. 2 * TxSize
  PROVE  TxWrap(i) \in 0 .. TxSize - 1
  BY UartTxOK DEF TxWrap

LEMMA TxWrapInjective ==
  ASSUME NEW i \in 0 .. 2 * TxSize, NEW j \in 0 .. 2 * TxSize,
         TxWrap(i) = TxWrap(j), i - j < TxSize, j - i < TxSize
  PROVE  i = j
  BY UartTxOK DEF TxWrap

LEMMA TxWrapTwice ==
  ASSUME NEW p \in 0 .. TxSize - 1, NEW m \in 0 .. TxSize, NEW n \in 0 .. TxSize,
         m + n <= TxSize
  PROVE  TxWrap(TxWrap(p + m) + n) = TxWrap(p + m + n)
  BY UartTxOK DEF TxWrap

------------------------------------------------------------------------------
\* Sequences of bytes: what is in them and whether each way's bytes come in order.
LEMMA ByteFields ==
  \A n \in Nat : /\ QByte(n) \in TxByte /\ QByte(n)[1] = "queued" /\ QByte(n)[2] = n
                 /\ DByte(n) \in TxByte /\ DByte(n)[1] = "direct" /\ DByte(n)[2] = n
  BY DEF QByte, DByte, TxByte

LEMMA BytesOfConcat ==
  ASSUME NEW s \in Seq(TxByte), NEW t \in Seq(TxByte)
  PROVE  BytesOf(s \o t) = BytesOf(s) \cup BytesOf(t)
<1> DEFINE c == s \o t
<1>1. /\ Len(c) = Len(s) + Len(t) /\ Len(s) \in Nat /\ Len(t) \in Nat
      /\ \A i \in 1 .. Len(s) + Len(t) : c[i] = IF i <= Len(s) THEN s[i] ELSE t[i - Len(s)]
  BY ConcatProperties
<1> HIDE DEF c
<1>2. ASSUME NEW i \in 1 .. Len(c) PROVE c[i] \in BytesOf(s) \cup BytesOf(t)
  <2>1. CASE i <= Len(s)
    <3>1. i \in 1 .. Len(s) /\ c[i] = s[i]
      BY <1>1, <2>1
    <3> QED BY <3>1 DEF BytesOf
  <2>2. CASE ~(i <= Len(s))
    <3>1. i - Len(s) \in 1 .. Len(t) /\ c[i] = t[i - Len(s)]
      BY <1>1, <2>2
    <3> QED BY <3>1 DEF BytesOf
  <2> QED BY <2>1, <2>2
<1>3. ASSUME NEW i \in 1 .. Len(s) PROVE s[i] \in BytesOf(c)
  <2>1. i \in 1 .. Len(c) /\ c[i] = s[i]
    BY <1>1
  <2> QED BY <2>1 DEF BytesOf
<1>4. ASSUME NEW i \in 1 .. Len(t) PROVE t[i] \in BytesOf(c)
  <2>1. /\ Len(s) + i \in 1 .. Len(c) /\ ~(Len(s) + i <= Len(s)) /\ (Len(s) + i) - Len(s) = i
        /\ Len(s) + i \in 1 .. Len(s) + Len(t)
    BY <1>1
  <2>2. c[Len(s) + i] = t[i]
    BY <1>1, <2>1
  <2> QED BY <2>1, <2>2 DEF BytesOf
<1>5. BytesOf(c) = BytesOf(s) \cup BytesOf(t)
  BY <1>2, <1>3, <1>4 DEF BytesOf
<1> QED BY <1>5 DEF c

LEMMA OrderedConcat ==
  ASSUME NEW s \in Seq(TxByte), NEW t \in Seq(TxByte), Ordered(s), Ordered(t),
         \A a \in BytesOf(s), b \in BytesOf(t) : a[1] = b[1] => a[2] < b[2]
  PROVE  Ordered(s \o t)
<1> DEFINE c == s \o t
<1>1. /\ Len(c) = Len(s) + Len(t) /\ Len(s) \in Nat /\ Len(t) \in Nat
      /\ \A i \in 1 .. Len(s) + Len(t) : c[i] = IF i <= Len(s) THEN s[i] ELSE t[i - Len(s)]
  BY ConcatProperties
<1> HIDE DEF c
<1>2. ASSUME NEW i \in 1 .. Len(c), NEW j \in 1 .. Len(c), i < j, c[i][1] = c[j][1]
      PROVE  c[i][2] < c[j][2]
  <2>1. CASE j <= Len(s)
    <3>1. /\ i \in 1 .. Len(s) /\ j \in 1 .. Len(s) /\ i \in 1 .. Len(s) + Len(t)
          /\ j \in 1 .. Len(s) + Len(t) /\ i <= Len(s)
      BY <1>1, <1>2, <2>1
    <3>2. c[i] = s[i] /\ c[j] = s[j]
      BY <1>1, <2>1, <3>1
    <3> QED BY <1>2, <3>1, <3>2 DEF Ordered
  <2>2. CASE ~(i <= Len(s))
    <3>1. /\ i - Len(s) \in 1 .. Len(t) /\ j - Len(s) \in 1 .. Len(t) /\ ~(j <= Len(s))
          /\ i - Len(s) < j - Len(s)
      BY <1>1, <1>2, <2>2
    <3>2. c[i] = t[i - Len(s)] /\ c[j] = t[j - Len(s)]
      BY <1>1, <2>2, <3>1
    <3> QED BY <1>2, <3>1, <3>2 DEF Ordered
  <2>3. CASE i <= Len(s) /\ ~(j <= Len(s))
    <3>1. i \in 1 .. Len(s) /\ j - Len(s) \in 1 .. Len(t)
      BY <1>1, <1>2, <2>3
    <3>2. c[i] = s[i] /\ c[j] = t[j - Len(s)]
      BY <1>1, <2>3
    <3>3. c[i] \in BytesOf(s) /\ c[j] \in BytesOf(t)
      BY <3>1, <3>2 DEF BytesOf
    <3> QED BY <1>2, <3>3
  <2> QED BY <1>1, <1>2, <2>1, <2>2, <2>3
<1>3. Ordered(c)
  BY <1>2 DEF Ordered
<1> QED BY <1>3 DEF c

\* The bytes a + 1 .. b of the queue.
QRun(a, b) == [k \in 1 .. b - a |-> QByte(a + k)]

LEMMA QRunProperties ==
  ASSUME NEW a \in Nat, NEW b \in Nat, a <= b
  PROVE  /\ QRun(a, b) \in Seq(TxByte) /\ Len(QRun(a, b)) = b - a
         /\ Ordered(QRun(a, b))
         /\ BytesOf(QRun(a, b)) = {QByte(k) : k \in (a + 1) .. b}
<1> DEFINE r == QRun(a, b)
<1>1. b - a \in Nat /\ \A k \in 1 .. b - a : QByte(a + k) \in TxByte
  BY ByteFields
<1>2. r \in Seq(TxByte) /\ Len(r) = b - a /\ \A k \in 1 .. b - a : r[k] = QByte(a + k)
  BY <1>1 DEF QRun
<1> HIDE DEF r
<1>3. Ordered(r)
  <2> SUFFICES ASSUME NEW i \in 1 .. Len(r), NEW j \in 1 .. Len(r), i < j
               PROVE  r[i][2] < r[j][2]
    BY DEF Ordered
  <2>1. a + i \in Nat /\ a + j \in Nat /\ r[i] = QByte(a + i) /\ r[j] = QByte(a + j)
    BY <1>2
  <2>2. r[i][2] = a + i /\ r[j][2] = a + j
    BY <2>1, ByteFields
  <2> QED BY <2>1, <2>2
<1>4. BytesOf(r) = {QByte(k) : k \in (a + 1) .. b}
  <2>1. ASSUME NEW i \in 1 .. Len(r) PROVE r[i] \in {QByte(k) : k \in (a + 1) .. b}
    <3>1. a + i \in (a + 1) .. b /\ r[i] = QByte(a + i)
      BY <1>2
    <3> QED BY <3>1
  <2>2. ASSUME NEW k \in (a + 1) .. b PROVE QByte(k) \in BytesOf(r)
    <3>1. k - a \in 1 .. Len(r) /\ a + (k - a) = k
      BY <1>2
    <3>2. r[k - a] = QByte(k)
      BY <1>2, <3>1
    <3> QED BY <3>1, <3>2 DEF BytesOf
  <2> QED BY <2>1, <2>2 DEF BytesOf
<1> QED BY <1>2, <1>3, <1>4 DEF r

------------------------------------------------------------------------------
LEMMA RingFacts ==
  ASSUME TxTypeOK, TxRingGood
  PROVE  /\ TxSize \in Nat \ {0} /\ InRing \in 0 .. TxSize /\ queued \in Nat /\ queued - InRing \in Nat
         /\ tSpace = TxSize - InRing
         /\ TxData = QRun(queued - InRing, queued)
<1>1. TxSize \in Nat \ {0} /\ InRing \in 0 .. TxSize /\ queued \in Nat /\ queued - InRing \in Nat
      /\ tSpace = TxSize - InRing
  BY UartTxOK DEF TxTypeOK, TxRingGood, InRing
<1>2. queued - (queued - InRing) = InRing
  BY <1>1
<1>3. \A k \in 1 .. InRing : tbuf[TxWrap(tOut + k - 1)] = QByte((queued - InRing) + k)
  BY DEF TxRingGood
<1>4. TxData = QRun(queued - InRing, queued)
  BY <1>2, <1>3 DEF TxData, QRun
<1> QED BY <1>1, <1>4

\* Uart_Buf_Cpy writes behind the newest byte and touches none of those in use.
LEMMA CopiedStores ==
  ASSUME TxTypeOK, TxRingGood, NEW n \in Nat, n <= tSpace
  PROVE  /\ Copied(n) \in [0 .. TxSize - 1 -> TxByte]
         /\ \A k \in 1 .. n : Copied(n)[TxWrap(tIn + k - 1)] = QByte(queued + k)
         /\ \A k \in 1 .. InRing :
              Copied(n)[TxWrap(tOut + k - 1)] = tbuf[TxWrap(tOut + k - 1)]
<1> DEFINE At(k) == TxWrap(tIn + k - 1)
           Pick(i) == CHOOSE k \in 1 .. n : i = At(k)
           Hit(i) == \E k \in 1 .. n : i = At(k)
<1>1. /\ TxSize \in Nat \ {0} /\ tIn \in 0 .. TxSize - 1 /\ tOut \in 0 .. TxSize - 1
      /\ InRing \in 0 .. TxSize /\ n + InRing <= TxSize /\ queued \in Nat
  BY RingFacts DEF TxTypeOK
<1>2. Copied(n) = [i \in 0 .. TxSize - 1 |-> IF Hit(i) THEN QByte(queued + Pick(i)) ELSE tbuf[i]]
  BY DEF Copied, TxTypeOK
<1>3. \A i : Hit(i) => Pick(i) \in 1 .. n /\ i = At(Pick(i))
  OBVIOUS
<1>4. Copied(n) \in [0 .. TxSize - 1 -> TxByte]
  <2>1. \A i \in 0 .. TxSize - 1 : tbuf[i] \in TxByte
    BY DEF TxTypeOK
  <2>2. \A k \in 1 .. n : QByte(queued + k) \in TxByte
    BY <1>1, ByteFields
  <2> HIDE DEF Hit, Pick
  <2> QED BY <1>1, <1>2, <1>3, <2>1, <2>2
<1>5. ASSUME NEW k \in 1 .. n
      PROVE  Copied(n)[At(k)] = QByte(queued + k)
  <2>1. At(k) \in 0 .. TxSize - 1
    <3>1. tIn + k - 1 \in 0 .. 2 * TxSize
      BY <1>1
    <3> QED BY <3>1, TxWrapType
  <2>2. Hit(At(k))
    OBVIOUS
  <2>3. PICK j \in 1 .. n : j = Pick(At(k)) /\ At(k) = At(j)
    BY <1>3, <2>2
  <2>4. j = k
    <3>1. tIn + k - 1 \in 0 .. 2 * TxSize /\ tIn + j - 1 \in 0 .. 2 * TxSize
      BY <1>1
    <3>2. /\ (tIn + k - 1) - (tIn + j - 1) < TxSize
          /\ (tIn + j - 1) - (tIn + k - 1) < TxSize
      BY <1>1
    <3>3. tIn + k - 1 = tIn + j - 1
      BY <2>3, <3>1, <3>2, TxWrapInjective
    <3> QED BY <1>1, <3>3
  <2> HIDE DEF Hit, Pick
  <2> QED BY <1>2, <2>1, <2>2, <2>3, <2>4
<1>6. ASSUME NEW k \in 1 .. InRing
      PROVE  Copied(n)[TxWrap(tOut + k - 1)] = tbuf[TxWrap(tOut + k - 1)]
  <2>1. TxWrap(tOut + k - 1) \in 0 .. TxSize - 1
    <3>1. tOut + k - 1 \in 0 .. 2 * TxSize
      BY <1>1
    <3> QED BY <3>1, TxWrapType
  <2>2. ASSUME NEW j \in 1 .. n
        PROVE  At(j) # TxWrap(tOut + k - 1)
    <3>1. At(j) = TxWrap(tOut + InRing + (j - 1))
      <4>1. TxWrap(TxWrap(tOut + InRing) + (j - 1)) = TxWrap(tOut + InRing + (j - 1))
        <5>1. j - 1 \in 0 .. TxSize /\ InRing + (j - 1) <= TxSize
          BY <1>1
        <5> QED BY <1>1, <5>1, TxWrapTwice
      <4>2. tIn + (j - 1) = tIn + j - 1 /\ tIn = TxWrap(tOut + InRing)
        BY <1>1 DEF TxRingGood
      <4> QED BY <4>1, <4>2
    <3>2. /\ tOut + InRing + (j - 1) \in 0 .. 2 * TxSize
          /\ tOut + k - 1 \in 0 .. 2 * TxSize
          /\ (tOut + InRing + (j - 1)) - (tOut + k - 1) < TxSize
          /\ (tOut + k - 1) - (tOut + InRing + (j - 1)) < TxSize
          /\ tOut + InRing + (j - 1) # tOut + k - 1
      BY <1>1
    <3> QED BY <3>1, <3>2, TxWrapInjective
  <2>3. ~Hit(TxWrap(tOut + k - 1))
    BY <2>2
  <2> HIDE DEF Hit, Pick
  <2> QED BY <1>2, <2>1, <2>3
<1> QED BY <1>4, <1>5, <1>6

\* tx_fifo_insert takes the oldest bytes of the ring and leaves the others in place.
LEMMA InsertTakesOldest ==
  ASSUME TxTypeOK, TxRingGood, NEW n \in 0 .. InRing, Insert(n), UNCHANGED <<tbuf, tIn, queued>>
  PROVE  /\ txFifo' = txFifo \o QRun(queued - InRing, (queued - InRing) + n)
         /\ InRing' = InRing - n /\ tOut' \in 0 .. TxSize - 1 /\ tSpace' \in 0 .. TxSize
         /\ TxRingGood'
<1> DEFINE base == queued - InRing
<1>1. /\ TxSize \in Nat \ {0} /\ InRing \in 0 .. TxSize /\ queued \in Nat /\ base \in Nat
      /\ tSpace = TxSize - InRing /\ TxData = QRun(base, queued) /\ tOut \in 0 .. TxSize - 1
      /\ n \in Nat /\ n <= InRing
  BY RingFacts DEF TxTypeOK
<1>2. tOut' = TxWrap(tOut + n) /\ tSpace' = tSpace + n /\ txFifo' = txFifo \o SubSeq(TxData, 1, n)
  BY DEF Insert
<1>3. InRing' = InRing - n
  BY <1>1, <1>2 DEF InRing
<1>4. SubSeq(TxData, 1, n) = QRun(base, base + n)
  <2>1. /\ QRun(base, queued) \in Seq(TxByte) /\ Len(QRun(base, queued)) = InRing
        /\ QRun(base, base + n) \in Seq(TxByte) /\ Len(QRun(base, base + n)) = n
    <3>1. base <= queued /\ base <= base + n /\ base + n \in Nat /\ queued - base = InRing
          /\ (base + n) - base = n
      BY <1>1
    <3> HIDE DEF base
    <3> QED BY <1>1, <3>1, QRunProperties
  <2>2. \A k \in 1 .. n : QRun(base, queued)[k] = QRun(base, base + n)[k]
    <3> SUFFICES ASSUME NEW k \in 1 .. n
                 PROVE  QRun(base, queued)[k] = QRun(base, base + n)[k]
      OBVIOUS
    <3>1. k \in 1 .. queued - base /\ k \in 1 .. (base + n) - base
      BY <1>1
    <3> HIDE DEF base
    <3> QED BY <3>1 DEF QRun
  <2>3. \A k \in 1 .. n : QRun(base, queued)[k] \in TxByte
    BY <1>1, <2>1, ElementOfSeq
  <2> HIDE DEF base
  <2> DEFINE run == QRun(base, queued)
             sub == SubSeq(run, 1, n)
             new == QRun(base, base + n)
  <2>4. /\ sub \in Seq(TxByte)
        /\ Len(sub) = IF 1 <= n THEN n - 1 + 1 ELSE 0
        /\ \A k \in 1 .. n - 1 + 1 : sub[k] = run[1 + k - 1]
    BY <1>1, <2>3, SubSeqProperties
  <2>5. Len(sub) = n /\ \A k \in 1 .. n : sub[k] = new[k]
    <3>1. n - 1 + 1 = n /\ \A k \in 1 .. n : 1 + k - 1 = k
      BY <1>1
    <3> QED BY <1>1, <2>2, <2>4, <3>1
  <2>6. new \in Seq(TxByte) /\ Len(new) = n
    BY <2>1
  <2> HIDE DEF sub, new
  <2>7. sub = new
    BY <2>4, <2>5, <2>6, SeqEqual
  <2> QED BY <1>1, <2>7 DEF sub, new
<1>5. tOut' \in 0 .. TxSize - 1 /\ tSpace' \in 0 .. TxSize
  <2>1. tOut + n \in 0 .. 2 * TxSize
    BY <1>1
  <2> QED BY <1>1, <1>2, <2>1, TxWrapType
<1>6. ASSUME NEW i \in 0 .. TxSize - n
      PROVE  TxWrap(tOut' + i) = TxWrap(tOut + n + i)
  <2>1. i \in 0 .. TxSize /\ n \in 0 .. TxSize /\ n + i <= TxSize
    BY <1>1
  <2> QED BY <1>1, <1>2, <2>1, TxWrapTwice
<1>7. TxRingGood'
  <2>1. tIn' = TxWrap(tOut' + InRing')
    <3>1. InRing - n \in 0 .. TxSize - n /\ tOut + n + (InRing - n) = tOut + InRing
      BY <1>1
    <3>2. TxWrap(tOut' + (InRing - n)) = TxWrap(tOut + InRing)
      BY <1>6, <3>1
    <3> QED BY <1>3, <3>2 DEF TxRingGood
  <2>2. ASSUME NEW k \in 1 .. InRing'
        PROVE  tbuf'[TxWrap(tOut' + k - 1)] = QByte((queued' - InRing') + k)
    <3>1. k - 1 \in 0 .. TxSize - n /\ n + k \in 1 .. InRing
      BY <1>1, <1>3
    <3>2. TxWrap(tOut' + (k - 1)) = TxWrap(tOut + n + (k - 1))
      BY <1>6, <3>1
    <3>3. tOut + n + (k - 1) = tOut + (n + k) - 1
      BY <1>1, <3>1
    <3>4. tOut' + (k - 1) = tOut' + k - 1
      BY <1>5, <3>1
    <3>5. tbuf[TxWrap(tOut + (n + k) - 1)] = QByte(base + (n + k))
      BY <3>1 DEF TxRingGood
    <3>6. base + (n + k) = (queued' - InRing') + k
      BY <1>1, <1>3, <3>1
    <3> HIDE DEF base
    <3> QED BY <3>2, <3>3, <3>4, <3>5, <3>6
  <2>3. InRing' <= queued'
    BY <1>1, <1>3
  <2> QED BY <2>1, <2>2, <2>3 DEF TxRingGood
<1> QED BY <1>2, <1>3, <1>4, <1>5, <1>7

------------------------------------------------------------------------------
LEMMA TxInitInductive == TxInit => TxInv
<1> SUFFICES ASSUME TxInit PROVE TxInv
  OBVIOUS
<1> USE UartTxOK DEF TxInit
<1>1. InRing = 0 /\ queued = 0 /\ direct = 0 /\ dropped = {}
  BY DEF InRing
<1>2. TxTypeOK
  <2>1. QByte(0) \in TxByte
    BY ByteFields
  <2>2. tbuf \in [0 .. TxSize - 1 -> TxByte]
    BY <2>1
  <2>3. Len(txFifo) <= TxFifoLen /\ txFifo \in Seq(TxByte) /\ line \in Seq(TxByte)
    OBVIOUS
  <2>4. ring \in BOOLEAN /\ ena \in BOOLEAN /\ answered \in BOOLEAN
    OBVIOUS
  <2>5. tIn \in 0 .. TxSize - 1 /\ tOut \in 0 .. TxSize - 1 /\ tSpace \in 0 .. TxSize
    OBVIOUS
  <2> QED BY <1>1, <2>2, <2>3, <2>4, <2>5 DEF TxTypeOK
<1>3. TxRingGood
  <2>1. tIn = TxWrap(tOut + InRing)
    BY <1>1 DEF TxWrap
  <2> QED BY <1>1, <2>1 DEF TxRingGood
<1>4. SentGood
  <2>1. Sent = <<>>
    BY DEF Sent
  <2> QED BY <1>1, <2>1 DEF SentGood, Ordered, BytesOf
<1>5. DropsExplained /\ FinishGood
  <2>1. pc = "idle" /\ ~answered /\ dropped = {}
    OBVIOUS
  <2> QED BY <2>1 DEF DropsExplained, FinishGood
<1> QED BY <1>2, <1>3, <1>4, <1>5 DEF TxInv

LEMMA ShiftInductive == TxInv /\ Shift => TxInv'
<1> SUFFICES ASSUME TxInv, Shift PROVE TxInv'
  OBVIOUS
<1> USE DEF TxInv
<1>1. /\ txFifo # <<>> /\ line' = Append(line, Head(txFifo)) /\ txFifo' = Tail(txFifo)
      /\ UNCHANGED <<tbuf, tIn, tOut, tSpace, ring, ena, pc, len, queued, direct, dropped, answered>>
  BY DEF Shift, txRing, txHist
<1>2. txFifo \in Seq(TxByte) /\ line \in Seq(TxByte) /\ Len(txFifo) <= TxFifoLen
  BY DEF TxTypeOK
<1>3. /\ Head(txFifo) \in TxByte /\ txFifo' \in Seq(TxByte) /\ Len(txFifo') = Len(txFifo) - 1
      /\ \A i \in 1 .. Len(txFifo') : txFifo'[i] = txFifo[i + 1]
  BY <1>1, <1>2, HeadTailProperties
<1>4. /\ line' \in Seq(TxByte) /\ Len(line') = Len(line) + 1
      /\ \A i \in 1 .. Len(line) : line'[i] = line[i]
      /\ line'[Len(line) + 1] = txFifo[1]
  BY <1>1, <1>2, <1>3, AppendProperties
<1>5. Len(txFifo) \in Nat \ {0} /\ Len(line) \in Nat /\ TxFifoLen \in Nat
  BY <1>1, <1>2, UartTxOK, EmptySeq, LenProperties
<1>6. TxTypeOK'
  <2>1. Len(txFifo') <= TxFifoLen
    BY <1>2, <1>3, <1>5
  <2> QED BY <1>1, <1>3, <1>4, <2>1 DEF TxTypeOK
<1>7. InRing' = InRing /\ TxRingGood'
  BY <1>1 DEF InRing, TxRingGood, TxWrap, QByte
<1>8. Sent' = Sent
  <2>1. /\ Sent \in Seq(TxByte) /\ Len(Sent) = Len(line) + Len(txFifo)
        /\ \A i \in 1 .. Len(line) + Len(txFifo) :
             Sent[i] = IF i <= Len(line) THEN line[i] ELSE txFifo[i - Len(line)]
    BY <1>2, ConcatProperties DEF Sent
  <2>2. /\ Sent' \in Seq(TxByte) /\ Len(Sent') = Len(line') + Len(txFifo')
        /\ \A i \in 1 .. Len(line') + Len(txFifo') :
             Sent'[i] = IF i <= Len(line') THEN line'[i] ELSE txFifo'[i - Len(line')]
    BY <1>3, <1>4, ConcatProperties DEF Sent
  <2>3. Len(Sent') = Len(Sent)
    BY <1>3, <1>4, <1>5, <2>1, <2>2
  <2>4. ASSUME NEW i \in 1 .. Len(Sent) PROVE Sent'[i] = Sent[i]
    <3>0. i \in 1 .. Len(line) + Len(txFifo) /\ i \in 1 .. Len(line') + Len(txFifo')
      BY <2>1, <2>2, <2>3
    <3>1. CASE i <= Len(line)
      <4>1. i \in 1 .. Len(line) /\ i <= Len(line')
        BY <1>4, <1>5, <3>1
      <4> QED BY <1>4, <2>1, <2>2, <3>0, <3>1, <4>1
    <3>2. CASE i = Len(line) + 1
      <4>1. i <= Len(line') /\ ~(i <= Len(line)) /\ i - Len(line) = 1
        BY <1>4, <1>5, <3>2
      <4> QED BY <1>4, <2>1, <2>2, <3>0, <3>2, <4>1
    <3>3. CASE i > Len(line) + 1
      <4>1. /\ ~(i <= Len(line')) /\ ~(i <= Len(line)) /\ i - Len(line') \in 1 .. Len(txFifo')
            /\ (i - Len(line')) + 1 = i - Len(line)
        BY <1>3, <1>4, <1>5, <3>0, <3>3
      <4>2. txFifo'[i - Len(line')] = txFifo[i - Len(line)]
        BY <1>3, <4>1
      <4> QED BY <2>1, <2>2, <3>0, <4>1, <4>2
    <3> QED BY <1>5, <3>1, <3>2, <3>3
  <2> QED BY <2>1, <2>2, <2>3, <2>4, SeqEqual
<1>9. SentGood'
  BY <1>1, <1>7, <1>8 DEF SentGood, Ordered, BytesOf, QByte, DByte
<1>10. DropsExplained'
  <2>1. TxLimit \in Nat /\ (Len(txFifo) < TxLimit => Len(txFifo') < TxLimit)
    BY <1>3, <1>5, UartTxOK
  <2> QED BY <1>1, <2>1 DEF DropsExplained
<1>11. ASSUME FifoQueued PROVE FifoQueued'
  <2>1. queued' - InRing' = queued - InRing /\ queued - InRing \in Nat
    BY <1>1, <1>7, RingFacts
  <2>2. Len(txFifo') <= queued' - InRing'
    BY <1>3, <1>5, <1>11, <2>1 DEF FifoQueued
  <2>3. ASSUME NEW i \in 1 .. Len(txFifo')
        PROVE  txFifo'[i] = QByte((queued' - InRing' - Len(txFifo')) + i)
    <3>1. /\ i + 1 \in 1 .. Len(txFifo)
          /\ (queued - InRing - Len(txFifo)) + (i + 1) = (queued' - InRing' - Len(txFifo')) + i
      BY <1>3, <1>5, <2>1
    <3>2. txFifo'[i] = txFifo[i + 1]
      BY <1>3
    <3>3. txFifo[i + 1] = QByte((queued - InRing - Len(txFifo)) + (i + 1))
      BY <1>11, <3>1 DEF FifoQueued
    <3> QED BY <3>1, <3>2, <3>3
  <2> QED BY <2>2, <2>3 DEF FifoQueued, QByte
<1>12. FinishGood'
  BY <1>1, <1>7, <1>11 DEF FinishGood
<1> QED BY <1>6, <1>7, <1>9, <1>10, <1>12

\* What leaves the ring and the bytes sent alone keeps them good.
LEMMA SentUntouched ==
  ASSUME TxInv, UNCHANGED <<txFifo, line, tbuf, tIn, tOut, tSpace, queued, direct, dropped>>
  PROVE  TxRingGood' /\ SentGood' /\ InRing' = InRing /\ (FifoQueued => FifoQueued')
<1>1. TxRingGood' /\ SentGood' /\ InRing' = InRing
  BY DEF TxInv, TxRingGood, SentGood, InRing, Sent, Ordered, BytesOf, TxWrap, QByte, DByte
<1>2. FifoQueued => FifoQueued'
  BY <1>1 DEF FifoQueued, QByte
<1> QED BY <1>1, <1>2

LEMMA EnqBeginInductive == \A n \in 1 .. TxSize : TxInv /\ EnqBegin(n) => TxInv'
<1> SUFFICES ASSUME NEW n \in 1 .. TxSize, TxInv, EnqBegin(n) PROVE TxInv'
  OBVIOUS
<1>1. /\ pc' = "copy" /\ len' = n /\ ena' = FALSE /\ answered' = FALSE
      /\ UNCHANGED <<txFifo, line, tbuf, tIn, tOut, tSpace, ring, queued, direct, dropped>>
  BY DEF EnqBegin, txRing, txHist
<1>2. TxRingGood' /\ SentGood' /\ InRing' = InRing /\ (FifoQueued => FifoQueued')
  BY <1>1, SentUntouched
<1>3. TxTypeOK'
  <2>1. n \in Nat
    BY UartTxOK
  <2> QED BY <1>1, <2>1 DEF TxInv, TxTypeOK
<1>4. DropsExplained' /\ FinishGood'
  BY <1>1, <1>2 DEF TxInv, DropsExplained, FinishGood
<1> QED BY <1>2, <1>3, <1>4 DEF TxInv

LEMMA EnqEndInductive == TxInv /\ EnqEnd => TxInv'
<1> SUFFICES ASSUME TxInv, EnqEnd PROVE TxInv'
  OBVIOUS
<1>1. /\ pc = "enable" /\ pc' = "idle" /\ ena' = TRUE
      /\ UNCHANGED <<txFifo, line, tbuf, tIn, tOut, tSpace, ring, len, queued, direct, dropped,
                     answered>>
  BY DEF EnqEnd, txRing, txHist
<1>2. TxRingGood' /\ SentGood' /\ InRing' = InRing /\ (FifoQueued => FifoQueued')
  BY <1>1, SentUntouched
<1>3. TxTypeOK'
  BY <1>1 DEF TxInv, TxTypeOK
<1>4. DropsExplained' /\ FinishGood'
  BY <1>1, <1>2 DEF TxInv, DropsExplained, FinishGood
<1> QED BY <1>2, <1>3, <1>4 DEF TxInv

LEMMA CharWaitInductive == TxInv /\ CharWait => TxInv'
<1> SUFFICES ASSUME TxInv, CharWait PROVE TxInv'
  OBVIOUS
<1>1. /\ Len(txFifo) < TxLimit /\ pc' = "write" /\ answered' = FALSE
      /\ UNCHANGED <<txFifo, line, tbuf, tIn, tOut, tSpace, ring, ena, len, queued, direct, dropped>>
  BY DEF CharWait, txRing, txHist
<1>2. TxRingGood' /\ SentGood' /\ InRing' = InRing /\ (FifoQueued => FifoQueued')
  BY <1>1, SentUntouched
<1>3. TxTypeOK'
  BY <1>1 DEF TxInv, TxTypeOK
<1>4. DropsExplained'
  BY <1>1 DEF TxInv, DropsExplained
<1>5. FinishGood'
  BY <1>1, <1>2 DEF TxInv, FinishGood
<1> QED BY <1>2, <1>3, <1>4, <1>5 DEF TxInv

LEMMA FinishFifoInductive == TxInv /\ FinishFifo => TxInv'
<1> SUFFICES ASSUME TxInv, FinishFifo PROVE TxInv'
  OBVIOUS
<1>1. /\ txFifo = <<>> /\ pc' = "finish" /\ answered' = FALSE
      /\ UNCHANGED <<txFifo, line, tbuf, tIn, tOut, tSpace, ring, ena, len, queued, direct, dropped>>
  BY DEF FinishFifo, txRing, txHist
<1>2. TxRingGood' /\ SentGood' /\ InRing' = InRing /\ (FifoQueued => FifoQueued')
  BY <1>1, SentUntouched
<1>3. TxTypeOK'
  BY <1>1 DEF TxInv, TxTypeOK
<1>4. FifoQueued
  <2>1. Len(txFifo) = 0 /\ queued - InRing \in Nat
    BY <1>1, RingFacts DEF TxInv
  <2> QED BY <2>1 DEF FifoQueued
<1>5. DropsExplained' /\ FinishGood'
  BY <1>1, <1>2, <1>4 DEF TxInv, DropsExplained, FinishGood
<1> QED BY <1>2, <1>3, <1>5 DEF TxInv

LEMMA FinishRingInductive == TxInv /\ FinishRing => TxInv'
<1> SUFFICES ASSUME TxInv, FinishRing PROVE TxInv'
  OBVIOUS
<1>1. /\ pc = "finish" /\ pc' = "idle" /\ answered' = (~ring \/ InRing = 0)
      /\ UNCHANGED <<txFifo, line, tbuf, tIn, tOut, tSpace, ring, ena, len, queued, direct, dropped>>
  BY DEF FinishRing, txRing, txHist
<1>2. TxRingGood' /\ SentGood' /\ InRing' = InRing /\ (FifoQueued => FifoQueued')
  BY <1>1, SentUntouched
<1>3. TxTypeOK'
  <2>1. answered' \in BOOLEAN
    BY <1>1
  <2> QED BY <1>1, <2>1 DEF TxInv, TxTypeOK
<1>4. DropsExplained'
  BY <1>1 DEF TxInv, DropsExplained
<1>5. FinishGood'
  <2>1. FifoQueued /\ (~ring => InRing = 0)
    BY <1>1 DEF TxInv, FinishGood
  <2>2. answered' => InRing = 0
    BY <1>1, <2>1
  <2> QED BY <1>1, <1>2, <2>1, <2>2 DEF FinishGood
<1> QED BY <1>2, <1>3, <1>4, <1>5 DEF TxInv

\* Uart_Buf_Cpy puts the message behind what the ring holds.
LEMMA EnqCopyInductive == TxInv /\ EnqCopy => TxInv'
<1> SUFFICES ASSUME TxInv, EnqCopy PROVE TxInv'
  OBVIOUS
<1>1. /\ pc = "copy" /\ pc' = "enable" /\ ring' \in {ring, TRUE}
      /\ UNCHANGED <<txFifo, line, tOut, ena, len, direct, dropped, answered>>
  BY DEF EnqCopy
<1>2. CASE ring' /\ len <= tSpace
  <2>1. /\ tbuf' = Copied(len) /\ tIn' = TxWrap(tIn + len) /\ tSpace' = tSpace - len
        /\ queued' = queued + len
    BY <1>2 DEF EnqCopy
  <2>2. /\ TxSize \in Nat \ {0} /\ InRing \in 0 .. TxSize /\ queued \in Nat /\ len \in Nat
        /\ tSpace = TxSize - InRing /\ tIn \in 0 .. TxSize - 1 /\ tOut \in 0 .. TxSize - 1
        /\ InRing <= queued /\ TxTypeOK /\ TxRingGood
    BY RingFacts DEF TxInv, TxTypeOK, TxRingGood
  <2>3. InRing' = InRing + len /\ InRing' <= TxSize /\ queued' - InRing' = queued - InRing
    BY <1>2, <2>1, <2>2 DEF InRing
  <2>4. /\ Copied(len) \in [0 .. TxSize - 1 -> TxByte]
        /\ \A k \in 1 .. len : Copied(len)[TxWrap(tIn + k - 1)] = QByte(queued + k)
        /\ \A k \in 1 .. InRing :
             Copied(len)[TxWrap(tOut + k - 1)] = tbuf[TxWrap(tOut + k - 1)]
    BY <1>2, <2>2, CopiedStores
  <2>5. ASSUME NEW i \in 0 .. len
        PROVE  TxWrap(tIn + i) = TxWrap(tOut + InRing + i)
    <3>1. i \in 0 .. TxSize /\ InRing + i <= TxSize
      BY <1>2, <2>2
    <3>2. tIn = TxWrap(tOut + InRing)
      BY <2>2 DEF TxRingGood
    <3> QED BY <2>2, <3>1, <3>2, TxWrapTwice
  <2>6. TxRingGood'
    <3>1. tIn' = TxWrap(tOut' + InRing')
      <4>1. tOut + InRing + len = tOut + (InRing + len) /\ len \in 0 .. len
        BY <2>2
      <4> QED BY <1>1, <2>1, <2>3, <2>5, <4>1
    <3>2. ASSUME NEW k \in 1 .. InRing'
          PROVE  tbuf'[TxWrap(tOut' + k - 1)] = QByte((queued' - InRing') + k)
      <4>1. CASE k <= InRing
        <5>1. k \in 1 .. InRing
          BY <2>2, <4>1
        <5>2. tbuf[TxWrap(tOut + k - 1)] = QByte((queued - InRing) + k)
          BY <2>2, <5>1 DEF TxRingGood
        <5> QED BY <1>1, <2>1, <2>3, <2>4, <5>1, <5>2
      <4>2. CASE ~(k <= InRing)
        <5> DEFINE j == k - InRing
        <5>1. /\ j \in 1 .. len /\ j - 1 \in 0 .. len /\ tOut + InRing + (j - 1) = tOut + k - 1
              /\ tIn + (j - 1) = tIn + j - 1 /\ queued + j = (queued - InRing) + k
          BY <2>2, <2>3, <4>2
        <5>2. TxWrap(tIn + (j - 1)) = TxWrap(tOut + InRing + (j - 1))
          BY <2>5, <5>1
        <5>3. Copied(len)[TxWrap(tIn + j - 1)] = QByte(queued + j)
          BY <2>4, <5>1
        <5> HIDE DEF j
        <5> QED BY <1>1, <2>1, <2>3, <5>1, <5>2, <5>3
      <4> QED BY <4>1, <4>2
    <3>3. InRing' <= queued'
      BY <2>1, <2>2, <2>3
    <3> QED BY <3>1, <3>2, <3>3 DEF TxRingGood
  <2>7. TxTypeOK'
    <3>1. tIn' \in 0 .. TxSize - 1
      <4>1. tIn + len \in 0 .. 2 * TxSize
        BY <1>2, <2>2
      <4> QED BY <2>1, <4>1, TxWrapType
    <3>2. tSpace' \in 0 .. TxSize /\ queued' \in Nat
      BY <1>2, <2>1, <2>2
    <3>3. ring' \in BOOLEAN
      BY <1>1 DEF TxInv, TxTypeOK
    <3> QED BY <1>1, <2>1, <2>4, <3>1, <3>2, <3>3 DEF TxInv, TxTypeOK
  <2>8. SentGood'
    BY <1>1, <2>3 DEF TxInv, SentGood, Sent, Ordered, BytesOf, QByte, DByte
  <2>9. DropsExplained'
    <3>1. queued' = 0 => queued = 0
      BY <2>1, <2>2
    <3> QED BY <1>1, <3>1 DEF TxInv, DropsExplained
  <2>10. FinishGood'
    BY <1>1, <1>2 DEF TxInv, FinishGood
  <2> QED BY <2>6, <2>7, <2>8, <2>9, <2>10 DEF TxInv
<1>3. CASE ~(ring' /\ len <= tSpace)
  <2>1. UNCHANGED <<tbuf, tIn, tSpace, queued>>
    BY <1>3 DEF EnqCopy
  <2>2. TxRingGood' /\ SentGood' /\ InRing' = InRing
    BY <1>1, <2>1, SentUntouched
  <2>3. TxTypeOK'
    <3>1. ring' \in BOOLEAN
      BY <1>1 DEF TxInv, TxTypeOK
    <3> QED BY <1>1, <2>1, <3>1 DEF TxInv, TxTypeOK
  <2>4. DropsExplained' /\ FinishGood'
    BY <1>1, <2>1, <2>2 DEF TxInv, TxTypeOK, DropsExplained, FinishGood
  <2> QED BY <2>2, <2>3, <2>4 DEF TxInv
<1> QED BY <1>2, <1>3

LEMMA Reassociated ==
  ASSUME NEW l \in Seq(TxByte), NEW f \in Seq(TxByte), NEW t \in Seq(TxByte)
  PROVE  (l \o f) \o t = l \o (f \o t)
BY ConcatAssociative

\* More bytes behind the FIFO: each way goes on where it was.
LEMMA SentGrows ==
  ASSUME TxInv, NEW t \in Seq(TxByte), Ordered(t),
         txFifo' = txFifo \o t, line' = line,
         \A a \in BytesOf(Sent), b \in BytesOf(t) : a[1] = b[1] => a[2] < b[2]
  PROVE  /\ Ordered(Sent') /\ BytesOf(Sent') = BytesOf(Sent) \cup BytesOf(t)
         /\ txFifo' \in Seq(TxByte) /\ Len(txFifo') = Len(txFifo) + Len(t)
<1>1. txFifo \in Seq(TxByte) /\ line \in Seq(TxByte) /\ Sent \in Seq(TxByte) /\ Ordered(Sent)
  BY ConcatProperties DEF TxInv, TxTypeOK, SentGood, Sent
<1>2. txFifo' \in Seq(TxByte) /\ Len(txFifo') = Len(txFifo) + Len(t)
  BY <1>1, ConcatProperties
<1>3. Sent' = Sent \o t
  <2>1. (line \o txFifo) \o t = line \o (txFifo \o t)
    BY <1>1, Reassociated
  <2> QED BY <2>1 DEF Sent
<1>4. Ordered(Sent \o t) /\ BytesOf(Sent \o t) = BytesOf(Sent) \cup BytesOf(t)
  BY <1>1, OrderedConcat, BytesOfConcat
<1>5. Ordered(Sent') /\ BytesOf(Sent') = BytesOf(Sent) \cup BytesOf(t)
  BY <1>3, <1>4
<1> QED BY <1>2, <1>5

LEMMA CharWriteInductive == TxInv /\ CharWrite => TxInv'
<1> SUFFICES ASSUME TxInv, CharWrite PROVE TxInv'
  OBVIOUS
<1>1. /\ pc = "write" /\ pc' = "idle" /\ direct' = direct + 1
      /\ UNCHANGED <<line, tbuf, tIn, tOut, tSpace, ring, ena, len, queued, answered>>
  BY DEF CharWrite, txRing
<1>2. /\ txFifo \in Seq(TxByte) /\ Len(txFifo) \in Nat /\ TxFifoLen \in Nat \ {0} /\ TxLimit <= TxFifoLen
      /\ TxLimit \in Nat /\ direct \in Nat /\ direct' \in Nat /\ dropped \subseteq 1 .. direct
      /\ Len(txFifo) <= TxFifoLen /\ InRing <= queued /\ queued \in Nat
  BY <1>1, UartTxOK, LenProperties DEF TxInv, TxTypeOK, TxRingGood
<1>3. InRing' = InRing /\ TxRingGood'
  BY <1>1 DEF TxInv, InRing, TxRingGood, TxWrap, QByte
<1>4. ~answered /\ ~answered'
  BY <1>1 DEF TxInv, FinishGood
<1>5. FinishGood'
  BY <1>1, <1>3, <1>4 DEF TxInv, FinishGood
<1>6. BytesOf(Sent) = {QByte(k) : k \in 1 .. (queued - InRing)}
                       \cup {DByte(k) : k \in (1 .. direct) \ dropped}
  BY DEF TxInv, SentGood
<1>7. CASE Len(txFifo) < TxFifoLen
  <2> DEFINE one == <<DByte(direct + 1)>>
  <2>1. txFifo' = Append(txFifo, DByte(direct + 1)) /\ dropped' = dropped
    BY <1>1, <1>7 DEF CharWrite
  <2>2. one \in Seq(TxByte) /\ Len(one) = 1 /\ one[1] = DByte(direct + 1)
    BY <1>1, <1>2, ByteFields
  <2>3. txFifo' = txFifo \o one
    BY <1>2, <2>1, <2>2, AppendIsConcat, ByteFields
  <2> HIDE DEF one
  <2>4. BytesOf(one) = {DByte(direct + 1)} /\ Ordered(one)
    BY <2>2 DEF BytesOf, Ordered
  <2>5. \A a \in BytesOf(Sent), b \in BytesOf(one) : a[1] = b[1] => a[2] < b[2]
    <3> SUFFICES ASSUME NEW a \in BytesOf(Sent), a[1] = DByte(direct + 1)[1]
                 PROVE  a[2] < DByte(direct + 1)[2]
      BY <2>4
    <3>1. DByte(direct + 1)[1] = "direct" /\ DByte(direct + 1)[2] = direct + 1
      BY <1>2, ByteFields
    <3>2. a \in {DByte(k) : k \in (1 .. direct) \ dropped}
      <4>1. ASSUME NEW k \in 1 .. (queued - InRing), a = QByte(k) PROVE FALSE
        <5>1. k \in Nat
          BY <1>2
        <5> QED BY <3>1, <4>1, <5>1, ByteFields
      <4> QED BY <1>6, <4>1
    <3>3. PICK k \in 1 .. direct : a = DByte(k)
      BY <3>2
    <3>4. a[2] = k /\ k < direct + 1
      BY <1>2, <3>3, ByteFields
    <3> QED BY <3>1, <3>4
  <2>6. /\ Ordered(Sent') /\ BytesOf(Sent') = BytesOf(Sent) \cup BytesOf(one)
        /\ txFifo' \in Seq(TxByte) /\ Len(txFifo') = Len(txFifo) + Len(one)
    BY <1>1, <2>2, <2>3, <2>4, <2>5, SentGrows
  <2>7. SentGood'
    <3>1. (1 .. direct') \ dropped = ((1 .. direct) \ dropped) \cup {direct + 1}
      BY <1>1, <1>2
    <3>2. {DByte(k) : k \in (1 .. direct') \ dropped}
            = {DByte(k) : k \in (1 .. direct) \ dropped} \cup {DByte(direct + 1)}
      BY <3>1
    <3>3. BytesOf(Sent') = {QByte(k) : k \in 1 .. (queued' - InRing')}
                             \cup {DByte(k) : k \in (1 .. direct') \ dropped'}
      BY <1>1, <1>3, <1>6, <2>1, <2>4, <2>6, <3>2
    <3> QED BY <2>6, <3>3 DEF SentGood, Ordered, BytesOf, QByte, DByte
  <2>8. TxTypeOK'
    <3>1. Len(txFifo') <= TxFifoLen
      BY <1>2, <1>7, <2>2, <2>6
    <3>2. dropped' \subseteq 1 .. direct'
      BY <1>1, <1>2, <2>1
    <3> QED BY <1>1, <1>2, <2>1, <2>6, <3>1, <3>2 DEF TxInv, TxTypeOK
  <2>9. DropsExplained'
    BY <1>1, <2>1 DEF TxInv, DropsExplained
  <2> QED BY <1>3, <1>5, <2>7, <2>8, <2>9 DEF TxInv
<1>8. CASE ~(Len(txFifo) < TxFifoLen)
  <2>1. txFifo' = txFifo /\ dropped' = dropped \cup {direct + 1}
    BY <1>1, <1>8 DEF CharWrite
  <2>2. SentGood'
    <3>1. (1 .. direct') \ dropped' = (1 .. direct) \ dropped
      BY <1>1, <1>2, <2>1
    <3>2. Sent' = Sent
      BY <1>1, <2>1 DEF Sent
    <3> QED BY <1>1, <1>3, <2>1, <3>1, <3>2 DEF TxInv, SentGood, Ordered, BytesOf, QByte, DByte
  <2>3. TxTypeOK'
    <3>1. dropped' \subseteq 1 .. direct'
      BY <1>1, <1>2, <2>1
    <3> QED BY <1>1, <1>2, <2>1, <3>1 DEF TxInv, TxTypeOK
  <2>4. queued # 0
    BY <1>1, <1>2, <1>8 DEF TxInv, DropsExplained
  <2>5. DropsExplained'
    BY <1>1, <2>4 DEF DropsExplained
  <2> QED BY <1>3, <1>5, <2>2, <2>3, <2>5 DEF TxInv
<1> QED BY <1>7, <1>8

LEMMA IsrTxEmptyInductive == TxInv /\ IsrTxEmpty => TxInv'
<1> SUFFICES ASSUME TxInv, IsrTxEmpty PROVE TxInv'
  OBVIOUS
<1>1. /\ ena' \in BOOLEAN
      /\ UNCHANGED <<line, tbuf, tIn, ring, pc, len, queued, direct, dropped, answered>>
  <2>1. CASE ring
    BY <2>1 DEF IsrTxEmpty, txHist
  <2>2. CASE ~ring
    BY <2>2 DEF IsrTxEmpty, txHist
  <2> QED BY <2>1, <2>2
<1>2. /\ txFifo \in Seq(TxByte) /\ Len(txFifo) \in Nat /\ TxFifoLen \in Nat
      /\ Len(txFifo) <= TxFifoLen /\ TxTypeOK /\ TxRingGood
      /\ InRing \in 0 .. TxSize /\ TxSize \in Nat /\ queued \in Nat /\ queued - InRing \in Nat
      /\ InRing <= queued
  BY UartTxOK, LenProperties, RingFacts DEF TxInv, TxTypeOK, TxRingGood
<1>3. CASE ring
  <2> DEFINE room == TxFifoLen - Len(txFifo)
             n == IF InRing > room THEN room ELSE InRing
             base == queued - InRing
             run == QRun(base, base + n)
  <2>1. Insert(n)
    BY <1>3 DEF IsrTxEmpty
  <2>2. n \in 0 .. InRing /\ n <= room /\ n \in Nat
    BY <1>2
  <2>3. base \in Nat /\ base + n \in Nat /\ base <= base + n /\ (base + n) - base = n
    BY <1>2, <2>2
  <2> HIDE DEF n
  <2>4. /\ txFifo' = txFifo \o QRun(queued - InRing, (queued - InRing) + n)
        /\ InRing' = InRing - n /\ tOut' \in 0 .. TxSize - 1 /\ tSpace' \in 0 .. TxSize
        /\ TxRingGood'
    BY <1>1, <1>2, <2>1, <2>2, InsertTakesOldest
  <2>5. /\ run \in Seq(TxByte) /\ Len(run) = n /\ Ordered(run)
        /\ BytesOf(run) = {QByte(k) : k \in (base + 1) .. (base + n)}
    <3> HIDE DEF base
    <3> QED BY <2>3, QRunProperties
  <2>6. BytesOf(Sent) = {QByte(k) : k \in 1 .. base}
                       \cup {DByte(k) : k \in (1 .. direct) \ dropped}
    BY DEF TxInv, SentGood
  <2>7. direct \in Nat /\ txFifo' = txFifo \o run /\ queued' - InRing' = base + n
    BY <1>1, <1>2, <2>2, <2>4 DEF TxInv, TxTypeOK
  <2> HIDE DEF base, run
  <2>8. \A a \in BytesOf(Sent), b \in BytesOf(run) : a[1] = b[1] => a[2] < b[2]
    <3> SUFFICES ASSUME NEW a \in BytesOf(Sent), NEW m \in (base + 1) .. (base + n),
                        a[1] = QByte(m)[1]
                 PROVE  a[2] < QByte(m)[2]
      BY <2>5
    <3>1. m \in Nat /\ QByte(m)[1] = "queued" /\ QByte(m)[2] = m
      BY <2>3, ByteFields
    <3>2. a \in {QByte(k) : k \in 1 .. base}
      <4>1. ASSUME NEW k \in 1 .. direct, a = DByte(k) PROVE FALSE
        <5>1. k \in Nat
          BY <2>7
        <5> QED BY <3>1, <4>1, <5>1, ByteFields
      <4> QED BY <2>6, <4>1
    <3>3. PICK k \in 1 .. base : a = QByte(k)
      BY <3>2
    <3>4. a[2] = k /\ k < m
      BY <2>3, <3>3, ByteFields
    <3> QED BY <3>1, <3>4
  <2>9. /\ Ordered(Sent') /\ BytesOf(Sent') = BytesOf(Sent) \cup BytesOf(run)
        /\ txFifo' \in Seq(TxByte) /\ Len(txFifo') = Len(txFifo) + Len(run)
    BY <1>1, <2>5, <2>7, <2>8, SentGrows
  <2>10. SentGood'
    <3>1. 1 .. (base + n) = (1 .. base) \cup ((base + 1) .. (base + n))
      BY <2>2, <2>3
    <3>2. {QByte(k) : k \in 1 .. (base + n)}
            = {QByte(k) : k \in 1 .. base} \cup {QByte(k) : k \in (base + 1) .. (base + n)}
      BY <3>1
    <3>3. BytesOf(Sent') = {QByte(k) : k \in 1 .. (queued' - InRing')}
                             \cup {DByte(k) : k \in (1 .. direct') \ dropped'}
      BY <1>1, <2>5, <2>6, <2>7, <2>9, <3>2
    <3> QED BY <2>9, <3>3 DEF SentGood, Ordered, BytesOf, QByte, DByte
  <2>11. TxTypeOK'
    <3>1. Len(txFifo') <= TxFifoLen
      BY <1>2, <2>2, <2>5, <2>9
    <3> QED BY <1>1, <2>4, <2>9, <3>1 DEF TxInv, TxTypeOK
  <2>12. DropsExplained'
    <3>1. ASSUME queued = 0 PROVE Len(txFifo') = Len(txFifo)
      <4>1. n = 0
        BY <1>2, <2>2, <3>1
      <4> QED BY <1>2, <2>5, <2>9, <4>1
    <3> QED BY <1>1, <3>1 DEF TxInv, DropsExplained
  <2>13. ASSUME FifoQueued PROVE FifoQueued'
    <3>1. /\ Len(txFifo') = Len(txFifo) + n /\ queued' - InRing' = base + n
          /\ queued - InRing = base
      BY <2>5, <2>7, <2>9 DEF base
    <3>2. Len(txFifo') <= queued' - InRing' /\ Len(txFifo) <= base
      BY <1>2, <2>2, <2>3, <2>13, <3>1 DEF FifoQueued
    <3>3. ASSUME NEW i \in 1 .. Len(txFifo')
          PROVE  txFifo'[i] = QByte((queued' - InRing' - Len(txFifo')) + i)
      <4>1. (queued' - InRing' - Len(txFifo')) + i = (base - Len(txFifo)) + i
        BY <1>2, <2>2, <2>3, <3>1
      <4>2. CASE i <= Len(txFifo)
        <5>1. i \in 1 .. Len(txFifo) /\ i \in 1 .. Len(txFifo) + Len(run)
          BY <1>2, <2>2, <2>5, <4>2
        <5>2. txFifo'[i] = txFifo[i]
          BY <1>2, <2>5, <2>7, <4>2, <5>1, ConcatProperties
        <5>3. txFifo[i] = QByte((base - Len(txFifo)) + i)
          BY <2>13, <3>1, <5>1 DEF FifoQueued
        <5> QED BY <4>1, <5>2, <5>3
      <4>3. CASE ~(i <= Len(txFifo))
        <5>1. /\ i - Len(txFifo) \in 1 .. (base + n) - base /\ i \in 1 .. Len(txFifo) + Len(run)
              /\ base + (i - Len(txFifo)) = (base - Len(txFifo)) + i
          BY <1>2, <2>2, <2>3, <2>5, <3>1, <4>3
        <5>2. txFifo'[i] = run[i - Len(txFifo)]
          BY <1>2, <2>5, <2>7, <4>3, <5>1, ConcatProperties
        <5>3. run[i - Len(txFifo)] = QByte(base + (i - Len(txFifo)))
          BY <5>1 DEF run, QRun
        <5> QED BY <4>1, <5>1, <5>2, <5>3
      <4> QED BY <4>2, <4>3
    <3> QED BY <3>2, <3>3 DEF FifoQueued, QByte
  <2>14. FinishGood'
    <3>1. InRing = 0 => InRing' = 0
      <4>1. InRing = 0 => n = 0
        BY <2>2
      <4>2. InRing' = InRing - n
        BY <2>4
      <4> QED BY <4>1, <4>2
    <3> QED BY <1>1, <1>3, <2>13, <3>1 DEF TxInv, FinishGood
  <2> QED BY <2>4, <2>10, <2>11, <2>12, <2>14 DEF TxInv
<1>4. CASE ~ring
  <2>1. UNCHANGED <<txFifo, tOut, tSpace>>
    BY <1>4 DEF IsrTxEmpty
  <2>2. TxRingGood' /\ SentGood' /\ InRing' = InRing /\ (FifoQueued => FifoQueued')
    BY <1>1, <2>1, SentUntouched
  <2>3. TxTypeOK'
    BY <1>1, <2>1 DEF TxInv, TxTypeOK
  <2>4. DropsExplained'
    BY <1>1, <2>1 DEF TxInv, DropsExplained
  <2>5. FinishGood'
    BY <1>1, <2>2 DEF TxInv, FinishGood
  <2> QED BY <2>2, <2>3, <2>4, <2>5 DEF TxInv
<1> QED BY <1>3, <1>4 DEF TxInv, TxTypeOK

LEMMA TxStepInductive == TxInv /\ [TxNext]_txVars => TxInv'
<1> SUFFICES ASSUME TxInv, [TxNext]_txVars PROVE TxInv'
  OBVIOUS
<1>1. CASE TxNext
  BY <1>1, ShiftInductive, IsrTxEmptyInductive, EnqBeginInductive, EnqCopyInductive, EnqEndInductive,
     CharWaitInductive, CharWriteInductive, FinishFifoInductive, FinishRingInductive DEF TxNext
<1>2. CASE UNCHANGED txVars
  <2>1. UNCHANGED <<txFifo, line, tbuf, tIn, tOut, tSpace, ring, ena, pc, len, queued, direct,
                    dropped, answered>>
    BY <1>2 DEF txVars, txRing, txHist
  <2>2. TxRingGood' /\ SentGood' /\ InRing' = InRing /\ (FifoQueued => FifoQueued')
    BY <2>1, SentUntouched
  <2>3. TxTypeOK' /\ DropsExplained' /\ FinishGood'
    BY <2>1, <2>2 DEF TxInv, TxTypeOK, DropsExplained, FinishGood
  <2> QED BY <2>2, <2>3 DEF TxInv
<1> QED BY <1>1, <1>2

(* The invariant above, for every size of ring and FIFO and every message.   *)
THEOREM TxInductive == TxSpec => []TxInv
  BY TxInitInductive, TxStepInductive, PTL DEF TxSpec

(* tx_buff_enq, uart_tx_one_char and the transmit branch of the handler, in   *)
(* every order: the bytes of each way are on the wire, in the FIFO and in    *)
(* the ring in their order, each once, and only bytes written straight to a  *)
(* FIFO that the handler has filled meanwhile are missing.                   *)
THEOREM SentAlwaysInOrder == TxSpec => []TxInOrder
<1>1. TxInv => TxInOrder
  <2> SUFFICES ASSUME TxInv PROVE TxInOrder
    OBVIOUS
  <2> DEFINE base == queued - InRing
             run == QRun(base, queued)
  <2>1. /\ InRing \in 0 .. TxSize /\ TxSize \in Nat /\ queued \in Nat /\ base \in Nat
        /\ base <= queued /\ TxData = run /\ direct \in Nat
    BY RingFacts DEF TxInv, TxTypeOK
  <2>2. /\ Sent \in Seq(TxByte) /\ Ordered(Sent)
        /\ BytesOf(Sent) = {QByte(k) : k \in 1 .. base}
                             \cup {DByte(k) : k \in (1 .. direct) \ dropped}
    BY ConcatProperties DEF TxInv, TxTypeOK, SentGood, Sent
  <2>3. /\ run \in Seq(TxByte) /\ Ordered(run)
        /\ BytesOf(run) = {QByte(k) : k \in (base + 1) .. queued}
    <3> HIDE DEF base
    <3> QED BY <2>1, QRunProperties
  <2> HIDE DEF base, run
  <2>4. \A a \in BytesOf(Sent), b \in BytesOf(run) : a[1] = b[1] => a[2] < b[2]
    <3> SUFFICES ASSUME NEW a \in BytesOf(Sent), NEW m \in (base + 1) .. queued,
                        a[1] = QByte(m)[1]
                 PROVE  a[2] < QByte(m)[2]
      BY <2>3
    <3>1. m \in Nat /\ QByte(m)[1] = "queued" /\ QByte(m)[2] = m
      BY <2>1, ByteFields
    <3>2. a \in {QByte(k) : k \in 1 .. base}
      <4>1. ASSUME NEW k \in 1 .. direct, a = DByte(k) PROVE FALSE
        <5>1. k \in Nat
          BY <2>1
        <5> QED BY <3>1, <4>1, <5>1, ByteFields
      <4> QED BY <2>2, <4>1
    <3>3. PICK k \in 1 .. base : a = QByte(k)
      BY <3>2
    <3>4. a[2] = k /\ k < m
      BY <2>1, <3>3, ByteFields
    <3> QED BY <3>1, <3>4
  <2>5. Out = Sent \o run
    BY <2>1 DEF Out, Sent
  <2>6. Ordered(Sent \o run) /\ BytesOf(Sent \o run) = BytesOf(Sent) \cup BytesOf(run)
    BY <2>2, <2>3, <2>4, OrderedConcat, BytesOfConcat
  <2>7. Sent \o run \in Seq(TxByte)
    BY <2>2, <2>3, ConcatProperties
  <2>8. DOMAIN Out = 1 .. Len(Out) /\ Ordered(Out) /\ BytesOf(Out) = BytesOf(Sent) \cup BytesOf(run)
    BY <2>5, <2>6, <2>7, LenProperties
  <2>9. {QByte(k) : k \in 1 .. base} \cup {QByte(k) : k \in (base + 1) .. queued}
          = {QByte(k) : k \in 1 .. queued}
    <3>1. 1 .. queued = (1 .. base) \cup ((base + 1) .. queued)
      BY <2>1
    <3> QED BY <3>1
  <2>10. ToSet(Out) = {QByte(k) : k \in 1 .. queued} \cup {DByte(k) : k \in (1 .. direct) \ dropped}
    <3>1. ToSet(Out) = BytesOf(Out)
      BY <2>8 DEF ToSet, BytesOf
    <3> QED BY <2>2, <2>3, <2>8, <2>9, <3>1
  <2>11. \A i, j \in DOMAIN Out : i < j /\ Out[i][1] = Out[j][1] => Out[i][2] < Out[j][2]
    BY <2>8 DEF Ordered
  <2> QED BY <2>10, <2>11 DEF TxInOrder, TxInv, TxTypeOK, DropsExplained
<1> QED BY <1>1, TxInductive, PTL

\* A byte of the FIFO comes behind every byte of the wire, so it is none of them.
LEMMA WireAndFifo ==
  ASSUME TxInv, FifoQueued, NEW i \in 1 .. Len(line), NEW j \in 1 .. Len(txFifo)
  PROVE  line[i] # txFifo[j]
<1>1. /\ line \in Seq(TxByte) /\ txFifo \in Seq(TxByte) /\ Len(line) \in Nat /\ Len(txFifo) \in Nat
      /\ queued - InRing \in Nat
  BY RingFacts, LenProperties DEF TxInv, TxTypeOK
<1>2. /\ Len(Sent) = Len(line) + Len(txFifo)
      /\ \A k \in 1 .. Len(line) + Len(txFifo) :
           Sent[k] = IF k <= Len(line) THEN line[k] ELSE txFifo[k - Len(line)]
  BY <1>1, ConcatProperties DEF Sent
<1>3. /\ i \in 1 .. Len(line) + Len(txFifo) /\ i <= Len(line)
      /\ Len(line) + j \in 1 .. Len(line) + Len(txFifo) /\ ~(Len(line) + j <= Len(line))
      /\ (Len(line) + j) - Len(line) = j /\ i < Len(line) + j
  BY <1>1
<1>4. Sent[i] = line[i] /\ Sent[Len(line) + j] = txFifo[j]
  BY <1>2, <1>3
<1>5. PICK m \in Nat : txFifo[j] = QByte(m)
  <2>1. /\ (queued - InRing - Len(txFifo)) + j \in Nat
        /\ txFifo[j] = QByte((queued - InRing - Len(txFifo)) + j)
    BY <1>1 DEF FifoQueued
  <2> QED BY <2>1
<1>6. Sent[i][1] = Sent[Len(line) + j][1] => Sent[i][2] < Sent[Len(line) + j][2]
  BY <1>2, <1>3 DEF TxInv, SentGood, Ordered
<1> QED BY <1>4, <1>5, <1>6, ByteFields

(* UART_CheckOutputFinished, with the handler between its two looks or not:  *)
(* from its TRUE on, until more is handed over, the wire holds every byte    *)
(* that was written straight to the FIFO and every byte of the ring but the  *)
(* last ones, as many as the FIFO holds.                                     *)
THEOREM FinishedAlwaysHonest == TxSpec => []FinishedHonest
<1>1. TxInv => FinishedHonest
  <2> SUFFICES ASSUME TxInv, answered PROVE FinishedHonest
    BY DEF FinishedHonest
  <2> DEFINE out == queued - Len(txFifo)
             Wire == {QByte(k) : k \in 1 .. out} \cup {DByte(k) : k \in (1 .. direct) \ dropped}
  <2>1. FifoQueued /\ InRing = 0
    BY DEF TxInv, FinishGood
  <2>2. /\ line \in Seq(TxByte) /\ txFifo \in Seq(TxByte) /\ Len(line) \in Nat
        /\ Len(txFifo) \in Nat /\ queued \in Nat /\ queued - InRing = queued
        /\ Len(txFifo) <= queued /\ out \in Nat /\ direct \in Nat
    BY <2>1, LenProperties DEF TxInv, TxTypeOK, FifoQueued
  <2>3. BytesOf(line) \cup BytesOf(txFifo)
          = {QByte(k) : k \in 1 .. queued} \cup {DByte(k) : k \in (1 .. direct) \ dropped}
    BY <2>2, BytesOfConcat DEF TxInv, SentGood, Sent
  <2>4. \A i \in 1 .. Len(txFifo) : txFifo[i] = QByte(out + i)
    BY <2>1, <2>2 DEF FifoQueued
  <2>5. \A b \in BytesOf(line) : b \notin BytesOf(txFifo)
    BY <2>1, WireAndFifo DEF BytesOf
  <2>6. BytesOf(txFifo) = {QByte(k) : k \in (out + 1) .. queued}
    <3>1. \A i \in 1 .. Len(txFifo) : out + i \in (out + 1) .. queued
      BY <2>2
    <3>2. \A k \in (out + 1) .. queued : k - out \in 1 .. Len(txFifo) /\ out + (k - out) = k
      BY <2>2
    <3> HIDE DEF out
    <3> QED BY <2>4, <3>1, <3>2 DEF BytesOf
  <2>7. ASSUME NEW b \in BytesOf(line) PROVE b \in Wire
    <3>1. CASE b \in {QByte(k) : k \in 1 .. queued}
      <4>1. PICK k \in 1 .. queued : b = QByte(k)
        BY <3>1
      <4>2. k \notin (out + 1) .. queued
        BY <2>5, <2>6, <4>1
      <4>3. k \in 1 .. out
        BY <2>2, <4>2
      <4> QED BY <4>1, <4>3
    <3> QED BY <2>3, <3>1
  <2>8. ASSUME NEW b \in Wire PROVE b \in BytesOf(line)
    <3>1. b \in BytesOf(line) \cup BytesOf(txFifo)
      <4>1. \A k \in 1 .. out : k \in 1 .. queued
        BY <2>2
      <4> HIDE DEF out
      <4> QED BY <2>3, <4>1
    <3>2. b \notin BytesOf(txFifo)
      <4> SUFFICES ASSUME NEW m \in (out + 1) .. queued, b = QByte(m) PROVE FALSE
        BY <2>6
      <4>1. m \in Nat /\ m > out
        BY <2>2
      <4>2. ASSUME NEW k \in 1 .. out, b = QByte(k) PROVE FALSE
        <5>1. k \in Nat /\ k # m
          BY <2>2, <4>1
        <5>2. QByte(k)[2] = k /\ QByte(m)[2] = m
          BY <4>1, <5>1, ByteFields
        <5> QED BY <4>2, <5>1, <5>2
      <4>3. ASSUME NEW k \in 1 .. direct, b = DByte(k) PROVE FALSE
        <5>1. k \in Nat
          BY <2>2
        <5> QED BY <4>1, <4>3, <5>1, ByteFields
      <4> HIDE DEF out
      <4> QED BY <4>2, <4>3
    <3> QED BY <3>1, <3>2
  <2>9. BytesOf(line) = Wire
    BY <2>7, <2>8
  <2>10. ToSet(line) = BytesOf(line)
    BY <2>2 DEF ToSet, BytesOf
  <2> QED BY <2>9, <2>10 DEF FinishedHonest
<1> QED BY <1>1, TxInductive, PTL
==============================================================================
