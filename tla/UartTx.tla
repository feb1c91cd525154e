-------------------------------- MODULE UartTx --------------------------------
(***************************************************************************)
(* Network to serial: the transmit half of firmware/app/driver/uart.c.     *)
(*                                                                         *)
(* Bytes get to the hardware FIFO in two ways: uart0_tx_buffer waits for   *)
(* room and writes them itself (the network callbacks use it), tx_buff_enq *)
(* puts them into the ring pTxBuffer, which the transmit branch of the     *)
(* UART interrupt handler empties.  The handler may run between any two    *)
(* steps of the code that calls either of them.                            *)
(***************************************************************************)
EXTENDS Naturals, Sequences, FiniteSets, SequencesExt

CONSTANTS
  TxSize,     \* UART_TX_BUFFER_SIZE (4096)
  TxFifoLen,  \* UART_FIFO_LEN (128)
  TxThresh,   \* UART_TX_EMPTY_THRESH_VAL (16)
  TxLimit,    \* uart_tx_one_char writes below this fill of the FIFO (126)
  MaxTx       \* bound: the bytes handed over by each of the two ways

ASSUME UartTxOK ==
  /\ TxSize \in Nat \ {0} /\ TxFifoLen \in Nat \ {0} /\ MaxTx \in Nat
  /\ TxThresh \in 0 .. TxFifoLen /\ TxLimit \in 1 .. TxFifoLen

VARIABLES
  txFifo,    \* the hardware transmit FIFO
  line,      \* history: what went out on the wire
  tbuf,      \* pTxBuffer->pUartBuff
  tIn,       \* pTxBuffer->pInPos - pUartBuff
  tOut,      \* pTxBuffer->pOutPos - pUartBuff
  tSpace,    \* pTxBuffer->Space
  ring,      \* has pTxBuffer been allocated?
  ena,       \* UART_TXFIFO_EMPTY_INT_ENA
  pc,        \* where the task is: "idle", "copy", "enable", "write", "finish"
  len,       \* the length of the message tx_buff_enq has been given
  queued,    \* history: bytes the ring accepted
  direct,    \* history: bytes written straight to the FIFO
  dropped,   \* history: of those, the ones the FIFO had no room for
  answered   \* history: has UART_CheckOutputFinished answered TRUE, and nothing been
             \* handed over since?

txRing == <<tbuf, tIn, tOut, tSpace>>
txHist == <<queued, direct, dropped>>
txVars == <<txFifo, line, txRing, ring, ena, pc, len, txHist, answered>>

QByte(n) == <<"queued", n>>
DByte(n) == <<"direct", n>>

TxWrap(i) == i % TxSize
InRing == TxSize - tSpace
TxData == [k \in 1 .. InRing |-> tbuf[TxWrap(tOut + k - 1)]]

TxInit ==
  /\ txFifo = <<>> /\ line = <<>>
  /\ tbuf = [i \in 0 .. TxSize - 1 |-> QByte(0)] /\ tIn = 0 /\ tOut = 0 /\ tSpace = TxSize
  /\ ring \in BOOLEAN     \* Uart_Buf_Init finds the memory, or returns NULL
  /\ ena = FALSE /\ pc = "idle" /\ len = 0
  /\ queued = 0 /\ direct = 0 /\ dropped = {}
  /\ answered = FALSE

----------------------------------------------------------------------------
\* Hardware: the first byte of the FIFO has left the shift register.
Shift ==
  /\ txFifo # <<>>
  /\ line' = Append(line, Head(txFifo)) /\ txFifo' = Tail(txFifo)
  /\ UNCHANGED <<txRing, ring, ena, pc, len, txHist, answered>>

\* tx_buff_enq: first the transmit interrupt is disabled,
EnqBegin(n) ==
  /\ pc = "idle" /\ queued + n <= MaxTx
  /\ pc' = "copy" /\ len' = n /\ ena' = FALSE /\ answered' = FALSE
  /\ UNCHANGED <<txFifo, line, txRing, ring, txHist>>

\* Mutant of Copied: the second piece overwrites the first.
CopiedTwice(n) ==
  [i \in DOMAIN tbuf |->
     IF \E k \in 1 .. n : i = (IF tIn + k - 1 < TxSize THEN tIn + k - 1 ELSE tIn)
     THEN QByte(queued + CHOOSE k \in 1 .. n :
                           i = (IF tIn + k - 1 < TxSize THEN tIn + k - 1 ELSE tIn))
     ELSE tbuf[i]]

\* Uart_Buf_Cpy: in one piece, or round the end of the ring in two.
Copied(n) ==
  [i \in DOMAIN tbuf |->
     IF \E k \in 1 .. n : i = TxWrap(tIn + k - 1)
     THEN QByte(queued + CHOOSE k \in 1 .. n : i = TxWrap(tIn + k - 1))
     ELSE tbuf[i]]

\* then the whole message is copied, or dropped when the ring is not there or has no
\* room for all of it,
EnqCopy ==
  /\ pc = "copy" /\ pc' = "enable"
  /\ ring' \in {ring, TRUE}
  /\ IF ring' /\ len <= tSpace
     THEN /\ tbuf' = Copied(len)
          /\ tIn' = TxWrap(tIn + len)
          /\ tSpace' = tSpace - len
          /\ queued' = queued + len
     ELSE UNCHANGED <<tbuf, tIn, tSpace, queued>>
  /\ UNCHANGED <<txFifo, line, tOut, ena, len, direct, dropped, answered>>

\* and the interrupt is enabled, whatever became of the message.
EnqEnd ==
  /\ pc = "enable" /\ pc' = "idle" /\ ena' = TRUE
  /\ UNCHANGED <<txFifo, line, txRing, ring, len, txHist, answered>>

\* tx_fifo_insert: n bytes from the ring to the FIFO.
Insert(n) ==
  /\ txFifo' = txFifo \o SubSeq(TxData, 1, n)
  /\ tOut' = TxWrap(tOut + n)
  /\ tSpace' = tSpace + n

\* Mutant of IsrTxEmpty: it never enables itself again.
IsrTxEmptyOnce ==
  /\ ena /\ Len(txFifo) <= TxThresh
  /\ LET room == TxFifoLen - Len(txFifo)
     IN  IF ring THEN Insert(IF InRing > room THEN room ELSE InRing)
         ELSE UNCHANGED <<txFifo, tOut, tSpace>>
  /\ ena' = FALSE
  /\ UNCHANGED <<line, tbuf, tIn, ring, pc, len, txHist, answered>>

\* The transmit branch of uart0_rx_intr_handler, with tx_start_uart_buffer: it disables
\* itself and enables itself again only if the ring holds more than the FIFO takes.
IsrTxEmpty ==
  /\ ena /\ Len(txFifo) <= TxThresh
  /\ LET room == TxFifoLen - Len(txFifo) IN
     IF ring
     THEN /\ Insert(IF InRing > room THEN room ELSE InRing)
          /\ ena' = (InRing > room)
     ELSE ena' = FALSE /\ UNCHANGED <<txFifo, tOut, tSpace>>
  /\ UNCHANGED <<line, tbuf, tIn, ring, pc, len, txHist, answered>>

\* uart_tx_one_char waits until the FIFO has room
CharWait ==
  /\ pc = "idle" /\ direct < MaxTx
  /\ Len(txFifo) < TxLimit
  /\ pc' = "write" /\ answered' = FALSE
  /\ UNCHANGED <<txFifo, line, txRing, ring, ena, len, txHist>>

\* and writes; a byte written to a full FIFO is lost.
CharWrite ==
  /\ pc = "write" /\ pc' = "idle"
  /\ direct' = direct + 1
  /\ IF Len(txFifo) < TxFifoLen
     THEN txFifo' = Append(txFifo, DByte(direct')) /\ UNCHANGED dropped
     ELSE dropped' = dropped \cup {direct'} /\ UNCHANGED txFifo
  /\ UNCHANGED <<line, txRing, ring, ena, len, queued, answered>>

\* Mutant of FinishFifo: the FIFO is not looked at.
FinishFifoBlind ==
  /\ pc = "idle" /\ pc' = "finish" /\ answered' = FALSE
  /\ UNCHANGED <<txFifo, line, txRing, ring, ena, len, txHist>>

\* UART_CheckOutputFinished looks at the FIFO, which must be empty,
FinishFifo ==
  /\ pc = "idle" /\ txFifo = <<>>
  /\ pc' = "finish" /\ answered' = FALSE
  /\ UNCHANGED <<txFifo, line, txRing, ring, ena, len, txHist>>

\* and then at the ring; it answers, or starts again (or gives up after its time).
FinishRing ==
  /\ pc = "finish" /\ pc' = "idle"
  /\ answered' = (~ring \/ InRing = 0)
  /\ UNCHANGED <<txFifo, line, txRing, ring, ena, len, txHist>>

TxNext ==
  \/ Shift \/ IsrTxEmpty
  \/ (\E n \in 1 .. TxSize : EnqBegin(n)) \/ EnqCopy \/ EnqEnd
  \/ CharWait \/ CharWrite \/ FinishFifo \/ FinishRing

TxSpec == TxInit /\ [][TxNext]_txVars

(* The wire moves and the task goes on.  An enabled interrupt is taken at the *)
(* next instruction, so a task that disables it again and again does not keep *)
(* the handler away for ever.                                                *)
TxFairness == WF_txVars(Shift) /\ SF_txVars(IsrTxEmpty) /\ WF_txVars(EnqCopy) /\ WF_txVars(EnqEnd)

----------------------------------------------------------------------------
\* What is on its way to the peer, or there already.
Out == line \o txFifo \o TxData

(* tx_buff_enq, uart_tx_one_char and the handler: each way keeps its bytes in *)
(* order and whole.  The ring never loses one; of those written straight to   *)
(* the FIFO only bytes are lost for which the handler filled the FIFO between *)
(* the look at its count and the write, so none where the ring is not used.   *)
TxInOrder ==
  /\ \A i, j \in DOMAIN Out : i < j /\ Out[i][1] = Out[j][1] => Out[i][2] < Out[j][2]
  /\ ToSet(Out) = {QByte(k) : k \in 1 .. queued} \cup {DByte(k) : k \in (1 .. direct) \ dropped}
  /\ Len(txFifo) <= TxFifoLen
  /\ queued = 0 => dropped = {}

(* tx_buff_enq and tx_start_uart_buffer: the interrupt is enabled whenever    *)
(* the ring holds bytes and nobody is filling it, so no byte waits for ever.  *)
TxDrains == \A n \in 1 .. MaxTx : (queued >= n) ~> (QByte(n) \in ToSet(line))

(* UART_CheckOutputFinished looks at the FIFO and then at the ring, and the   *)
(* handler may run in between.  From its TRUE on, until more is handed over,  *)
(* every byte written straight to the FIFO is on the wire and so is every     *)
(* byte of the ring but the last ones: those the handler moved between the    *)
(* two looks, one FIFO at the most, and the FIFO holds nothing else.          *)
FinishedHonest ==
  answered => ToSet(line) = {QByte(k) : k \in 1 .. queued - Len(txFifo)}
                              \cup {DByte(k) : k \in (1 .. direct) \ dropped}
=============================================================================
