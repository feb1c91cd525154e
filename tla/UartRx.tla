-------------------------------- MODULE UartRx --------------------------------
(***************************************************************************)
(* Serial to network: the receive half of firmware/app/driver/uart.c and   *)
(* the pump of firmware/app/user/user_uart.c.                              *)
(*                                                                         *)
(* The UART fills its hardware FIFO.  The UART interrupt handler moves the *)
(* FIFO into the ring pRxBuffer; every 100 ms the FRC1 timer handler takes *)
(* up to 4095 bytes out and sends them.  Neither handler interrupts the    *)
(* other (hw_timer.c, note 3), but the UART handler is a loop that rereads *)
(* the interrupt status, and bytes arrive at any moment of it: one pass of *)
(* that loop is one action.                                                *)
(***************************************************************************)
EXTENDS Naturals, Sequences

CONSTANTS
  Size,        \* UART_RX_BUFFER_SIZE (16384)
  FifoLen,     \* UART_FIFO_LEN (128)
  FullThresh,  \* RXFIFO_FULL threshold (100)
  DeqMax,      \* sizeof(tmp_buf) - 1 (4095)
  MaxBytes     \* bound: the bytes the peer sends

ASSUME SizesOK ==
  /\ Size \in Nat \ {0}
  /\ FifoLen \in Nat \ {0}
  /\ FullThresh \in 1 .. FifoLen
  /\ DeqMax \in Nat \ {0}
  /\ MaxBytes \in Nat

VARIABLES
  fifo,     \* the hardware receive FIFO
  buf,      \* pUartBuff
  pIn,      \* pInPos - pUartBuff
  pOut,     \* pOutPos - pUartBuff
  space,    \* Space
  intr,     \* the latched interrupts: "TOUT", "OVF", "FRM"
  quiet,    \* has the receive timeout been raised since the last byte?
  isr,      \* is the UART handler inside its loop?
  timerOn,  \* has user_uart_init armed the FRC1 timer?
  arrived,  \* bytes put on the wire so far, bounded by MaxBytes
  rcvd,     \* history: the bytes the FIFO accepted
  sent      \* history: the bytes given to the network code

ringVars == <<buf, pIn, pOut, space>>
vars == <<fifo, buf, pIn, pOut, space, intr, quiet, isr, timerOn, arrived, rcvd, sent>>

Byte == 1 .. MaxBytes
Used == Size - space

\* A position after moving on by at most Size: what the code's "% UartBuffSize"
\* and its test for the end of the buffer both do.
Wrap(i) == IF i < Size THEN i ELSE i - Size

Least(a, b) == IF a < b THEN a ELSE b

\* UART_INT_ST: the latched interrupts and RXFIFO_FULL, which the hardware holds
\* as long as the FIFO is at its threshold.
Pending == intr \cup (IF Len(fifo) >= FullThresh THEN {"FULL"} ELSE {})

----------------------------------------------------------------------------
(* The hardware (external).                                                 *)

Arrive ==
  /\ arrived < MaxBytes
  /\ arrived' = arrived + 1
  /\ quiet' = FALSE
  /\ \/ /\ Len(fifo) < FifoLen
        /\ fifo' = Append(fifo, arrived + 1)
        /\ rcvd' = Append(rcvd, arrived + 1)
        /\ UNCHANGED intr
     \/ /\ Len(fifo) = FifoLen
        /\ intr' = intr \cup {"OVF"}
        /\ UNCHANGED <<fifo, rcvd>>
  /\ UNCHANGED <<ringVars, isr, timerOn, sent>>

Timeout ==
  /\ fifo # << >> /\ ~quiet
  /\ quiet' = TRUE
  /\ intr' = intr \cup {"TOUT"}
  /\ UNCHANGED <<fifo, ringVars, isr, timerOn, arrived, rcvd, sent>>

FrameError ==
  /\ "FRM" \notin intr /\ arrived < MaxBytes
  /\ arrived' = arrived + 1
  /\ intr' = intr \cup {"FRM"}
  /\ UNCHANGED <<fifo, ringVars, quiet, isr, timerOn, rcvd, sent>>

----------------------------------------------------------------------------
(* Uart_rx_buff_enq: all of the FIFO or, when it would fill the ring,       *)
(* nothing of it.                                                           *)
Fits == Len(fifo) < space

Enq ==
  \/ /\ Fits
     /\ buf' = [i \in DOMAIN buf |->
                  IF \E k \in 1 .. Len(fifo) : i = Wrap(pIn + k - 1)
                  THEN fifo[CHOOSE k \in 1 .. Len(fifo) : i = Wrap(pIn + k - 1)]
                  ELSE buf[i]]
     /\ pIn' = Wrap(pIn + Len(fifo))
     /\ space' = space - Len(fifo)
     /\ fifo' = << >>
     /\ UNCHANGED pOut
  \/ /\ ~Fits
     /\ UNCHANGED <<fifo, ringVars>>

(* uart0_rx_intr_handler: one pass of its loop, the branches in the order   *)
(* of the if-else chain; it returns when nothing is pending.                *)
IsrFrameError ==
  /\ "FRM" \in Pending
  /\ intr' = intr \ {"FRM"}
  /\ UNCHANGED <<fifo, ringVars>>

IsrFull ==
  /\ "FRM" \notin Pending /\ "FULL" \in Pending
  /\ Enq
  /\ UNCHANGED intr

\* Mutants of IsrTimeout: the flag is never cleared; it is cleared and the FIFO
\* left alone.
IsrTimeoutNoClear ==
  /\ Pending \cap {"FRM", "FULL"} = {} /\ "TOUT" \in Pending
  /\ Enq
  /\ UNCHANGED intr

IsrTimeoutNoEnq ==
  /\ Pending \cap {"FRM", "FULL"} = {} /\ "TOUT" \in Pending
  /\ intr' = intr \ {"TOUT"}
  /\ UNCHANGED <<fifo, ringVars>>

IsrTimeout ==
  /\ Pending \cap {"FRM", "FULL"} = {} /\ "TOUT" \in Pending
  /\ intr' = intr \ {"TOUT"}
  /\ Enq

IsrOverflow ==
  /\ Pending = {"OVF"}
  /\ intr' = {}
  /\ Enq

IsrPass ==
  /\ IsrFrameError \/ IsrFull \/ IsrTimeout \/ IsrOverflow
  /\ isr' = TRUE
  /\ UNCHANGED <<quiet, timerOn, arrived, rcvd, sent>>

IsrReturn ==
  /\ isr /\ Pending = {}
  /\ isr' = FALSE
  /\ UNCHANGED <<fifo, ringVars, intr, quiet, timerOn, arrived, rcvd, sent>>

----------------------------------------------------------------------------
(* rx_buff_deq(tmp_buf, DeqMax): up to pInPos when the data is contiguous,  *)
(* otherwise round the end.                                                 *)
\* Mutant of OutByte: the second piece is read from the wrong end.
OutByteNoWrap(k) == IF pOut + k - 1 < Size THEN buf[pOut + k - 1] ELSE buf[pIn]

OutAfter(n) == IF pOut <= pIn THEN pOut + n ELSE Wrap(pOut + n)
OutByte(k)  == IF pOut <= pIn THEN buf[pOut + k - 1] ELSE buf[Wrap(pOut + k - 1)]

\* user_uart_recv, the FRC1 handler: with nothing to take it does nothing.
UartRecv ==
  LET n == Least(DeqMax, Used)
  IN  /\ timerOn /\ ~isr
      /\ n > 0
      /\ pOut' = OutAfter(n)
      /\ space' = space + n
      /\ sent' = sent \o [k \in 1 .. n |-> OutByte(k)]
      /\ UNCHANGED <<fifo, buf, pIn, intr, quiet, isr, timerOn, arrived, rcvd>>

\* user_uart_init: the first network connection starts the pump for good.
UartInit ==
  /\ ~timerOn /\ ~isr
  /\ timerOn' = TRUE
  /\ UNCHANGED <<fifo, ringVars, intr, quiet, isr, arrived, rcvd, sent>>

----------------------------------------------------------------------------
\* After uart_init: Uart_Buf_Init has emptied the ring.
Init ==
  /\ fifo = << >>
  /\ buf = [i \in 0 .. Size - 1 |-> 0]
  /\ pIn = 0 /\ pOut = 0 /\ space = Size
  /\ intr = {} /\ quiet = TRUE /\ isr = FALSE /\ timerOn = FALSE
  /\ arrived = 0 /\ rcvd = << >> /\ sent = << >>

Next ==
  \/ Arrive \/ Timeout \/ FrameError
  \/ IsrPass \/ IsrReturn
  \/ UartRecv \/ UartInit

Spec == Init /\ [][Next]_vars

(* The processor takes pending interrupts, the timer ticks, the hardware    *)
(* raises its timeout; a connection is made some day.                       *)
Fairness ==
  /\ WF_vars(IsrPass) /\ WF_vars(IsrReturn)
  /\ WF_vars(UartRecv) /\ WF_vars(UartInit)
  /\ WF_vars(Timeout)

FairSpec == Spec /\ Fairness

----------------------------------------------------------------------------
TypeOK ==
  /\ fifo \in Seq(Byte) /\ Len(fifo) <= FifoLen
  /\ buf \in [0 .. Size - 1 -> Byte \cup {0}]
  /\ pIn \in 0 .. Size - 1 /\ pOut \in 0 .. Size - 1
  /\ space \in 0 .. Size
  /\ intr \in SUBSET {"TOUT", "OVF", "FRM"}
  /\ quiet \in BOOLEAN /\ isr \in BOOLEAN /\ timerOn \in BOOLEAN
  /\ arrived \in 0 .. MaxBytes
  /\ rcvd \in Seq(Byte) /\ sent \in Seq(Byte)

(* The two positions and the counter Space, updated by two handlers, always  *)
(* describe the same ring, and it is never completely full: rx_buff_deq      *)
(* reads pOutPos <= pInPos as "contiguous", which a full ring would break.   *)
RingConsistent ==
  /\ space >= 1
  /\ pIn = Wrap(pOut + Used)

\* The bytes in the ring, oldest first.
RingData == [k \in 1 .. Used |-> buf[Wrap(pOut + k - 1)]]

(* No byte the FIFO accepted is lost, duplicated or reordered on its way:    *)
(* what was sent, then the ring, then the FIFO are the bytes accepted.       *)
InOrder == sent \o RingData \o fifo = rcvd

(* The receive path is the byte stream it is meant to be, with the room of   *)
(* the ring (less the byte that is never used) and of the FIFO.              *)
Stream == INSTANCE ByteStream WITH
            Capacity <- Size - 1 + FifoLen, MaxChunk <- DeqMax

ImplementsByteStream == Stream!Spec

(* The handler's loop ends, unless the ring refuses what the FIFO holds: the *)
(* pump cannot run meanwhile, so a full FIFO then keeps the loop going.      *)
HandlerReturns == isr ~> (~isr \/ ~Fits)

(* If the ring always has room for the FIFO, every accepted byte is sent:    *)
(* no interrupt that would move the last bytes is lost between two passes.   *)
AllDelivered == []Fits => \A n \in Byte : (Len(rcvd) >= n) ~> (Len(sent) >= n)
=============================================================================
