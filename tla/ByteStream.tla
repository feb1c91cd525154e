------------------------------ MODULE ByteStream ------------------------------
(***************************************************************************)
(* What the receive side of the serial port promises: the bytes the UART   *)
(* accepted are handed to the network code in order, each once, in chunks, *)
(* and no more than Capacity of them are ever on the way.                  *)
(***************************************************************************)
EXTENDS Naturals, Sequences

CONSTANTS Byte, Capacity, MaxChunk

VARIABLES rcvd,  \* the bytes accepted
          sent   \* the bytes handed on

Init == rcvd = << >> /\ sent = << >>

Accept ==
  /\ Len(rcvd) - Len(sent) < Capacity
  /\ \E b \in Byte : rcvd' = Append(rcvd, b)
  /\ UNCHANGED sent

Deliver ==
  /\ \E n \in 1 .. MaxChunk :
       /\ Len(sent) + n <= Len(rcvd)
       /\ sent' = SubSeq(rcvd, 1, Len(sent) + n)
  /\ UNCHANGED rcvd

Next == Accept \/ Deliver

Spec == Init /\ [][Next]_<<rcvd, sent>>
=============================================================================
