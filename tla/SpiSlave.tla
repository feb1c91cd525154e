------------------------------- MODULE SpiSlave -------------------------------
(***************************************************************************)
(* driver/spi.c, slave: spi_slave_init, spi_slave_isr_handler and the two  *)
(* lines that tell the master when it may write (GPIO0) and read (GPIO2).  *)
(* The master is external: it writes or reads when the line says so, and   *)
(* its transfer may end between any two steps of the handler.              *)
(***************************************************************************)
EXTENDS Naturals

CONSTANTS
  SlaveWords,   \* words of the buffer (8)
  MaxPackets    \* bound: packets written and packets prepared for reading

ASSUME SpiSlaveOK == SlaveWords \in Nat \ {0} /\ MaxPackets \in Nat

VARIABLES
  flags,      \* SPI_SLV_WR_BUF_DONE and SPI_SLV_RD_BUF_DONE of SPI_SLAVE
  enabled,    \* their enable bits
  inBuf,      \* SPI_W0 .. W7: the packet each word is of
  outBuf,     \* SPI_W8 .. W15: the packet the slave offers, whole
  wrReady,    \* GPIO0
  rdReady,    \* GPIO2
  spi_data,   \* the packet each word copied out is of
  idx,        \* the word the handler copies next
  isr,        \* where the handler is
  status,     \* regvalue, the flags it has read
  written,    \* packets the master has written
  copied,     \* history: packets that were whole in spi_data when the handler was done
  taken,      \* the packet the master has read last
  raced,      \* ghost: has a transfer ended while the handler cleared the flags?
  hasty       \* ghost: has the master gone by a line before the handler moved it?

slaveVars == <<flags, enabled, inBuf, outBuf, wrReady, rdReady, spi_data, idx, isr,
               status, written, copied, taken, raced, hasty>>

Events == {"wr", "rd"}

\* spi_slave_init and gpio_init: everything the handler handles is enabled, the master
\* may write.
SlaveInit ==
  /\ flags = {} /\ enabled = Events
  /\ inBuf = [w \in 1 .. SlaveWords |-> 0] /\ outBuf = 0
  /\ wrReady = 1 /\ rdReady = 0
  /\ spi_data = [w \in 1 .. SlaveWords |-> 0] /\ idx = 1
  /\ isr = "off" /\ status = {}
  /\ written = 0 /\ copied = {} /\ taken = 0 /\ raced = FALSE /\ hasty = FALSE

----------------------------------------------------------------------------
Whole(buf) == \A v, w \in 1 .. SlaveWords : buf[v] = buf[w]

\* The master: it writes a packet,
MasterWrites ==
  /\ wrReady = 1 /\ written < MaxPackets
  /\ written' = written + 1
  /\ inBuf' = [w \in 1 .. SlaveWords |-> written']
  /\ flags' = flags \cup {"wr"}
  /\ raced' = (raced \/ isr = "clear")
  /\ hasty' = (hasty \/ "wr" \in flags \/ (isr # "off" /\ "wr" \in status))
  /\ UNCHANGED <<enabled, outBuf, wrReady, rdReady, spi_data, idx, isr, status, copied, taken>>

\* or reads one.
MasterReads ==
  /\ rdReady = 1
  /\ taken' = outBuf
  /\ flags' = flags \cup {"rd"}
  /\ raced' = (raced \/ isr = "clear")
  /\ hasty' = (hasty \/ "rd" \in flags \/ (isr # "off" /\ "rd" \in status))
  /\ UNCHANGED <<enabled, inBuf, outBuf, wrReady, rdReady, spi_data, idx, isr, status,
                 written, copied>>

\* set_miso_data, with the next packet.
set_miso_data ==
  /\ isr = "off" /\ rdReady = 0 /\ outBuf < MaxPackets
  /\ outBuf' = outBuf + 1 /\ rdReady' = 1
  /\ UNCHANGED <<flags, enabled, inBuf, wrReady, spi_data, idx, isr, status, written,
                 copied, taken, raced, hasty>>

\* spi_slave_isr_handler, the branch of HSPI: it reads the flags,
IsrRead ==
  /\ isr = "off" /\ flags \cap enabled # {}
  /\ isr' = "clear" /\ status' = flags
  /\ UNCHANGED <<flags, enabled, inBuf, outBuf, wrReady, rdReady, spi_data, idx,
                 written, copied, taken, raced, hasty>>

\* clears them all, with the interrupts disabled and enabled again around it,
IsrClear ==
  /\ isr = "clear"
  /\ flags' = {} /\ enabled' = Events
  /\ isr' = IF "wr" \in status THEN "busy" ELSE "read"
  /\ UNCHANGED <<inBuf, outBuf, wrReady, rdReady, spi_data, idx, status,
                 written, copied, taken, raced, hasty>>

\* stops the master for as long as it copies
IsrBusy ==
  /\ isr = "busy" /\ isr' = "copy"
  /\ wrReady' = 0 /\ idx' = 1
  /\ UNCHANGED <<flags, enabled, inBuf, outBuf, rdReady, spi_data, status, written,
                 copied, taken, raced, hasty>>

IsrCopy ==
  /\ isr = "copy" /\ idx <= SlaveWords
  /\ spi_data' = [spi_data EXCEPT ![idx] = inBuf[idx]] /\ idx' = idx + 1
  /\ UNCHANGED <<flags, enabled, inBuf, outBuf, wrReady, rdReady, isr, status,
                 written, copied, taken, raced, hasty>>

\* Mutant of IsrCopied: it leaves out the last word.
IsrCopiedShort ==
  /\ isr = "copy" /\ idx >= SlaveWords /\ isr' = "read"
  /\ wrReady' = 1
  /\ copied' = IF Whole(spi_data) THEN copied \cup {spi_data[1]} ELSE copied
  /\ UNCHANGED <<flags, enabled, inBuf, outBuf, rdReady, spi_data, idx, status,
                 written, taken, raced, hasty>>

\* the packet,
IsrCopied ==
  /\ isr = "copy" /\ idx > SlaveWords /\ isr' = "read"
  /\ wrReady' = 1
  /\ copied' = IF Whole(spi_data) THEN copied \cup {spi_data[1]} ELSE copied
  /\ UNCHANGED <<flags, enabled, inBuf, outBuf, rdReady, spi_data, idx, status,
                 written, taken, raced, hasty>>

\* and takes back the offer of a packet that has been read.
IsrEnd ==
  /\ isr = "read" /\ isr' = "off"
  /\ rdReady' = IF "rd" \in status THEN 0 ELSE rdReady
  /\ UNCHANGED <<flags, enabled, inBuf, outBuf, wrReady, spi_data, idx, status,
                 written, copied, taken, raced, hasty>>

SlaveNext ==
  \/ MasterWrites \/ MasterReads \/ set_miso_data
  \/ IsrRead \/ IsrClear \/ IsrBusy \/ IsrCopy \/ IsrCopied \/ IsrEnd

SlaveSpec == SlaveInit /\ [][SlaveNext]_slaveVars

----------------------------------------------------------------------------
(* The lines of spi_slave_isr_handler do what they are for: whenever the      *)
(* handler has returned and no transfer is waiting for it, spi_data is the    *)
(* last packet written, whole, the master may write the next one, and a       *)
(* packet that has been read is offered no more.  A transfer that ends        *)
(* between the reading and the clearing of the flags is forgotten (raced).    *)
(* No packet is lost or torn on the way there, and none is withdrawn unread,  *)
(* unless the master looks at a line before the handler has lowered it, and   *)
(* writes or reads a second time (hasty).                                    *)
ExchangeExact ==
  isr = "off" /\ flags = {} /\ ~raced =>
    /\ wrReady = 1 /\ enabled = Events
    /\ taken = outBuf /\ outBuf # 0 => rdReady = 0
    /\ Whole(spi_data) /\ spi_data[1] = written
    /\ ~hasty => copied = 1 .. written /\ (rdReady = 0 => taken = outBuf)
=============================================================================
