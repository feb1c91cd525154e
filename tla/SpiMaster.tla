------------------------------ MODULE SpiMaster ------------------------------
(***************************************************************************)
(* driver/spi.c, master: a byte to a plain slave, a byte to and from an    *)
(* ESP8266 slave, nine bits to an LCD.  Each function waits for the        *)
(* transfer before it, writes the registers that differ for it, and starts *)
(* its own; what it does not write it inherits.                            *)
(***************************************************************************)
EXTENDS Integers, Sequences

CONSTANTS
  SpiBytes,      \* the bytes sent and received
  ResetPhases    \* the phases SPI_USER may have on when spi_master_init runs

AllPhases == {"command", "addr", "dummy", "mosi", "miso"}

ASSUME SpiMasterOK == SpiBytes \subseteq 0 .. 255 /\ ResetPhases \subseteq SUBSET AllPhases

VARIABLES
  phases,   \* the SPI_USR_... bits of SPI_USER
  user2,    \* SPI_USER2: length and value of the command
  w0,       \* SPI_W0
  usr,      \* SPI_USR: is a transfer running?
  asked,    \* the function called last and its data
  waits,    \* does it wait for the end of its transfer?
  answer,   \* what spi_byte_read_espslave returned
  sent,     \* history: the byte the slave sent last
  found,    \* history: the phases that were on when spi_master_init ran
  setter,   \* history: the function that set the data phases last, and its data
  cleared   \* history: has a function for the ESP8266 slave run since spi_master_init?

masterHist == <<found, setter, cleared>>
masterVars == <<phases, user2, w0, usr, asked, waits, answer, sent, masterHist>>

\* spi_master_init.
MasterUp ==
  /\ phases \in {p \cup {"command"} : p \in ResetPhases}
  /\ user2 = [len |-> 0, value |-> 0] /\ w0 = 0 /\ usr = FALSE
  /\ asked = [f |-> "none", data |-> 0, high |-> FALSE]
  /\ waits = FALSE /\ answer = 0 /\ sent = 0
  /\ found = phases /\ setter = [f |-> "none", data |-> 0] /\ cleared = FALSE

----------------------------------------------------------------------------
\* A function begins when the one before has returned and its own wait is over.
Called(f, data, high) ==
  /\ ~waits /\ ~usr /\ usr' = TRUE
  /\ asked' = [f |-> f, data |-> data, high |-> high]
  /\ UNCHANGED <<answer, sent, found>>

\* spi_lcd_9bit_write: the high bit before the low eight, of which the last is BIT15.
LcdCommand(high, low) ==
  (IF high THEN 128 ELSE 0) + low \div 2 + (IF low % 2 = 1 THEN 2 ^ 15 ELSE 0)

Lcd9bitWrite(high, low) ==
  /\ Called("lcd", low, high)
  /\ user2' = [len |-> 9, value |-> LcdCommand(high, low)]
  /\ waits' = FALSE
  /\ UNCHANGED <<phases, w0, setter, cleared>>

\* spi_mast_byte_write.
ByteWrite(data) ==
  /\ Called("byte", data, FALSE)
  /\ phases' = phases \ {"mosi", "miso"} /\ setter' = [f |-> "byte", data |-> data]
  /\ user2' = [len |-> 8, value |-> data]
  /\ waits' = TRUE
  /\ UNCHANGED <<w0, cleared>>

\* Mutant of EspWrite: it leaves the phase of a read on.
EspWriteAfterRead(data) ==
  /\ Called("espwrite", data, FALSE)
  /\ phases' = (phases \cup {"mosi"}) \ {"addr", "dummy"}
  /\ setter' = [f |-> "espwrite", data |-> data] /\ cleared' = TRUE
  /\ user2' = [len |-> 8, value |-> 4]
  /\ w0' = data
  /\ waits' = FALSE

\* spi_byte_write_espslave.
EspWrite(data) ==
  /\ Called("espwrite", data, FALSE)
  /\ phases' = (phases \cup {"mosi"}) \ {"miso", "addr", "dummy"}
  /\ setter' = [f |-> "espwrite", data |-> data] /\ cleared' = TRUE
  /\ user2' = [len |-> 8, value |-> 4]
  /\ w0' = data
  /\ waits' = FALSE

\* spi_byte_read_espslave.
EspRead ==
  /\ Called("espread", 0, FALSE)
  /\ phases' = (phases \cup {"miso"}) \ {"mosi", "addr", "dummy"}
  /\ setter' = [f |-> "espread", data |-> 0] /\ cleared' = TRUE
  /\ user2' = [len |-> 8, value |-> 6]
  /\ waits' = TRUE
  /\ UNCHANGED w0

\* The hardware ends the transfer; what the slave sends replaces the data buffer.
TransferEnds ==
  /\ usr /\ usr' = FALSE
  /\ IF "miso" \in phases
     THEN \E b \in SpiBytes : sent' = b /\ w0' = b
     ELSE UNCHANGED <<sent, w0>>
  /\ UNCHANGED <<phases, user2, asked, waits, answer, masterHist>>

\* The end of a function that waits.
Returns ==
  /\ waits /\ ~usr /\ waits' = FALSE
  /\ answer' = IF asked.f = "espread" THEN w0 ELSE answer
  /\ UNCHANGED <<phases, user2, w0, usr, asked, sent, masterHist>>

MasterNext ==
  \/ (\E b \in SpiBytes, high \in BOOLEAN : Lcd9bitWrite(high, b))
  \/ (\E b \in SpiBytes : ByteWrite(b) \/ EspWrite(b))
  \/ EspRead \/ TransferEnds \/ Returns

MasterSpec == MasterUp /\ [][MasterNext]_masterVars

----------------------------------------------------------------------------
\* The hardware: the bits of the command phase, byte by byte, high bit first.
CommandBits ==
  [i \in 1 .. user2.len |->
     (user2.value \div 2 ^ (IF i <= 8 THEN 8 - i ELSE 24 - i)) % 2]

Bit(b) == IF b THEN 1 ELSE 0

Wanted ==
  CASE asked.f = "lcd" -> <<Bit(asked.high)>> \o [i \in 1 .. 8 |-> (asked.data \div 2 ^ (8 - i)) % 2]
    [] asked.f = "byte" -> [i \in 1 .. 8 |-> (asked.data \div 2 ^ (8 - i)) % 2]
    [] asked.f = "espwrite" -> <<0, 0, 0, 0, 0, 1, 0, 0>>
    [] asked.f = "espread" -> <<0, 0, 0, 0, 0, 1, 1, 0>>

\* The data phase of a function, and of what is there before the first.
DataPhase(f) ==
  CASE f = "byte" -> {}
    [] f = "espwrite" -> {"mosi"}
    [] f = "espread" -> {"miso"}
    [] f = "none" -> found \cap {"mosi", "miso"}

(* The four functions in any order: the command carries the bits its function *)
(* was called with.  The other phases are those of the function that set them *)
(* last: the transfer's own, but spi_lcd_9bit_write sets none, so its nine    *)
(* bits are followed by the data phase of the function before it, after       *)
(* spi_byte_write_espslave by that byte once more.  An address or a dummy     *)
(* phase found at the start stays on until a function for the ESP8266 slave   *)
(* runs.  A read returns what the slave sent, whatever filled the buffer.     *)
PhasesExact ==
  /\ usr => CommandBits = Wanted
  /\ usr => phases = {"command"} \cup DataPhase(IF asked.f = "lcd" THEN setter.f ELSE asked.f)
                       \cup (IF cleared THEN {} ELSE found \cap {"addr", "dummy"})
  /\ usr /\ asked.f = "espwrite" => w0 = asked.data
  /\ usr /\ asked.f = "lcd" /\ setter.f = "espwrite" => w0 = setter.data
  /\ asked.f = "espread" /\ ~usr /\ ~waits => answer = sent
=============================================================================
