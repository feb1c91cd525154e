------------------------------ MODULE SpiOverlap ------------------------------
(***************************************************************************)
(* driver/spi_overlap.c: one HSPI controller shared by the device on the   *)
(* HSPI pins and, overlapped on the flash's own pins, by two more devices  *)
(* and the flash.  hspi_dev_sel turns the controller from one to another   *)
(* and writes only what differs on that way, so that the registers are     *)
(* right only if every way to a device ends in the same place.             *)
(*                                                                         *)
(* A register file is what the selections tell apart: which of the two     *)
(* saved sets the operation registers (CTRL, USER1, USER2, CMD, most of    *)
(* USER) come from, the edge and the CS set-up bit of USER, the clock, and *)
(* the chip select of PIN.                                                 *)
(***************************************************************************)
EXTENDS Integers

CONSTANTS
  Divs,          \* the clock dividers the application asks for
  ResetRegs,     \* what the registers may hold before the driver runs
  Reads,         \* the flash reads asked for: [addr, len]
  ChipSize,      \* spi->chip_size
  BufBytes       \* SPI_BUFF_BYTE_NUM (32)

HSPI == "HSPI_CS_DEV"
CS1 == "SPI_CS1_DEV"
CS2 == "SPI_CS2_DEV"
FLASH == "SPI_CS0_FLASH"
IDLE == "HSPI_IDLE"
Devs == {HSPI, CS1, CS2, FLASH}

\* SPI_CLOCK: SPI_CLK_EQU_SYSCLK overrides the divider.
Clocks == [eq : BOOLEAN, div : Int]

Regs == [set : {"reset", "flash", "dev"}, edge : BOOLEAN, setup : BOOLEAN,
         clock : Clocks, cs : 0 .. 2]

ASSUME SpiOverlapOK ==
  /\ Divs \subseteq Nat
  /\ ResetRegs \subseteq Regs
  /\ Reads \subseteq [addr : Nat, len : Nat]
  /\ ChipSize \in Nat
  /\ BufBytes \in Nat \ {0} /\ BufBytes % 4 = 0      \* whole words

VARIABLES
  reg,       \* the registers of HSPI
  overlap,   \* reg_cspi_overlap, with the priorities in SPI_EXT3
  mtdo,      \* does pin MTDO carry the HSPI chip select (else GPIO 15, high)?
  sysclk,    \* PERIPHS_IO_MUX BIT8: does the flash run at 80 MHz?
  saved,     \* hspi_reg_backup_flag with the two register backups
  conf,      \* hspi_dev_conf
  selected,  \* selected_dev_num
  inForce,   \* ghost: the settings the selected device was selected with
  late,      \* ghost: was HSPI_CS_DEV initialised while an overlapped device was selected?
  read       \* the flash read in progress

spiVars == <<reg, overlap, mtdo, sysclk, saved, conf, selected, inForce, late, read>>

Conf == [active : BOOLEAN, polar : BOOLEAN, div : Nat]
NoConf == [active |-> FALSE, polar |-> FALSE, div |-> 0]
NoRead == [addr |-> 0, left |-> 0, from |-> 0, len |-> 0, words |-> 0]

SpiInit ==
  /\ reg \in ResetRegs
  /\ overlap = FALSE /\ mtdo = FALSE
  /\ sysclk \in BOOLEAN
  /\ saved = [done |-> FALSE, flash |-> reg, dev |-> reg]
  /\ conf = [d \in Devs |-> NoConf]
  /\ selected = HSPI           \* the zero of static memory
  /\ inForce = NoConf /\ late = FALSE
  /\ read = NoRead

----------------------------------------------------------------------------
DivClock(d) == [eq |-> FALSE, div |-> d]

\* spi_master_init: set-up and hold for the chip select, a command phase, divider 1.
MasterInit(r) == [r EXCEPT !.set = "dev", !.setup = TRUE, !.clock = DivClock(1)]

\* spi_reg_backup of HSPI with the flash's read mode and clock.
FlashRegs(r) == [r EXCEPT !.set = "flash", !.clock.eq = sysclk]

\* hspi_master_dev_init; the first one takes both backups.
DevInit(d, polar, div) ==
  /\ read.left = 0
  /\ IF saved.done
     THEN UNCHANGED <<reg, saved, selected>>
     ELSE /\ reg' = MasterInit(FlashRegs(reg))
          /\ saved' = [done |-> TRUE, flash |-> FlashRegs(reg), dev |-> reg']
          /\ selected' = IDLE
  /\ conf' = [conf EXCEPT ![d] = [active |-> TRUE, polar |-> polar, div |-> div]]
  /\ mtdo' = (mtdo \/ d = HSPI)
  /\ late' = (late \/ (saved.done /\ d = HSPI /\ selected \in {CS1, CS2, FLASH}))
  /\ UNCHANGED <<overlap, sysclk, inForce, read>>

\* hspi_overlap_init and hspi_overlap_deinit also write BIT5 of SPI_USER, the CS set-up.
Overlapped(r, on) == [r EXCEPT !.setup = on]

\* Mutant of Recovered: the way back from the flash keeps the flash's registers.
RecoveredNotFromFlash(r, from, to) ==
  IF to = FLASH THEN saved.flash ELSE IF from = IDLE THEN saved.dev ELSE r

\* spi_reg_recover, on the ways that change the kind of device.
Recovered(r, from, to) ==
  IF to = FLASH THEN saved.flash ELSE IF from \in {FLASH, IDLE} THEN saved.dev ELSE r

\* CONF_HSPI_CLK_DIV or SPI_CLK_EQU_SYSCLK.
Clocked(r, from, to) ==
  IF to = HSPI THEN DivClock(conf[to].div)
  ELSE IF sysclk
  THEN IF {from, to} = {CS1, CS2} \/ (from \in {CS1, CS2} /\ to = FLASH)
       THEN r.clock ELSE [r.clock EXCEPT !.eq = TRUE]
  ELSE IF to = FLASH THEN r.clock ELSE DivClock(conf[to].div)

\* HSPI_FALLING_EDGE_SAMPLE or HSPI_RISING_EDGE_SAMPLE, then ACTIVE_HSPI_CSn.
Addressing(r, clock, to) ==
  [r EXCEPT !.clock = clock,
            !.edge = to # FLASH /\ conf[to].polar,
            !.cs = CASE to = CS1 -> 1 [] to = CS2 -> 2 [] OTHER -> 0]

\* The registers hspi_dev_sel leaves on its way from one device to another.
Switched(from, to) ==
  LET lapped == IF to = HSPI THEN Overlapped(reg, FALSE)
                ELSE IF from \in {HSPI, IDLE} THEN Overlapped(reg, TRUE) ELSE reg
      back == Recovered(lapped, from, to)
  IN  Addressing(back, Clocked(back, from, to), to)

\* hspi_dev_sel: a device that is not initialised is refused, the selected one is
\* selected already.
SelectDev(to) ==
  IF conf[to].active /\ to # selected
  THEN /\ reg' = Switched(selected, to)
       /\ mtdo' = IF to = HSPI THEN TRUE
                  ELSE IF selected \in {HSPI, IDLE} THEN FALSE ELSE mtdo
       /\ overlap' = (to # HSPI)
       /\ selected' = to
       /\ inForce' = conf[to]
       /\ late' = (late /\ {selected, to} \subseteq {CS1, CS2, FLASH})
  ELSE UNCHANGED <<reg, mtdo, overlap, selected, inForce, late>>

DevSel(to) ==
  /\ read.left = 0
  /\ SelectDev(to)
  /\ UNCHANGED <<sysclk, saved, conf, read>>

\* hspi_overlap_read_flash_data, which SDK flash reads use after hspi_overlap_flash_init:
\* it selects the flash, and only then looks whether the range is inside the chip.
ReadStart(q) ==
  /\ read.left = 0 /\ conf[FLASH].active
  /\ SelectDev(FLASH)
  /\ read' = IF q.addr + q.len > ChipSize THEN NoRead
             ELSE [addr |-> q.addr, left |-> q.len, from |-> q.addr, len |-> q.len, words |-> 0]
  /\ UNCHANGED <<sysclk, saved, conf>>

\* Mutant of ReadChunk: the last, short chunk is cut to whole words.
ReadChunkCut ==
  /\ read.left > 0
  /\ LET n == IF read.left >= BufBytes THEN BufBytes ELSE read.left
     IN  read' = [read EXCEPT !.addr = @ + n, !.left = @ - n, !.words = @ + n \div 4]
  /\ UNCHANGED <<reg, overlap, mtdo, sysclk, saved, conf, selected, inForce, late>>

\* One transfer through the data buffer of the controller: words are copied out of it,
\* the last one whole.
ReadChunk ==
  /\ read.left > 0
  /\ LET n == IF read.left >= BufBytes THEN BufBytes ELSE read.left
     IN  read' = [read EXCEPT !.addr = @ + n, !.left = @ - n, !.words = @ + (n + 3) \div 4]
  /\ UNCHANGED <<reg, overlap, mtdo, sysclk, saved, conf, selected, inForce, late>>

SpiNext ==
  \/ \E d \in Devs \ {FLASH}, polar \in BOOLEAN, div \in Divs : DevInit(d, polar, div)
  \/ DevInit(FLASH, FALSE, 0)      \* hspi_overlap_flash_init
  \/ \E d \in Devs : DevSel(d)
  \/ \E q \in Reads : ReadStart(q)
  \/ ReadChunk

SpiSpec == SpiInit /\ [][SpiNext]_spiVars

----------------------------------------------------------------------------
\* The hardware: whose chip select goes low in a transfer.
Addressed ==
  (IF overlap THEN {CASE reg.cs = 0 -> FLASH [] reg.cs = 1 -> CS1 [] OTHER -> CS2} ELSE {})
    \cup (IF mtdo /\ reg.cs = 0 THEN {HSPI} ELSE {})

Chosen == saved.done /\ selected # IDLE

\* Who hears the transfers.  The exception is the device on the HSPI pins: if
\* hspi_master_dev_init initialises it while an overlapped device is selected it takes
\* MTDO back, and hears the flash's transfers too until it has been selected itself.
OnlySelectedHears ==
  \/ Addressed = {selected}
  \/ late /\ selected = FLASH /\ Addressed = {FLASH, HSPI}

\* How they are made; a device initialised again while it is selected keeps its old
\* settings.
SelectedIsTuned ==
  /\ reg.set = IF selected = FLASH THEN "flash" ELSE "dev"
  /\ reg.edge = (selected # FLASH /\ inForce.polar)
  /\ IF selected = FLASH THEN reg.clock = saved.flash.clock
     ELSE IF selected # HSPI /\ sysclk THEN reg.clock.eq
     ELSE reg.clock = DivClock(inForce.div)

(* hspi_dev_sel: by whichever way a device was selected, a transfer reaches   *)
(* it and nobody else, with the clock, edge and registers it was selected     *)
(* with, whatever was selected before it.                                    *)
SelectionExact == Chosen => OnlySelectedHears /\ SelectedIsTuned

(* hspi_overlap_read_flash_data: while it runs only the flash can be          *)
(* selected; it reads the range asked for, inside the chip, and writes less   *)
(* than a word more than was asked for.                                      *)
FlashReadExact ==
  /\ read.left > 0 => selected = FLASH /\ FLASH \in Addressed
  /\ read.addr + read.left = read.from + read.len
  /\ read.from + read.len <= ChipSize
  /\ 4 * read.words >= read.len - read.left
  /\ 4 * read.words < read.len - read.left + 4
=============================================================================
