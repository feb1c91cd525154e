---------------------------- MODULE DriverProofs ----------------------------
(***************************************************************************)
(* The drivers of the bench but the serial one, each on its own: the SPI   *)
(* controller in its three uses, the device timers, the key and the I2C    *)
(* master.  For each an inductive invariant, its conjuncts named for what  *)
(* they keep, one lemma for each action, and the property the bench checks *)
(* as a theorem.                                                           *)
(***************************************************************************)
EXTENDS SpiOverlap, SpiMaster, SpiSlave, DeviceTimer, Key, I2cMaster,
        SequenceTheorems, WellFoundedInduction, TLAPS

-----------------------------------------------------------------------------
\* The overlapped SPI.

Lapped == {CS1, CS2, FLASH}

SpiTypeOK ==
  /\ reg \in Regs /\ overlap \in BOOLEAN /\ mtdo \in BOOLEAN /\ sysclk \in BOOLEAN
  /\ saved \in [done : BOOLEAN, flash : Regs, dev : Regs]
  /\ conf \in [Devs -> Conf] /\ selected \in Devs \cup {IDLE} /\ inForce \in Conf
  /\ late \in BOOLEAN
  /\ read \in [addr : Nat, left : Nat, from : Nat, len : Nat, words : Nat]

\* The backups are there before any device is, and each is what its way back needs.
BackupsGood ==
  /\ \A d \in Devs : conf[d].active => saved.done
  /\ saved.done => /\ saved.flash.set = "flash" /\ saved.flash.clock.eq = sysclk
                   /\ saved.dev.set = "dev"
  /\ read.left > 0 => saved.done /\ selected = FLASH

\* Where the chip selects go: MTDO carries one beside the overlapped devices only if late.
LinesGood ==
  IF ~saved.done THEN ~overlap ELSE
    /\ overlap <=> selected \in Lapped
    /\ selected = HSPI => mtdo
    /\ selected \in Lapped /\ mtdo => late
    /\ selected # IDLE => reg.cs = CASE selected = CS1 -> 1 [] selected = CS2 -> 2 [] OTHER -> 0

TunedGood == Chosen => SelectedIsTuned

\* Between two chunks the words copied are exactly the bytes read.
ReadGood ==
  /\ read.addr + read.left = read.from + read.len
  /\ read.from + read.len <= ChipSize /\ read.left <= read.len
  /\ read.left > 0 => 4 * read.words = read.len - read.left
  /\ 4 * read.words >= read.len - read.left
  /\ 4 * read.words < read.len - read.left + 4

OverlapInv ==
  SpiTypeOK /\ BackupsGood /\ LinesGood /\ TunedGood /\ ReadGood

-----------------------------------------------------------------------------
\* What hspi_dev_sel leaves in the registers, by the fields of the set it starts from.
Base(from, to) == Recovered(reg, from, to)

LEMMA BackupsTyped ==
  ASSUME SpiTypeOK
  PROVE  /\ saved.done \in BOOLEAN /\ saved.flash \in Regs /\ saved.dev \in Regs
         /\ \A d \in Devs : conf[d] \in Conf
BY DEF SpiTypeOK

LEMMA OverlappedFields ==
  ASSUME NEW r \in Regs, NEW on \in BOOLEAN
  PROVE  /\ Overlapped(r, on) \in Regs
         /\ Overlapped(r, on).set = r.set /\ Overlapped(r, on).clock = r.clock
BY DEF Overlapped, Regs

LEMMA ClockedTyped ==
  ASSUME SpiTypeOK, NEW r \in Regs, NEW from \in Devs \cup {IDLE}, NEW to \in Devs
  PROVE  Clocked(r, from, to) \in Clocks
<1>1. r.clock \in Clocks /\ [r.clock EXCEPT !.eq = TRUE] \in Clocks
  BY DEF Regs, Clocks
<1>2. conf[to].div \in Int
  BY BackupsTyped DEF Conf
<1>3. DivClock(conf[to].div) \in Clocks
  BY <1>2 DEF DivClock, Clocks
<1> QED BY <1>1, <1>3 DEF Clocked

LEMMA AddressingFields ==
  ASSUME SpiTypeOK, NEW r \in Regs, NEW clock \in Clocks, NEW to \in Devs
  PROVE  /\ Addressing(r, clock, to) \in Regs
         /\ Addressing(r, clock, to).set = r.set
         /\ Addressing(r, clock, to).clock = clock
         /\ Addressing(r, clock, to).edge = (to # FLASH /\ conf[to].polar)
         /\ Addressing(r, clock, to).cs = CASE to = CS1 -> 1 [] to = CS2 -> 2 [] OTHER -> 0
<1> DEFINE e == (to # FLASH /\ conf[to].polar)
           c == CASE to = CS1 -> 1 [] to = CS2 -> 2 [] OTHER -> 0
<1>1. conf[to].polar \in BOOLEAN
  BY BackupsTyped DEF Conf
<1>2. e \in BOOLEAN
  BY <1>1
<1>3. c \in 0 .. 2
  BY DEF Devs, HSPI, CS1, CS2, FLASH
<1>4. Addressing(r, clock, to) = [r EXCEPT !.clock = clock, !.edge = e, !.cs = c]
  BY DEF Addressing
<1> HIDE DEF e, c
<1>5. /\ Addressing(r, clock, to) \in Regs
      /\ Addressing(r, clock, to).set = r.set
      /\ Addressing(r, clock, to).clock = clock
      /\ Addressing(r, clock, to).edge = e
      /\ Addressing(r, clock, to).cs = c
  BY <1>2, <1>3, <1>4 DEF Regs
<1> QED BY <1>5 DEF e, c

LEMMA SwitchedFields ==
  ASSUME SpiTypeOK, NEW from \in Devs \cup {IDLE}, NEW to \in Devs
  PROVE  /\ Switched(from, to) \in Regs
         /\ Switched(from, to).set = Base(from, to).set
         /\ Switched(from, to).clock = Clocked(Base(from, to), from, to)
         /\ Switched(from, to).edge = (to # FLASH /\ conf[to].polar)
         /\ Switched(from, to).cs = CASE to = CS1 -> 1 [] to = CS2 -> 2 [] OTHER -> 0
<1> DEFINE lapped == IF to = HSPI THEN Overlapped(reg, FALSE)
                     ELSE IF from \in {HSPI, IDLE} THEN Overlapped(reg, TRUE) ELSE reg
           back == Recovered(lapped, from, to)
           clock == Clocked(back, from, to)
<1>1. reg \in Regs
  BY DEF SpiTypeOK
<1>2. lapped \in Regs /\ lapped.set = reg.set /\ lapped.clock = reg.clock
  BY <1>1, OverlappedFields
<1>3. back \in Regs /\ back.set = Base(from, to).set /\ back.clock = Base(from, to).clock
  BY <1>2, BackupsTyped DEF Recovered, Base
<1>4. clock \in Clocks /\ clock = Clocked(Base(from, to), from, to)
  <2> HIDE DEF back
  <2>1. Clocked(back, from, to) = Clocked(Base(from, to), from, to)
    BY <1>3 DEF Clocked
  <2> QED BY <1>3, <2>1, ClockedTyped
<1>5. Switched(from, to) = Addressing(back, clock, to)
  BY DEF Switched
<1> HIDE DEF back, clock, lapped
<1> QED BY <1>3, <1>4, <1>5, AddressingFields

Readings == [addr : Nat, left : Nat, from : Nat, len : Nat, words : Nat]

\* hspi_dev_sel, on its own or in front of a flash read.
LEMMA SelectDevInductive ==
  ASSUME OverlapInv, NEW to \in Devs, SelectDev(to), UNCHANGED <<sysclk, saved, conf>>,
         read' \in Readings, read'.left > 0 => to = FLASH /\ conf[FLASH].active
  PROVE  SpiTypeOK' /\ BackupsGood' /\ LinesGood' /\ TunedGood'
<1> USE DEF OverlapInv
<1>1. CASE ~(conf[to].active /\ to # selected)
  <2>1. UNCHANGED <<reg, mtdo, overlap, selected, inForce, late, sysclk, saved, conf>>
    BY <1>1 DEF SelectDev
  <2>2. SpiTypeOK'
    BY <2>1 DEF SpiTypeOK, Readings
  <2>3. read'.left > 0 => selected = FLASH
    BY <1>1
  <2>4. BackupsGood'
    BY <2>1, <2>3 DEF BackupsGood
  <2>5. LinesGood'
    BY <2>1 DEF LinesGood
  <2>6. TunedGood'
    BY <2>1 DEF TunedGood, Chosen, SelectedIsTuned
  <2> QED BY <2>2, <2>4, <2>5, <2>6
<1>2. CASE conf[to].active /\ to # selected
  <2> DEFINE base == Base(selected, to)
  <2>1. /\ reg' = Switched(selected, to) /\ overlap' = (to # HSPI) /\ selected' = to
        /\ mtdo' = IF to = HSPI THEN TRUE ELSE IF selected \in {HSPI, IDLE} THEN FALSE ELSE mtdo
        /\ inForce' = conf[to]
        /\ late' = (late /\ {selected, to} \subseteq {CS1, CS2, FLASH})
    BY <1>2 DEF SelectDev
  <2>2. selected \in Devs \cup {IDLE} /\ saved.done /\ UNCHANGED <<sysclk, saved, conf>>
    BY <1>2 DEF SpiTypeOK, BackupsGood
  <2>3. /\ reg' \in Regs
        /\ reg'.set = base.set
        /\ reg'.clock = Clocked(base, selected, to)
        /\ reg'.edge = (to # FLASH /\ conf[to].polar)
        /\ reg'.cs = CASE to = CS1 -> 1 [] to = CS2 -> 2 [] OTHER -> 0
    BY <2>1, <2>2, SwitchedFields
  <2>4. SpiTypeOK'
    <3>1. overlap' \in BOOLEAN /\ late' \in BOOLEAN
      BY <2>1
    <3>2. mtdo' \in BOOLEAN
      BY <2>1 DEF SpiTypeOK
    <3>3. conf[to] \in Conf
      BY DEF SpiTypeOK
    <3> QED BY <2>1, <2>2, <2>3, <3>1, <3>2, <3>3 DEF SpiTypeOK, Readings
  <2>5. BackupsGood'
    BY <2>1, <2>2 DEF BackupsGood
  <2>6. LinesGood'
    <3>1. overlap' <=> to \in Lapped
      BY <2>1 DEF Lapped, Devs, HSPI, CS1, CS2, FLASH
    <3>2. to = HSPI => mtdo'
      BY <2>1
    <3>3. to \in Lapped /\ mtdo' => late'
      <4>1. to # HSPI => (mtdo' => mtdo /\ selected \in Lapped)
        BY <2>1, <2>2 DEF Lapped, Devs
      <4>2. to \in Lapped => to # HSPI
        BY DEF Lapped, HSPI, CS1, CS2, FLASH
      <4> QED BY <2>1, <2>2, <4>1, <4>2 DEF LinesGood, Lapped
    <3>4. selected' # IDLE => reg'.cs = CASE to = CS1 -> 1 [] to = CS2 -> 2 [] OTHER -> 0
      BY <2>3
    <3> QED BY <2>1, <2>2, <3>1, <3>2, <3>3, <3>4 DEF LinesGood
  <2>7. TunedGood'
    <3> USE DEF Devs, HSPI, CS1, CS2, FLASH, IDLE
    <3>1. base.set = IF to = FLASH THEN "flash" ELSE "dev"
      <4>1. selected \notin {FLASH, IDLE} => reg.set = "dev"
        BY <2>2 DEF TunedGood, Chosen, SelectedIsTuned
      <4> QED BY <2>2, <4>1 DEF Base, Recovered, BackupsGood
    <3>2. to = FLASH => Clocked(base, selected, to) = saved.flash.clock
      <4> SUFFICES ASSUME to = FLASH PROVE Clocked(base, selected, to) = saved.flash.clock
        OBVIOUS
      <4>1. base.clock = saved.flash.clock
        BY DEF Base, Recovered
      <4>2. saved.flash.clock \in Clocks /\ saved.flash.clock.eq = sysclk
        BY <2>2, BackupsTyped DEF BackupsGood, Regs
      <4>3. sysclk => [saved.flash.clock EXCEPT !.eq = TRUE] = saved.flash.clock
        BY <4>2 DEF Clocks
      <4>4. sysclk \in BOOLEAN
        BY DEF SpiTypeOK
      <4> HIDE DEF base
      <4> QED BY <4>1, <4>3, <4>4 DEF Clocked
    <3>3. to \in {CS1, CS2} /\ sysclk => Clocked(base, selected, to).eq
      <4> SUFFICES ASSUME to \in {CS1, CS2}, sysclk PROVE Clocked(base, selected, to).eq
        OBVIOUS
      <4>1. CASE selected \in {CS1, CS2}
        <5>1. reg.clock.eq
          BY <2>2, <4>1 DEF TunedGood, Chosen, SelectedIsTuned
        <5>2. base = reg
          BY <4>1 DEF Base, Recovered
        <5> HIDE DEF base
        <5>3. {selected, to} = {CS1, CS2}
          BY <1>2, <4>1
        <5>4. Clocked(base, selected, to) = base.clock
          BY <5>3 DEF Clocked
        <5> QED BY <5>1, <5>2, <5>4
      <4>2. CASE selected \notin {CS1, CS2}
        <5>1. base \in Regs
          BY BackupsTyped DEF SpiTypeOK, Base, Recovered
        <5> HIDE DEF base
        <5>2. {selected, to} # {CS1, CS2}
          BY <4>2
        <5>3. Clocked(base, selected, to) = [base.clock EXCEPT !.eq = TRUE]
          BY <4>2, <5>2 DEF Clocked
        <5> QED BY <5>1, <5>3 DEF Regs, Clocks
      <4> QED BY <4>1, <4>2
    <3>4. to = HSPI \/ (to \in {CS1, CS2} /\ ~sysclk)
            => Clocked(base, selected, to) = DivClock(conf[to].div)
      BY DEF Clocked
    <3> HIDE DEF base
    <3>5. reg'.set = IF to = FLASH THEN "flash" ELSE "dev"
      BY <2>3, <3>1
    <3>6. reg'.edge = (selected' # FLASH /\ inForce'.polar)
      BY <2>1, <2>3
    <3>7. IF to = FLASH THEN reg'.clock = saved.flash.clock
          ELSE IF to # HSPI /\ sysclk THEN reg'.clock.eq
          ELSE reg'.clock = DivClock(conf[to].div)
      BY <2>3, <3>2, <3>3, <3>4
    <3> QED BY <2>1, <2>2, <3>5, <3>6, <3>7 DEF TunedGood, SelectedIsTuned, DivClock
  <2> QED BY <2>4, <2>5, <2>6, <2>7
<1> QED BY <1>1, <1>2

LEMMA DevSelInductive == \A to \in Devs : OverlapInv /\ DevSel(to) => OverlapInv'
<1> SUFFICES ASSUME NEW to \in Devs, OverlapInv, DevSel(to) PROVE OverlapInv'
  OBVIOUS
<1>1. read' = read /\ read.left = 0 /\ read \in Readings /\ UNCHANGED <<sysclk, saved, conf>>
  BY DEF DevSel, OverlapInv, SpiTypeOK, Readings
<1>2. SpiTypeOK' /\ BackupsGood' /\ LinesGood' /\ TunedGood'
  BY <1>1, SelectDevInductive DEF DevSel
<1>3. ReadGood'
  BY <1>1 DEF OverlapInv, ReadGood
<1> QED BY <1>2, <1>3 DEF OverlapInv

LEMMA ReadStartInductive == \A q \in Reads : OverlapInv /\ ReadStart(q) => OverlapInv'
<1> SUFFICES ASSUME NEW q \in Reads, OverlapInv, ReadStart(q) PROVE OverlapInv'
  OBVIOUS
<1>1. q \in [addr : Nat, len : Nat] /\ ChipSize \in Nat
  BY SpiOverlapOK
<1>2. read' \in Readings /\ conf[FLASH].active /\ SelectDev(FLASH) /\ UNCHANGED <<sysclk, saved, conf>>
  BY <1>1 DEF ReadStart, NoRead, Readings
<1>3. SpiTypeOK' /\ BackupsGood' /\ LinesGood' /\ TunedGood'
  BY <1>2, SelectDevInductive DEF Devs
<1>4. ReadGood'
  <2>1. CASE q.addr + q.len > ChipSize
    BY <1>1, <2>1 DEF ReadStart, NoRead, ReadGood
  <2>2. CASE ~(q.addr + q.len > ChipSize)
    BY <1>1, <2>2 DEF ReadStart, ReadGood
  <2> QED BY <2>1, <2>2
<1> QED BY <1>3, <1>4 DEF OverlapInv

LEMMA ReadChunkInductive == OverlapInv /\ ReadChunk => OverlapInv'
<1> SUFFICES ASSUME OverlapInv, ReadChunk PROVE OverlapInv'
  OBVIOUS
<1> DEFINE n == IF read.left >= BufBytes THEN BufBytes ELSE read.left
<1>1. BufBytes \in Nat \ {0} /\ BufBytes % 4 = 0 /\ ChipSize \in Nat
  BY SpiOverlapOK
<1>2. read \in Readings /\ read.left > 0
  BY DEF ReadChunk, OverlapInv, SpiTypeOK, Readings
<1>3. read' = [read EXCEPT !.addr = read.addr + n, !.left = read.left - n,
                           !.words = read.words + (n + 3) \div 4]
  BY DEF ReadChunk
<1>4. n \in Nat /\ n > 0 /\ n <= read.left /\ (read.left - n > 0 => n % 4 = 0)
  BY <1>1, <1>2 DEF Readings
<1> HIDE DEF n
<1> DEFINE w == (n + 3) \div 4
<1>5. w \in Nat /\ 4 * w >= n /\ 4 * w < n + 4 /\ (n % 4 = 0 => 4 * w = n)
  BY <1>4
<1> HIDE DEF w
<1>6. /\ read'.addr = read.addr + n /\ read'.left = read.left - n
      /\ read'.from = read.from /\ read'.len = read.len /\ read'.words = read.words + w
      /\ read' \in Readings
  <2>1. read.addr + n \in Nat /\ read.left - n \in Nat /\ read.words + w \in Nat
    BY <1>2, <1>4, <1>5 DEF Readings
  <2>2. read' = [read EXCEPT !.addr = read.addr + n, !.left = read.left - n, !.words = read.words + w]
    BY <1>3 DEF w
  <2> QED BY <1>2, <2>1, <2>2 DEF Readings
<1>7. ReadGood'
  <2>1. /\ read.addr \in Nat /\ read.left \in Nat /\ read.from \in Nat /\ read.len \in Nat
        /\ read.words \in Nat
    BY <1>2 DEF Readings
  <2>2. ReadGood
    BY DEF OverlapInv
  <2> QED BY <1>1, <1>2, <1>4, <1>5, <1>6, <2>1, <2>2 DEF ReadGood
<1>8. UNCHANGED <<reg, overlap, mtdo, sysclk, saved, conf, selected, inForce, late>>
  BY DEF ReadChunk
<1>9. SpiTypeOK' /\ LinesGood'
  BY <1>6, <1>8 DEF OverlapInv, SpiTypeOK, LinesGood, Readings
<1>10. BackupsGood'
  BY <1>2, <1>8 DEF OverlapInv, BackupsGood
<1>11. TunedGood'
  BY <1>8 DEF OverlapInv, TunedGood, Chosen, SelectedIsTuned
<1> QED BY <1>7, <1>9, <1>10, <1>11 DEF OverlapInv

LEMMA FlashRegsFields ==
  ASSUME NEW r \in Regs, sysclk \in BOOLEAN
  PROVE  /\ FlashRegs(r) \in Regs /\ FlashRegs(r).set = "flash" /\ FlashRegs(r).clock.eq = sysclk
         /\ MasterInit(FlashRegs(r)) \in Regs /\ MasterInit(FlashRegs(r)).set = "dev"
<1>1. FlashRegs(r) = [r EXCEPT !.set = "flash", !.clock = [r.clock EXCEPT !.eq = sysclk]]
  BY DEF FlashRegs, Regs
<1>2. [r.clock EXCEPT !.eq = sysclk] \in Clocks /\ [r.clock EXCEPT !.eq = sysclk].eq = sysclk
  BY DEF Regs, Clocks
<1>3. FlashRegs(r) \in Regs /\ FlashRegs(r).set = "flash" /\ FlashRegs(r).clock.eq = sysclk
  BY <1>1, <1>2 DEF Regs
<1>4. ASSUME NEW f \in Regs PROVE MasterInit(f) \in Regs /\ MasterInit(f).set = "dev"
  <2>1. DivClock(1) \in Clocks
    BY DEF DivClock, Clocks
  <2> QED BY <2>1 DEF MasterInit, Regs
<1> QED BY <1>3, <1>4

LEMMA DevInitInductive ==
  \A d \in Devs, polar \in BOOLEAN, div \in Nat : OverlapInv /\ DevInit(d, polar, div) => OverlapInv'
<1> SUFFICES ASSUME NEW d \in Devs, NEW polar \in BOOLEAN, NEW div \in Nat,
                    OverlapInv, DevInit(d, polar, div)
             PROVE  OverlapInv'
  OBVIOUS
<1> USE DEF OverlapInv
<1>1. /\ read.left = 0 /\ UNCHANGED <<overlap, sysclk, inForce, read>>
      /\ conf' = [conf EXCEPT ![d] = [active |-> TRUE, polar |-> polar, div |-> div]]
      /\ mtdo' = (mtdo \/ d = HSPI)
      /\ late' = (late \/ (saved.done /\ d = HSPI /\ selected \in {CS1, CS2, FLASH}))
  BY DEF DevInit
<1>2. [active |-> TRUE, polar |-> polar, div |-> div] \in Conf
  BY DEF Conf
<1>3. conf' \in [Devs -> Conf] /\ mtdo' \in BOOLEAN /\ late' \in BOOLEAN
  BY <1>1, <1>2 DEF SpiTypeOK
<1>4. ReadGood'
  BY <1>1 DEF ReadGood
<1>5. CASE saved.done
  <2>1. UNCHANGED <<reg, saved, selected>>
    BY <1>5 DEF DevInit
  <2>2. SpiTypeOK'
    BY <1>1, <1>3, <2>1 DEF SpiTypeOK
  <2>3. BackupsGood'
    BY <1>1, <1>5, <2>1 DEF BackupsGood
  <2>4. LinesGood'
    BY <1>1, <1>5, <2>1 DEF LinesGood, Lapped
  <2>5. TunedGood'
    BY <1>1, <2>1 DEF TunedGood, Chosen, SelectedIsTuned
  <2> QED BY <1>4, <2>2, <2>3, <2>4, <2>5
<1>6. CASE ~saved.done
  <2>1. /\ reg' = MasterInit(FlashRegs(reg)) /\ selected' = IDLE
        /\ saved' = [done |-> TRUE, flash |-> FlashRegs(reg), dev |-> MasterInit(FlashRegs(reg))]
    BY <1>6 DEF DevInit
  <2>2. reg \in Regs /\ sysclk \in BOOLEAN
    BY DEF SpiTypeOK
  <2>3. SpiTypeOK'
    BY <1>1, <1>3, <2>1, <2>2, FlashRegsFields DEF SpiTypeOK
  <2>4. BackupsGood'
    BY <1>1, <2>1, <2>2, FlashRegsFields DEF BackupsGood
  <2>5. LinesGood'
    BY <1>1, <1>6, <2>1 DEF LinesGood, Lapped, HSPI, CS1, CS2, FLASH, IDLE
  <2>6. TunedGood'
    BY <2>1 DEF TunedGood, Chosen
  <2> QED BY <1>4, <2>3, <2>4, <2>5, <2>6
<1> QED BY <1>5, <1>6 DEF SpiTypeOK

LEMMA OverlapInitInductive == SpiInit => OverlapInv
<1> SUFFICES ASSUME SpiInit PROVE OverlapInv
  OBVIOUS
<1> USE SpiOverlapOK DEF SpiInit
<1>1. SpiTypeOK
  <2>1. reg \in Regs /\ NoConf \in Conf /\ HSPI \in Devs
    BY DEF NoConf, Conf, Devs
  <2>2. NoRead \in [addr : Nat, left : Nat, from : Nat, len : Nat, words : Nat]
    BY DEF NoRead
  <2> QED BY <2>1, <2>2 DEF SpiTypeOK
<1>2. BackupsGood
  BY DEF BackupsGood, NoConf, NoRead
<1>3. LinesGood /\ TunedGood
  BY DEF LinesGood, TunedGood, Chosen
<1>4. ReadGood
  BY DEF ReadGood, NoRead
<1> QED BY <1>1, <1>2, <1>3, <1>4 DEF OverlapInv

LEMMA OverlapStepInductive == OverlapInv /\ [SpiNext]_spiVars => OverlapInv'
<1>1. OverlapInv /\ UNCHANGED spiVars => OverlapInv'
  BY DEF spiVars, OverlapInv, SpiTypeOK, BackupsGood, LinesGood, TunedGood, Chosen,
         SelectedIsTuned, ReadGood
<1>2. OverlapInv /\ SpiNext => OverlapInv'
  <2> SUFFICES ASSUME OverlapInv, SpiNext PROVE OverlapInv'
    OBVIOUS
  <2>1. FLASH \in Devs /\ FALSE \in BOOLEAN /\ 0 \in Nat /\ Divs \subseteq Nat
    BY SpiOverlapOK DEF Devs
  <2> QED BY <2>1, DevInitInductive, DevSelInductive, ReadStartInductive, ReadChunkInductive
          DEF SpiNext
<1> QED BY <1>1, <1>2

(* The invariant above, from whatever a reset leaves in the registers.        *)
THEOREM OverlapInductive == SpiSpec => []OverlapInv
  BY OverlapInitInductive, OverlapStepInductive, PTL DEF SpiSpec

(* hspi_dev_sel, for every divider, order of devices and set of registers    *)
(* found at reset: a transfer reaches the device selected last and no other, *)
(* with that device's clock, edge and registers.                             *)
THEOREM SelectionAlwaysExact == SpiSpec => []SelectionExact
<1>1. OverlapInv => SelectionExact
  <2> SUFFICES ASSUME OverlapInv, Chosen PROVE OnlySelectedHears /\ SelectedIsTuned
    BY DEF SelectionExact
  <2>1. selected \in Devs /\ saved.done
    BY DEF Chosen, OverlapInv, SpiTypeOK
  <2>2. SelectedIsTuned
    BY DEF OverlapInv, TunedGood
  <2> SUFFICES OnlySelectedHears
    BY <2>2
  <2> USE DEF OverlapInv, LinesGood, Lapped, HSPI, CS1, CS2, FLASH, IDLE
  <2>3. CASE selected = HSPI
    <3>1. ~overlap /\ mtdo /\ reg.cs = 0
      BY <2>1, <2>3
    <3>2. Addressed = {HSPI}
      BY <3>1 DEF Addressed
    <3> QED BY <2>3, <3>2 DEF OnlySelectedHears
  <2>4. CASE selected = CS1
    <3>1. overlap /\ reg.cs = 1
      BY <2>1, <2>4
    <3>2. Addressed = {CS1}
      BY <3>1 DEF Addressed
    <3> QED BY <2>4, <3>2 DEF OnlySelectedHears
  <2>5. CASE selected = CS2
    <3>1. overlap /\ reg.cs = 2
      BY <2>1, <2>5
    <3>2. Addressed = {CS2}
      BY <3>1 DEF Addressed
    <3> QED BY <2>5, <3>2 DEF OnlySelectedHears
  <2>6. CASE selected = FLASH
    <3>1. overlap /\ reg.cs = 0 /\ (mtdo => late)
      BY <2>1, <2>6
    <3>2. Addressed = {FLASH} \cup (IF mtdo THEN {HSPI} ELSE {})
      BY <3>1 DEF Addressed
    <3> QED BY <2>6, <3>1, <3>2 DEF OnlySelectedHears
  <2> QED BY <2>1, <2>3, <2>4, <2>5, <2>6 DEF Devs
<1> QED BY <1>1, OverlapInductive, PTL

(* hspi_overlap_read_flash_data, for every range inside a chip of any size   *)
(* and every buffer of whole words: nobody else is selected meanwhile, and   *)
(* what is copied is the range, to the end of its last word.                 *)
THEOREM FlashReadAlwaysExact == SpiSpec => []FlashReadExact
<1>1. OverlapInv => FlashReadExact
  <2> SUFFICES ASSUME OverlapInv PROVE FlashReadExact
    OBVIOUS
  <2>1. ASSUME read.left > 0 PROVE selected = FLASH /\ FLASH \in Addressed
    <3>1. selected = FLASH /\ saved.done
      BY <2>1 DEF OverlapInv, BackupsGood
    <3>2. overlap /\ reg.cs = 0
      BY <3>1 DEF OverlapInv, LinesGood, Lapped, HSPI, CS1, CS2, FLASH, IDLE
    <3> QED BY <3>1, <3>2 DEF Addressed
  <2> QED BY <2>1 DEF OverlapInv, ReadGood, FlashReadExact
<1> QED BY <1>1, OverlapInductive, PTL

-----------------------------------------------------------------------------
\* The SPI master.

MasterTypeOK ==
  /\ "command" \in phases /\ phases \subseteq AllPhases /\ found \subseteq AllPhases
  /\ setter.f \in {"none", "byte", "espwrite", "espread"} /\ cleared \in BOOLEAN
  /\ asked.f \in {"none", "lcd", "byte", "espwrite", "espread"}
  /\ asked.f # "none" => asked.data \in 0 .. 255 /\ asked.high \in BOOLEAN

\* What stays as the function called last has written it.
AsAsked ==
  /\ asked.f = "none" => ~usr
  /\ asked.f = "lcd" => user2 = [len |-> 9, value |-> LcdCommand(asked.high, asked.data)]
  /\ asked.f = "byte" => user2 = [len |-> 8, value |-> asked.data]
  /\ asked.f = "espwrite" => user2 = [len |-> 8, value |-> 4]
  /\ asked.f = "espread" => user2 = [len |-> 8, value |-> 6]

\* Whose phases are on: the functions that set them take turns, and the 9-bit write
\* takes what it finds.
Inherited ==
  /\ phases = {"command"} \cup DataPhase(setter.f)
                \cup (IF cleared THEN {} ELSE found \cap {"addr", "dummy"})
  /\ asked.f \in {"byte", "espwrite", "espread"} => setter.f = asked.f
  /\ asked.f = "espwrite" => setter.data = asked.data
  /\ setter.f = "espwrite" => w0 = setter.data

\* The data buffer holds what was read until the reader has it.
ReadKept ==
  asked.f = "espread" => (usr => waits) /\ (~usr => w0 = sent) /\ (~waits => answer = sent)

MasterInv == MasterTypeOK /\ AsAsked /\ Inherited /\ ReadKept

-----------------------------------------------------------------------------
\* The bits of a byte, high bit first: as the command phase sends them.
LEMMA ByteBits ==
  ASSUME NEW b \in 0 .. 255
  PROVE  [i \in 1 .. 8 |-> (b \div 2 ^ (IF i <= 8 THEN 8 - i ELSE 24 - i)) % 2]
           = [i \in 1 .. 8 |-> (b \div 2 ^ (8 - i)) % 2]
OBVIOUS

LEMMA EspBits ==
  /\ [i \in 1 .. 8 |-> (4 \div 2 ^ (8 - i)) % 2] = <<0, 0, 0, 0, 0, 1, 0, 0>>
  /\ [i \in 1 .. 8 |-> (6 \div 2 ^ (8 - i)) % 2] = <<0, 0, 0, 0, 0, 1, 1, 0>>
<1>1. 2 ^ 0 = 1 /\ 2 ^ 1 = 2 /\ 2 ^ 2 = 4 /\ 2 ^ 3 = 8 /\ 2 ^ 4 = 16 /\ 2 ^ 5 = 32 /\ 2 ^ 6 = 64
      /\ 2 ^ 7 = 128
  OBVIOUS
<1> QED BY <1>1

\* Nine bits for the LCD: the high one, the byte, and its last bit as BIT15.
LEMMA LcdBits ==
  ASSUME NEW b \in 0 .. 255, NEW high \in BOOLEAN
  PROVE  [i \in 1 .. 9 |-> (LcdCommand(high, b) \div 2 ^ (IF i <= 8 THEN 8 - i ELSE 24 - i)) % 2]
           = <<Bit(high)>> \o [i \in 1 .. 8 |-> (b \div 2 ^ (8 - i)) % 2]
<1> DEFINE v == LcdCommand(high, b)
           h == IF high THEN 1 ELSE 0
           l == b % 2
           m == b \div 2
           bits == [i \in 1 .. 8 |-> (b \div 2 ^ (8 - i)) % 2]
           all == [i \in 1 .. 9 |-> (v \div 2 ^ (IF i <= 8 THEN 8 - i ELSE 24 - i)) % 2]
<1>1. 2 ^ 0 = 1 /\ 2 ^ 1 = 2 /\ 2 ^ 2 = 4 /\ 2 ^ 3 = 8 /\ 2 ^ 4 = 16 /\ 2 ^ 5 = 32 /\ 2 ^ 6 = 64
      /\ 2 ^ 7 = 128 /\ 2 ^ 15 = 32768
  OBVIOUS
<1>2. h \in 0 .. 1 /\ l \in 0 .. 1 /\ m \in 0 .. 127 /\ b = 2 * m + l
  OBVIOUS
<1>3. v = 128 * h + m + 32768 * l
  BY <1>1 DEF LcdCommand
<1> HIDE DEF v, h, l, m
<1>4. ASSUME NEW w \in {1, 2, 4, 8, 16, 32, 64}
      PROVE  (v \div w) % 2 = (b \div (2 * w)) % 2
  <2> DEFINE k == 64 \div w
  <2>1. k \in Nat /\ w * k = 64 /\ w \in Nat
    BY <1>4
  <2>2. m \div w \in Nat /\ m = w * (m \div w) + (m % w) /\ m % w \in 0 .. w - 1
    BY <1>2, <1>4
  <2>3. b \div (2 * w) = m \div w
    BY <1>2, <1>4
  <2>4. v \div w = 2 * ((k * h) + (256 * k * l)) + m \div w
    BY <1>2, <1>3, <1>4, <2>1, <2>2
  <2> QED BY <1>2, <2>1, <2>2, <2>3, <2>4
<1>5. (v \div 128) % 2 = h /\ (v \div 32768) % 2 = b % 2
  BY <1>2, <1>3
<1>6. /\ bits \in Seq(Int) /\ Len(bits) = 8
      /\ all \in Seq(Int) /\ Len(all) = 9
  BY <1>2, <1>3
<1> DEFINE two == <<h>> \o bits
<1>7. two \in Seq(Int) /\ Len(two) = 9 /\ two[1] = h /\ \A i \in 2 .. 9 : two[i] = bits[i - 1]
  BY <1>2, <1>6
<1>8. /\ all[1] = h /\ all[2] = bits[1] /\ all[3] = bits[2] /\ all[4] = bits[3]
      /\ all[5] = bits[4] /\ all[6] = bits[5] /\ all[7] = bits[6] /\ all[8] = bits[7]
      /\ all[9] = bits[8]
  BY <1>1, <1>4, <1>5
<1> HIDE DEF all, bits, two
<1>9. ASSUME NEW i \in 1 .. 9 PROVE all[i] = two[i]
  <2>1. i = 1 \/ i = 2 \/ i = 3 \/ i = 4 \/ i = 5 \/ i = 6 \/ i = 7 \/ i = 8 \/ i = 9
    OBVIOUS
  <2>2. i # 1 => two[i] = bits[i - 1]
    BY <1>7
  <2> QED BY <1>7, <1>8, <2>1, <2>2
<1>10. all = two
  BY <1>6, <1>7, <1>9, SeqEqual
<1> QED BY <1>10 DEF two, all, bits, v, h, Bit

-----------------------------------------------------------------------------
LEMMA MasterInitInductive == MasterUp => MasterInv
<1> SUFFICES ASSUME MasterUp PROVE MasterInv
  OBVIOUS
<1>1. PICK p \in ResetPhases : phases = p \cup {"command"} /\ found = phases
  BY DEF MasterUp
<1>2. "command" \in phases /\ phases \subseteq AllPhases
  BY <1>1, SpiMasterOK DEF AllPhases
<1>3. asked.f = "none" /\ setter.f = "none" /\ cleared = FALSE /\ ~usr
  BY DEF MasterUp
<1>4. MasterTypeOK
  BY <1>1, <1>2, <1>3 DEF MasterTypeOK
<1>5. AsAsked /\ ReadKept
  BY <1>3 DEF AsAsked, ReadKept
<1>6. Inherited
  BY <1>1, <1>2, <1>3 DEF Inherited, DataPhase, AllPhases
<1> QED BY <1>4, <1>5, <1>6 DEF MasterInv

LEMMA Lcd9bitWriteInductive ==
  \A b \in SpiBytes, high \in BOOLEAN : MasterInv /\ Lcd9bitWrite(high, b) => MasterInv'
<1> SUFFICES ASSUME NEW b \in SpiBytes, NEW high \in BOOLEAN, MasterInv, Lcd9bitWrite(high, b)
             PROVE  MasterInv'
  OBVIOUS
<1>1. asked' = [f |-> "lcd", data |-> b, high |-> high] /\ b \in 0 .. 255
  BY SpiMasterOK DEF Lcd9bitWrite, Called
<1>2. asked'.f = "lcd" /\ asked'.data = b /\ asked'.high = high
  BY <1>1
<1>3. /\ user2' = [len |-> 9, value |-> LcdCommand(high, b)]
      /\ UNCHANGED <<phases, w0, found, setter, cleared>>
  BY DEF Lcd9bitWrite, Called
<1>4. MasterTypeOK'
  BY <1>1, <1>2, <1>3 DEF MasterInv, MasterTypeOK
<1>5. AsAsked'
  BY <1>2, <1>3 DEF MasterInv, AsAsked, LcdCommand
<1>6. Inherited'
  BY <1>2, <1>3 DEF MasterInv, Inherited, DataPhase
<1>7. ReadKept'
  BY <1>2 DEF ReadKept
<1> QED BY <1>4, <1>5, <1>6, <1>7 DEF MasterInv

LEMMA ByteWriteInductive == \A b \in SpiBytes : MasterInv /\ ByteWrite(b) => MasterInv'
<1> SUFFICES ASSUME NEW b \in SpiBytes, MasterInv, ByteWrite(b) PROVE MasterInv'
  OBVIOUS
<1>1. asked' = [f |-> "byte", data |-> b, high |-> FALSE] /\ b \in 0 .. 255
  BY SpiMasterOK DEF ByteWrite, Called
<1>2. asked'.f = "byte" /\ asked'.data = b /\ asked'.high = FALSE
  BY <1>1
<1>3. /\ user2' = [len |-> 8, value |-> b] /\ phases' = phases \ {"mosi", "miso"}
      /\ setter'.f = "byte" /\ UNCHANGED <<found, cleared>>
  BY DEF ByteWrite, Called
<1>4. MasterTypeOK'
  BY <1>1, <1>2, <1>3 DEF MasterInv, MasterTypeOK
<1>5. AsAsked'
  BY <1>2, <1>3 DEF AsAsked
<1>6. Inherited'
  <2>1. phases' = {"command"} \cup (IF cleared THEN {} ELSE found \cap {"addr", "dummy"})
    <3>1. DataPhase(setter.f) \subseteq {"mosi", "miso"}
      BY DEF MasterInv, MasterTypeOK, DataPhase
    <3>2. phases = {"command"} \cup DataPhase(setter.f)
                    \cup (IF cleared THEN {} ELSE found \cap {"addr", "dummy"})
      BY DEF MasterInv, Inherited
    <3> HIDE DEF DataPhase
    <3> QED BY <1>3, <3>1, <3>2
  <2>2. DataPhase(setter.f)' = {}
    BY <1>3 DEF DataPhase
  <2> QED BY <1>2, <1>3, <2>1, <2>2 DEF Inherited, DataPhase
<1>7. ReadKept'
  BY <1>2 DEF ReadKept
<1> QED BY <1>4, <1>5, <1>6, <1>7 DEF MasterInv

LEMMA EspWriteInductive == \A b \in SpiBytes : MasterInv /\ EspWrite(b) => MasterInv'
<1> SUFFICES ASSUME NEW b \in SpiBytes, MasterInv, EspWrite(b) PROVE MasterInv'
  OBVIOUS
<1>1. asked' = [f |-> "espwrite", data |-> b, high |-> FALSE] /\ b \in 0 .. 255
  BY SpiMasterOK DEF EspWrite, Called
<1>2. asked'.f = "espwrite" /\ asked'.data = b /\ asked'.high = FALSE
  BY <1>1
<1>3. /\ user2' = [len |-> 8, value |-> 4] /\ w0' = b /\ cleared' = TRUE /\ found' = found
      /\ setter'.f = "espwrite" /\ setter'.data = b
  BY DEF EspWrite, Called
<1>4. phases' = {"command", "mosi"}
  BY DEF EspWrite, MasterInv, MasterTypeOK, AllPhases
<1>5. MasterTypeOK'
  BY <1>1, <1>2, <1>3, <1>4 DEF MasterInv, MasterTypeOK, AllPhases
<1>6. AsAsked'
  BY <1>2, <1>3 DEF AsAsked
<1>7. Inherited'
  BY <1>2, <1>3, <1>4 DEF Inherited, DataPhase
<1>8. ReadKept'
  BY <1>2 DEF ReadKept
<1> QED BY <1>5, <1>6, <1>7, <1>8 DEF MasterInv

LEMMA EspReadInductive == MasterInv /\ EspRead => MasterInv'
<1> SUFFICES ASSUME MasterInv, EspRead PROVE MasterInv'
  OBVIOUS
<1>1. asked' = [f |-> "espread", data |-> 0, high |-> FALSE]
  BY DEF EspRead, Called
<1>2. asked'.f = "espread" /\ asked'.data = 0 /\ asked'.high = FALSE
  BY <1>1
<1>3. /\ user2' = [len |-> 8, value |-> 6] /\ waits' = TRUE /\ usr' = TRUE
      /\ cleared' = TRUE /\ found' = found /\ setter'.f = "espread"
  BY DEF EspRead, Called
<1>4. phases' = {"command", "miso"}
  BY DEF EspRead, MasterInv, MasterTypeOK, AllPhases
<1>5. MasterTypeOK'
  <2>1. "command" \in phases' /\ phases' \subseteq AllPhases /\ found' \subseteq AllPhases
    BY <1>3, <1>4 DEF MasterInv, MasterTypeOK, AllPhases
  <2>2. asked'.data \in 0 .. 255
    BY <1>2
  <2>3. asked'.high \in BOOLEAN
    BY <1>2
  <2> QED BY <1>2, <1>3, <2>1, <2>2, <2>3 DEF MasterTypeOK
<1>6. AsAsked'
  BY <1>2, <1>3 DEF AsAsked
<1>7. Inherited'
  BY <1>2, <1>3, <1>4 DEF Inherited, DataPhase
<1>8. ReadKept'
  BY <1>3 DEF ReadKept
<1> QED BY <1>5, <1>6, <1>7, <1>8 DEF MasterInv

LEMMA TransferEndsInductive == MasterInv /\ TransferEnds => MasterInv'
<1> SUFFICES ASSUME MasterInv, TransferEnds PROVE MasterInv'
  OBVIOUS
<1>1. /\ UNCHANGED <<phases, user2, asked, waits, answer, found, setter, cleared>>
      /\ usr /\ usr' = FALSE
  BY DEF TransferEnds, masterHist
<1>2. MasterTypeOK'
  BY <1>1 DEF MasterInv, MasterTypeOK
<1>3. AsAsked'
  BY <1>1 DEF MasterInv, AsAsked, LcdCommand
<1>4. Inherited'
  <2>1. setter.f = "espwrite" => "miso" \notin phases
    BY DEF MasterInv, Inherited, DataPhase
  <2>2. setter.f = "espwrite" => w0' = w0
    BY <2>1 DEF TransferEnds
  <2> QED BY <1>1, <2>2 DEF MasterInv, Inherited, DataPhase
<1>5. ReadKept'
  <2>1. asked.f = "espread" => "miso" \in phases
    BY DEF MasterInv, Inherited, DataPhase
  <2>2. asked.f = "espread" => w0' = sent' /\ waits
    BY <1>1, <2>1 DEF MasterInv, ReadKept, TransferEnds
  <2> QED BY <1>1, <2>2 DEF ReadKept
<1> QED BY <1>2, <1>3, <1>4, <1>5 DEF MasterInv

LEMMA ReturnsInductive == MasterInv /\ Returns => MasterInv'
<1> SUFFICES ASSUME MasterInv, Returns PROVE MasterInv'
  OBVIOUS
<1>1. UNCHANGED <<phases, user2, w0, usr, asked, sent, found, setter, cleared>> /\ ~usr
  BY DEF Returns, masterHist
<1>2. MasterTypeOK'
  BY <1>1 DEF MasterInv, MasterTypeOK
<1>3. AsAsked'
  BY <1>1 DEF MasterInv, AsAsked, LcdCommand
<1>4. Inherited'
  BY <1>1 DEF MasterInv, Inherited, DataPhase
<1>5. ReadKept'
  BY <1>1 DEF MasterInv, ReadKept, Returns
<1> QED BY <1>2, <1>3, <1>4, <1>5 DEF MasterInv

LEMMA MasterStepInductive == MasterInv /\ [MasterNext]_masterVars => MasterInv'
<1>1. MasterInv /\ UNCHANGED masterVars => MasterInv'
  BY DEF masterVars, masterHist, MasterInv, MasterTypeOK, AsAsked, Inherited, DataPhase, LcdCommand,
         ReadKept
<1> QED BY <1>1, Lcd9bitWriteInductive, ByteWriteInductive, EspWriteInductive, EspReadInductive,
           TransferEndsInductive, ReturnsInductive
        DEF MasterNext

(* spi_lcd_9bit_write, spi_mast_byte_write, spi_byte_write_espslave and      *)
(* spi_byte_read_espslave in any order and with any bytes: the bits of every *)
(* command are those of its function, and every other phase is accounted     *)
(* for: the transfer's own, for the 9-bit write that of the function before  *)
(* it with its data, and what spi_master_init found of address and dummy     *)
(* until a function for the ESP8266 slave has run.                           *)
THEOREM PhasesAlwaysExact == MasterSpec => []PhasesExact
<1>1. MasterInv => PhasesExact
  <2> SUFFICES ASSUME MasterInv PROVE PhasesExact
    OBVIOUS
  <2>1. ASSUME usr PROVE CommandBits = Wanted
    <3>1. CASE asked.f = "lcd"
      <4>1. user2.len = 9 /\ user2.value = LcdCommand(asked.high, asked.data)
        BY <3>1 DEF MasterInv, AsAsked
      <4>2. asked.data \in 0 .. 255 /\ asked.high \in BOOLEAN
        BY <3>1 DEF MasterInv, MasterTypeOK
      <4>3. CommandBits = [i \in 1 .. 9 |-> (LcdCommand(asked.high, asked.data)
                                              \div 2 ^ (IF i <= 8 THEN 8 - i ELSE 24 - i)) % 2]
        BY <4>1 DEF CommandBits
      <4>4. Wanted = <<Bit(asked.high)>> \o [i \in 1 .. 8 |-> (asked.data \div 2 ^ (8 - i)) % 2]
        BY <3>1 DEF Wanted
      <4>5. [i \in 1 .. 9 |-> (LcdCommand(asked.high, asked.data)
                                 \div 2 ^ (IF i <= 8 THEN 8 - i ELSE 24 - i)) % 2]
              = <<Bit(asked.high)>> \o [i \in 1 .. 8 |-> (asked.data \div 2 ^ (8 - i)) % 2]
        BY <4>2, LcdBits, Zenon
      <4> QED BY <4>3, <4>4, <4>5, Zenon
    <3>2. CASE asked.f = "byte"
      <4>1. user2.len = 8 /\ user2.value = asked.data
        BY <3>2 DEF MasterInv, AsAsked
      <4>2. asked.data \in 0 .. 255
        BY <3>2 DEF MasterInv, MasterTypeOK
      <4> QED BY <3>2, <4>1, <4>2, ByteBits DEF CommandBits, Wanted
    <3>3. CASE asked.f = "espwrite"
      <4>1. user2.len = 8 /\ user2.value = 4
        BY <3>3 DEF MasterInv, AsAsked
      <4> QED BY <3>3, <4>1, ByteBits, EspBits DEF CommandBits, Wanted
    <3>4. CASE asked.f = "espread"
      <4>1. user2.len = 8 /\ user2.value = 6
        BY <3>4 DEF MasterInv, AsAsked
      <4> QED BY <3>4, <4>1, ByteBits, EspBits DEF CommandBits, Wanted
    <3> QED BY <2>1, <3>1, <3>2, <3>3, <3>4 DEF MasterInv, MasterTypeOK, AsAsked
  <2>2. usr => setter.f = IF asked.f = "lcd" THEN setter.f ELSE asked.f
    BY DEF MasterInv, MasterTypeOK, AsAsked, Inherited
  <2>3. usr => phases = {"command"} \cup DataPhase(IF asked.f = "lcd" THEN setter.f ELSE asked.f)
                          \cup (IF cleared THEN {} ELSE found \cap {"addr", "dummy"})
    BY <2>2 DEF MasterInv, Inherited
  <2>4. /\ asked.f = "espwrite" => w0 = asked.data
        /\ setter.f = "espwrite" => w0 = setter.data
    BY DEF MasterInv, Inherited
  <2>5. asked.f = "espread" /\ ~usr /\ ~waits => answer = sent
    BY DEF MasterInv, ReadKept
  <2> QED BY <2>1, <2>3, <2>4, <2>5 DEF PhasesExact
<1> QED BY <1>1, MasterInitInductive, MasterStepInductive, PTL DEF MasterSpec

-----------------------------------------------------------------------------
\* The SPI slave.

Words == 1 .. SlaveWords

SlaveTypeOK ==
  /\ flags \in SUBSET Events /\ status \in SUBSET Events /\ enabled = Events
  /\ inBuf = [w \in Words |-> written] /\ spi_data \in [Words -> Nat]
  /\ wrReady \in {0, 1} /\ rdReady \in {0, 1}
  /\ idx \in Nat \ {0}
  /\ isr \in {"off", "clear", "busy", "copy", "read"}
  /\ written \in Nat /\ outBuf \in Nat /\ taken \in Nat /\ taken <= outBuf

\* The handler works on a packet, and only then: the master waits while it copies.
HandlerPlace ==
  /\ wrReady = 0 <=> isr = "copy"
  /\ isr \in {"busy", "copy"} => "wr" \in status
  /\ isr = "copy" => \A w \in Words : w < idx => spi_data[w] = written

\* No event came while the flags were cleared.
ClearExact == isr = "clear" => flags = status

\* An event is still to be handled.
Waiting(event) == event \in flags \/ (event \in status /\ isr \notin {"off", "read"})
Handled(event) == event \in flags \/ (event \in status /\ isr # "off")

\* A packet written is copied, or waits to be.
WriteFollowed ==
  /\ ~Waiting("wr") => \A w \in Words : spi_data[w] = written
  /\ ~hasty /\ Waiting("wr") => written # 0 /\ copied = 1 .. (written - 1)
  /\ ~hasty /\ ~Waiting("wr") => copied = 1 .. written
  /\ ~hasty /\ isr \in {"busy", "copy"} => "wr" \notin flags

\* A packet read is withdrawn, or waits to be, and no other is.
ReadFollowed ==
  /\ taken = outBuf /\ outBuf # 0 => rdReady = 0 \/ Handled("rd")
  /\ ~hasty /\ (rdReady = 0 \/ Handled("rd")) => taken = outBuf
  /\ ~hasty /\ isr \in {"busy", "copy", "read"} /\ "rd" \in status => "rd" \notin flags
  /\ ~hasty /\ rdReady = 0 => ~Handled("rd")

Followed == ~raced => ClearExact /\ WriteFollowed /\ ReadFollowed

SlaveInv == SlaveTypeOK /\ HandlerPlace /\ Followed

-----------------------------------------------------------------------------
LEMMA OneMore ==
  ASSUME NEW n \in Nat, n # 0
  PROVE  1 .. (n - 1) \cup {n} = 1 .. n
OBVIOUS

LEMMA SlaveInitInductive == SlaveInit => SlaveInv
<1> SUFFICES ASSUME SlaveInit PROVE SlaveInv
  OBVIOUS
<1> USE SpiSlaveOK
<1>1. SlaveTypeOK
  BY DEF SlaveInit, SlaveTypeOK, Words, Events
<1>2. HandlerPlace
  BY DEF SlaveInit, HandlerPlace
<1>3. ~Waiting("wr") /\ ~Handled("rd")
  BY DEF SlaveInit, Waiting, Handled
<1>4. WriteFollowed
  <2>1. \A w \in Words : spi_data[w] = written
    BY DEF SlaveInit, Words
  <2>2. copied = 1 .. written
    BY DEF SlaveInit
  <2>3. isr \notin {"busy", "copy"}
    BY DEF SlaveInit
  <2> QED BY <1>3, <2>1, <2>2, <2>3 DEF WriteFollowed
<1>5. ClearExact /\ ReadFollowed
  BY <1>3 DEF SlaveInit, ClearExact, ReadFollowed
<1> QED BY <1>1, <1>2, <1>4, <1>5 DEF SlaveInv, Followed

LEMMA MasterWritesInductive == SlaveInv /\ MasterWrites => SlaveInv'
<1> SUFFICES ASSUME SlaveInv, MasterWrites PROVE SlaveInv'
  OBVIOUS
<1> USE DEF SlaveInv
<1>1. SlaveTypeOK'
  BY DEF MasterWrites, SlaveTypeOK, Events, Words
<1>2. HandlerPlace'
  BY DEF MasterWrites, SlaveTypeOK, HandlerPlace
<1>3. ASSUME ~raced' PROVE ClearExact'
  BY <1>3 DEF MasterWrites, Followed, ClearExact
<1>4. ASSUME ~raced' PROVE WriteFollowed'
  <2>1. Waiting("wr")'
    BY DEF MasterWrites, Waiting
  <2>2. written \in Nat /\ written' = written + 1 /\ copied' = copied
    BY DEF MasterWrites, SlaveTypeOK
  <2>3. ASSUME ~hasty' PROVE ~hasty /\ ~Waiting("wr")
    BY <2>3 DEF MasterWrites, Waiting
  <2>4. ~raced
    BY <1>4 DEF MasterWrites
  <2>5. ~hasty' => copied = 1 .. written
    BY <2>3, <2>4 DEF Followed, WriteFollowed
  <2>6. \A n \in Nat : n + 1 # 0 /\ (n + 1) - 1 = n
    OBVIOUS
  <2>7. written' # 0 /\ written' - 1 = written
    BY <2>2, <2>6
  <2>8. ~hasty' => copied' = 1 .. (written' - 1)
    BY <2>2, <2>5, <2>7
  <2>9. ~hasty' => isr' \notin {"busy", "copy"}
    BY <2>3 DEF MasterWrites, HandlerPlace, Waiting
  <2> QED BY <2>1, <2>7, <2>8, <2>9 DEF WriteFollowed
<1>5. ASSUME ~raced' PROVE ReadFollowed'
  BY <1>5 DEF MasterWrites, SlaveTypeOK, Events, HandlerPlace, Followed, ClearExact, ReadFollowed, Handled
<1> QED BY <1>1, <1>2, <1>3, <1>4, <1>5 DEF Followed

LEMMA MasterReadsInductive == SlaveInv /\ MasterReads => SlaveInv'
<1> SUFFICES ASSUME SlaveInv, MasterReads PROVE SlaveInv'
  OBVIOUS
<1> USE DEF SlaveInv
<1>1. SlaveTypeOK'
  BY DEF MasterReads, SlaveTypeOK, Events, Words
<1>2. HandlerPlace'
  BY DEF MasterReads, SlaveTypeOK, HandlerPlace
<1>3. ASSUME ~raced' PROVE ClearExact'
  BY <1>3 DEF MasterReads, Followed, ClearExact
<1>4. ASSUME ~raced' PROVE WriteFollowed'
  BY <1>4 DEF MasterReads, SlaveTypeOK, Events, HandlerPlace, Followed, ClearExact, WriteFollowed, Waiting
<1>5. ASSUME ~raced' PROVE ReadFollowed'
  <2>1. Handled("rd")' /\ taken' = outBuf'
    BY DEF MasterReads, Handled
  <2>2. rdReady' = 1
    BY DEF MasterReads
  <2>3. ASSUME ~hasty' PROVE "rd" \notin status \/ isr = "off"
    BY <2>3 DEF MasterReads
  <2>4. ~hasty' /\ isr' \in {"busy", "copy", "read"} /\ "rd" \in status' => "rd" \notin flags'
    BY <2>3 DEF MasterReads
  <2> QED BY <2>1, <2>2, <2>4 DEF ReadFollowed
<1> QED BY <1>1, <1>2, <1>3, <1>4, <1>5 DEF Followed

LEMMA set_miso_dataInductive == SlaveInv /\ set_miso_data => SlaveInv'
<1> SUFFICES ASSUME SlaveInv, set_miso_data PROVE SlaveInv'
  OBVIOUS
<1> USE DEF SlaveInv
<1>1. SlaveTypeOK'
  BY DEF set_miso_data, SlaveTypeOK, Events, Words
<1>2. HandlerPlace'
  BY DEF set_miso_data, SlaveTypeOK, HandlerPlace
<1>3. ASSUME ~raced' PROVE ClearExact'
  BY <1>3 DEF set_miso_data, Followed, ClearExact
<1>4. ASSUME ~raced' PROVE WriteFollowed'
  BY <1>4 DEF set_miso_data, SlaveTypeOK, Events, HandlerPlace, Followed, ClearExact, WriteFollowed, Waiting
<1>5. ASSUME ~raced' PROVE ReadFollowed'
  BY <1>5 DEF set_miso_data, SlaveTypeOK, Events, HandlerPlace, Followed, ClearExact, ReadFollowed, Handled
<1> QED BY <1>1, <1>2, <1>3, <1>4, <1>5 DEF Followed

LEMMA IsrReadInductive == SlaveInv /\ IsrRead => SlaveInv'
<1> SUFFICES ASSUME SlaveInv, IsrRead PROVE SlaveInv'
  OBVIOUS
<1> USE DEF SlaveInv
<1>1. SlaveTypeOK'
  BY DEF IsrRead, SlaveTypeOK, Events, Words
<1>2. HandlerPlace'
  BY DEF IsrRead, SlaveTypeOK, HandlerPlace
<1>3. ASSUME ~raced' PROVE ClearExact'
  BY <1>3 DEF IsrRead, Followed, ClearExact
<1>4. ASSUME ~raced' PROVE WriteFollowed'
  BY <1>4 DEF IsrRead, SlaveTypeOK, Events, HandlerPlace, Followed, ClearExact, WriteFollowed, Waiting
<1>5. ASSUME ~raced' PROVE ReadFollowed'
  BY <1>5 DEF IsrRead, SlaveTypeOK, Events, HandlerPlace, Followed, ClearExact, ReadFollowed, Handled
<1> QED BY <1>1, <1>2, <1>3, <1>4, <1>5 DEF Followed

LEMMA IsrClearInductive == SlaveInv /\ IsrClear => SlaveInv'
<1> SUFFICES ASSUME SlaveInv, IsrClear PROVE SlaveInv'
  OBVIOUS
<1> USE DEF SlaveInv
<1>1. SlaveTypeOK'
  BY DEF IsrClear, SlaveTypeOK, Events, Words
<1>2. HandlerPlace'
  BY DEF IsrClear, SlaveTypeOK, HandlerPlace
<1>3. ASSUME ~raced' PROVE ClearExact'
  BY <1>3 DEF IsrClear, Followed, ClearExact
<1>4. ASSUME ~raced' PROVE WriteFollowed'
  BY <1>4 DEF IsrClear, SlaveTypeOK, Events, HandlerPlace, Followed, ClearExact, WriteFollowed, Waiting
<1>5. ASSUME ~raced' PROVE ReadFollowed'
  BY <1>5 DEF IsrClear, SlaveTypeOK, Events, HandlerPlace, Followed, ClearExact, ReadFollowed, Handled
<1> QED BY <1>1, <1>2, <1>3, <1>4, <1>5 DEF Followed

LEMMA IsrBusyInductive == SlaveInv /\ IsrBusy => SlaveInv'
<1> SUFFICES ASSUME SlaveInv, IsrBusy PROVE SlaveInv'
  OBVIOUS
<1> USE DEF SlaveInv
<1>1. SlaveTypeOK'
  BY DEF IsrBusy, SlaveTypeOK, Events, Words
<1>2. HandlerPlace'
  <2>1. wrReady' = 0 /\ isr' = "copy" /\ "wr" \in status'
    BY DEF IsrBusy, HandlerPlace
  <2>2. idx' = 1
    BY DEF IsrBusy
  <2>3. \A w \in Words : ~ w < idx'
    BY <2>2 DEF Words
  <2> QED BY <2>1, <2>3 DEF HandlerPlace
<1>3. ASSUME ~raced' PROVE ClearExact'
  BY <1>3 DEF IsrBusy, Followed, ClearExact
<1>4. ASSUME ~raced' PROVE WriteFollowed'
  BY <1>4 DEF IsrBusy, SlaveTypeOK, Events, HandlerPlace, Followed, ClearExact, WriteFollowed, Waiting
<1>5. ASSUME ~raced' PROVE ReadFollowed'
  BY <1>5 DEF IsrBusy, SlaveTypeOK, Events, HandlerPlace, Followed, ClearExact, ReadFollowed, Handled
<1> QED BY <1>1, <1>2, <1>3, <1>4, <1>5 DEF Followed

LEMMA IsrCopyInductive == SlaveInv /\ IsrCopy => SlaveInv'
<1> SUFFICES ASSUME SlaveInv, IsrCopy PROVE SlaveInv'
  OBVIOUS
<1> USE DEF SlaveInv
<1>1. SlaveTypeOK'
  BY DEF IsrCopy, SlaveTypeOK, Events, Words
<1>2. HandlerPlace'
  <2>1. wrReady' = wrReady /\ isr' = isr /\ status' = status /\ written' = written
    BY DEF IsrCopy
  <2>2. isr = "copy" /\ idx \in Words /\ spi_data \in [Words -> Nat] /\ inBuf[idx] = written
    BY SpiSlaveOK DEF IsrCopy, SlaveTypeOK, Words
  <2>3. spi_data' = [spi_data EXCEPT ![idx] = written] /\ idx' = idx + 1
    BY <2>2 DEF IsrCopy
  <2>4. \A w \in Words : w < idx + 1 => w = idx \/ w < idx
    BY <2>2, SpiSlaveOK DEF Words
  <2>5. \A w \in Words : w < idx' => spi_data'[w] = written
    BY <2>2, <2>3, <2>4 DEF HandlerPlace
  <2> QED BY <2>1, <2>5 DEF HandlerPlace
<1>3. ASSUME ~raced' PROVE ClearExact'
  BY <1>3 DEF IsrCopy, Followed, ClearExact
<1>4. ASSUME ~raced' PROVE WriteFollowed'
  BY <1>4 DEF IsrCopy, SlaveTypeOK, Events, HandlerPlace, Followed, ClearExact, WriteFollowed, Waiting
<1>5. ASSUME ~raced' PROVE ReadFollowed'
  BY <1>5 DEF IsrCopy, SlaveTypeOK, Events, HandlerPlace, Followed, ClearExact, ReadFollowed, Handled
<1> QED BY <1>1, <1>2, <1>3, <1>4, <1>5 DEF Followed

LEMMA IsrCopiedInductive == SlaveInv /\ IsrCopied => SlaveInv'
<1> SUFFICES ASSUME SlaveInv, IsrCopied PROVE SlaveInv'
  OBVIOUS
<1> USE DEF SlaveInv
<1>1. SlaveTypeOK'
  BY DEF IsrCopied, SlaveTypeOK, Events, Words
<1>2. HandlerPlace'
  BY DEF IsrCopied, SlaveTypeOK, HandlerPlace
<1>3. ASSUME ~raced' PROVE ClearExact'
  BY <1>3 DEF IsrCopied, Followed, ClearExact
<1>4. ASSUME ~raced' PROVE WriteFollowed'
  <2>1. isr = "copy" /\ isr' = "read" /\ "wr" \in status /\ ~raced
    BY <1>4 DEF IsrCopied, HandlerPlace
  <2>2. Waiting("wr") /\ (Waiting("wr")' <=> "wr" \in flags)
    BY <2>1 DEF IsrCopied, Waiting
  <2>3. \A w \in Words : spi_data[w] = written
    BY <2>1, SpiSlaveOK DEF IsrCopied, SlaveTypeOK, HandlerPlace, Words
  <2>4. 1 \in Words /\ Whole(spi_data)
    BY <2>3, SpiSlaveOK DEF Words, Whole
  <2>5. copied' = copied \cup {written}
    BY <2>3, <2>4 DEF IsrCopied
  <2>6. UNCHANGED <<spi_data, written, hasty>>
    BY DEF IsrCopied
  <2>7. ~hasty => "wr" \notin flags
    BY <2>1 DEF Followed, WriteFollowed
  <2>8. ~hasty => written # 0 /\ copied = 1 .. (written - 1)
    BY <2>1, <2>2 DEF Followed, WriteFollowed
  <2>9. ~hasty => copied' = 1 .. written
    BY <2>5, <2>8, OneMore DEF SlaveTypeOK
  <2>10. isr' \notin {"busy", "copy"} /\ (~hasty' => ~Waiting("wr")')
    BY <2>1, <2>2, <2>6, <2>7
  <2>11. (\A w \in Words : spi_data[w] = written)' /\ (~hasty' => copied' = 1 .. written')
    BY <2>3, <2>6, <2>9
  <2> QED BY <2>10, <2>11 DEF WriteFollowed
<1>5. ASSUME ~raced' PROVE ReadFollowed'
  BY <1>5 DEF IsrCopied, SlaveTypeOK, Events, HandlerPlace, Followed, ClearExact, ReadFollowed, Handled
<1> QED BY <1>1, <1>2, <1>3, <1>4, <1>5 DEF Followed

LEMMA IsrEndInductive == SlaveInv /\ IsrEnd => SlaveInv'
<1> SUFFICES ASSUME SlaveInv, IsrEnd PROVE SlaveInv'
  OBVIOUS
<1> USE DEF SlaveInv
<1>1. SlaveTypeOK'
  BY DEF IsrEnd, SlaveTypeOK, Events, Words
<1>2. HandlerPlace'
  BY DEF IsrEnd, SlaveTypeOK, HandlerPlace
<1>3. ASSUME ~raced' PROVE ClearExact'
  BY <1>3 DEF IsrEnd, Followed, ClearExact
<1>4. ASSUME ~raced' PROVE WriteFollowed'
  BY <1>4 DEF IsrEnd, SlaveTypeOK, Events, HandlerPlace, Followed, ClearExact, WriteFollowed, Waiting
<1>5. ASSUME ~raced' PROVE ReadFollowed'
  BY <1>5 DEF IsrEnd, SlaveTypeOK, Events, HandlerPlace, Followed, ClearExact, ReadFollowed, Handled
<1> QED BY <1>1, <1>2, <1>3, <1>4, <1>5 DEF Followed

LEMMA SlaveStepInductive == SlaveInv /\ [SlaveNext]_slaveVars => SlaveInv'
<1>1. SlaveInv /\ UNCHANGED slaveVars => SlaveInv'
  BY DEF slaveVars, SlaveInv, SlaveTypeOK, HandlerPlace, Followed, ClearExact, WriteFollowed,
         ReadFollowed, Waiting, Handled
<1> QED BY <1>1, MasterWritesInductive, MasterReadsInductive, set_miso_dataInductive,
           IsrReadInductive, IsrClearInductive, IsrBusyInductive, IsrCopyInductive,
           IsrCopiedInductive, IsrEndInductive DEF SlaveNext

(* The invariant above, for a buffer of any size.                            *)
THEOREM SlaveInductive == SlaveSpec => []SlaveInv
  BY SlaveInitInductive, SlaveStepInductive, PTL DEF SlaveSpec

(* The handler and the lines keep the exchange exact for every buffer and    *)
(* any number of packets: the last packet is whole in spi_data, none is      *)
(* lost before it and none withdrawn unread, within what ExchangeExact says. *)
THEOREM ExchangeAlwaysExact == SlaveSpec => []ExchangeExact
<1>1. SlaveInv => ExchangeExact
  <2> SUFFICES ASSUME SlaveInv, isr = "off", flags = {}, ~raced
               PROVE  ExchangeExact
    BY DEF ExchangeExact
  <2>1. ~Waiting("wr") /\ ~Handled("rd")
    BY DEF Waiting, Handled
  <2>2. \A w \in Words : spi_data[w] = written
    BY <2>1 DEF SlaveInv, Followed, WriteFollowed
  <2>3. Whole(spi_data) /\ spi_data[1] = written
    BY <2>2, SpiSlaveOK DEF Whole, Words
  <2>4. wrReady = 1 /\ enabled = Events
    BY DEF SlaveInv, SlaveTypeOK, HandlerPlace
  <2>5. taken = outBuf /\ outBuf # 0 => rdReady = 0
    BY <2>1 DEF SlaveInv, Followed, ReadFollowed
  <2>6. ~hasty => copied = 1 .. written /\ (rdReady = 0 => taken = outBuf)
    BY <2>1 DEF SlaveInv, Followed, WriteFollowed, ReadFollowed
  <2> QED BY <2>3, <2>4, <2>5, <2>6 DEF ExchangeExact
<1> QED BY <1>1, SlaveInductive, PTL

-----------------------------------------------------------------------------
\* The device timers.

\* A list the server may send, as long as it likes.
GoodList(l) ==
  l \in Seq(Timers) /\ \A i \in 1 .. Len(l) : l[i].kind = "w" => l[i].at <= Week

\* What device_timer and the frame on the stack can hold.
Alarms == [call : {"check", "act"}, at : Int]
Frames == [due : SUBSET Nat, known : BOOLEAN, count : Nat, backup : Int]

TimerTypeOK ==
  /\ now \in Nat /\ timestamp \in Nat /\ minWait \in Nat /\ since \in Nat
  /\ GoodList(list)
  /\ armed = Off \/ armed \in Alarms
  /\ frame \in Frames
  /\ lost \in BOOLEAN /\ stale \in BOOLEAN

\* m is the least wait of the list at clock ts, or BigWait.
LeastWait(m, l, ts) ==
  /\ m \in Nat
  /\ m = BigWait \/ \E i \in 1 .. Len(l) : Wait(l[i], ts) = m
  /\ \A i \in 1 .. Len(l) : Wait(l[i], ts) >= 0 => m <= Wait(l[i], ts)

\* What the frame and the clock say of the armed timer.
ArmedGood ==
  /\ minWait > 0 /\ LeastWait(minWait, list, timestamp)
  /\ timestamp = since /\ Deadline = timestamp + minWait
  /\ now <= armed.at /\ (armed.call = "check" => frame.backup >= 0)
  /\ frame.count = Len(list)
  /\ frame.due = {i \in 1 .. Len(list) : Wait(list[i], timestamp) = minWait}
  /\ frame.known = (\A i \in frame.due : list[i].known)

TimersGood == ~lost /\ ~stale => IF armed = Off THEN ~Periodic ELSE ArmedGood

TimerInv == TimerTypeOK /\ TimersGood
-----------------------------------------------------------------------------
\* Of any numbers there is a least, and Min is it.
LEMMA LeastNumber ==
  ASSUME NEW S, S \subseteq Nat, S # {}
  PROVE  Min(S) \in S /\ \A y \in S : Min(S) <= y
<1>1. PICK x \in S : \A y \in S : ~(<<y, x>> \in OpToRel(<, Nat))
  BY NatLessThanWellFounded, WFMin
<1>2. \A y \in S : x <= y
  <2> SUFFICES ASSUME NEW y \in S PROVE ~(y < x)
    OBVIOUS
  <2>1. x \in Nat /\ y \in Nat
    OBVIOUS
  <2>2. y < x => <<y, x>> \in OpToRel(<, Nat)
    BY <2>1 DEF OpToRel
  <2> QED BY <1>1, <2>2
<1> QED BY <1>2 DEF Min

\* Remainders.
LEMMA ModuloOfSum ==
  ASSUME NEW a \in Nat \ {0}, NEW q \in Int, NEW r \in 0 .. a - 1
  PROVE  (a * q + r) % a = r
  OBVIOUS

\* A remainder, kept folded in what follows: the provers do the rest with sums alone.
Modulo(x, a) == x % a

LEMMA ModuloMoves ==
  ASSUME NEW a \in Nat \ {0}, NEW x \in Int, NEW k \in Int
  PROVE  /\ Modulo(x, a) \in 0 .. a - 1
         /\ Modulo(x + k, a) = Modulo(Modulo(x, a) + k, a)
<1> DEFINE q == x \div a
           r == x % a
           p == (r + k) \div a
           s == (r + k) % a
<1>1. q \in Int /\ r \in 0 .. a - 1 /\ x = a * q + r
  OBVIOUS
<1> HIDE DEF q, r
<1>2. r + k \in Int
  BY <1>1
<1>3. p \in Int /\ s \in 0 .. a - 1 /\ r + k = a * p + s
  BY <1>2
<1> HIDE DEF p, s
<1>4. x + k = a * (q + p) + s /\ q + p \in Int
  BY <1>1, <1>3
<1>5. (x + k) % a = s
  BY <1>3, <1>4, ModuloOfSum
<1> QED BY <1>1, <1>5 DEF r, s, Modulo

\* One revolution further.
LEMMA ModuloNear ==
  ASSUME NEW a \in Nat \ {0}, NEW x \in 0 .. 2 * a - 1
  PROVE  Modulo(x, a) = IF x < a THEN x ELSE x - a
  BY DEF Modulo

\* What is left of a loop, and of a week, ends exactly at the next moment due.
LEMMA LoopWait ==
  ASSUME NEW a \in Nat \ {0}, NEW x \in Int, NEW k \in Nat \ {0}, k <= a - Modulo(x, a)
  PROVE  Modulo(x + k, a) = 0 <=> k = a - Modulo(x, a)
<1> DEFINE r == Modulo(x, a)
           y == r + k
<1>1. r \in 0 .. a - 1 /\ Modulo(x + k, a) = Modulo(y, a)
  <2>1. k \in Int
    OBVIOUS
  <2> QED BY <2>1, ModuloMoves, Zenon
<1>2. y \in 1 .. a /\ y \in 0 .. 2 * a - 1
  BY <1>1
<1> HIDE DEF r, y
<1>3. Modulo(y, a) = IF y < a THEN y ELSE y - a
  BY <1>2, ModuloNear
<1>4. Modulo(y, a) = 0 <=> r + k = a
  BY <1>1, <1>2, <1>3 DEF y
<1> QED BY <1>1, <1>4 DEF r

LEMMA WeekWait ==
  ASSUME NEW a \in Nat \ {0}, NEW due \in 1 .. a, NEW x \in Int, NEW k \in Nat \ {0}, NEW w,
         due > Modulo(x, a) => w = due - Modulo(x, a),
         ~(due > Modulo(x, a)) => w = a - Modulo(x, a) + due,
         k <= w
  PROVE  Modulo(x + k, a) = Modulo(due, a) <=> k = w
<1> DEFINE r == Modulo(x, a)
           y == r + k
<1>1. r \in 0 .. a - 1 /\ Modulo(x + k, a) = Modulo(y, a)
  <2>1. k \in Int
    OBVIOUS
  <2> QED BY <2>1, ModuloMoves, Zenon
<1>2. y \in 1 .. 2 * a - 1 /\ y \in 0 .. 2 * a - 1 /\ due \in 0 .. 2 * a - 1
  BY <1>1
<1> HIDE DEF r, y
<1>3. Modulo(y, a) = (IF y < a THEN y ELSE y - a) /\ Modulo(due, a) = (IF due < a THEN due ELSE due - a)
  BY <1>2, ModuloNear
<1>4. w = IF due > r THEN due - r ELSE a - r + due
  BY DEF r
<1>5. Modulo(y, a) = Modulo(due, a) <=> k = w
  BY <1>1, <1>2, <1>3, <1>4 DEF y
<1> QED BY <1>1, <1>5

\* Wait, one equation for each kind of timer.
LEMMA WaitOf ==
  ASSUME NEW t \in Timers, NEW ts \in Int
  PROVE  /\ t.at \in Nat \ {0} /\ t.kind \in {"f", "l", "w"} /\ ts - Monday \in Int
         /\ Week \in Nat \ {0} /\ Monday \in Int /\ BigWait \in Nat \ {0} /\ Hour \in Nat \ {0}
         /\ t.kind = "f" => Wait(t, ts) = t.at - ts
         /\ t.kind = "l" => Wait(t, ts) = t.at - Modulo(ts, t.at)
         /\ t.kind = "w" =>
              Wait(t, ts) = IF t.at > Modulo(ts - Monday, Week)
                            THEN t.at - Modulo(ts - Monday, Week)
                            ELSE Week - Modulo(ts - Monday, Week) + t.at
<1>1. /\ t.at \in Nat \ {0} /\ t.kind \in {"f", "l", "w"} /\ Week \in Nat \ {0} /\ Monday \in Int
      /\ BigWait \in Nat \ {0} /\ Hour \in Nat \ {0}
  BY DeviceTimerOK DEF Timers
<1>2. t.kind = "f" => Wait(t, ts) = t.at - ts
  BY DEF Wait
<1>3. t.kind = "l" => Wait(t, ts) = t.at - Modulo(ts, t.at)
  BY DEF Wait, Modulo
<1>4. t.kind = "w" => Wait(t, ts) = IF t.at > Modulo(ts - Monday, Week)
                                    THEN t.at - Modulo(ts - Monday, Week)
                                    ELSE Week - Modulo(ts - Monday, Week) + t.at
  BY DEF Wait, Modulo
<1> QED BY <1>1, <1>2, <1>3, <1>4

\* A wait is a whole number of seconds, and only that of a fixed time can be 0 or past.
LEMMA WaitType ==
  ASSUME NEW t \in Timers, NEW ts \in Int
  PROVE  Wait(t, ts) \in Int /\ (t.kind # "f" => Wait(t, ts) > 0)
<1>1. CASE t.kind = "f"
  BY <1>1, WaitOf
<1>2. CASE t.kind = "l"
  <2>1. Modulo(ts, t.at) \in 0 .. t.at - 1
    BY WaitOf, ModuloMoves
  <2> QED BY <1>2, <2>1, WaitOf
<1>3. CASE t.kind = "w"
  <2>1. Modulo(ts - Monday, Week) \in 0 .. Week - 1
    BY WaitOf, ModuloMoves
  <2> QED BY <1>3, <2>1, WaitOf
<1> QED BY <1>1, <1>2, <1>3, WaitOf

\* The wait of a timer, where no other is shorter, ends when it is due and not before.
LEMMA WaitExact ==
  ASSUME NEW t \in Timers, t.kind = "w" => t.at <= Week, NEW ts \in Int, NEW k \in Nat \ {0},
         Wait(t, ts) >= 0 => k <= Wait(t, ts)
  PROVE  DueAt(t, ts + k) <=> Wait(t, ts) = k
<1>1. Wait(t, ts) \in Int /\ (t.kind # "f" => k <= Wait(t, ts))
  BY WaitType
<1>2. CASE t.kind = "f"
  BY <1>2, WaitOf DEF DueAt
<1>3. CASE t.kind = "l"
  <2>1. Modulo(ts + k, t.at) = 0 <=> k = t.at - Modulo(ts, t.at)
    BY <1>1, <1>3, WaitOf, LoopWait
  <2>2. DueAt(t, ts + k) <=> Modulo(ts + k, t.at) = 0
    BY <1>3 DEF DueAt, Modulo
  <2> QED BY <1>3, <2>1, <2>2, WaitOf
<1>4. CASE t.kind = "w"
  <2>1. t.at \in 1 .. Week
    BY <1>4, WaitOf
  <2>2. Modulo((ts - Monday) + k, Week) = Modulo(t.at, Week) <=> k = Wait(t, ts)
    <3> DEFINE x == ts - Monday
               w == Wait(t, ts)
    <3>1. /\ x \in Int /\ k <= w
          /\ t.at > Modulo(x, Week) => w = t.at - Modulo(x, Week)
          /\ ~(t.at > Modulo(x, Week)) => w = Week - Modulo(x, Week) + t.at
      BY <1>1, <1>4, WaitOf
    <3>2. Week \in Nat \ {0}
      BY WaitOf
    <3> HIDE DEF x, w
    <3>3. Modulo(x + k, Week) = Modulo(t.at, Week) <=> k = w
      BY <2>1, <3>1, <3>2, WeekWait
    <3> QED BY <3>3 DEF x, w
  <2>3. (ts + k) - Monday = (ts - Monday) + k
    BY WaitOf
  <2>4. DueAt(t, ts + k) <=> Modulo((ts + k) - Monday, Week) = Modulo(t.at, Week)
    BY <1>4 DEF DueAt, Modulo
  <2> QED BY <2>2, <2>3, <2>4
<1> QED BY <1>2, <1>3, <1>4, WaitOf

-----------------------------------------------------------------------------
\* esp_platform_find_min_time finds the least of the candidates that are not past.
LEMMA MinTimeLeast ==
  ASSUME GoodList(list'), NEW n \in Nat, n <= Len(list'), NEW ts \in Nat
  PROVE  /\ MinTime(n, ts) \in Nat
         /\ MinTime(n, ts) = BigWait \/ \E i \in 1 .. n : Wait(list'[i], ts) = MinTime(n, ts)
         /\ \A i \in 1 .. n : Wait(list'[i], ts) >= 0 => MinTime(n, ts) <= Wait(list'[i], ts)
<1> DEFINE candidates == {Wait(list'[i], ts) : i \in {j \in 1 .. n : Wait(list'[j], ts) >= 0}}
<1>1. ASSUME NEW i \in 1 .. n PROVE Wait(list'[i], ts) \in Int
  <2>1. i \in 1 .. Len(list') /\ list' \in Seq(Timers)
    BY LenProperties DEF GoodList
  <2>2. list'[i] \in Timers
    BY <2>1, ElementOfSeq
  <2> QED BY <2>2, WaitType
<1>2. candidates \subseteq Nat
  BY <1>1
<1>3. BigWait \in Nat
  BY DeviceTimerOK
<1>4. {BigWait} \cup candidates \subseteq Nat /\ {BigWait} \cup candidates # {}
  BY <1>2, <1>3
<1>5. MinTime(n, ts) = Min({BigWait} \cup candidates)
  BY DEF MinTime
<1>6. \A i \in 1 .. n : Wait(list'[i], ts) >= 0 => Wait(list'[i], ts) \in candidates
  OBVIOUS
<1>7. \A w \in candidates : \E i \in 1 .. n : Wait(list'[i], ts) = w
  OBVIOUS
<1> HIDE DEF candidates
<1>8. /\ Min({BigWait} \cup candidates) \in {BigWait} \cup candidates
      /\ \A y \in {BigWait} \cup candidates : Min({BigWait} \cup candidates) <= y
  BY <1>4, LeastNumber
<1> QED BY <1>3, <1>4, <1>5, <1>6, <1>7, <1>8

\* A step of at most an hour, and the rest of the wait kept in the frame.
LEMMA OverflowCheckCounts ==
  ASSUME NEW f \in Frames, OverflowCheck(f), now \in Nat
  PROVE  /\ armed' \in Alarms /\ armed' # Off /\ frame' \in Frames
         /\ frame'.due = f.due /\ frame'.known = f.known /\ frame'.count = f.count
         /\ f.backup >= 0 => /\ Deadline' = now + f.backup /\ now <= armed'.at
                             /\ (armed'.call = "check" => frame'.backup >= 0)
<1>1. Hour \in Nat \ {0} /\ f.backup \in Int
  BY DeviceTimerOK DEF Frames
<1>2. frame' = [f EXCEPT !.backup = f.backup - Hour]
  BY DEF OverflowCheck
<1>3. /\ frame' \in Frames /\ frame'.due = f.due /\ frame'.known = f.known /\ frame'.count = f.count
      /\ frame'.backup = f.backup - Hour
  BY <1>1, <1>2 DEF Frames
<1>4. CASE f.backup >= Hour
  <2>1. armed' = [call |-> "check", at |-> now + Hour]
    BY <1>4 DEF OverflowCheck
  <2> QED BY <1>1, <1>3, <1>4, <2>1 DEF Alarms, Off, Deadline
<1>5. CASE ~(f.backup >= Hour)
  <2>1. armed' = [call |-> "act", at |-> now + f.backup]
    BY <1>5 DEF OverflowCheck
  <2> QED BY <1>1, <1>3, <1>5, <2>1 DEF Alarms, Off, Deadline
<1> QED BY <1>4, <1>5

\* user_platform_timer_first_start: types, and for a true count and clock the right timer.
LEMMA FirstStartArms ==
  ASSUME TimerTypeOK, GoodList(list'), now' = now, NEW n \in Nat, n <= Len(list'), NEW ts \in Nat,
         NEW before, before = Off \/ before \in Alarms, FirstStart(n, ts, before)
  PROVE  /\ timestamp' \in Nat /\ minWait' \in Nat /\ since' \in Nat
         /\ (armed' = Off \/ armed' \in Alarms) /\ frame' \in Frames
         /\ minWait' = 0 => armed' = before
         /\ n = Len(list') /\ ts = now =>
              IF minWait' = 0 THEN ~Periodic' ELSE armed' # Off /\ ArmedGood'
<1> DEFINE f == FrameFor(n, ts)
<1>1. now \in Nat /\ frame \in Frames /\ BigWait \in Nat \ {0}
  BY DeviceTimerOK DEF TimerTypeOK
<1>2. timestamp' = ts /\ minWait' = MinTime(n, ts) /\ since' = now
  BY DEF FirstStart
<1>3. /\ minWait' \in Nat
      /\ minWait' = BigWait \/ \E i \in 1 .. n : Wait(list'[i], ts) = minWait'
      /\ \A i \in 1 .. n : Wait(list'[i], ts) >= 0 => minWait' <= Wait(list'[i], ts)
  BY <1>2, MinTimeLeast
<1>4. CASE minWait' = 0
  <2>1. armed' = before /\ frame' = frame
    BY <1>4 DEF FirstStart
  <2>2. ASSUME n = Len(list') PROVE ~Periodic'
    <3>1. PICK i \in 1 .. n : Wait(list'[i], ts) = 0
      BY <1>1, <1>3, <1>4
    <3>2. i \in 1 .. Len(list') /\ list' \in Seq(Timers)
      BY <2>2 DEF GoodList
    <3>3. list'[i] \in Timers /\ i \in DOMAIN list'
      BY <3>2, ElementOfSeq, LenProperties
    <3>4. list'[i].kind = "f"
      BY <3>1, <3>3, WaitType
    <3> QED BY <3>3, <3>4 DEF Periodic
  <2> QED BY <1>1, <1>2, <1>3, <1>4, <2>1, <2>2
<1>5. CASE minWait' # 0
  <2>1. OverflowCheck(f)
    BY <1>5 DEF FirstStart
  <2>2. /\ f.due = {i \in 1 .. n : Wait(list'[i], ts) = minWait'} /\ f.count = n
        /\ f.known = (\A i \in f.due : list'[i].known) /\ f.backup = minWait'
    BY DEF FrameFor
  <2>3. f \in Frames
    <3>1. f.known \in BOOLEAN
      BY <2>2
    <3>2. {i \in 1 .. n : Wait(list'[i], ts) = minWait'} \in SUBSET Nat
      OBVIOUS
    <3> QED BY <1>3, <3>1, <3>2 DEF FrameFor, Frames
  <2> HIDE DEF f
  <2>4. /\ armed' \in Alarms /\ armed' # Off /\ frame' \in Frames
        /\ frame'.due = f.due /\ frame'.known = f.known /\ frame'.count = f.count
        /\ Deadline' = now + minWait' /\ now <= armed'.at
        /\ (armed'.call = "check" => frame'.backup >= 0)
    <3>1. f.backup >= 0 /\ f.backup = minWait'
      BY <1>3, <2>2
    <3>2. now \in Nat
      BY <1>1
    <3>3. /\ armed' \in Alarms /\ armed' # Off /\ frame' \in Frames
          /\ frame'.due = f.due /\ frame'.known = f.known /\ frame'.count = f.count
          /\ Deadline' = now + f.backup /\ now <= armed'.at
          /\ (armed'.call = "check" => frame'.backup >= 0)
      BY <2>1, <2>3, <3>1, <3>2, OverflowCheckCounts, Zenon
    <3> QED BY <3>1, <3>3
  <2>5. ASSUME n = Len(list'), ts = now PROVE ArmedGood'
    <3>1. minWait' > 0 /\ LeastWait(minWait', list', timestamp')
      BY <1>2, <1>3, <1>5, <2>5 DEF LeastWait
    <3>2. timestamp' = since' /\ Deadline' = timestamp' + minWait'
      BY <1>2, <2>4, <2>5
    <3>3. now' <= armed'.at /\ frame'.count = Len(list')
      BY <2>2, <2>4, <2>5
    <3>4. frame'.due = {i \in 1 .. Len(list') : Wait(list'[i], timestamp') = minWait'}
      BY <1>2, <2>2, <2>4, <2>5
    <3>5. frame'.known = (\A i \in frame'.due : list'[i].known)
      BY <2>2, <2>4
    <3> QED BY <2>4, <3>1, <3>2, <3>3, <3>4, <3>5 DEF ArmedGood, LeastWait, Wait
  <2> QED BY <1>1, <1>2, <1>3, <1>5, <2>4, <2>5
<1> QED BY <1>4, <1>5

-----------------------------------------------------------------------------
LEMMA EmptyListGood == GoodList(<<>>)
  BY DEF GoodList

LEMMA TimerInitInductive == TimerInit => TimerInv
<1> SUFFICES ASSUME TimerInit PROVE TimerInv
  OBVIOUS
<1>1. Monday \in Nat
  BY DeviceTimerOK
<1>2. frame \in Frames
  <2>1. {} \in SUBSET Nat /\ TRUE \in BOOLEAN
    OBVIOUS
  <2> QED BY <2>1 DEF TimerInit, NoFrame, Frames
<1>3. TimerTypeOK
  BY <1>1, <1>2, EmptyListGood DEF TimerInit, TimerTypeOK
<1>4. TimersGood
  BY DEF TimerInit, TimersGood, Periodic
<1> QED BY <1>3, <1>4 DEF TimerInv

LEMMA TimersMsgInductive == \A new \in Lists : TimerInv /\ TimersMsg(new) => TimerInv'
<1> SUFFICES ASSUME NEW new \in Lists, TimerInv, TimersMsg(new) PROVE TimerInv'
  OBVIOUS
<1>1. list' = new /\ lost' = (stale' /\ lost) /\ now' = now
  BY DEF TimersMsg
<1>2. GoodList(new) /\ GoodList(list')
  BY <1>1, DeviceTimerOK, LenProperties DEF GoodList
<1>3. TimerTypeOK /\ now \in Nat /\ frame \in Frames
  BY DEF TimerInv, TimerTypeOK
<1>4. CASE new = <<>>
  <2>1. /\ armed' = Off /\ timestamp' = now /\ minWait' = 0 /\ since' = now /\ stale' = FALSE
        /\ frame' = frame
    BY <1>4 DEF TimersMsg
  <2>2. TimerTypeOK'
    BY <1>1, <1>2, <1>3, <2>1 DEF TimerTypeOK, GoodList
  <2>3. ~Periodic'
    BY <1>1, <1>4 DEF Periodic
  <2> QED BY <2>1, <2>2, <2>3 DEF TimerInv, TimersGood
<1>5. CASE new # <<>>
  <2>1. FirstStart(Len(new), now, armed) /\ stale' = (minWait' = 0 /\ armed # Off)
    BY <1>5 DEF TimersMsg
  <2>2. Len(new) \in Nat /\ Len(new) = Len(list') /\ Len(new) <= Len(list')
    BY <1>1, <1>2, LenProperties DEF GoodList
  <2>3. armed = Off \/ armed \in Alarms
    BY <1>3 DEF TimerTypeOK
  <2>4. /\ timestamp' \in Nat /\ minWait' \in Nat /\ since' \in Nat
        /\ (armed' = Off \/ armed' \in Alarms) /\ frame' \in Frames
        /\ minWait' = 0 => armed' = armed
        /\ IF minWait' = 0 THEN ~Periodic' ELSE armed' # Off /\ ArmedGood'
    BY <1>1, <1>2, <1>3, <2>1, <2>2, <2>3, FirstStartArms
  <2>5. stale' \in BOOLEAN /\ (~stale' => ~lost') /\ lost' \in BOOLEAN
    BY <1>1, <2>1
  <2>6. TimerTypeOK'
    BY <1>1, <1>2, <1>3, <2>4, <2>5 DEF TimerTypeOK, GoodList
  <2>7. TimersGood'
    BY <2>1, <2>4 DEF TimersGood
  <2> QED BY <2>6, <2>7 DEF TimerInv
<1> QED BY <1>4, <1>5

LEMMA TimersMsgNoListInductive == TimerInv /\ TimersMsgNoList => TimerInv'
<1> SUFFICES ASSUME TimerInv, TimersMsgNoList PROVE TimerInv'
  OBVIOUS
<1>1. /\ list' = <<>> /\ minWait' = 0 /\ timestamp' \in {timestamp, now} /\ since' = now
      /\ stale' = (armed # Off) /\ UNCHANGED <<now, armed, frame, lost>>
  BY DEF TimersMsgNoList
<1>2. stale' \in BOOLEAN
  BY <1>1
<1>3. TimerTypeOK'
  BY <1>1, <1>2, EmptyListGood DEF TimerInv, TimerTypeOK, GoodList
<1>4. ~stale' => armed' = Off /\ ~Periodic'
  BY <1>1 DEF Periodic
<1> QED BY <1>3, <1>4 DEF TimerInv, TimersGood

LEMMA CrashInductive == TimerInv /\ Crash => TimerInv'
<1> SUFFICES ASSUME TimerInv, Crash PROVE TimerInv'
  OBVIOUS
<1>1. frame' \in Frames
  <2>1. {} \in SUBSET Nat /\ TRUE \in BOOLEAN
    OBVIOUS
  <2> QED BY <2>1 DEF Crash, NoFrame, Frames
<1>2. TimerTypeOK'
  BY <1>1, EmptyListGood DEF Crash, TimerInv, TimerTypeOK, GoodList
<1>3. TimersGood'
  BY DEF Crash, TimersGood, Periodic
<1> QED BY <1>2, <1>3 DEF TimerInv

LEMMA GivesUpInductive ==
  TimerInv /\ armed # Off /\ GivesUp /\ (lost \/ ~frame.known) => TimerInv'
<1> SUFFICES ASSUME TimerInv, armed # Off, GivesUp, lost \/ ~frame.known PROVE TimerInv'
  OBVIOUS
<1>1. armed' = Off /\ UNCHANGED <<now, list, timestamp, minWait, frame, since, lost, stale>>
  BY DEF GivesUp
<1>2. TimerTypeOK'
  BY <1>1 DEF TimerInv, TimerTypeOK, GoodList
<1>3. ASSUME ~lost, ~stale PROVE ~Periodic'
  <2>1. ArmedGood /\ ~frame.known
    BY <1>3 DEF TimerInv, TimersGood
  <2>2. PICK i \in 1 .. Len(list) : ~list[i].known
    BY <2>1 DEF ArmedGood
  <2>3. i \in DOMAIN list
    BY LenProperties DEF TimerInv, TimerTypeOK, GoodList
  <2> QED BY <1>1, <2>2, <2>3 DEF Periodic
<1>4. TimersGood'
  BY <1>1, <1>3 DEF TimersGood
<1> QED BY <1>2, <1>4 DEF TimerInv

\* A count that is not the list's arms something, or restarts the module; the count of
\* a frame that survived is the list's.
LEMMA RestartedInductive ==
  ASSUME TimerInv, NEW n \in Nat, Restarted(n),
         ~lost /\ ~stale => n = Len(list) /\ timestamp + minWait = now
  PROVE  TimerInv'
<1>1. CASE n > Len(list) /\ Crash
  BY <1>1, CrashInductive
<1>2. CASE ~(n > Len(list) /\ Crash)
  <2>1. /\ n <= Len(list) /\ list' = list /\ FirstStart(n, timestamp + minWait, Off)
        /\ UNCHANGED <<now, lost, stale>>
    BY <1>2 DEF Restarted
  <2>2. TimerTypeOK /\ GoodList(list') /\ timestamp + minWait \in Nat /\ n <= Len(list')
    BY <2>1 DEF TimerInv, TimerTypeOK
  <2>3. /\ timestamp' \in Nat /\ minWait' \in Nat /\ since' \in Nat
        /\ (armed' = Off \/ armed' \in Alarms) /\ frame' \in Frames
        /\ minWait' = 0 => armed' = Off
        /\ n = Len(list') /\ timestamp + minWait = now =>
             IF minWait' = 0 THEN ~Periodic' ELSE armed' # Off /\ ArmedGood'
    BY <2>1, <2>2, FirstStartArms
  <2>4. TimerTypeOK'
    BY <2>1, <2>2, <2>3 DEF TimerTypeOK, GoodList
  <2>5. TimersGood'
    BY <2>1, <2>3 DEF TimersGood
  <2> QED BY <2>4, <2>5 DEF TimerInv
<1> QED BY <1>1, <1>2

LEMMA DeviceActionInductive == TimerInv /\ DeviceAction => TimerInv'
<1> SUFFICES ASSUME TimerInv, DeviceAction PROVE TimerInv'
  OBVIOUS
<1>1. armed = [call |-> "act", at |-> now] /\ armed # Off
  BY DEF DeviceAction, Off
<1>2. CASE GivesUp /\ (lost \/ ~frame.known)
  BY <1>1, <1>2, GivesUpInductive
<1>3. CASE lost /\ \E n \in 0 .. Len(list) + 1 : Restarted(n)
  <2>1. PICK n \in 0 .. Len(list) + 1 : Restarted(n)
    BY <1>3
  <2>2. n \in Nat
    OBVIOUS
  <2> QED BY <1>3, <2>1, <2>2, RestartedInductive
<1>4. CASE ~lost /\ Restarted(frame.count)
  <2>1. frame.count \in Nat
    BY DEF TimerInv, TimerTypeOK, Frames
  <2>2. ASSUME ~stale PROVE frame.count = Len(list) /\ timestamp + minWait = now
    <3>1. ArmedGood
      BY <1>1, <1>4, <2>2 DEF TimerInv, TimersGood
    <3> QED BY <1>1, <3>1 DEF ArmedGood, Deadline
  <2> QED BY <1>4, <2>1, <2>2, RestartedInductive
<1> QED BY <1>2, <1>3, <1>4 DEF DeviceAction

LEMMA CheckAgainInductive == TimerInv /\ CheckAgain => TimerInv'
<1> SUFFICES ASSUME TimerInv, CheckAgain PROVE TimerInv'
  OBVIOUS
<1>1. /\ armed = [call |-> "check", at |-> now] /\ armed # Off
      /\ UNCHANGED <<now, list, timestamp, minWait, since, lost, stale>>
  BY DEF CheckAgain, Off
<1>2. TimerTypeOK /\ now \in Nat /\ frame \in Frames
  BY DEF TimerInv, TimerTypeOK
<1>3. PICK f \in Frames : OverflowCheck(f) /\ (~lost => f = frame)
  <2>1. CASE lost
    <3>1. PICK b \in {0, 1, Hour} : OverflowCheck([frame EXCEPT !.backup = b])
      BY <2>1 DEF CheckAgain
    <3>2. [frame EXCEPT !.backup = b] \in Frames
      BY <1>2, DeviceTimerOK DEF Frames
    <3> QED BY <2>1, <3>1, <3>2
  <2>2. CASE ~lost
    BY <1>2, <2>2 DEF CheckAgain
  <2> QED BY <2>1, <2>2
<1>4. /\ armed' \in Alarms /\ armed' # Off /\ frame' \in Frames
      /\ frame'.due = f.due /\ frame'.known = f.known /\ frame'.count = f.count
      /\ f.backup >= 0 => /\ Deadline' = now + f.backup /\ now <= armed'.at
                          /\ (armed'.call = "check" => frame'.backup >= 0)
  BY <1>2, <1>3, OverflowCheckCounts, Zenon
<1>5. TimerTypeOK'
  BY <1>1, <1>2, <1>4 DEF TimerTypeOK, GoodList
<1>6. ASSUME ~lost, ~stale PROVE ArmedGood'
  <2>1. ArmedGood /\ f = frame
    BY <1>1, <1>3, <1>6 DEF TimerInv, TimersGood
  <2>2. f.backup >= 0 /\ Deadline = now + f.backup
    BY <1>1, <2>1 DEF ArmedGood, Deadline
  <2>3. /\ Deadline' = Deadline /\ now' <= armed'.at
        /\ (armed'.call = "check" => frame'.backup >= 0)
    BY <1>1, <1>4, <2>2
  <2>4. frame'.due = frame.due /\ frame'.known = frame.known /\ frame'.count = frame.count
    BY <1>4, <2>1
  <2>5. Deadline' = timestamp' + minWait'
    BY <1>1, <2>1, <2>3 DEF ArmedGood
  <2> QED BY <1>1, <2>1, <2>3, <2>4, <2>5 DEF ArmedGood, LeastWait, Wait
<1>7. TimersGood'
  BY <1>1, <1>4, <1>6 DEF TimersGood
<1> QED BY <1>5, <1>7 DEF TimerInv

LEMMA ClobberInductive == TimerInv /\ Clobber => TimerInv'
  BY DEF TimerInv, Clobber, TimerTypeOK, TimersGood, GoodList

LEMMA TickInductive == TimerInv /\ Tick => TimerInv'
<1> SUFFICES ASSUME TimerInv, Tick PROVE TimerInv'
  OBVIOUS
<1>1. /\ now' = now + 1 /\ (armed = Off \/ armed.at > now)
      /\ UNCHANGED <<list, timestamp, minWait, armed, frame, since, lost, stale>>
  BY DEF Tick
<1>2. TimerTypeOK'
  BY <1>1 DEF TimerInv, TimerTypeOK, GoodList
<1>3. ASSUME ~lost, ~stale, armed # Off PROVE ArmedGood'
  <2>1. ArmedGood /\ armed \in Alarms /\ now \in Nat
    BY <1>3 DEF TimerInv, TimersGood, TimerTypeOK
  <2>2. now' <= armed'.at /\ Deadline' = Deadline
    BY <1>1, <1>3, <2>1 DEF Alarms, Deadline
  <2> QED BY <1>1, <2>1, <2>2 DEF ArmedGood, LeastWait, Wait
<1>4. Periodic' = Periodic
  BY <1>1 DEF Periodic
<1>5. TimersGood'
  BY <1>1, <1>3, <1>4 DEF TimersGood, TimerInv
<1> QED BY <1>2, <1>5 DEF TimerInv

LEMMA TimerStepInductive == TimerInv /\ [TimerNext]_timerVars => TimerInv'
<1> SUFFICES ASSUME TimerInv, [TimerNext]_timerVars PROVE TimerInv'
  OBVIOUS
<1>1. CASE TimerNext
  BY <1>1, TimersMsgInductive, TimersMsgNoListInductive, DeviceActionInductive, CheckAgainInductive, ClobberInductive,
     TickInductive DEF TimerNext
<1>2. CASE UNCHANGED timerVars
  <2>1. TimerTypeOK'
    BY <1>2 DEF timerVars, TimerInv, TimerTypeOK, GoodList
  <2>2. ArmedGood' = ArmedGood /\ Periodic' = Periodic
    BY <1>2 DEF timerVars, ArmedGood, LeastWait, Wait, Deadline, Periodic
  <2> QED BY <1>2, <2>1, <2>2 DEF timerVars, TimerInv, TimersGood
<1> QED BY <1>1, <1>2

(* The invariant above, for every set of lists, hour and week.               *)
THEOREM TimersInductive == TimerSpec => []TimerInv
  BY TimerInitInductive, TimerStepInductive, PTL DEF TimerSpec

\* What the frame and the clock say is what EarliestArmed says without them.
LEMMA ArmedIsEarliest ==
  ASSUME TimerTypeOK, ArmedGood, minWait # BigWait
  PROVE  EarliestArmed
<1>1. /\ timestamp \in Nat /\ minWait \in Nat \ {0} /\ since = timestamp
      /\ Deadline = timestamp + minWait
      /\ frame.due = {i \in 1 .. Len(list) : Wait(list[i], timestamp) = minWait}
      /\ \A i \in 1 .. Len(list) :
           Wait(list[i], timestamp) >= 0 => minWait <= Wait(list[i], timestamp)
  BY DEF TimerTypeOK, ArmedGood, LeastWait
<1>2. DOMAIN list = 1 .. Len(list) /\ Len(list) \in Nat
  BY LenProperties DEF TimerTypeOK, GoodList
<1>3. ASSUME NEW i \in 1 .. Len(list), NEW k \in 1 .. minWait
      PROVE  DueAt(list[i], timestamp + k) <=> Wait(list[i], timestamp) = k
  <2>1. /\ list[i] \in Timers /\ (list[i].kind = "w" => list[i].at <= Week)
    BY <1>2, ElementOfSeq DEF TimerTypeOK, GoodList
  <2>2. Wait(list[i], timestamp) \in Int
    BY <1>1, <2>1, WaitType
  <2>3. Wait(list[i], timestamp) >= 0 => k <= Wait(list[i], timestamp)
    BY <1>1, <2>2
  <2>4. k \in Nat \ {0} /\ timestamp \in Int
    BY <1>1
  <2> QED BY <2>1, <2>3, <2>4, WaitExact
<1>4. frame.due = {i \in DOMAIN list : DueAt(list[i], Deadline)}
  <2>1. minWait \in 1 .. minWait
    BY <1>1
  <2>2. \A i \in 1 .. Len(list) : DueAt(list[i], Deadline) <=> Wait(list[i], timestamp) = minWait
    BY <1>1, <1>3, <2>1
  <2> QED BY <1>1, <1>2, <2>2
<1>5. ASSUME NEW i \in DOMAIN list, NEW s \in since + 1 .. Deadline - 1 PROVE ~DueAt(list[i], s)
  <2> DEFINE k == s - timestamp
  <2>1. k \in 1 .. minWait /\ k < minWait /\ s = timestamp + k /\ i \in 1 .. Len(list)
    BY <1>1, <1>2
  <2> HIDE DEF k
  <2>2. DueAt(list[i], timestamp + k) <=> Wait(list[i], timestamp) = k
    BY <1>3, <2>1
  <2>3. Wait(list[i], timestamp) # k
    BY <1>1, <2>1
  <2> QED BY <2>1, <2>2, <2>3
<1> QED BY <1>1, <1>4, <1>5 DEF EarliestArmed

(* user_platform_timer_start, user_esp_platform_device_action and the hourly *)
(* check, for lists of any length: while the frame survives, the timer that  *)
(* is armed runs at the first moment one of the list is due, with the        *)
(* actions of all that are due then, and a periodic list never stops.        *)
THEOREM TimersAlwaysOnTime == TimerSpec => []TimersOnTime
<1>1. TimerInv => TimersOnTime
  <2> SUFFICES ASSUME TimerInv, ~lost, ~stale
               PROVE  /\ armed # Off /\ minWait # BigWait => EarliestArmed
                      /\ Periodic => armed # Off /\ Deadline >= now
    BY DEF TimersOnTime
  <2>1. IF armed = Off THEN ~Periodic ELSE ArmedGood
    BY DEF TimerInv, TimersGood
  <2>2. armed # Off /\ minWait # BigWait => EarliestArmed
    BY <2>1, ArmedIsEarliest DEF TimerInv
  <2>3. ASSUME armed # Off PROVE Deadline >= now
    <3>1. /\ now \in Nat /\ armed.at \in Int /\ armed.call \in {"check", "act"}
          /\ frame.backup \in Int
      BY <2>3 DEF TimerInv, TimerTypeOK, Alarms, Frames
    <3> QED BY <2>1, <2>3, <3>1 DEF ArmedGood, Deadline
  <2> QED BY <2>1, <2>2, <2>3
<1> QED BY <1>1, TimersInductive, PTL

-----------------------------------------------------------------------------
\* The key.

KeyTypeOK ==
  /\ pin \in {0, 1} /\ edge \in {"off", "neg", "pos"} /\ latch \in BOOLEAN
  /\ keyLevel \in {0, 1} /\ seen \in {0, 1}
  /\ key50ms \in {Unarmed} \cup 0 .. Debounce /\ key5s \in {Unarmed} \cup 0 .. LongPress
  /\ at \in {"idle", "handler", "read"}
  /\ fell \in BOOLEAN /\ again \in BOOLEAN /\ blind \in BOOLEAN
  /\ upFor \in 0 .. Debounce + 1 /\ held \in 0 .. LongPress

\* Where the driver stands: what it waits for goes with key_level and the short timer.
KeyWaits ==
  /\ keyLevel = 1 => key50ms = Unarmed /\ key5s = Unarmed /\ at # "read"
  /\ at # "idle" => edge = "off" /\ key50ms = Unarmed
  /\ at = "idle" => edge = (IF keyLevel = 1 THEN "neg" ELSE IF key50ms = Unarmed THEN "pos" ELSE "off")
  /\ edge = "off" => ~latch

\* A key held for pressed, or about to be, has been down.
KeyFell ==
  /\ keyLevel = 0 \/ latch \/ at = "handler" => fell
  /\ ~again

\* An edge that is waited for has not come, unless it is latched or came unseen.
KeyLevelKnown ==
  ~blind /\ ~latch => (edge = "neg" => pin = 1) /\ (edge = "pos" => pin = 0)

\* The short timer ends before a key can have been up for too long.
KeyUpShort ==
  /\ pin = 0 => upFor = 0
  /\ keyLevel = 0 /\ (latch \/ at = "handler") => upFor = 0
  /\ key50ms # Unarmed => upFor + key50ms <= Debounce
  /\ at = "read" => upFor <= Debounce

\* The long timer runs no faster than the key is held.
KeyHeld ==
  /\ ~blind /\ key5s # Unarmed => held + key5s >= LongPress
  /\ ~blind /\ told = "long" => held >= LongPress

KeyInv == KeyTypeOK /\ KeyWaits /\ KeyFell /\ KeyLevelKnown /\ KeyUpShort /\ KeyHeld
-----------------------------------------------------------------------------
LEMMA KeyInitInductive == KeyInit => KeyInv
<1> SUFFICES ASSUME KeyInit PROVE KeyInv
  OBVIOUS
<1> USE KeyOK DEF KeyInit, Unarmed
<1>1. KeyTypeOK
  <2>1. blind \in BOOLEAN /\ fell \in BOOLEAN /\ again \in BOOLEAN /\ latch \in BOOLEAN
    OBVIOUS
  <2> QED BY <2>1 DEF KeyTypeOK
<1>2. KeyWaits /\ KeyFell /\ KeyUpShort
  BY DEF KeyWaits, KeyFell, KeyUpShort
<1>3. KeyLevelKnown /\ KeyHeld
  BY DEF KeyLevelKnown, KeyHeld
<1> QED BY <1>1, <1>2, <1>3 DEF KeyInv

LEMMA PinMovesInductive == KeyInv /\ PinMoves => KeyInv'
<1> SUFFICES ASSUME KeyInv, PinMoves PROVE KeyInv'
  OBVIOUS
<1> USE KeyOK DEF KeyInv, Unarmed
<1>1. KeyTypeOK'
  BY DEF PinMoves, KeyTypeOK, keyGhosts, keyTimes
<1>2. KeyWaits'
  BY DEF PinMoves, KeyTypeOK, KeyWaits, keyGhosts, keyTimes
<1>3. KeyFell'
  BY DEF PinMoves, KeyTypeOK, KeyWaits, KeyFell, keyGhosts, keyTimes
<1>4. KeyLevelKnown'
  BY DEF PinMoves, KeyTypeOK, KeyWaits, KeyLevelKnown, keyGhosts, keyTimes
<1>5. KeyUpShort'
  BY DEF PinMoves, KeyTypeOK, KeyWaits, KeyLevelKnown, KeyUpShort, keyGhosts, keyTimes
<1>6. KeyHeld'
  BY DEF PinMoves, KeyTypeOK, KeyWaits, KeyLevelKnown, KeyUpShort, KeyHeld, keyGhosts, keyTimes
<1> QED BY <1>1, <1>2, <1>3, <1>4, <1>5, <1>6

LEMMA KeyTickInductive == KeyInv /\ KeyTick => KeyInv'
<1> SUFFICES ASSUME KeyInv, KeyTick PROVE KeyInv'
  OBVIOUS
<1> USE KeyOK DEF KeyInv, Unarmed
<1>1. KeyTypeOK'
  BY DEF KeyTick, KeyTypeOK, keyGhosts, keyTimes
<1>2. KeyWaits'
  BY DEF KeyTick, KeyTypeOK, KeyWaits, keyGhosts, keyTimes
<1>3. KeyFell'
  BY DEF KeyTick, KeyTypeOK, KeyWaits, KeyFell, keyGhosts, keyTimes
<1>4. KeyLevelKnown'
  BY DEF KeyTick, KeyTypeOK, KeyWaits, KeyLevelKnown, keyGhosts, keyTimes
<1>5. KeyUpShort'
  BY DEF KeyTick, KeyTypeOK, KeyWaits, KeyLevelKnown, KeyUpShort, keyGhosts, keyTimes
<1>6. KeyHeld'
  BY DEF KeyTick, KeyTypeOK, KeyWaits, KeyLevelKnown, KeyUpShort, KeyHeld, keyGhosts, keyTimes
<1> QED BY <1>1, <1>2, <1>3, <1>4, <1>5, <1>6

LEMMA HandlerBeginInductive == KeyInv /\ HandlerBegin => KeyInv'
<1> SUFFICES ASSUME KeyInv, HandlerBegin PROVE KeyInv'
  OBVIOUS
<1> USE KeyOK DEF KeyInv, Unarmed
<1>1. KeyTypeOK'
  BY DEF HandlerBegin, KeyTypeOK, keyGhosts, keyTimes
<1>2. KeyWaits'
  BY DEF HandlerBegin, KeyTypeOK, KeyWaits, keyGhosts, keyTimes
<1>3. KeyFell'
  BY DEF HandlerBegin, KeyTypeOK, KeyWaits, KeyFell, keyGhosts, keyTimes
<1>4. KeyLevelKnown'
  BY DEF HandlerBegin, KeyTypeOK, KeyWaits, KeyLevelKnown, keyGhosts, keyTimes
<1>5. KeyUpShort'
  BY DEF HandlerBegin, KeyTypeOK, KeyWaits, KeyLevelKnown, KeyUpShort, keyGhosts, keyTimes
<1>6. KeyHeld'
  BY DEF HandlerBegin, KeyTypeOK, KeyWaits, KeyLevelKnown, KeyUpShort, KeyHeld, keyGhosts, keyTimes
<1> QED BY <1>1, <1>2, <1>3, <1>4, <1>5, <1>6

LEMMA HandlerEndInductive == KeyInv /\ HandlerEnd => KeyInv'
<1> SUFFICES ASSUME KeyInv, HandlerEnd PROVE KeyInv'
  OBVIOUS
<1> USE KeyOK DEF KeyInv, Unarmed
<1>1. KeyTypeOK'
  <2>1. blind' \in BOOLEAN
    BY DEF HandlerEnd, KeyTypeOK
  <2>2. CASE keyLevel = 1
    BY <2>1, <2>2 DEF HandlerEnd, KeyTypeOK, keyGhosts, keyTimes
  <2>3. CASE keyLevel # 1
    BY <2>1, <2>3 DEF HandlerEnd, KeyTypeOK, keyGhosts, keyTimes
  <2> QED BY <2>2, <2>3
<1>2. KeyWaits'
  BY DEF HandlerEnd, KeyTypeOK, KeyWaits, keyGhosts, keyTimes
<1>3. KeyFell'
  BY DEF HandlerEnd, KeyTypeOK, KeyWaits, KeyFell, keyGhosts, keyTimes
<1>4. KeyLevelKnown'
  BY DEF HandlerEnd, KeyTypeOK, KeyWaits, KeyLevelKnown, keyGhosts, keyTimes
<1>5. KeyUpShort'
  BY DEF HandlerEnd, KeyTypeOK, KeyWaits, KeyLevelKnown, KeyUpShort, keyGhosts, keyTimes
<1>6. KeyHeld'
  BY DEF HandlerEnd, KeyTypeOK, KeyWaits, KeyLevelKnown, KeyUpShort, KeyHeld, keyGhosts, keyTimes
<1> QED BY <1>1, <1>2, <1>3, <1>4, <1>5, <1>6

LEMMA key_50ms_cbInductive == KeyInv /\ key_50ms_cb => KeyInv'
<1> SUFFICES ASSUME KeyInv, key_50ms_cb PROVE KeyInv'
  OBVIOUS
<1> USE KeyOK DEF KeyInv, Unarmed
<1>1. KeyTypeOK'
  BY DEF key_50ms_cb, KeyTypeOK, keyGhosts, keyTimes
<1>2. KeyWaits'
  BY DEF key_50ms_cb, KeyTypeOK, KeyWaits, keyGhosts, keyTimes
<1>3. KeyFell'
  BY DEF key_50ms_cb, KeyTypeOK, KeyWaits, KeyFell, keyGhosts, keyTimes
<1>4. KeyLevelKnown'
  BY DEF key_50ms_cb, KeyTypeOK, KeyWaits, KeyLevelKnown, keyGhosts, keyTimes
<1>5. KeyUpShort'
  BY DEF key_50ms_cb, KeyTypeOK, KeyWaits, KeyLevelKnown, KeyUpShort, keyGhosts, keyTimes
<1>6. KeyHeld'
  BY DEF key_50ms_cb, KeyTypeOK, KeyWaits, KeyLevelKnown, KeyUpShort, KeyHeld, keyGhosts, keyTimes
<1> QED BY <1>1, <1>2, <1>3, <1>4, <1>5, <1>6

LEMMA Cb50EndInductive == KeyInv /\ Cb50End => KeyInv'
<1> SUFFICES ASSUME KeyInv, Cb50End PROVE KeyInv'
  OBVIOUS
<1> USE KeyOK DEF KeyInv, Unarmed
<1>1. KeyTypeOK'
  BY DEF Cb50End, KeyTypeOK, keyGhosts, keyTimes
<1>2. KeyWaits'
  BY DEF Cb50End, KeyTypeOK, KeyWaits, keyGhosts, keyTimes
<1>3. KeyFell'
  BY DEF Cb50End, KeyTypeOK, KeyWaits, KeyFell, keyGhosts, keyTimes
<1>4. KeyLevelKnown'
  BY DEF Cb50End, KeyTypeOK, KeyWaits, KeyLevelKnown, keyGhosts, keyTimes
<1>5. KeyUpShort'
  BY DEF Cb50End, KeyTypeOK, KeyWaits, KeyLevelKnown, KeyUpShort, keyGhosts, keyTimes
<1>6. KeyHeld'
  BY DEF Cb50End, KeyTypeOK, KeyWaits, KeyLevelKnown, KeyUpShort, KeyHeld, keyGhosts, keyTimes
<1> QED BY <1>1, <1>2, <1>3, <1>4, <1>5, <1>6

LEMMA key_5s_cbInductive == KeyInv /\ key_5s_cb => KeyInv'
<1> SUFFICES ASSUME KeyInv, key_5s_cb PROVE KeyInv'
  OBVIOUS
<1> USE KeyOK DEF KeyInv, Unarmed
<1>1. KeyTypeOK'
  BY DEF key_5s_cb, KeyTypeOK, keyGhosts, keyTimes
<1>2. KeyWaits'
  BY DEF key_5s_cb, KeyTypeOK, KeyWaits, keyGhosts, keyTimes
<1>3. KeyFell'
  BY DEF key_5s_cb, KeyTypeOK, KeyWaits, KeyFell, keyGhosts, keyTimes
<1>4. KeyLevelKnown'
  BY DEF key_5s_cb, KeyTypeOK, KeyWaits, KeyLevelKnown, keyGhosts, keyTimes
<1>5. KeyUpShort'
  BY DEF key_5s_cb, KeyTypeOK, KeyWaits, KeyLevelKnown, KeyUpShort, keyGhosts, keyTimes
<1>6. KeyHeld'
  BY DEF key_5s_cb, KeyTypeOK, KeyWaits, KeyLevelKnown, KeyUpShort, KeyHeld, keyGhosts, keyTimes
<1> QED BY <1>1, <1>2, <1>3, <1>4, <1>5, <1>6

LEMMA KeyStepInductive == KeyInv /\ [KeyNext]_keyVars => KeyInv'
<1>1. KeyInv /\ UNCHANGED keyVars => KeyInv'
  BY DEF keyVars, keyGhosts, keyTimes, KeyInv, KeyTypeOK, KeyWaits, KeyFell, KeyLevelKnown,
         KeyUpShort, KeyHeld
<1> QED BY <1>1, PinMovesInductive, KeyTickInductive, HandlerBeginInductive,
           HandlerEndInductive, key_50ms_cbInductive, Cb50EndInductive, key_5s_cbInductive
        DEF KeyNext

(* key_intr_handler, key_50ms_cb and key_5s_cb, for every length of the two  *)
(* timers and however the key bounces between their steps: key_level and the *)
(* edge waited for are the key's once things settle, long_press is told only *)
(* of a key held long enough, and short_press once for each press.           *)
THEOREM KeyAlwaysHonest == KeySpec => []KeyHonest
<1>1. KeyInv => KeyHonest
  <2> SUFFICES ASSUME KeyInv PROVE KeyHonest
    OBVIOUS
  <2>1. ASSUME KeySettled, ~blind
        PROVE  keyLevel = pin /\ edge = (IF pin = 1 THEN "neg" ELSE "pos")
    BY <2>1 DEF KeySettled, KeyInv, KeyTypeOK, KeyWaits, KeyLevelKnown
  <2>2. told = "long" /\ ~blind => held >= LongPress
    BY DEF KeyInv, KeyHeld
  <2>3. ~again
    BY DEF KeyInv, KeyFell
  <2> QED BY <2>1, <2>2, <2>3 DEF KeyHonest
<1> QED BY <1>1, KeyInitInductive, KeyStepInductive, PTL DEF KeySpec

-----------------------------------------------------------------------------
\* The I2C master.

Levels == {0, 1}
Calls == [sda : Levels, scl : Levels, sample : BOOLEAN]

Slaves ==
  [mode : {"idle", "recv", "ack", "send", "mack"}, pull : BOOLEAN, in : Seq(Levels),
   first : BOOLEAN, out : Bytes \cup {<<>>}, idx : 0 .. 8, nack : Levels]

\* A slave holds the line only to acknowledge and to send a 0.
SlaveGood(s) ==
  /\ s \in Slaves /\ Len(s.in) <= 8
  /\ s.mode = "idle" => s = SlaveIdle
  /\ s.mode = "ack" => Len(s.in) = 8
  /\ s.mode = "send" => s.out \in Bytes /\ s.idx >= 1 /\ (s.pull <=> s.out[s.idx] = 0)
  /\ s.pull => s.mode \in {"ack", "send"}

I2cTypeOK ==
  /\ sda \in Levels /\ scl \in Levels
  /\ todo \in Seq(Calls) /\ arg \in Bytes \cup {<<>>} /\ got \in Seq(Levels)
  /\ SlaveGood(slave) /\ caught \in BOOLEAN

\* Which function leads to which stage, and which stages may rest.
StageOfOp ==
  /\ op = "none" => stage = "reset" /\ todo = <<>>
  /\ op \in {"init", "stop"} => stage = "free"
  /\ op = "start" => stage = "started"
  /\ op = "write" => stage \in {"addressed", "written"} /\ arg \in Bytes
  /\ op = "checkAck" => \/ stage \in {"toRead", "toSend"}
                        \/ stage \in {"ending", "reading", "sending"} /\ todo = <<>>
  /\ op = "checkAck" /\ stage = "ending" => got = <<1>>
  /\ op = "checkAck" /\ stage \in {"reading", "sending"} => got # <<1>>
  /\ op = "read" => stage = "read"
  /\ op = "ack" => stage = "reading"
  /\ op = "nack" => stage = "ending"
  /\ op \in {"none", "init", "stop", "start", "write", "checkAck", "read", "ack", "nack"}

\* Which the pins and the slave are when a function has returned.
Rest ==
  CASE stage = "reset" -> sda = 1 /\ scl = 1 /\ ~(slave.mode = "recv" /\ Len(slave.in) = 8)
    [] stage = "free" -> sda = 1 /\ scl = 1 /\ slave = SlaveIdle
    [] stage = "started" -> sda = 0 /\ scl = 1 /\ slave.mode = "recv" /\ slave.in = <<>> /\ slave.first
    [] stage = "sending" -> sda = 1 /\ scl = 0 /\ slave.mode = "recv" /\ slave.in = <<>> /\ ~slave.first
    [] stage = "ending" -> sda = 1 /\ scl = 0 /\ slave = SlaveIdle
    [] stage = "reading" -> sda = 1 /\ scl = 0 /\ slave.mode = "send" /\ slave.idx = 1
    [] stage = "read" -> sda = 1 /\ scl = 0 /\ slave.mode = "mack" /\ got = slave.out
    [] stage \in {"addressed", "written"} ->
         scl = 0 /\ slave.mode = "ack" /\ slave.in = arg /\ slave.first = (stage = "addressed")
    [] OTHER ->
         /\ sda = 1 /\ scl = 0
         /\ \/ got = <<1>> /\ slave = SlaveIdle
            \/ got = <<0>> /\ stage = "toRead" /\ slave.mode = "send" /\ slave.idx = 1
            \/ got = <<0>> /\ stage = "toSend" /\ slave.mode = "recv" /\ slave.in = <<>> /\ ~slave.first

Starting ==
  /\ sda = 1 /\ ~slave.pull
  /\ \/ todo = <<Drive(1, scl), Drive(1, 1), Drive(0, 1)>>
     \/ todo = <<Drive(1, 1), Drive(0, 1)>>
     \/ todo = <<Drive(0, 1)>> /\ scl = 1

Stopping ==
  /\ ~slave.pull
  /\ \/ todo = <<Drive(0, 0), Drive(0, 1), Drive(1, 1)>> /\ sda = 1 /\ scl = 0
     \/ todo = <<Drive(0, 1), Drive(1, 1)>> /\ sda = 0
     \/ todo = <<Drive(1, 1)>> /\ sda = 0 /\ scl = 1

\* t is what is left of the calls s.
LeftOf(t, s) == Len(t) <= Len(s) /\ \A j \in 1 .. Len(t) : t[j] = s[Len(s) - Len(t) + j]

\* s are the first n bits of b.
Begins(s, n, b) == Len(s) = n /\ \A j \in 1 .. n : s[j] = b[j]

\* i bits are over; in the second call of a bit SCL is high and the slave has it.
Writing ==
  /\ slave.mode = "recv" /\ slave.first = (stage = "addressed")
  /\ IF Len(todo) = 25
     THEN slave.in = <<>> /\ todo = <<Drive(sda, 0)>> \o BitPulses(arg)
     ELSE /\ LeftOf(todo, BitPulses(arg))
          /\ LET k == 24 - Len(todo) IN
             /\ scl = (IF k % 3 = 2 THEN 1 ELSE 0)
             /\ Begins(slave.in, (k + 1) \div 3, arg)
             /\ k % 3 # 0 => sda = arg[(k + 2) \div 3]

Checking ==
  /\ slave.mode = "ack" /\ (stage = "toRead") = (slave.first /\ slave.in[8] = 1)
  /\ \/ /\ scl = 0 /\ got = <<>>
        /\ \/ todo = <<Drive(sda, 0), Drive(1, 0), Sampled(1, 1), Drive(1, 0)>>
           \/ todo = <<Drive(1, 0), Sampled(1, 1), Drive(1, 0)>>
           \/ todo = <<Sampled(1, 1), Drive(1, 0)>> /\ sda = 1
     \/ /\ scl = 1 /\ sda = 1 /\ todo = <<Drive(1, 0)>>
        /\ got = <<IF slave.pull THEN 0 ELSE 1>>

ReadBits == [k \in 1 .. 17 |-> IF k % 2 = 0 THEN Sampled(1, 1) ELSE Drive(1, 0)]

\* The slave goes to its next bit when SCL falls, but for the first.
Reading ==
  /\ slave.mode = "send" /\ sda = 1
  /\ IF Len(todo) = 18
     THEN /\ scl = 0 /\ slave.idx = 1 /\ got = <<>>
          /\ todo = <<Drive(sda, 0)>> \o ReadBits
     ELSE /\ LeftOf(todo, ReadBits)
          /\ LET k == 17 - Len(todo) IN
             /\ scl = (IF k # 0 /\ k % 2 = 0 THEN 1 ELSE 0)
             /\ slave.idx = (IF k = 0 THEN 1 ELSE (k + 1) \div 2)
             /\ Begins(got, k \div 2, slave.out)

Acking(l) ==
  \/ /\ slave.mode = "mack"
     /\ \/ /\ scl = 0
           /\ \/ todo = <<Drive(sda, 0), Drive(l, 0), Drive(l, 1), Drive(l, 0), Drive(1, 0)>>
              \/ todo = <<Drive(l, 0), Drive(l, 1), Drive(l, 0), Drive(1, 0)>>
              \/ todo = <<Drive(l, 1), Drive(l, 0), Drive(1, 0)>> /\ sda = l
        \/ /\ scl = 1 /\ slave.nack = l /\ sda = l
           /\ todo = <<Drive(l, 0), Drive(1, 0)>>
  \/ /\ todo = <<Drive(1, 0)>> /\ scl = 0
     /\ IF l = 1 THEN slave = SlaveIdle ELSE slave.mode = "send" /\ slave.idx = 1

\* r clock pulses from now the slave s does not hold the line: it is not at an acknowledge,
\* and what it sends it has sent.
FreedHigh(s, r) ==
  /\ s.mode = "recv" => (Len(s.in) + r) % 9 # 0 /\ (s.first => Len(s.in) + r >= 19)
  /\ s.mode = "ack" => r % 9 # 0 /\ (s.first => r >= 10)
  /\ s.mode = "send" => s.idx + r >= 10
  /\ s.mode = "mack" => r >= 1 /\ (s.nack = 1 \/ r >= 10)

FreedLow(s, r) ==
  /\ s.mode = "recv" =>
       Len(s.in) < 8 /\ (Len(s.in) + r) % 9 # 0 /\ (s.first => Len(s.in) + r >= 19)
  /\ s.mode = "ack" => (8 + r) % 9 # 0 /\ (s.first => r >= 11)
  /\ s.mode = "send" => s.idx + r >= 11
  /\ s.mode = "mack" => r >= 2

Freed(s, c, r) == IF c = 1 THEN FreedHigh(s, r) ELSE FreedLow(s, r)

\* k calls are over, j of them of the clock.
Initing ==
  /\ LeftOf(todo, InitPulses)
  /\ LET k == 2 * InitClocks + 6 - Len(todo)
         j == k - 3
     IN  /\ k = 0 => sda = 1 /\ scl = 1
         /\ k \in 1 .. 2 => scl = 0
         /\ k \in 0 .. 2 => Freed(slave, scl, InitClocks)
         /\ j \in 0 .. 2 * InitClocks =>
              /\ sda = 1 /\ scl = (IF j # 0 /\ j % 2 = 0 THEN 1 ELSE 0)
              /\ Freed(slave, scl, InitClocks - (j \div 2))
         /\ j > 2 * InitClocks => ~slave.pull /\ scl = 1 /\ sda = 0

BusGood ==
  IF todo = <<>> THEN Rest ELSE
  /\ op = "init" => Initing
  /\ op = "start" => Starting
  /\ op = "stop" => Stopping
  /\ op = "write" => Writing
  /\ op = "checkAck" => Checking
  /\ op = "read" => Reading
  /\ op = "ack" => Acking(0)
  /\ op = "nack" => Acking(1)

I2cGood == ~caught => BusGood
I2cInv == I2cTypeOK /\ StageOfOp /\ I2cGood

-----------------------------------------------------------------------------
\* What a START or a STOP, a rise and a fall of SCL make of the slave.
Struck(t, d) ==
  /\ ~t.pull
  /\ d = 1 => t = SlaveIdle
  /\ d = 0 => t.mode = "recv" /\ t.in = <<>> /\ t.first

Risen(s, t, d) ==
  /\ t.mode = s.mode /\ t.pull = s.pull /\ t.first = s.first /\ t.out = s.out /\ t.idx = s.idx
  /\ t.in = IF s.mode = "recv" /\ Len(s.in) < 8 THEN Append(s.in, d) ELSE s.in
  /\ s.mode = "mack" => t.nack = d
  /\ s.mode = "idle" => t = SlaveIdle

Fallen(s, t) ==
  /\ s.mode = "idle" \/ (s.mode = "recv" /\ Len(s.in) # 8) => t = s
  /\ s.mode = "recv" /\ Len(s.in) = 8 => t.mode = "ack" /\ t.in = s.in /\ t.first = s.first
  /\ s.mode = "ack" /\ ~s.pull => t = SlaveIdle
  /\ s.mode = "ack" /\ s.pull /\ s.first /\ s.in[8] = 1 =>
       t.mode = "send" /\ t.idx = 1 /\ ~t.first
  /\ s.mode = "ack" /\ s.pull /\ ~(s.first /\ s.in[8] = 1) =>
       t.mode = "recv" /\ t.in = <<>> /\ ~t.first
  /\ s.mode = "send" /\ s.idx < 8 => t.mode = "send" /\ t.idx = s.idx + 1 /\ t.out = s.out
  /\ s.mode = "send" /\ s.idx = 8 => t.mode = "mack" /\ t.out = s.out
  /\ s.mode = "mack" /\ s.nack = 1 => t = SlaveIdle
  /\ s.mode = "mack" /\ s.nack # 1 => t.mode = "send" /\ t.idx = 1

LEMMA IdleGood == SlaveIdle \in Slaves /\ SlaveGood(SlaveIdle)
BY DEF SlaveIdle, Slaves, SlaveGood, Levels

LEMMA ByteBits8 == \A b \in Bytes : b \in [1 .. 8 -> Levels]
BY I2cMasterOK DEF Levels

LEMMA ConditionGood ==
  ASSUME NEW s, NEW d \in Levels
  PROVE  SlaveGood(Condition(s, d)) /\ Struck(Condition(s, d), d)
<1>1. [SlaveIdle EXCEPT !.mode = "recv", !.first = TRUE] \in Slaves
  BY IdleGood DEF Slaves
<1> QED BY <1>1, IdleGood DEF Condition, SlaveGood, Levels, SlaveIdle, Struck

LEMMA RiseGood ==
  ASSUME NEW s, SlaveGood(s), NEW d \in Levels
  PROVE  SlaveGood(Rise(s, d)) /\ Risen(s, Rise(s, d), d)
<1> USE DEF Risen
<1>1. CASE s.mode = "recv" /\ Len(s.in) < 8
  <2>1. Rise(s, d) = [s EXCEPT !.in = Append(@, d)]
    BY <1>1 DEF Rise
  <2>2. Append(s.in, d) \in Seq(Levels) /\ Len(Append(s.in, d)) = Len(s.in) + 1
    BY DEF SlaveGood, Slaves
  <2>3. Len(s.in) \in Nat
    BY DEF SlaveGood, Slaves
  <2>4. Rise(s, d) \in Slaves
    BY <2>1, <2>2 DEF SlaveGood, Slaves
  <2>5. /\ Rise(s, d).mode = s.mode /\ Rise(s, d).pull = s.pull /\ Rise(s, d).first = s.first
        /\ Rise(s, d).out = s.out /\ Rise(s, d).idx = s.idx
        /\ Rise(s, d).in = Append(s.in, d)
    BY <2>1 DEF SlaveGood, Slaves
  <2>6. SlaveGood(Rise(s, d))
    BY <1>1, <2>2, <2>3, <2>4, <2>5 DEF SlaveGood
  <2> QED BY <1>1, <2>5, <2>6
<1>2. CASE s.mode = "mack"
  BY <1>2 DEF Rise, SlaveGood, Slaves
<1>3. CASE ~(s.mode = "recv" /\ Len(s.in) < 8) /\ s.mode # "mack"
  BY <1>3 DEF Rise, SlaveGood, Slaves
<1> QED BY <1>1, <1>2, <1>3

LEMMA SendTyped ==
  ASSUME NEW s \in Slaves, NEW i \in 0 .. 8, NEW p \in BOOLEAN
  PROVE  /\ \A o \in Bytes : [s EXCEPT !.mode = "send", !.out = o, !.idx = i, !.pull = p] \in Slaves
         /\ [s EXCEPT !.idx = i, !.pull = p] \in Slaves
BY DEF Slaves

LEMMA SendingGood ==
  ASSUME NEW s \in Slaves, Len(s.in) <= 8, NEW byte \in Bytes
  PROVE  /\ SlaveGood(Sending(s, byte))
         /\ Sending(s, byte).mode = "send" /\ Sending(s, byte).idx = 1
         /\ Sending(s, byte).first = s.first
<1>1. byte[1] \in Levels
  BY ByteBits8
<1>2. Sending(s, byte) \in Slaves
  <2>1. (byte[1] = 0) \in BOOLEAN /\ 1 \in 0 .. 8
    OBVIOUS
  <2> QED BY <2>1, SendTyped, Zenon DEF Sending
<1>3. /\ Sending(s, byte).mode = "send" /\ Sending(s, byte).idx = 1
      /\ Sending(s, byte).first = s.first /\ Sending(s, byte).in = s.in
      /\ Sending(s, byte).out = byte /\ (Sending(s, byte).pull <=> byte[1] = 0)
  BY DEF Sending, Slaves
<1> QED BY <1>2, <1>3 DEF SlaveGood

\* What the fall of SCL does, state by state.
LEMMA FallGood ==
  ASSUME NEW s, SlaveGood(s), NEW ack \in BOOLEAN, NEW byte \in Bytes
  PROVE  SlaveGood(Fall(s, ack, byte)) /\ Fallen(s, Fall(s, ack, byte))
<1> USE DEF SlaveGood, Fallen
<1>1. CASE s.mode = "idle" \/ (s.mode = "recv" /\ Len(s.in) # 8)
  BY <1>1 DEF Fall
<1>2. CASE s.mode = "recv" /\ Len(s.in) = 8
  BY <1>2 DEF Fall, Slaves
<1>3. CASE s.mode = "ack" /\ ~s.pull
  BY <1>3, IdleGood DEF Fall
<1>4. CASE s.mode = "ack" /\ s.pull /\ s.first /\ s.in[8] = 1
  <2>1. Fall(s, ack, byte) = Sending([s EXCEPT !.first = FALSE], byte)
    BY <1>4 DEF Fall
  <2>2. /\ [s EXCEPT !.first = FALSE] \in Slaves /\ Len([s EXCEPT !.first = FALSE].in) <= 8
        /\ [s EXCEPT !.first = FALSE].first = FALSE
    BY DEF Slaves
  <2>3. PICK t : t = [s EXCEPT !.first = FALSE]
    OBVIOUS
  <2>4. SlaveGood(Sending(t, byte)) /\ Sending(t, byte).mode = "send"
        /\ Sending(t, byte).idx = 1 /\ ~Sending(t, byte).first
    BY <2>2, <2>3, SendingGood
  <2> QED BY <1>4, <2>1, <2>3, <2>4
<1>5. CASE s.mode = "ack" /\ s.pull /\ ~(s.first /\ s.in[8] = 1)
  <2>1. Fall(s, ack, byte) = [s EXCEPT !.mode = "recv", !.in = <<>>, !.first = FALSE, !.pull = FALSE]
    BY <1>5 DEF Fall
  <2>2. <<>> \in Seq(Levels) /\ Len(<<>>) = 0
    OBVIOUS
  <2>3. Fall(s, ack, byte) \in Slaves
    BY <2>1, <2>2 DEF Slaves
  <2>4. /\ Fall(s, ack, byte).mode = "recv" /\ Fall(s, ack, byte).in = <<>>
        /\ Fall(s, ack, byte).first = FALSE /\ Fall(s, ack, byte).pull = FALSE
    BY <2>1 DEF Slaves
  <2>5. SlaveGood(Fall(s, ack, byte))
    BY <2>2, <2>3, <2>4
  <2> QED BY <1>5, <2>4, <2>5
<1>6. CASE s.mode = "send" /\ s.idx < 8
  <2>1. Fall(s, ack, byte) = [s EXCEPT !.idx = s.idx + 1, !.pull = s.out[s.idx + 1] = 0]
    BY <1>6 DEF Fall
  <2>2. Fall(s, ack, byte) \in Slaves
    <3>1. (s.out[s.idx + 1] = 0) \in BOOLEAN /\ s.idx + 1 \in 0 .. 8
      BY <1>6 DEF Slaves
    <3>2. s \in Slaves
      OBVIOUS
    <3>3. [s EXCEPT !.idx = s.idx + 1, !.pull = s.out[s.idx + 1] = 0] \in Slaves
      BY <3>1, <3>2, SendTyped, Zenon
    <3> QED BY <2>1, <3>3, Zenon
  <2>3. /\ Fall(s, ack, byte).mode = "send" /\ Fall(s, ack, byte).idx = s.idx + 1
        /\ Fall(s, ack, byte).out = s.out /\ Fall(s, ack, byte).in = s.in
        /\ (Fall(s, ack, byte).pull <=> s.out[s.idx + 1] = 0)
    BY <1>6, <2>1 DEF Slaves
  <2>4. s.idx \in Nat
    BY DEF Slaves
  <2>5. SlaveGood(Fall(s, ack, byte))
    BY <1>6, <2>2, <2>3, <2>4
  <2> QED BY <1>6, <2>3, <2>5
<1>7. CASE s.mode = "send" /\ s.idx = 8
  <2>1. Fall(s, ack, byte) = [s EXCEPT !.mode = "mack", !.pull = FALSE]
    BY <1>7 DEF Fall
  <2>2. Fall(s, ack, byte) \in Slaves
    BY <1>7, <2>1 DEF Slaves
  <2>3. /\ Fall(s, ack, byte).mode = "mack" /\ Fall(s, ack, byte).in = s.in
        /\ Fall(s, ack, byte).out = s.out /\ Fall(s, ack, byte).pull = FALSE
    BY <1>7, <2>1 DEF Slaves
  <2>4. SlaveGood(Fall(s, ack, byte))
    BY <1>7, <2>2, <2>3
  <2> QED BY <1>7, <2>3, <2>4
<1>8. CASE s.mode = "mack" /\ s.nack = 1
  BY <1>8, IdleGood DEF Fall
<1>9. CASE s.mode = "mack" /\ s.nack # 1
  BY <1>9, SendingGood DEF Fall
<1>10. s.mode \in {"idle", "recv", "ack", "send", "mack"} /\ (s.mode = "send" => s.idx < 8 \/ s.idx = 8)
  BY DEF Slaves
<1> QED BY <1>1, <1>2, <1>3, <1>4, <1>5, <1>6, <1>7, <1>8, <1>9, <1>10

\* The four things a call of setDC can be to the slave.
Reaction(s, t, from, c0, d, c) ==
  /\ SlaveGood(t)
  /\ c0 = c /\ (c = 0 \/ from = d \/ s.pull) => t = s
  /\ c0 = 0 /\ c = 1 /\ (from = d \/ s.pull) => Risen(s, t, IF s.pull THEN 0 ELSE d)
  /\ c0 = 1 /\ c = 0 /\ (from = d \/ s.pull) => Fallen(s, t)
  /\ (c0 = 1 \/ c = 1) /\ from # d /\ ~s.pull => Struck(t, d)

LEMMA Reactions ==
  ASSUME SlaveGood(slave), sda \in Levels, scl \in Levels, NEW d \in Levels, NEW c \in Levels,
         NEW ack \in BOOLEAN, NEW byte \in Bytes
  PROVE  Reaction(slave, React(slave, d, c, ack, byte), sda, scl, d, c)
<1>1. Wire(d) = (IF slave.pull THEN 0 ELSE d) /\ Wire(sda) = (IF slave.pull THEN 0 ELSE sda)
      /\ Wire(d) \in Levels
  BY DEF Wire, Levels
<1> USE DEF Reaction
<1>2. CASE Wire(d) # Wire(sda) /\ (scl = 1 \/ c = 1)
  BY <1>1, <1>2, ConditionGood DEF React, Levels
<1>3. CASE Wire(d) = Wire(sda) /\ scl < c
  BY <1>1, <1>3, RiseGood DEF React, Levels
<1>4. CASE scl > c /\ Wire(d) = Wire(sda)
  BY <1>1, <1>4, FallGood DEF React, Levels
<1>5. CASE (Wire(d) # Wire(sda) /\ scl = 0 /\ c = 0) \/ (Wire(d) = Wire(sda) /\ scl = c)
  BY <1>1, <1>5 DEF React, Levels
<1> QED BY <1>1, <1>2, <1>3, <1>4, <1>5 DEF Levels

\* A call of setDC, whatever function it is of.
LEMMA CallDone ==
  ASSUME I2cTypeOK, SetDC
  PROVE  LET p == todo[1] IN
         /\ p \in Calls /\ sda' = p.sda /\ scl' = p.scl
         /\ Reaction(slave, slave', sda, scl, p.sda, p.scl)
         /\ todo # <<>> /\ todo' = Tail(todo) /\ todo' \in Seq(Calls)
         /\ Len(todo') = Len(todo) - 1 /\ Len(todo) \in Nat \ {0}
         /\ \A j \in 1 .. Len(todo) - 1 : todo'[j] = todo[j + 1]
         /\ got' = IF p.sample THEN Append(got, IF slave'.pull THEN 0 ELSE p.sda) ELSE got
         /\ got' \in Seq(Levels)
         /\ UNCHANGED <<stage, op, arg, caught>>
<1>1. /\ todo # <<>> /\ todo \in Seq(Calls) /\ todo' = Tail(todo)
  BY DEF SetDC, I2cTypeOK
<1>2. /\ Head(todo) = todo[1] /\ todo[1] \in Calls /\ Len(todo) \in Nat \ {0}
  BY <1>1
<1>3. /\ todo' \in Seq(Calls) /\ Len(todo') = Len(todo) - 1
      /\ \A j \in 1 .. Len(todo) - 1 : todo'[j] = todo[j + 1]
  BY <1>1, <1>2
<1>4. /\ todo[1].sda \in Levels /\ todo[1].scl \in Levels /\ todo[1].sample \in BOOLEAN
  BY <1>2 DEF Calls
<1>5. PICK ack \in BOOLEAN, byte \in Bytes :
        slave' = React(slave, todo[1].sda, todo[1].scl, ack, byte)
  BY <1>2 DEF SetDC
<1>6. Reaction(slave, slave', sda, scl, todo[1].sda, todo[1].scl)
  BY <1>4, <1>5, Reactions DEF I2cTypeOK
<1>7. /\ sda' = todo[1].sda /\ scl' = todo[1].scl
      /\ got' = IF todo[1].sample THEN Append(got, IF slave'.pull THEN 0 ELSE todo[1].sda) ELSE got
      /\ UNCHANGED <<stage, op, arg, caught>>
  BY <1>2 DEF SetDC
<1>8. got' \in Seq(Levels)
  <2>1. (IF slave'.pull THEN 0 ELSE todo[1].sda) \in Levels /\ got \in Seq(Levels)
    BY <1>4 DEF I2cTypeOK, Levels
  <2> QED BY <1>7, <2>1
<1> QED BY <1>1, <1>2, <1>3, <1>6, <1>7, <1>8

LEMMA SetDCTyped == I2cTypeOK /\ SetDC => I2cTypeOK'
<1> SUFFICES ASSUME I2cTypeOK, SetDC PROVE I2cTypeOK'
  OBVIOUS
<1> QED BY CallDone DEF I2cTypeOK, Reaction, Calls

\* The next call is the one of s that many from its end, and the rest is still left of s.
LEMMA LeftOfMoves ==
  ASSUME NEW t \in Seq(Calls), NEW u \in Seq(Calls), NEW s \in Seq(Calls), t # <<>>, LeftOf(t, s),
         Len(u) = Len(t) - 1, \A j \in 1 .. Len(t) - 1 : u[j] = t[j + 1]
  PROVE  LeftOf(u, s) /\ t[1] = s[Len(s) - Len(t) + 1]
<1>1. PICK n \in Nat, m \in Nat : n = Len(t) /\ m = Len(s) /\ n # 0
  OBVIOUS
<1>2. n <= m /\ \A j \in 1 .. n : t[j] = s[m - n + j]
  BY <1>1 DEF LeftOf
<1>3. t[1] = s[m - n + 1]
  BY <1>1, <1>2
<1>4. ASSUME NEW j \in 1 .. n - 1 PROVE u[j] = s[m - (n - 1) + j]
  <2>1. j + 1 \in 1 .. n /\ m - n + (j + 1) = m - (n - 1) + j
    BY <1>1
  <2>2. u[j] = t[j + 1]
    BY <1>1
  <2> QED BY <1>2, <2>1, <2>2
<1>5. LeftOf(u, s)
  <2>1. Len(u) = n - 1 /\ Len(s) = m /\ n - 1 <= m
    BY <1>1, <1>2
  <2> QED BY <1>4, <2>1 DEF LeftOf
<1> QED BY <1>1, <1>3, <1>5

-----------------------------------------------------------------------------
\* Each setDC call of i2c_master_start, to the START it ends with.
LEMMA StartCalls ==
  ASSUME I2cTypeOK, StageOfOp, todo # <<>>, op = "start", Starting, SetDC
  PROVE  IF todo' = <<>> THEN Rest' ELSE Starting'
<1>1. SlaveGood(slave') /\ stage' = "started" /\ scl \in Levels
  BY CallDone DEF StageOfOp, Reaction, I2cTypeOK
<1> USE CallDone DEF Reaction, Drive, Starting, Risen, Struck, Levels
<1>2. CASE todo = <<Drive(1, scl), Drive(1, 1), Drive(0, 1)>>
  BY <1>1, <1>2
<1>3. CASE todo = <<Drive(1, 1), Drive(0, 1)>>
  BY <1>1, <1>3
<1>4. CASE todo = <<Drive(0, 1)>> /\ scl = 1
  BY <1>1, <1>4 DEF Rest
<1> QED BY <1>2, <1>3, <1>4

\* Each setDC call of i2c_master_stop, to the STOP it ends with.
LEMMA StopCalls ==
  ASSUME I2cTypeOK, StageOfOp, todo # <<>>, op = "stop", Stopping, SetDC
  PROVE  IF todo' = <<>> THEN Rest' ELSE Stopping'
<1>1. SlaveGood(slave') /\ stage' = "free" /\ scl \in Levels
  BY CallDone DEF StageOfOp, Reaction, I2cTypeOK
<1> USE CallDone DEF Reaction, Drive, Stopping, Risen, Struck, Levels
<1>2. CASE todo = <<Drive(0, 0), Drive(0, 1), Drive(1, 1)>> /\ sda = 1 /\ scl = 0
  BY <1>1, <1>2
<1>3. CASE todo = <<Drive(0, 1), Drive(1, 1)>> /\ sda = 0
  BY <1>1, <1>3
<1>4. CASE todo = <<Drive(1, 1)>> /\ sda = 0 /\ scl = 1
  BY <1>1, <1>4 DEF Rest
<1> QED BY <1>2, <1>3, <1>4

\* Each setDC call of i2c_master_checkAck: the level sampled is whether the slave pulls.
LEMMA CheckCalls ==
  ASSUME I2cTypeOK, StageOfOp, todo # <<>>, op = "checkAck", Checking, SetDC
  PROVE  IF todo' = <<>> THEN Rest' ELSE Checking'
<1>1. /\ SlaveGood(slave) /\ SlaveGood(slave') /\ stage' = stage /\ stage \in {"toRead", "toSend"}
      /\ scl \in Levels /\ sda \in Levels
  BY CallDone DEF StageOfOp, Reaction, I2cTypeOK
<1> USE CallDone DEF Reaction, Drive, Sampled, Checking, Levels
<1>2. CASE scl = 0 /\ todo = <<Drive(sda, 0), Drive(1, 0), Sampled(1, 1), Drive(1, 0)>>
  BY <1>1, <1>2
<1>3. CASE scl = 0 /\ todo = <<Drive(1, 0), Sampled(1, 1), Drive(1, 0)>>
  BY <1>1, <1>3
<1>4. CASE scl = 0 /\ todo = <<Sampled(1, 1), Drive(1, 0)>> /\ sda = 1
  <2>1. slave.mode = "ack" /\ got = <<>> /\ got' = <<IF slave'.pull THEN 0 ELSE 1>>
    BY <1>4
  <2>2. Risen(slave, slave', IF slave.pull THEN 0 ELSE 1) /\ todo' = <<Drive(1, 0)>> /\ scl' = 1 /\ sda' = 1
    BY <1>4
  <2> QED BY <1>1, <2>1, <2>2 DEF Risen
<1>5. CASE scl = 1 /\ sda = 1 /\ todo = <<Drive(1, 0)>>
  <2>1. slave.mode = "ack" /\ got' = got /\ got = <<IF slave.pull THEN 0 ELSE 1>>
        /\ todo' = <<>> /\ scl' = 0 /\ sda' = 1
    BY <1>5
  <2>2. Fallen(slave, slave')
    BY <1>5
  <2> QED BY <1>1, <2>1, <2>2 DEF Fallen, Rest
<1> QED BY <1>2, <1>3, <1>4, <1>5

\* Each setDC call of i2c_master_setAck: the slave sends on after level 0, rests after 1.
LEMMA AckCalls ==
  ASSUME I2cTypeOK, StageOfOp, todo # <<>>, NEW l \in Levels, op = (IF l = 0 THEN "ack" ELSE "nack"),
         Acking(l), SetDC
  PROVE  IF todo' = <<>> THEN Rest' ELSE Acking(l)'
<1>1. /\ SlaveGood(slave) /\ SlaveGood(slave') /\ stage' = (IF l = 0 THEN "reading" ELSE "ending")
      /\ scl \in Levels /\ sda \in Levels
  BY CallDone DEF StageOfOp, Reaction, I2cTypeOK, Levels
<1> USE CallDone DEF Reaction, Drive, Acking, Levels
<1>2. CASE scl = 0 /\ slave.mode = "mack"
           /\ todo = <<Drive(sda, 0), Drive(l, 0), Drive(l, 1), Drive(l, 0), Drive(1, 0)>>
  BY <1>1, <1>2
<1>3. CASE scl = 0 /\ slave.mode = "mack"
           /\ todo = <<Drive(l, 0), Drive(l, 1), Drive(l, 0), Drive(1, 0)>>
  BY <1>1, <1>3
<1>4. CASE scl = 0 /\ slave.mode = "mack" /\ todo = <<Drive(l, 1), Drive(l, 0), Drive(1, 0)>> /\ sda = l
  BY <1>1, <1>4 DEF Risen, SlaveGood
<1>5. CASE scl = 1 /\ slave.mode = "mack" /\ slave.nack = l /\ sda = l
           /\ todo = <<Drive(l, 0), Drive(1, 0)>>
  BY <1>1, <1>5 DEF Fallen
<1>6. CASE /\ todo = <<Drive(1, 0)>> /\ scl = 0
           /\ IF l = 1 THEN slave = SlaveIdle ELSE slave.mode = "send" /\ slave.idx = 1
  BY <1>1, <1>6 DEF Rest
<1> QED BY <1>2, <1>3, <1>4, <1>5, <1>6

-----------------------------------------------------------------------------
LEMMA OneThen ==
  ASSUME NEW x \in Calls, NEW s \in Seq(Calls), NEW t, t = <<x>> \o s
  PROVE  /\ t \in Seq(Calls) /\ Len(t) = Len(s) + 1 /\ t[1] = x
         /\ \A j \in 1 .. Len(t) - 1 : t[j + 1] = s[j]
<1>1. Len(s) \in Nat
  OBVIOUS
<1> QED BY <1>1

\* A number of calls as whole bits and what is left.
LEMMA Thirds ==
  ASSUME NEW i \in Nat
  PROVE  /\ (3 * i) % 3 = 0 /\ (3 * i + 1) \div 3 = i /\ (3 * i + 2) \div 3 = i
         /\ (3 * i + 1) % 3 = 1 /\ (3 * i + 3) \div 3 = i + 1
         /\ (3 * i + 2) % 3 = 2 /\ (3 * i + 4) \div 3 = i + 1
OBVIOUS

LEMMA ThirdsOf ==
  ASSUME NEW k \in Nat
  PROVE  \E i \in Nat : k = 3 * i \/ k = 3 * i + 1 \/ k = 3 * i + 2
<1>1. k \div 3 \in Nat /\ (k = 3 * (k \div 3) \/ k = 3 * (k \div 3) + 1 \/ k = 3 * (k \div 3) + 2)
  OBVIOUS
<1> QED BY <1>1, Zenon

\* The three calls of each bit of i2c_master_writeByte.
LEMMA BitPulse ==
  ASSUME NEW b \in Bytes
  PROVE  /\ BitPulses(b) \in Seq(Calls) /\ Len(BitPulses(b)) = 24
         /\ \A i \in 0 .. 7 : /\ b[i + 1] \in Levels
                              /\ BitPulses(b)[3 * i + 1] = Drive(b[i + 1], 0)
                              /\ BitPulses(b)[3 * i + 2] = Drive(b[i + 1], 1)
                              /\ BitPulses(b)[3 * i + 3] = Drive(b[i + 1], 0)
<1>1. \A j \in 1 .. 8 : b[j] \in Levels
  BY ByteBits8
<1>2. ASSUME NEW k \in 1 .. 24
      PROVE  Drive(b[(k + 2) \div 3], IF k % 3 = 2 THEN 1 ELSE 0) \in Calls
  <2>1. (k + 2) \div 3 \in 1 .. 8
    OBVIOUS
  <2>2. (IF k % 3 = 2 THEN 1 ELSE 0) \in Levels
    BY DEF Levels
  <2> QED BY <1>1, <2>1, <2>2 DEF Drive, Calls
<1>3. BitPulses(b) \in Seq(Calls) /\ Len(BitPulses(b)) = 24
  BY <1>2 DEF BitPulses
<1>4. ASSUME NEW i \in 0 .. 7
      PROVE  /\ b[i + 1] \in Levels
             /\ BitPulses(b)[3 * i + 1] = Drive(b[i + 1], 0)
             /\ BitPulses(b)[3 * i + 2] = Drive(b[i + 1], 1)
             /\ BitPulses(b)[3 * i + 3] = Drive(b[i + 1], 0)
  <2>1. \A k \in 1 .. 24 : BitPulses(b)[k] = Drive(b[(k + 2) \div 3], IF k % 3 = 2 THEN 1 ELSE 0)
    BY DEF BitPulses
  <2>2. /\ (3 * i + 1) % 3 # 2 /\ (3 * i + 2) % 3 = 2 /\ (3 * i + 3) % 3 # 2
        /\ (3 * i + 1 + 2) \div 3 = i + 1 /\ (3 * i + 2 + 2) \div 3 = i + 1
        /\ (3 * i + 3 + 2) \div 3 = i + 1
        /\ 3 * i + 1 \in 1 .. 24 /\ 3 * i + 2 \in 1 .. 24 /\ 3 * i + 3 \in 1 .. 24
    OBVIOUS
  <2> QED BY <1>1, <2>1, <2>2
<1> QED BY <1>3, <1>4

LEMMA NoneLeft ==
  ASSUME NEW t \in Seq(Calls) PROVE Len(t) \in Nat /\ (t = <<>> <=> Len(t) = 0)
OBVIOUS

\* Each setDC call of i2c_master_writeByte: a bit is taken at its second call, and SDA
\* moves only while SCL is low.
LEMMA WriteCalls ==
  ASSUME I2cTypeOK, StageOfOp, todo # <<>>, op = "write", Writing, SetDC
  PROVE  IF todo' = <<>> THEN Rest' ELSE Writing'
<1> DEFINE bits == BitPulses(arg)
           k == 24 - Len(todo)
<1>1. /\ SlaveGood(slave) /\ SlaveGood(slave') /\ stage' = stage
      /\ stage \in {"addressed", "written"} /\ arg' = arg /\ arg \in Bytes
      /\ scl \in Levels /\ sda \in Levels /\ slave.in \in Seq(Levels)
  BY CallDone DEF StageOfOp, Reaction, I2cTypeOK, SlaveGood, Slaves
<1>2. /\ bits \in Seq(Calls) /\ Len(bits) = 24 /\ todo \in Seq(Calls) /\ todo' \in Seq(Calls)
      /\ Len(todo) \in Nat \ {0} /\ Len(todo') = Len(todo) - 1
      /\ \A j \in 1 .. Len(todo) - 1 : todo'[j] = todo[j + 1]
  BY <1>1, BitPulse, CallDone DEF I2cTypeOK
<1>5. k = 24 - Len(todo)
  BY DEF k
<1>6. /\ slave.mode = "recv" /\ slave.first = (stage = "addressed")
      /\ Len(todo) = 25 => slave.in = <<>> /\ todo = <<Drive(sda, 0)>> \o bits
      /\ Len(todo) # 25 => /\ LeftOf(todo, bits)
                           /\ scl = (IF k % 3 = 2 THEN 1 ELSE 0)
                           /\ Begins(slave.in, (k + 1) \div 3, arg)
                           /\ k % 3 # 0 => sda = arg[(k + 2) \div 3]
  BY DEF Writing
<1>7. /\ slave'.mode = "recv" /\ slave'.first = (stage' = "addressed") /\ Len(todo') # 25
      /\ LeftOf(todo', bits)
      /\ LET n == 24 - Len(todo') IN
         /\ scl' = (IF n % 3 = 2 THEN 1 ELSE 0)
         /\ Begins(slave'.in, (n + 1) \div 3, arg)
         /\ n % 3 # 0 => sda' = arg[(n + 2) \div 3]
      => Writing'
  BY <1>1 DEF Writing, Begins
<1>8. \A n \in 0 .. 7 : /\ arg[n + 1] \in Levels
                        /\ bits[3 * n + 1] = Drive(arg[n + 1], 0)
                        /\ bits[3 * n + 2] = Drive(arg[n + 1], 1)
                        /\ bits[3 * n + 3] = Drive(arg[n + 1], 0)
  BY <1>1, BitPulse
<1> HIDE DEF k, bits
<1>3. CASE Len(todo) = 25
  <2>1. Drive(sda, 0) \in Calls
    BY <1>1 DEF Drive, Calls, Levels
  <2>2. todo[1] = Drive(sda, 0) /\ \A j \in 1 .. 24 : todo[j + 1] = bits[j]
    <3>1. bits \in Seq(Calls) /\ todo = <<Drive(sda, 0)>> \o bits
      BY <1>2, <1>3, <1>6
    <3>2. todo[1] = Drive(sda, 0) /\ \A j \in 1 .. Len(todo) - 1 : todo[j + 1] = bits[j]
      <4>1. PICK x \in Calls : x = Drive(sda, 0)
        BY <2>1
      <4>2. todo = <<x>> \o bits
        BY <3>1, <4>1
      <4>3. todo[1] = x /\ \A j \in 1 .. Len(todo) - 1 : todo[j + 1] = bits[j]
        BY <3>1, <4>2, OneThen
      <4> QED BY <4>1, <4>3
    <3>3. Len(todo) - 1 = 24
      BY <1>3
    <3> QED BY <3>2, <3>3, Zenon
  <2>3. LeftOf(todo', bits)
    BY <1>2, <1>3, <2>2 DEF LeftOf
  <2>4. slave.mode = "recv" /\ slave.in = <<>> /\ slave.first = (stage = "addressed")
    BY <1>3, <1>6
  <2>5. scl' = 0 /\ slave' = slave
    BY <1>1, <2>2, <2>4, CallDone DEF Reaction, Fallen, Drive, Levels
  <2>6. Len(todo') = 24 /\ todo' # <<>>
    <3>1. Len(todo') = 24
      BY <1>2, <1>3
    <3>2. todo' \in Seq(Calls)
      BY <1>2
    <3>3. todo' = <<>> <=> Len(todo') = 0
      BY <3>2, NoneLeft, Zenon
    <3> QED BY <3>1, <3>3
  <2>7. Begins(slave'.in, 0, arg)
    BY <2>4, <2>5 DEF Begins
  <2>8. (24 - 24) % 3 = 0 /\ (24 - 24 + 1) \div 3 = 0
    OBVIOUS
  <2> QED BY <1>1, <1>7, <2>3, <2>4, <2>5, <2>6, <2>7, <2>8
<1>4. CASE Len(todo) # 25
  <2>1. /\ LeftOf(todo, bits) /\ slave.mode = "recv" /\ slave.first = (stage = "addressed")
        /\ scl = (IF k % 3 = 2 THEN 1 ELSE 0)
        /\ Begins(slave.in, (k + 1) \div 3, arg)
        /\ k % 3 # 0 => sda = arg[(k + 2) \div 3]
    BY <1>4, <1>6
  <2>2. /\ LeftOf(todo', bits) /\ todo[1] = bits[k + 1] /\ k \in 0 .. 23
        /\ 24 - Len(todo') = k + 1 /\ Len(todo') # 25 /\ (Len(todo') = 0 <=> k = 23)
    <3>1. LeftOf(todo', bits) /\ todo[1] = bits[Len(bits) - Len(todo) + 1]
      BY <1>2, <2>1, LeftOfMoves
    <3>2. Len(todo) <= 24
      BY <1>2, <2>1 DEF LeftOf
    <3>3. PICK n \in Nat \ {0} : n = Len(todo)
      BY <1>2
    <3>4. PICK m \in Nat : m = Len(todo')
      BY <1>2
    <3>5. m = n - 1 /\ n <= 24
      BY <1>2, <3>2, <3>3, <3>4
    <3>6. 24 - n \in 0 .. 23 /\ 24 - m = (24 - n) + 1 /\ m # 25 /\ (m = 0 <=> 24 - n = 23)
      BY <3>5
    <3>7. /\ 24 - Len(todo) \in 0 .. 23 /\ 24 - Len(todo') = (24 - Len(todo)) + 1
          /\ Len(todo') # 25 /\ (Len(todo') = 0 <=> 24 - Len(todo) = 23)
      BY <3>3, <3>4, <3>6, Zenon
    <3>8. Len(bits) - Len(todo) + 1 = (24 - Len(todo)) + 1
      BY <1>2
    <3> QED BY <1>5, <3>1, <3>7, <3>8, Zenon
  <2>3. PICK i \in Nat : k = 3 * i \/ k = 3 * i + 1 \/ k = 3 * i + 2
    <3>1. k \in Nat
      BY <2>2
    <3> QED BY <3>1, ThirdsOf, Zenon
  <2>4. i \in 0 .. 7 /\ arg[i + 1] \in Levels
    <3>1. i \in 0 .. 7
      BY <2>2, <2>3
    <3> QED BY <1>8, <3>1
  <2>5. Len(todo') # 25 /\ (todo' = <<>> <=> k = 23) /\ Len(todo') \in Nat
    <3>1. Len(todo') \in Nat /\ (todo' = <<>> <=> Len(todo') = 0)
      BY <1>2, NoneLeft, Zenon
    <3> QED BY <2>2, <3>1, Zenon
  <2>6. CASE k = 3 * i
    <3>1. scl = 0 /\ Begins(slave.in, i, arg)
      BY <2>1, <2>3, <2>6, Thirds
    <3>2. todo[1] = Drive(arg[i + 1], 0)
      <4>1. bits[k + 1] = bits[3 * i + 1]
        BY <2>4, <2>6
      <4> QED BY <1>8, <2>2, <2>4, <4>1
    <3>3. scl' = 0 /\ sda' = arg[i + 1] /\ slave' = slave
      BY <1>1, <3>1, <3>2, CallDone DEF Reaction, Drive
    <3>4. k + 1 = 3 * i + 1 /\ (k + 1) % 3 = 1 /\ (k + 1 + 1) \div 3 = i /\ (k + 1 + 2) \div 3 = i + 1
          /\ k # 23
      BY <2>4, <2>6, Thirds
    <3>5. Begins(slave'.in, i, arg)
      BY <1>1, <3>1, <3>3 DEF Begins
    <3>6. (24 - Len(todo')) % 3 = 1 /\ (24 - Len(todo') + 1) \div 3 = i
          /\ (24 - Len(todo') + 2) \div 3 = i + 1
      BY <2>2, <3>4
    <3>7. Writing'
      BY <1>1, <1>7, <2>1, <2>2, <2>5, <3>3, <3>5, <3>6
    <3> QED BY <2>5, <3>4, <3>7
  <2>7. CASE k = 3 * i + 1
    <3>1. scl = 0 /\ Begins(slave.in, i, arg) /\ sda = arg[i + 1]
      BY <2>1, <2>3, <2>7, Thirds
    <3>2. todo[1] = Drive(arg[i + 1], 1)
      <4>1. bits[k + 1] = bits[3 * i + 2]
        BY <2>4, <2>7
      <4> QED BY <1>8, <2>2, <2>4, <4>1
    <3>3. scl' = 1 /\ sda' = arg[i + 1] /\ Risen(slave, slave', arg[i + 1])
      BY <1>1, <2>1, <3>1, <3>2, CallDone DEF Reaction, Drive, SlaveGood
    <3>4. k + 1 = 3 * i + 2 /\ (k + 1) % 3 = 2 /\ (k + 1 + 1) \div 3 = i + 1
          /\ (k + 1 + 2) \div 3 = i + 1 /\ k # 23
      BY <2>4, <2>7, Thirds
    <3>5. /\ slave'.mode = "recv" /\ slave'.first = slave.first /\ slave'.in = Append(slave.in, arg[i + 1])
      BY <2>1, <2>4, <3>1, <3>3 DEF Risen, Begins
    <3>6. Begins(slave'.in, i + 1, arg)
      <4>1. Len(slave'.in) = i + 1
        BY <1>1, <3>1, <3>5 DEF Begins
      <4>2. ASSUME NEW j \in 1 .. i + 1 PROVE slave'.in[j] = arg[j]
        BY <1>1, <2>4, <3>1, <3>5 DEF Begins
      <4> QED BY <1>1, <4>1, <4>2 DEF Begins
    <3> QED BY <1>1, <1>7, <2>1, <2>2, <2>5, <3>3, <3>4, <3>5, <3>6
  <2>8. CASE k = 3 * i + 2
    <3>1. scl = 1 /\ Begins(slave.in, i + 1, arg) /\ sda = arg[i + 1]
      BY <2>1, <2>3, <2>8, Thirds
    <3>2. todo[1] = Drive(arg[i + 1], 0)
      <4>1. bits[k + 1] = bits[3 * i + 3]
        BY <2>4, <2>8
      <4> QED BY <1>8, <2>2, <2>4, <4>1
    <3>3. scl' = 0 /\ sda' = arg[i + 1] /\ Fallen(slave, slave')
      BY <1>1, <3>1, <3>2, CallDone DEF Reaction, Drive
    <3>4. CASE i < 7
      <4>1. k + 1 = 3 * (i + 1) /\ (k + 1) % 3 = 0 /\ (k + 1 + 1) \div 3 = i + 1 /\ k # 23
        BY <2>4, <2>8, <3>4, Thirds
      <4>2. slave' = slave
        BY <2>1, <2>4, <3>1, <3>3, <3>4 DEF Fallen, Begins
      <4>3. Begins(slave'.in, i + 1, arg)
        BY <1>1, <3>1, <4>2 DEF Begins
      <4> QED BY <1>1, <1>7, <2>1, <2>2, <2>5, <3>3, <4>1, <4>2, <4>3
    <3>5. CASE i = 7
      <4>1. slave'.mode = "ack" /\ slave'.in = slave.in /\ slave'.first = slave.first
        <5>1. slave.mode = "recv"
          BY <2>1
        <5>2. Len(slave.in) = i + 1
          BY <3>1, Zenon DEF Begins
        <5>3. Len(slave.in) = 8
          BY <3>5, <5>2
        <5> QED BY <3>3, <5>1, <5>3 DEF Fallen
      <4>2. slave.in = arg
        BY <1>1, <3>1, <3>5, ByteBits8 DEF Begins
      <4>3. todo' = <<>>
        BY <2>5, <2>8, <3>5
      <4> QED BY <1>1, <2>1, <3>3, <4>1, <4>2, <4>3 DEF Rest
    <3> QED BY <2>4, <3>4, <3>5
  <2> QED BY <2>3, <2>6, <2>7, <2>8
<1> QED BY <1>3, <1>4

-----------------------------------------------------------------------------
LEMMA HalvesOf ==
  ASSUME NEW k \in Nat
  PROVE  \E i \in Nat : k = 2 * i \/ k = 2 * i + 1
<1>1. k \div 2 \in Nat /\ (k = 2 * (k \div 2) \/ k = 2 * (k \div 2) + 1)
  OBVIOUS
<1> QED BY <1>1, Zenon

LEMMA Halves ==
  ASSUME NEW i \in Nat
  PROVE  /\ (2 * i) % 2 = 0 /\ (2 * i) \div 2 = i /\ (2 * i + 1) \div 2 = i
         /\ (2 * i + 1) % 2 = 1 /\ (2 * i + 2) \div 2 = i + 1 /\ (2 * i + 2) % 2 = 0
         /\ (2 * i + 3) \div 2 = i + 1
OBVIOUS

\* The two calls of each bit of i2c_master_readByte, and the fall that ends the last.
LEMMA ReadBit ==
  /\ ReadBits \in Seq(Calls) /\ Len(ReadBits) = 17
  /\ \A i \in 0 .. 8 : ReadBits[2 * i + 1] = Drive(1, 0)
  /\ \A i \in 0 .. 7 : ReadBits[2 * i + 2] = Sampled(1, 1)
<1>1. Drive(1, 0) \in Calls /\ Sampled(1, 1) \in Calls
  BY DEF Drive, Sampled, Calls, Levels
<1>2. ReadBits \in Seq(Calls) /\ Len(ReadBits) = 17
  BY <1>1 DEF ReadBits
<1>3. \A k \in 1 .. 17 : ReadBits[k] = IF k % 2 = 0 THEN Sampled(1, 1) ELSE Drive(1, 0)
  BY DEF ReadBits
<1>4. ASSUME NEW i \in 0 .. 8 PROVE ReadBits[2 * i + 1] = Drive(1, 0)
  <2>1. (2 * i + 1) % 2 # 0 /\ 2 * i + 1 \in 1 .. 17
    OBVIOUS
  <2> QED BY <1>3, <2>1
<1>5. ASSUME NEW i \in 0 .. 7 PROVE ReadBits[2 * i + 2] = Sampled(1, 1)
  <2>1. (2 * i + 2) % 2 = 0 /\ 2 * i + 2 \in 1 .. 17
    OBVIOUS
  <2> QED BY <1>3, <2>1
<1> QED BY <1>2, <1>4, <1>5

\* Each setDC call of i2c_master_readByte: the slave has sent as many bits as are in got.
LEMMA ReadCalls ==
  ASSUME I2cTypeOK, StageOfOp, todo # <<>>, op = "read", Reading, SetDC
  PROVE  IF todo' = <<>> THEN Rest' ELSE Reading'
<1> DEFINE k == 17 - Len(todo)
<1>1. /\ SlaveGood(slave) /\ SlaveGood(slave') /\ stage' = "read"
      /\ scl \in Levels /\ sda \in Levels /\ got \in Seq(Levels) /\ got' \in Seq(Levels)
  BY CallDone DEF StageOfOp, Reaction, I2cTypeOK, SlaveGood, Slaves
<1>2. /\ ReadBits \in Seq(Calls) /\ Len(ReadBits) = 17 /\ todo \in Seq(Calls) /\ todo' \in Seq(Calls)
      /\ Len(todo) \in Nat \ {0} /\ Len(todo') = Len(todo) - 1
      /\ \A j \in 1 .. Len(todo) - 1 : todo'[j] = todo[j + 1]
  BY <1>1, ReadBit, CallDone DEF I2cTypeOK
<1>3. k = 17 - Len(todo)
  BY DEF k
<1>4. /\ slave.mode = "send" /\ sda = 1
      /\ Len(todo) = 18 => /\ scl = 0 /\ slave.idx = 1 /\ got = <<>>
                           /\ todo = <<Drive(sda, 0)>> \o ReadBits
      /\ Len(todo) # 18 => /\ LeftOf(todo, ReadBits)
                           /\ scl = (IF k # 0 /\ k % 2 = 0 THEN 1 ELSE 0)
                           /\ slave.idx = (IF k = 0 THEN 1 ELSE (k + 1) \div 2)
                           /\ Begins(got, k \div 2, slave.out)
  BY DEF Reading
<1>5. /\ slave'.mode = "send" /\ sda' = 1 /\ Len(todo') # 18 /\ LeftOf(todo', ReadBits)
      /\ LET n == 17 - Len(todo') IN
         /\ scl' = (IF n # 0 /\ n % 2 = 0 THEN 1 ELSE 0)
         /\ slave'.idx = (IF n = 0 THEN 1 ELSE (n + 1) \div 2)
         /\ Begins(got', n \div 2, slave'.out)
      => Reading'
  BY DEF Reading, ReadBits
<1>6. slave.out \in [1 .. 8 -> Levels] /\ slave.idx \in 1 .. 8 /\ (slave.pull <=> slave.out[slave.idx] = 0)
  BY <1>1, <1>4, ByteBits8 DEF SlaveGood, Slaves
<1> HIDE DEF k
<1>7. CASE Len(todo) = 18
  <2>1. PICK x \in Calls : x = Drive(sda, 0)
    BY <1>1 DEF Drive, Calls, Levels
  <2>2. todo = <<x>> \o ReadBits
    BY <1>4, <1>7, <2>1
  <2>3. todo[1] = x /\ \A j \in 1 .. Len(todo) - 1 : todo[j + 1] = ReadBits[j]
    BY <1>2, <2>2, OneThen
  <2>4. LeftOf(todo', ReadBits)
    BY <1>2, <1>7, <2>3 DEF LeftOf
  <2>5. scl' = 0 /\ sda' = 1 /\ slave' = slave /\ got' = got
    BY <1>1, <1>4, <1>7, <2>1, <2>3, CallDone DEF Reaction, Drive, Levels
  <2>6. Len(todo') = 17 /\ todo' # <<>>
    <3>1. Len(todo') = 17
      BY <1>2, <1>7
    <3>2. todo' = <<>> <=> Len(todo') = 0
      BY <1>2, NoneLeft, Zenon
    <3> QED BY <3>1, <3>2
  <2>7. Begins(got', 0, slave'.out)
    BY <1>4, <1>7, <2>5 DEF Begins
  <2>8. 17 - 17 = 0 /\ 0 \div 2 = 0
    OBVIOUS
  <2> QED BY <1>4, <1>5, <1>7, <2>4, <2>5, <2>6, <2>7, <2>8
<1>8. CASE Len(todo) # 18
  <2>1. /\ LeftOf(todo, ReadBits)
        /\ scl = (IF k # 0 /\ k % 2 = 0 THEN 1 ELSE 0)
        /\ slave.idx = (IF k = 0 THEN 1 ELSE (k + 1) \div 2)
        /\ Begins(got, k \div 2, slave.out)
    BY <1>4, <1>8
  <2>2. /\ LeftOf(todo', ReadBits) /\ todo[1] = ReadBits[k + 1] /\ k \in 0 .. 16
        /\ 17 - Len(todo') = k + 1 /\ Len(todo') # 18 /\ (Len(todo') = 0 <=> k = 16)
    <3>1. LeftOf(todo', ReadBits) /\ todo[1] = ReadBits[Len(ReadBits) - Len(todo) + 1]
      BY <1>2, <2>1, LeftOfMoves
    <3>2. Len(todo) <= 17
      BY <1>2, <2>1 DEF LeftOf
    <3>3. PICK n \in Nat \ {0} : n = Len(todo)
      BY <1>2
    <3>4. PICK m \in Nat : m = Len(todo')
      BY <1>2
    <3>5. m = n - 1 /\ n <= 17
      BY <1>2, <3>2, <3>3, <3>4
    <3>6. 17 - n \in 0 .. 16 /\ 17 - m = (17 - n) + 1 /\ m # 18 /\ (m = 0 <=> 17 - n = 16)
      BY <3>5
    <3>7. /\ 17 - Len(todo) \in 0 .. 16 /\ 17 - Len(todo') = (17 - Len(todo)) + 1
          /\ Len(todo') # 18 /\ (Len(todo') = 0 <=> 17 - Len(todo) = 16)
      BY <3>3, <3>4, <3>6, Zenon
    <3>8. Len(ReadBits) - Len(todo) + 1 = (17 - Len(todo)) + 1
      BY <1>2
    <3> QED BY <1>3, <3>1, <3>7, <3>8, Zenon
  <2>3. PICK i \in Nat : k = 2 * i \/ k = 2 * i + 1
    <3>1. k \in Nat
      BY <2>2
    <3> QED BY <3>1, HalvesOf, Zenon
  <2>4. todo' = <<>> <=> k = 16
    <3>1. todo' = <<>> <=> Len(todo') = 0
      BY <1>2, NoneLeft, Zenon
    <3> QED BY <2>2, <3>1, Zenon
  <2>5. CASE k = 2 * i
    <3>1. i \in 0 .. 8 /\ Begins(got, i, slave.out) /\ scl = (IF i # 0 THEN 1 ELSE 0)
          /\ slave.idx = (IF i = 0 THEN 1 ELSE i)
      BY <2>1, <2>2, <2>5, Halves
    <3>2. todo[1] = Drive(1, 0)
      <4>1. ReadBits[k + 1] = ReadBits[2 * i + 1]
        BY <2>5
      <4> QED BY <2>2, <3>1, <4>1, ReadBit
    <3>3. scl' = 0 /\ sda' = 1 /\ got' = got
      BY <3>2, CallDone DEF Drive
    <3>4. k + 1 = 2 * i + 1 /\ (k + 1) % 2 = 1 /\ (k + 1 + 1) \div 2 = i + 1 /\ (k + 1) \div 2 = i
          /\ k + 1 # 0
      BY <2>5, Halves
    <3>5. CASE i < 8
      <4>1. slave'.mode = "send" /\ slave'.out = slave.out /\ slave'.idx = i + 1
        <5>1. CASE i = 0
          <6>1. slave' = slave
            BY <1>1, <3>1, <3>2, <5>1, CallDone DEF Reaction, Drive
          <6> QED BY <1>4, <3>1, <5>1, <6>1
        <5>2. CASE i # 0
          <6>1. Fallen(slave, slave')
            BY <1>1, <1>4, <3>1, <3>2, <5>2, CallDone DEF Reaction, Drive
          <6> QED BY <1>4, <3>1, <3>5, <5>2, <6>1 DEF Fallen
        <5> QED BY <5>1, <5>2
      <4>2. Begins(got', i, slave'.out) /\ k # 16
        BY <2>5, <3>1, <3>3, <3>5, <4>1
      <4>3. (17 - Len(todo')) % 2 = 1 /\ (17 - Len(todo') + 1) \div 2 = i + 1
            /\ (17 - Len(todo')) \div 2 = i /\ 17 - Len(todo') # 0
        BY <2>2, <3>4
      <4>4. Reading'
        BY <1>5, <2>2, <3>3, <4>1, <4>2, <4>3
      <4> QED BY <2>4, <4>2, <4>4
    <3>6. CASE i = 8
      <4>1. Fallen(slave, slave')
        BY <1>1, <1>4, <3>1, <3>2, <3>6, CallDone DEF Reaction, Drive
      <4>2. slave'.mode = "mack" /\ slave'.out = slave.out
        BY <1>4, <3>1, <3>6, <4>1 DEF Fallen
      <4>3. got' = slave'.out
        <5>1. got \in Seq(Levels) /\ Len(got) = 8 /\ \A j \in 1 .. 8 : got[j] = slave.out[j]
          BY <1>1, <3>1, <3>6 DEF Begins
        <5>2. slave.out \in [1 .. 8 -> Levels]
          BY <1>6
        <5>3. got = slave.out
          BY <5>1, <5>2
        <5> QED BY <3>3, <4>2, <5>3
      <4>4. todo' = <<>>
        BY <2>4, <2>5, <3>6
      <4> QED BY <1>1, <3>3, <4>2, <4>3, <4>4 DEF Rest
    <3> QED BY <3>1, <3>5, <3>6
  <2>6. CASE k = 2 * i + 1
    <3>1. i \in 0 .. 7 /\ Begins(got, i, slave.out) /\ scl = 0 /\ slave.idx = i + 1 /\ k # 16
      BY <2>1, <2>2, <2>6, Halves
    <3>2. todo[1] = Sampled(1, 1)
      <4>1. ReadBits[k + 1] = ReadBits[2 * i + 2]
        BY <2>6
      <4> QED BY <2>2, <3>1, <4>1, ReadBit
    <3>3. scl' = 1 /\ sda' = 1 /\ got' = Append(got, IF slave'.pull THEN 0 ELSE 1)
      BY <3>2, CallDone DEF Sampled
    <3>4. Risen(slave, slave', IF slave.pull THEN 0 ELSE 1)
      BY <1>1, <1>4, <3>1, <3>2, CallDone DEF Reaction, Sampled
    <3>5. /\ slave'.mode = "send" /\ slave'.out = slave.out /\ slave'.idx = i + 1
          /\ slave'.pull = slave.pull
      BY <1>4, <3>1, <3>4 DEF Risen
    <3>6. got' = Append(got, slave.out[i + 1])
      BY <1>6, <3>1, <3>3, <3>5 DEF Levels
    <3>7. Begins(got', i + 1, slave'.out)
      <4>1. Len(got') = i + 1
        BY <1>1, <3>1, <3>6 DEF Begins
      <4>2. ASSUME NEW j \in 1 .. i + 1 PROVE got'[j] = slave.out[j]
        BY <1>1, <3>1, <3>6 DEF Begins
      <4> QED BY <3>5, <4>1, <4>2 DEF Begins
    <3>8. (17 - Len(todo')) % 2 = 0 /\ (17 - Len(todo') + 1) \div 2 = i + 1
          /\ (17 - Len(todo')) \div 2 = i + 1 /\ 17 - Len(todo') # 0
      <4>1. k + 1 = 2 * i + 2 /\ (2 * i + 2) % 2 = 0 /\ (2 * i + 2) \div 2 = i + 1
            /\ (2 * i + 2 + 1) \div 2 = i + 1 /\ 2 * i + 2 # 0
        BY <2>6, Halves
      <4> QED BY <2>2, <4>1
    <3>9. Reading'
      BY <1>5, <2>2, <3>3, <3>5, <3>7, <3>8
    <3> QED BY <2>4, <3>1, <3>9
  <2> QED BY <2>3, <2>5, <2>6
<1> QED BY <1>7, <1>8

-----------------------------------------------------------------------------
LEMMA Joined ==
  ASSUME NEW s \in Seq(Calls), NEW t \in Seq(Calls)
  PROVE  /\ s \o t \in Seq(Calls) /\ Len(s \o t) = Len(s) + Len(t)
         /\ \A j \in 1 .. Len(s) : (s \o t)[j] = s[j]
         /\ \A j \in 1 .. Len(t) : (s \o t)[j + Len(s)] = t[j]
OBVIOUS

\* The calls of i2c_master_init by their number.
LEMMA InitPulse ==
  /\ InitPulses \in Seq(Calls) /\ Len(InitPulses) = 2 * InitClocks + 6
  /\ InitPulses[1] = Drive(1, 0) /\ InitPulses[2] = Drive(0, 0) /\ InitPulses[3] = Drive(1, 0)
  /\ \A i \in 0 .. InitClocks - 1 : /\ InitPulses[2 * i + 4] = Drive(1, 0)
                                    /\ InitPulses[2 * i + 5] = Drive(1, 1)
  /\ InitPulses[2 * InitClocks + 4] = Drive(0, 1)
  /\ InitPulses[2 * InitClocks + 5] = Drive(0, 1)
  /\ InitPulses[2 * InitClocks + 6] = Drive(1, 1)
<1> DEFINE head == <<Drive(1, 0), Drive(0, 0), Drive(1, 0)>>
           clocks == [k \in 1 .. 2 * InitClocks |-> Drive(1, IF k % 2 = 0 THEN 1 ELSE 0)]
           stop == <<Drive(0, 1), Drive(0, 1), Drive(1, 1)>>
<1>1. \A d, c \in Levels : Drive(d, c) \in Calls
  BY DEF Drive, Calls
<1>2. head \in Seq(Calls) /\ stop \in Seq(Calls) /\ Len(head) = 3 /\ Len(stop) = 3
  BY <1>1 DEF Levels
<1>3. clocks \in Seq(Calls) /\ Len(clocks) = 2 * InitClocks
  <2>1. \A k \in 1 .. 2 * InitClocks : Drive(1, IF k % 2 = 0 THEN 1 ELSE 0) \in Calls
    BY <1>1 DEF Levels
  <2>2. 2 * InitClocks \in Nat
    BY I2cMasterOK
  <2> QED BY <2>1, <2>2
<1>4. InitPulses = (head \o clocks) \o stop
  BY DEF InitPulses, StopPulses
<1>5. \A i \in 0 .. InitClocks - 1 : /\ clocks[2 * i + 1] = Drive(1, 0)
                                     /\ clocks[2 * i + 2] = Drive(1, 1)
  <2> SUFFICES ASSUME NEW i \in 0 .. InitClocks - 1
               PROVE  clocks[2 * i + 1] = Drive(1, 0) /\ clocks[2 * i + 2] = Drive(1, 1)
    OBVIOUS
  <2>1. /\ (2 * i + 1) % 2 = 1 /\ (2 * i + 2) % 2 = 0
        /\ 2 * i + 1 \in 1 .. 2 * InitClocks /\ 2 * i + 2 \in 1 .. 2 * InitClocks
    BY I2cMasterOK
  <2> QED BY <2>1
<1>6. /\ head[1] = Drive(1, 0) /\ head[2] = Drive(0, 0) /\ head[3] = Drive(1, 0)
      /\ stop[1] = Drive(0, 1) /\ stop[2] = Drive(0, 1) /\ stop[3] = Drive(1, 1)
  OBVIOUS
<1> HIDE DEF head, clocks, stop
<1>7. /\ head \o clocks \in Seq(Calls) /\ Len(head \o clocks) = 2 * InitClocks + 3
      /\ \A j \in 1 .. 3 : (head \o clocks)[j] = head[j]
      /\ \A j \in 1 .. 2 * InitClocks : (head \o clocks)[j + 3] = clocks[j]
  <2>1. /\ head \o clocks \in Seq(Calls) /\ Len(head \o clocks) = Len(head) + Len(clocks)
        /\ \A j \in 1 .. Len(head) : (head \o clocks)[j] = head[j]
        /\ \A j \in 1 .. Len(clocks) : (head \o clocks)[j + Len(head)] = clocks[j]
    BY <1>2, <1>3, Joined, Zenon
  <2>2. 3 + 2 * InitClocks = 2 * InitClocks + 3
    BY I2cMasterOK
  <2> QED BY <1>2, <1>3, <2>1, <2>2, Zenon
<1>8. /\ InitPulses \in Seq(Calls) /\ Len(InitPulses) = 2 * InitClocks + 6
      /\ \A j \in 1 .. 2 * InitClocks + 3 : InitPulses[j] = (head \o clocks)[j]
      /\ \A j \in 1 .. 3 : InitPulses[j + (2 * InitClocks + 3)] = stop[j]
  <2>1. \A s \in Seq(Calls) : /\ s \o stop \in Seq(Calls) /\ Len(s \o stop) = Len(s) + Len(stop)
                              /\ \A j \in 1 .. Len(s) : (s \o stop)[j] = s[j]
                              /\ \A j \in 1 .. Len(stop) : (s \o stop)[j + Len(s)] = stop[j]
    BY <1>2, Joined, Zenon
  <2>2. /\ InitPulses \in Seq(Calls)
        /\ Len(InitPulses) = Len(head \o clocks) + Len(stop)
        /\ \A j \in 1 .. Len(head \o clocks) : InitPulses[j] = (head \o clocks)[j]
        /\ \A j \in 1 .. Len(stop) : InitPulses[j + Len(head \o clocks)] = stop[j]
    BY <1>4, <1>7, <2>1, Zenon
  <2>3. 2 * InitClocks + 3 + 3 = 2 * InitClocks + 6
    BY I2cMasterOK
  <2> QED BY <1>2, <1>7, <2>2, <2>3, Zenon
<1>9. ASSUME NEW i \in 0 .. InitClocks - 1
      PROVE  InitPulses[2 * i + 4] = Drive(1, 0) /\ InitPulses[2 * i + 5] = Drive(1, 1)
  <2>1. /\ 2 * i + 1 \in 1 .. 2 * InitClocks /\ 2 * i + 2 \in 1 .. 2 * InitClocks
        /\ 2 * i + 1 + 3 = 2 * i + 4 /\ 2 * i + 2 + 3 = 2 * i + 5
        /\ 2 * i + 4 \in 1 .. 2 * InitClocks + 3 /\ 2 * i + 5 \in 1 .. 2 * InitClocks + 3
    BY I2cMasterOK
  <2>2. /\ (head \o clocks)[2 * i + 4] = clocks[2 * i + 1]
        /\ (head \o clocks)[2 * i + 5] = clocks[2 * i + 2]
    BY <1>7, <2>1
  <2> QED BY <1>5, <1>8, <2>1, <2>2
<1>10. /\ InitPulses[1] = Drive(1, 0) /\ InitPulses[2] = Drive(0, 0) /\ InitPulses[3] = Drive(1, 0)
  <2>1. 1 \in 1 .. 3 /\ 2 \in 1 .. 3 /\ 3 \in 1 .. 3 /\ \A j \in 1 .. 3 : j \in 1 .. 2 * InitClocks + 3
    BY I2cMasterOK
  <2> QED BY <1>6, <1>7, <1>8, <2>1, Zenon
<1>11. /\ InitPulses[2 * InitClocks + 4] = Drive(0, 1)
       /\ InitPulses[2 * InitClocks + 5] = Drive(0, 1)
       /\ InitPulses[2 * InitClocks + 6] = Drive(1, 1)
  <2>1. /\ 1 + (2 * InitClocks + 3) = 2 * InitClocks + 4
        /\ 2 + (2 * InitClocks + 3) = 2 * InitClocks + 5
        /\ 3 + (2 * InitClocks + 3) = 2 * InitClocks + 6
    BY I2cMasterOK
  <2> QED BY <1>6, <1>8, <2>1
<1> QED BY <1>8, <1>9, <1>10, <1>11

\* Nine clocks are a byte and its acknowledge.
LEMMA Nines ==
  ASSUME NEW r \in Int
  PROVE  /\ (8 + r) % 9 # 0 => (r - 1) % 9 # 0
         /\ \A n \in Int : ((n + 1) + (r - 1)) % 9 = (n + r) % 9
<1>1. (8 + r) % 9 = (r - 1) % 9
  OBVIOUS
<1>2. \A n \in Int : (n + 1) + (r - 1) = n + r
  OBVIOUS
<1> QED BY <1>1, <1>2

LEMMA SlaveFields ==
  ASSUME NEW s, SlaveGood(s)
  PROVE  /\ s.mode \in {"idle", "recv", "ack", "send", "mack"} /\ s.in \in Seq(Levels)
         /\ Len(s.in) \in 0 .. 8 /\ s.idx \in 0 .. 8 /\ s.nack \in Levels
         /\ s.mode = "ack" => Len(s.in) = 8
         /\ s.pull => s.mode \in {"ack", "send"}
         /\ SlaveIdle.mode = "idle"
<1>1. s.in \in Seq(Levels) /\ Len(s.in) <= 8 /\ Len(s.in) \in Nat
  BY DEF SlaveGood, Slaves
<1>2. s.mode \in {"idle", "recv", "ack", "send", "mack"} /\ s.idx \in 0 .. 8 /\ s.nack \in Levels
  BY DEF SlaveGood, Slaves
<1>3. Len(s.in) \in 0 .. 8
  <2>1. PICK n \in Nat : n = Len(s.in)
    BY <1>1, Zenon
  <2>2. n <= 8
    BY <1>1, <2>1
  <2>3. n \in 0 .. 8
    BY <2>2
  <2> QED BY <2>1, <2>3, Zenon
<1>4. /\ s.mode = "ack" => Len(s.in) = 8
      /\ s.pull => s.mode \in {"ack", "send"}
  BY DEF SlaveGood
<1>5. SlaveIdle.mode = "idle"
  BY DEF SlaveIdle
<1>6. s.in \in Seq(Levels)
  BY <1>1
<1> QED BY <1>2, <1>3, <1>4, <1>5, <1>6

\* A fall of SCL with r pulses to come: what Fall makes of the slave keeps it on its way.
LEMMA FreedFalls ==
  ASSUME NEW s, NEW t, SlaveGood(s), SlaveGood(t), NEW r \in Nat, FreedHigh(s, r), Fallen(s, t)
  PROVE  FreedLow(t, r)
<1>1. /\ s.mode \in {"idle", "recv", "ack", "send", "mack"} /\ Len(s.in) \in 0 .. 8 /\ s.idx \in 0 .. 8
      /\ SlaveIdle.mode = "idle" /\ Len(<<>>) = 0
  BY SlaveFields
<1>2. CASE s.mode = "idle" \/ (s.mode = "recv" /\ Len(s.in) # 8)
  <2>1. t = s
    BY <1>2 DEF Fallen
  <2>2. s.mode = "recv" => Len(s.in) < 8
    <3>1. PICK n \in 0 .. 8 : n = Len(s.in)
      BY <1>1, Zenon
    <3>2. n # 8 => n < 8
      OBVIOUS
    <3> QED BY <1>1, <1>2, <3>1, <3>2
  <2> QED BY <1>2, <2>1, <2>2 DEF FreedHigh, FreedLow
<1>3. CASE s.mode = "recv" /\ Len(s.in) = 8
  <2>1. t.mode = "ack" /\ t.first = s.first
    BY <1>3 DEF Fallen
  <2>2. (8 + r) % 9 # 0 /\ (s.first => 8 + r >= 19)
    BY <1>3 DEF FreedHigh
  <2> QED BY <2>1, <2>2 DEF FreedLow
<1>4. CASE s.mode = "ack"
  <2>4. r % 9 # 0 /\ (s.first => r >= 10)
    BY <1>4 DEF FreedHigh
  <2>1. CASE ~s.pull
    <3>1. t.mode = "idle"
      BY <1>1, <1>4, <2>1 DEF Fallen
    <3> QED BY <3>1 DEF FreedLow
  <2>2. CASE s.pull /\ s.first /\ s.in[8] = 1
    <3>1. t.mode = "send" /\ t.idx = 1
      BY <1>4, <2>2 DEF Fallen
    <3> QED BY <2>2, <2>4, <3>1 DEF FreedLow
  <2>3. CASE s.pull /\ ~(s.first /\ s.in[8] = 1)
    <3>1. t.mode = "recv" /\ t.in = <<>> /\ ~t.first
      BY <1>4, <2>3 DEF Fallen
    <3>2. Len(t.in) = 0 /\ 0 + r = r
      BY <1>1, <3>1
    <3> QED BY <2>4, <3>1, <3>2 DEF FreedLow
  <2> QED BY <2>1, <2>2, <2>3
<1>5. CASE s.mode = "send"
  <2>1. s.idx + r >= 10
    BY <1>5 DEF FreedHigh
  <2>2. CASE s.idx < 8
    <3>1. t.mode = "send" /\ t.idx = s.idx + 1
      BY <1>5, <2>2 DEF Fallen
    <3> QED BY <1>1, <2>1, <3>1 DEF FreedLow
  <2>3. CASE s.idx = 8
    <3>1. t.mode = "mack"
      BY <1>5, <2>3 DEF Fallen
    <3> QED BY <2>1, <2>3, <3>1 DEF FreedLow
  <2> QED BY <1>1, <2>2, <2>3
<1>6. CASE s.mode = "mack"
  <2>1. r >= 1 /\ (s.nack = 1 \/ r >= 10)
    BY <1>6 DEF FreedHigh
  <2>2. CASE s.nack = 1
    <3>1. t.mode = "idle"
      BY <1>1, <1>6, <2>2 DEF Fallen
    <3> QED BY <3>1 DEF FreedLow
  <2>3. CASE s.nack # 1
    <3>1. t.mode = "send" /\ t.idx = 1
      BY <1>6, <2>3 DEF Fallen
    <3> QED BY <2>1, <2>3, <3>1 DEF FreedLow
  <2> QED BY <2>2, <2>3
<1> QED BY <1>1, <1>2, <1>3, <1>4, <1>5, <1>6

\* A rise of SCL with SDA let go takes one of the pulses.
LEMMA FreedRises ==
  ASSUME NEW s, NEW t, SlaveGood(s), SlaveGood(t), NEW r \in Nat \ {0}, FreedLow(s, r),
         Risen(s, t, IF s.pull THEN 0 ELSE 1)
  PROVE  FreedHigh(t, r - 1)
<1>1. /\ s.mode \in {"idle", "recv", "ack", "send", "mack"} /\ Len(s.in) \in 0 .. 8 /\ s.idx \in 0 .. 8
      /\ s.in \in Seq(Levels) /\ (s.pull => s.mode \in {"ack", "send"})
  BY SlaveFields
<1>2. t.mode = s.mode /\ t.first = s.first /\ t.idx = s.idx
  BY DEF Risen
<1>3. CASE s.mode = "idle"
  BY <1>2, <1>3 DEF FreedHigh
<1>4. CASE s.mode = "recv"
  <2>1. Len(s.in) < 8 /\ (Len(s.in) + r) % 9 # 0 /\ (s.first => Len(s.in) + r >= 19)
    BY <1>4 DEF FreedLow
  <2>2. t.in = Append(s.in, IF s.pull THEN 0 ELSE 1)
    BY <1>4, <2>1 DEF Risen
  <2>3. Len(t.in) = Len(s.in) + 1
    BY <1>1, <2>2
  <2>4. (Len(s.in) + 1) + (r - 1) = Len(s.in) + r
    BY <1>1
  <2> QED BY <1>2, <1>4, <2>1, <2>3, <2>4 DEF FreedHigh
<1>5. CASE s.mode = "ack"
  <2>1. (8 + r) % 9 # 0 /\ (s.first => r >= 11)
    BY <1>5 DEF FreedLow
  <2>2. (r - 1) % 9 # 0
    BY <2>1, Nines
  <2> QED BY <1>2, <1>5, <2>1, <2>2 DEF FreedHigh
<1>6. CASE s.mode = "send"
  <2>1. s.idx + (r - 1) >= 10
    BY <1>1, <1>6 DEF FreedLow
  <2> QED BY <1>2, <1>6, <2>1 DEF FreedHigh
<1>7. CASE s.mode = "mack"
  <2>1. r >= 2
    BY <1>7 DEF FreedLow
  <2>2. t.nack = 1
    BY <1>1, <1>7 DEF Risen
  <2> QED BY <1>2, <1>7, <2>1, <2>2 DEF FreedHigh
<1> QED BY <1>1, <1>3, <1>4, <1>5, <1>6, <1>7

\* With no pulse to come the slave does not hold the line, so that the STOP is seen.
LEMMA FreedAtLast ==
  ASSUME NEW s, SlaveGood(s), FreedHigh(s, 0)
  PROVE  ~s.pull
<1>1. s.idx \in 0 .. 8 /\ (s.pull => s.mode \in {"ack", "send"})
  BY SlaveFields
<1>2. 0 % 9 = 0
  OBVIOUS
<1> QED BY <1>1, <1>2 DEF FreedHigh

\* Whatever a restart of the module left the slave at but a whole byte.
LEMMA FreedAtFirst ==
  ASSUME NEW s, SlaveGood(s), ~(s.mode = "recv" /\ Len(s.in) = 8)
  PROVE  FreedHigh(s, InitClocks)
<1>1. InitClocks \in Nat /\ InitClocks >= 19 /\ InitClocks % 9 = 1
  BY I2cMasterOK
<1>2. Len(s.in) \in 0 .. 8 /\ s.idx \in 0 .. 8
  BY SlaveFields
<1>3. \A n \in 0 .. 7 : (n + InitClocks) % 9 # 0
  BY <1>1
<1>4. s.mode = "recv" => (Len(s.in) + InitClocks) % 9 # 0 /\ Len(s.in) + InitClocks >= 19
  <2>1. PICK n \in 0 .. 8 : n = Len(s.in)
    BY <1>2, Zenon
  <2>2. n # 8 => (n + InitClocks) % 9 # 0 /\ n + InitClocks >= 19
    BY <1>1, <1>3
  <2>3. s.mode = "recv" => n # 8
    BY <2>1
  <2> QED BY <2>1, <2>2, <2>3, Zenon
<1>5. s.idx + InitClocks >= 10 /\ InitClocks % 9 # 0 /\ InitClocks >= 10 /\ InitClocks >= 1
  BY <1>1, <1>2
<1> QED BY <1>4, <1>5, Zenon DEF FreedHigh

-----------------------------------------------------------------------------
\* The setDC calls of i2c_master_init, by how many are over.
LEMMA InitCalls ==
  ASSUME I2cTypeOK, StageOfOp, todo # <<>>, op = "init", Initing, SetDC
  PROVE  IF todo' = <<>> THEN Rest' ELSE Initing'
<1> DEFINE R == InitClocks
           k == 2 * R + 6 - Len(todo)
           At(n, d, c, s) ==
             /\ n = 0 => d = 1 /\ c = 1
             /\ n \in 1 .. 2 => c = 0
             /\ n \in 0 .. 2 => Freed(s, c, R)
             /\ n - 3 \in 0 .. 2 * R =>
                  /\ d = 1 /\ c = (IF n - 3 # 0 /\ (n - 3) % 2 = 0 THEN 1 ELSE 0)
                  /\ Freed(s, c, R - ((n - 3) \div 2))
             /\ n - 3 > 2 * R => ~s.pull /\ c = 1 /\ d = 0
<1>1. /\ SlaveGood(slave) /\ SlaveGood(slave') /\ stage' = "free"
      /\ scl \in Levels /\ sda \in Levels /\ R \in Nat /\ R > 18
  BY CallDone, I2cMasterOK DEF StageOfOp, Reaction, I2cTypeOK
<1>2. /\ InitPulses \in Seq(Calls) /\ Len(InitPulses) = 2 * R + 6
      /\ todo \in Seq(Calls) /\ todo' \in Seq(Calls)
      /\ Len(todo) \in Nat \ {0} /\ Len(todo') = Len(todo) - 1
      /\ \A j \in 1 .. Len(todo) - 1 : todo'[j] = todo[j + 1]
  BY InitPulse, CallDone DEF I2cTypeOK
<1>3. LeftOf(todo, InitPulses) /\ At(k, sda, scl, slave)
  BY DEF Initing
<1>4. LeftOf(todo', InitPulses) /\ At(2 * R + 6 - Len(todo'), sda', scl', slave') => Initing'
  BY DEF Initing, Freed, FreedHigh, FreedLow, InitPulses, StopPulses
<1>5. k = 2 * R + 6 - Len(todo)
  BY DEF k
<1> HIDE DEF k, At
<1>6. /\ LeftOf(todo', InitPulses) /\ todo[1] = InitPulses[k + 1] /\ k \in 0 .. 2 * R + 5
      /\ 2 * R + 6 - Len(todo') = k + 1 /\ (todo' = <<>> <=> k = 2 * R + 5)
  <2>1. LeftOf(todo', InitPulses) /\ todo[1] = InitPulses[Len(InitPulses) - Len(todo) + 1]
    BY <1>2, <1>3, LeftOfMoves
  <2>2. Len(todo) <= 2 * R + 6
    BY <1>2, <1>3 DEF LeftOf
  <2>3. PICK n \in Nat \ {0} : n = Len(todo)
    BY <1>2
  <2>4. PICK m \in Nat : m = Len(todo')
    BY <1>2
  <2>5. m = n - 1 /\ n <= 2 * R + 6
    BY <1>2, <2>2, <2>3, <2>4
  <2>6. /\ 2 * R + 6 - n \in 0 .. 2 * R + 5 /\ 2 * R + 6 - m = (2 * R + 6 - n) + 1
        /\ (m = 0 <=> 2 * R + 6 - n = 2 * R + 5)
    BY <1>1, <2>5
  <2>7. todo' = <<>> <=> Len(todo') = 0
    BY <1>2, NoneLeft, Zenon
  <2>8. k = 2 * R + 6 - n /\ 2 * R + 6 - Len(todo') = 2 * R + 6 - m /\ (todo' = <<>> <=> m = 0)
    BY <1>5, <2>3, <2>4, <2>7, Zenon
  <2>9. k \in 0 .. 2 * R + 5 /\ 2 * R + 6 - Len(todo') = k + 1 /\ (todo' = <<>> <=> k = 2 * R + 5)
    <3>1. k = 2 * R + 6 - n /\ k \in 0 .. 2 * R + 5
      BY <2>6, <2>8, Zenon
    <3>2. 2 * R + 6 - Len(todo') = k + 1
      BY <2>6, <2>8, Zenon
    <3>3. m = 0 <=> k = 2 * R + 5
      BY <2>6, <3>1, Zenon
    <3> QED BY <2>8, <3>1, <3>2, <3>3
  <2>10. todo[1] = InitPulses[k + 1]
    <3>1. PICK h \in Nat : h = Len(InitPulses)
      BY <1>2
    <3>2. h = 2 * R + 6 /\ k = 2 * R + 6 - n
      BY <1>2, <2>8, <3>1, Zenon
    <3>3. h - n + 1 = k + 1
      BY <1>1, <3>2
    <3>4. todo[1] = InitPulses[h - n + 1]
      BY <2>1, <2>3, <3>1, Zenon
    <3> QED BY <3>3, <3>4, Zenon
  <2> QED BY <2>1, <2>9, <2>10
<1>16. k \in 0 .. 2 * R + 5 /\ R \in Nat /\ R > 18
  BY <1>1, <1>6
<1>7. At(k + 1, sda', scl', slave') => Initing'
  BY <1>4, <1>6
<1>8. \/ k \in {0, 1, 2, 2 * R + 3, 2 * R + 4, 2 * R + 5}
      \/ \E i \in 0 .. R - 1 : k = 2 * i + 3 \/ k = 2 * i + 4
  <2>1. CASE k < 3 \/ k > 2 * R + 2
    BY <1>16, <2>1
  <2>2. CASE k >= 3 /\ k <= 2 * R + 2
    <3>1. k - 3 \in Nat
      BY <1>16, <2>2
    <3>2. PICK i \in Nat : k - 3 = 2 * i \/ k - 3 = 2 * i + 1
      BY <3>1, HalvesOf, Zenon
    <3>3. i \in 0 .. R - 1 /\ (k = 2 * i + 3 \/ k = 2 * i + 4)
      BY <1>16, <2>2, <3>2
    <3> QED BY <3>3
  <2> QED BY <1>16, <2>1, <2>2
<1>9. CASE k = 0
  <2>1. sda = 1 /\ scl = 1 /\ FreedHigh(slave, R) /\ todo[1] = Drive(1, 0)
    BY <1>3, <1>6, <1>9, InitPulse DEF At, Freed
  <2>2. sda' = 1 /\ scl' = 0 /\ Fallen(slave, slave')
    BY <1>1, <2>1, CallDone DEF Reaction, Drive
  <2>3. FreedLow(slave', R)
    BY <1>1, <2>1, <2>2, FreedFalls
  <2>4. At(1, sda', scl', slave')
    BY <1>16, <2>2, <2>3 DEF At, Freed
  <2>5. todo' # <<>> /\ k + 1 = 1
    BY <1>6, <1>9, <1>16
  <2> QED BY <1>7, <2>4, <2>5
<1>10. CASE k = 1 \/ k = 2
  <2>1. scl = 0 /\ FreedLow(slave, R)
    BY <1>3, <1>10 DEF At, Freed
  <2>2. todo[1] = Drive(IF k = 1 THEN 0 ELSE 1, 0)
    BY <1>6, <1>10, InitPulse
  <2>3. sda' = (IF k = 1 THEN 0 ELSE 1) /\ scl' = 0 /\ slave' = slave
    BY <1>1, <1>10, <2>1, <2>2, CallDone DEF Reaction, Drive
  <2>4. R - (0 \div 2) = R
    BY <1>1
  <2>5. CASE k = 1
    <3>1. At(2, sda', scl', slave')
      BY <1>16, <2>1, <2>3 DEF At, Freed
    <3>2. todo' # <<>> /\ k + 1 = 2
      BY <1>6, <1>16, <2>5
    <3> QED BY <1>7, <3>1, <3>2
  <2>6. CASE k = 2
    <3>1. At(3, sda', scl', slave')
      BY <1>16, <2>1, <2>3, <2>4, <2>6 DEF At, Freed
    <3>2. todo' # <<>> /\ k + 1 = 3
      BY <1>6, <1>16, <2>6
    <3> QED BY <1>7, <3>1, <3>2
  <2> QED BY <1>10, <2>5, <2>6
<1>11. CASE \E i \in 0 .. R - 1 : k = 2 * i + 3 \/ k = 2 * i + 4
  <2>1. PICK i \in 0 .. R - 1 : k = 2 * i + 3 \/ k = 2 * i + 4
    BY <1>11
  <2>2. i \in Nat /\ R - i \in Nat \ {0} /\ k # 2 * R + 5
    BY <1>1, <2>1
  <2>3. CASE k = 2 * i + 3
    <3>1. todo[1] = Drive(1, 0)
      BY <1>6, <2>1, <2>3, InitPulse
    <3>2. /\ k - 3 = 2 * i /\ k - 3 \in 0 .. 2 * R /\ (k - 3) % 2 = 0 /\ (k - 3) \div 2 = i
          /\ (k - 3 # 0 <=> i # 0)
      BY <1>16, <2>1, <2>2, <2>3, Halves
    <3>3. sda = 1 /\ scl = (IF i # 0 THEN 1 ELSE 0) /\ Freed(slave, scl, R - i)
      BY <1>3, <2>2, <3>2 DEF At
    <3>4. sda' = 1 /\ scl' = 0
      BY <3>1, CallDone DEF Drive
    <3>5. FreedLow(slave', R - i)
      <4>1. CASE i = 0
        <5>1. slave' = slave
          BY <1>1, <3>1, <3>3, <4>1, CallDone DEF Reaction, Drive
        <5> QED BY <3>3, <4>1, <5>1 DEF Freed
      <4>2. CASE i # 0
        <5>1. Fallen(slave, slave') /\ FreedHigh(slave, R - i)
          BY <1>1, <3>1, <3>3, <4>2, CallDone DEF Reaction, Drive, Freed
        <5> QED BY <1>1, <2>2, <5>1, FreedFalls
      <4> QED BY <4>1, <4>2
    <3>6. /\ k + 1 \notin 0 .. 2 /\ (k + 1) - 3 = 2 * i + 1 /\ (k + 1) - 3 \in 0 .. 2 * R
          /\ (2 * i + 1) % 2 = 1 /\ (2 * i + 1) \div 2 = i
      BY <1>1, <2>1, <2>2, <2>3, Halves
    <3>7. At(k + 1, sda', scl', slave')
      <4>1. k + 1 # 0 /\ k + 1 \notin 1 .. 2 /\ ~((k + 1) - 3 > 2 * R)
        BY <1>1, <2>1, <2>3
      <4> QED BY <3>4, <3>5, <3>6, <4>1 DEF At, Freed
    <3> QED BY <1>6, <1>7, <2>2, <3>7
  <2>4. CASE k = 2 * i + 4
    <3>1. todo[1] = Drive(1, 1)
      BY <1>6, <2>1, <2>4, InitPulse
    <3>2. k - 3 = 2 * i + 1 /\ k - 3 \in 0 .. 2 * R /\ (k - 3) % 2 = 1 /\ (k - 3) \div 2 = i
      BY <1>1, <2>1, <2>2, <2>4, Halves
    <3>3. sda = 1 /\ scl = 0 /\ FreedLow(slave, R - i)
      BY <1>3, <3>2 DEF At, Freed
    <3>4. sda' = 1 /\ scl' = 1 /\ Risen(slave, slave', IF slave.pull THEN 0 ELSE 1)
      BY <1>1, <3>1, <3>3, CallDone DEF Reaction, Drive
    <3>5. FreedHigh(slave', (R - i) - 1)
      BY <1>1, <2>2, <3>3, <3>4, FreedRises
    <3>6. /\ (k + 1) - 3 = 2 * i + 2 /\ (k + 1) - 3 \in 0 .. 2 * R /\ (k + 1) - 3 # 0
          /\ (2 * i + 2) % 2 = 0 /\ (2 * i + 2) \div 2 = i + 1 /\ R - (i + 1) = (R - i) - 1
          /\ k + 1 # 0 /\ k + 1 \notin 1 .. 2 /\ k + 1 \notin 0 .. 2 /\ ~((k + 1) - 3 > 2 * R)
      BY <1>1, <2>1, <2>2, <2>4, Halves
    <3>7. At(k + 1, sda', scl', slave')
      BY <3>4, <3>5, <3>6 DEF At, Freed
    <3> QED BY <1>6, <1>7, <2>2, <3>7
  <2> QED BY <2>1, <2>3, <2>4
<1>12. CASE k = 2 * R + 3
  <2>1. todo[1] = Drive(0, 1)
    BY <1>6, <1>12, <1>16, InitPulse
  <2>2. /\ k - 3 = 2 * R /\ k - 3 \in 0 .. 2 * R /\ k - 3 # 0 /\ (2 * R) % 2 = 0 /\ (2 * R) \div 2 = R
        /\ R - R = 0
    BY <1>1, <1>12, Halves
  <2>3. sda = 1 /\ scl = 1 /\ FreedHigh(slave, 0)
    BY <1>3, <2>2 DEF At, Freed
  <2>4. ~slave.pull
    BY <1>1, <2>3, FreedAtLast
  <2>5. sda' = 0 /\ scl' = 1 /\ ~slave'.pull
    BY <1>1, <2>1, <2>3, <2>4, CallDone DEF Reaction, Drive, Struck
  <2>6. /\ k + 1 # 0 /\ k + 1 \notin 1 .. 2 /\ k + 1 \notin 0 .. 2 /\ (k + 1) - 3 \notin 0 .. 2 * R
        /\ k # 2 * R + 5
    BY <1>1, <1>12
  <2>7. At(k + 1, sda', scl', slave')
    BY <2>5, <2>6 DEF At
  <2> QED BY <1>6, <1>7, <2>6, <2>7
<1>13. CASE k = 2 * R + 4
  <2>1. todo[1] = Drive(0, 1)
    BY <1>6, <1>13, <1>16, InitPulse
  <2>2. k - 3 > 2 * R
    BY <1>1, <1>13
  <2>3. sda = 0 /\ scl = 1 /\ ~slave.pull
    BY <1>3, <2>2 DEF At
  <2>4. sda' = 0 /\ scl' = 1 /\ slave' = slave
    BY <1>1, <2>1, <2>3, CallDone DEF Reaction, Drive
  <2>5. /\ k + 1 # 0 /\ k + 1 \notin 1 .. 2 /\ k + 1 \notin 0 .. 2 /\ (k + 1) - 3 \notin 0 .. 2 * R
        /\ k # 2 * R + 5
    BY <1>1, <1>13
  <2>6. At(k + 1, sda', scl', slave')
    BY <2>3, <2>4, <2>5 DEF At
  <2> QED BY <1>6, <1>7, <2>5, <2>6
<1>14. CASE k = 2 * R + 5
  <2>1. todo[1] = Drive(1, 1)
    BY <1>6, <1>14, InitPulse
  <2>2. k - 3 > 2 * R
    BY <1>1, <1>14
  <2>3. sda = 0 /\ scl = 1 /\ ~slave.pull
    BY <1>3, <2>2 DEF At
  <2>4. sda' = 1 /\ scl' = 1 /\ Struck(slave', 1)
    BY <1>1, <2>1, <2>3, CallDone DEF Reaction, Drive
  <2>5. Rest'
    BY <1>1, <2>4 DEF Rest, Struck
  <2> QED BY <1>6, <1>14, <2>5
<1> QED BY <1>8, <1>9, <1>10, <1>11, <1>12, <1>13, <1>14

-----------------------------------------------------------------------------
\* A setDC call of any function.
LEMMA SetDCInductive == I2cInv /\ SetDC => I2cInv'
<1> SUFFICES ASSUME I2cInv, SetDC PROVE I2cInv'
  OBVIOUS
<1>1. I2cTypeOK /\ StageOfOp /\ todo # <<>> /\ (~caught => BusGood) /\ I2cTypeOK'
  BY SetDCTyped, CallDone DEF I2cInv, I2cGood
<1>2. UNCHANGED <<stage, op, arg, caught>>
  BY <1>1, CallDone
<1>3. StageOfOp'
  BY <1>1, <1>2 DEF StageOfOp
<1>4. ASSUME ~caught PROVE BusGood'
  <2>1. BusGood /\ op \in {"none", "init", "stop", "start", "write", "checkAck", "read", "ack", "nack"}
    BY <1>1, <1>4 DEF StageOfOp
  <2>2. op # "none"
    BY <1>1 DEF StageOfOp
  <2>3. CASE op = "init"
    <3>1. IF todo' = <<>> THEN Rest' ELSE Initing'
      BY <1>1, <2>1, <2>3, InitCalls DEF BusGood
    <3> QED BY <1>2, <2>3, <3>1 DEF BusGood
  <2>4. CASE op = "start"
    <3>1. IF todo' = <<>> THEN Rest' ELSE Starting'
      BY <1>1, <2>1, <2>4, StartCalls DEF BusGood
    <3> QED BY <1>2, <2>4, <3>1 DEF BusGood
  <2>5. CASE op = "stop"
    <3>1. IF todo' = <<>> THEN Rest' ELSE Stopping'
      BY <1>1, <2>1, <2>5, StopCalls DEF BusGood
    <3> QED BY <1>2, <2>5, <3>1 DEF BusGood
  <2>6. CASE op = "write"
    <3>1. IF todo' = <<>> THEN Rest' ELSE Writing'
      BY <1>1, <2>1, <2>6, WriteCalls DEF BusGood
    <3> QED BY <1>2, <2>6, <3>1 DEF BusGood
  <2>7. CASE op = "checkAck"
    <3>1. IF todo' = <<>> THEN Rest' ELSE Checking'
      BY <1>1, <2>1, <2>7, CheckCalls DEF BusGood
    <3> QED BY <1>2, <2>7, <3>1 DEF BusGood
  <2>8. CASE op = "read"
    <3>1. IF todo' = <<>> THEN Rest' ELSE Reading'
      BY <1>1, <2>1, <2>8, ReadCalls DEF BusGood
    <3> QED BY <1>2, <2>8, <3>1 DEF BusGood
  <2>9. CASE op = "ack"
    <3>1. IF todo' = <<>> THEN Rest' ELSE Acking(0)'
      BY <1>1, <2>1, <2>9, AckCalls DEF BusGood, Levels
    <3> QED BY <1>2, <2>9, <3>1 DEF BusGood
  <2>10. CASE op = "nack"
    <3>1. IF todo' = <<>> THEN Rest' ELSE Acking(1)'
      BY <1>1, <2>1, <2>10, AckCalls DEF BusGood, Levels
    <3> QED BY <1>2, <2>10, <3>1 DEF BusGood
  <2> QED BY <2>1, <2>2, <2>3, <2>4, <2>5, <2>6, <2>7, <2>8, <2>9, <2>10
<1> QED BY <1>1, <1>2, <1>3, <1>4 DEF I2cInv, I2cGood

\* The sequences of calls a function begins with.
LEMMA PulsesTyped ==
  ASSUME sda \in Levels, scl \in Levels
  PROVE  /\ InitPulses \in Seq(Calls) /\ InitPulses # <<>>
         /\ StartPulses \in Seq(Calls) /\ StartPulses # <<>>
         /\ StopPulses(scl) \in Seq(Calls) /\ StopPulses(scl) # <<>>
         /\ \A b \in Bytes : WritePulses(b) \in Seq(Calls) /\ Len(WritePulses(b)) = 25
         /\ GetAckPulses \in Seq(Calls) /\ GetAckPulses # <<>>
         /\ ReadPulses \in Seq(Calls) /\ Len(ReadPulses) = 18
         /\ \A l \in Levels : SetAckPulses(l) \in Seq(Calls) /\ SetAckPulses(l) # <<>>
<1>1. \A d, c \in Levels : Drive(d, c) \in Calls /\ Sampled(d, c) \in Calls
  BY DEF Drive, Sampled, Calls
<1>2. InitPulses \in Seq(Calls) /\ InitPulses # <<>>
  <2>1. 2 * InitClocks + 6 # 0
    BY I2cMasterOK
  <2> QED BY <2>1, InitPulse, NoneLeft
<1>3. /\ StartPulses \in Seq(Calls) /\ StartPulses # <<>>
      /\ StopPulses(scl) \in Seq(Calls) /\ StopPulses(scl) # <<>>
      /\ GetAckPulses \in Seq(Calls) /\ GetAckPulses # <<>>
  BY <1>1 DEF StartPulses, StopPulses, GetAckPulses, Levels
<1>4. ASSUME NEW l \in Levels PROVE SetAckPulses(l) \in Seq(Calls) /\ SetAckPulses(l) # <<>>
  BY <1>1 DEF SetAckPulses, Levels
<1>5. PICK x \in Calls : x = Drive(sda, 0)
  BY <1>1 DEF Levels
<1>6. ASSUME NEW b \in Bytes PROVE WritePulses(b) \in Seq(Calls) /\ Len(WritePulses(b)) = 25
  <2>1. PICK s \in Seq(Calls) : s = BitPulses(b) /\ Len(s) = 24
    BY BitPulse
  <2>2. PICK t : t = <<x>> \o s /\ t = WritePulses(b)
    BY <1>5, <2>1 DEF WritePulses
  <2>3. t \in Seq(Calls) /\ Len(t) = Len(s) + 1
    BY <2>2, OneThen, Zenon
  <2> QED BY <2>1, <2>2, <2>3
<1>7. ReadPulses \in Seq(Calls) /\ Len(ReadPulses) = 18
  <2>1. PICK s \in Seq(Calls) : s = ReadBits /\ Len(s) = 17
    BY ReadBit
  <2>2. PICK t : t = <<x>> \o s /\ t = ReadPulses
    BY <1>5, <2>1 DEF ReadPulses, ReadBits
  <2>3. t \in Seq(Calls) /\ Len(t) = Len(s) + 1
    BY <2>2, OneThen, Zenon
  <2>4. Len(t) = 18
    BY <2>1, <2>3
  <2> QED BY <2>2, <2>3, <2>4, Zenon
<1> QED BY <1>2, <1>3, <1>4, <1>6, <1>7

\* A call of a function: nothing moves yet, and what is to do is typed.
LEMMA CalledTyped ==
  ASSUME I2cTypeOK, NEW f, NEW p \in Seq(Calls), NEW after, Call(f, p, after), arg' \in Bytes \cup {<<>>}
  PROVE  I2cTypeOK'
BY DEF I2cTypeOK, Call

\* i2c_master_gpio_init begins with its pulses still to come.
LEMMA GpioInitInductive == I2cInv /\ GpioInit => I2cInv'
<1> SUFFICES ASSUME I2cInv, GpioInit PROVE I2cInv'
  OBVIOUS
<1>1. /\ I2cTypeOK /\ todo = <<>> /\ op' = "init" /\ todo' = InitPulses /\ stage' = "free"
      /\ got' = <<>> /\ UNCHANGED <<sda, scl, slave, caught, arg>> /\ stage = "reset"
      /\ InitPulses \in Seq(Calls) /\ InitPulses # <<>>
  BY PulsesTyped DEF GpioInit, Call, I2cInv, I2cTypeOK
<1>2. I2cTypeOK'
  BY <1>1 DEF I2cTypeOK
<1>3. StageOfOp'
  BY <1>1 DEF StageOfOp
<1>4. ASSUME ~caught PROVE Initing'
  <2>1. sda = 1 /\ scl = 1 /\ ~(slave.mode = "recv" /\ Len(slave.in) = 8) /\ SlaveGood(slave)
    BY <1>1, <1>4 DEF I2cInv, I2cGood, BusGood, Rest, I2cTypeOK
  <2>2. FreedHigh(slave, InitClocks)
    BY <2>1, FreedAtFirst
  <2>3. LeftOf(InitPulses, InitPulses)
    <3>1. Len(InitPulses) \in Nat
      BY <1>1
    <3> QED BY <3>1 DEF LeftOf
  <2>4. /\ 2 * InitClocks + 6 - Len(todo') = 0 /\ ~(0 - 3 \in 0 .. 2 * InitClocks)
        /\ ~(0 - 3 > 2 * InitClocks) /\ ~(0 \in 1 .. 2)
    BY <1>1, InitPulse, I2cMasterOK
  <2>5. /\ LeftOf(todo', InitPulses) /\ sda' = 1 /\ scl' = 1 /\ FreedHigh(slave', InitClocks)
    BY <1>1, <2>1, <2>2, <2>3 DEF FreedHigh
  <2>6. Freed(slave', scl', InitClocks)
    BY <2>5 DEF Freed
  <2> QED BY <2>4, <2>5, <2>6 DEF Initing, Freed, FreedHigh, FreedLow, LeftOf, InitPulses, StopPulses
<1> QED BY <1>1, <1>2, <1>3, <1>4 DEF I2cInv, I2cGood, BusGood

LEMMA StartInductive == I2cInv /\ Start => I2cInv'
<1> SUFFICES ASSUME I2cInv, Start PROVE I2cInv'
  OBVIOUS
<1>1. /\ I2cTypeOK /\ todo = <<>> /\ op' = "start" /\ todo' = StartPulses /\ stage' = "started"
      /\ got' = <<>> /\ UNCHANGED <<sda, scl, slave, caught, arg>>
      /\ stage \in {"free", "sending", "ending"}
      /\ StartPulses \in Seq(Calls) /\ StartPulses # <<>>
  BY PulsesTyped DEF Start, Call, I2cInv, I2cTypeOK
<1>2. I2cTypeOK'
  BY <1>1 DEF I2cTypeOK
<1>3. StageOfOp'
  BY <1>1 DEF StageOfOp
<1>4. ASSUME ~caught PROVE Starting'
  <2>1. sda = 1 /\ (slave = SlaveIdle \/ slave.mode = "recv") /\ SlaveGood(slave)
    BY <1>1, <1>4 DEF I2cInv, I2cGood, BusGood, Rest, I2cTypeOK
  <2>2. ~slave.pull
    BY <2>1 DEF SlaveGood, SlaveIdle
  <2> QED BY <1>1, <2>1, <2>2 DEF Starting, StartPulses
<1> QED BY <1>1, <1>2, <1>3, <1>4 DEF I2cInv, I2cGood, BusGood

LEMMA StopInductive == I2cInv /\ Stop => I2cInv'
<1> SUFFICES ASSUME I2cInv, Stop PROVE I2cInv'
  OBVIOUS
<1>1. /\ I2cTypeOK /\ todo = <<>> /\ op' = "stop" /\ todo' = StopPulses(scl) /\ stage' = "free"
      /\ got' = <<>> /\ UNCHANGED <<sda, scl, slave, caught, arg>>
      /\ stage \in {"sending", "ending"}
      /\ StopPulses(scl) \in Seq(Calls) /\ StopPulses(scl) # <<>>
  BY PulsesTyped DEF Stop, Call, I2cInv, I2cTypeOK
<1>2. I2cTypeOK'
  BY <1>1 DEF I2cTypeOK
<1>3. StageOfOp'
  BY <1>1 DEF StageOfOp
<1>4. ASSUME ~caught PROVE Stopping'
  <2>1. sda = 1 /\ scl = 0 /\ (slave = SlaveIdle \/ slave.mode = "recv") /\ SlaveGood(slave)
    BY <1>1, <1>4 DEF I2cInv, I2cGood, BusGood, Rest, I2cTypeOK
  <2>2. ~slave.pull
    BY <2>1 DEF SlaveGood, SlaveIdle
  <2> QED BY <1>1, <2>1, <2>2 DEF Stopping, StopPulses
<1> QED BY <1>1, <1>2, <1>3, <1>4 DEF I2cInv, I2cGood, BusGood

LEMMA WriteByteInductive == ASSUME NEW b \in Bytes PROVE I2cInv /\ WriteByte(b) => I2cInv'
<1> SUFFICES ASSUME I2cInv, WriteByte(b) PROVE I2cInv'
  OBVIOUS
<1>1. /\ I2cTypeOK /\ todo = <<>> /\ op' = "write" /\ todo' = WritePulses(b)
      /\ stage' = (IF stage = "started" THEN "addressed" ELSE "written")
      /\ got' = <<>> /\ UNCHANGED <<sda, scl, slave, caught>> /\ arg' = b
      /\ stage \in {"started", "sending"}
      /\ WritePulses(b) \in Seq(Calls) /\ Len(WritePulses(b)) = 25
  BY PulsesTyped DEF WriteByte, Call, I2cInv, I2cTypeOK
<1>2. I2cTypeOK'
  BY <1>1 DEF I2cTypeOK
<1>3. StageOfOp'
  BY <1>1 DEF StageOfOp
<1>4. ASSUME ~caught PROVE Writing'
  <2>1. slave.mode = "recv" /\ slave.in = <<>> /\ (slave.first <=> stage = "started")
    BY <1>1, <1>4 DEF I2cInv, I2cGood, BusGood, Rest
  <2>2. slave.first \in BOOLEAN
    BY <1>1 DEF I2cTypeOK, SlaveGood, Slaves
  <2>3. slave'.first = (stage' = "addressed")
    BY <1>1, <2>1, <2>2
  <2>4. todo' = <<Drive(sda', 0)>> \o BitPulses(arg') /\ Len(todo') = 25
    BY <1>1 DEF WritePulses
  <2>5. slave'.mode = "recv" /\ slave'.in = <<>>
    BY <1>1, <2>1
  <2> QED BY <2>3, <2>4, <2>5 DEF Writing, BitPulses
<1>5. todo' # <<>>
  <2>1. todo' \in Seq(Calls) /\ Len(todo') # 0
    BY <1>1
  <2> QED BY <2>1, NoneLeft, Zenon
<1> QED BY <1>1, <1>2, <1>3, <1>4, <1>5 DEF I2cInv, I2cGood, BusGood

LEMMA CheckAckInductive == I2cInv /\ CheckAck => I2cInv'
<1> SUFFICES ASSUME I2cInv, CheckAck PROVE I2cInv'
  OBVIOUS
<1>1. /\ I2cTypeOK /\ todo = <<>> /\ op' = "checkAck" /\ todo' = GetAckPulses
      /\ stage' = (IF stage = "addressed" /\ arg[8] = 1 THEN "toRead" ELSE "toSend")
      /\ got' = <<>> /\ UNCHANGED <<sda, scl, slave, caught, arg>>
      /\ stage \in {"addressed", "written"}
      /\ GetAckPulses \in Seq(Calls) /\ GetAckPulses # <<>>
  BY PulsesTyped DEF CheckAck, Call, I2cInv, I2cTypeOK
<1>2. I2cTypeOK'
  BY <1>1 DEF I2cTypeOK
<1>3. StageOfOp'
  BY <1>1 DEF StageOfOp
<1>4. ASSUME ~caught PROVE Checking'
  <2>1. scl = 0 /\ slave.mode = "ack" /\ slave.in = arg /\ slave.first = (stage = "addressed")
    BY <1>1, <1>4 DEF I2cInv, I2cGood, BusGood, Rest
  <2>2. (stage' = "toRead") = (slave'.first /\ slave'.in[8] = 1)
    BY <1>1, <2>1
  <2> QED BY <1>1, <2>1, <2>2 DEF Checking, GetAckPulses
<1> QED BY <1>1, <1>2, <1>3, <1>4 DEF I2cInv, I2cGood, BusGood

LEMMA AnsweredInductive == I2cInv /\ Answered => I2cInv'
<1> SUFFICES ASSUME I2cInv, Answered PROVE I2cInv'
  OBVIOUS
<1>1. /\ I2cTypeOK /\ todo = <<>> /\ stage \in {"toRead", "toSend"}
      /\ stage' = IF got = <<1>> THEN "ending" ELSE IF stage = "toRead" THEN "reading" ELSE "sending"
      /\ UNCHANGED <<sda, scl, op, todo, arg, got, slave, caught>>
  BY DEF Answered, I2cInv
<1>2. I2cTypeOK'
  BY <1>1 DEF I2cTypeOK
<1>3. StageOfOp'
  BY <1>1 DEF StageOfOp, I2cInv
<1>4. ASSUME ~caught PROVE Rest'
  <2>1. /\ sda = 1 /\ scl = 0
        /\ \/ got = <<1>> /\ slave = SlaveIdle
           \/ got = <<0>> /\ stage = "toRead" /\ slave.mode = "send" /\ slave.idx = 1
           \/ got = <<0>> /\ stage = "toSend" /\ slave.mode = "recv" /\ slave.in = <<>> /\ ~slave.first
    BY <1>1, <1>4 DEF I2cInv, I2cGood, BusGood, Rest
  <2>2. <<0>> # <<1>>
    OBVIOUS
  <2> QED BY <1>1, <2>1, <2>2 DEF Rest
<1> QED BY <1>1, <1>2, <1>3, <1>4 DEF I2cInv, I2cGood, BusGood

LEMMA ReadByteInductive == I2cInv /\ ReadByte => I2cInv'
<1> SUFFICES ASSUME I2cInv, ReadByte PROVE I2cInv'
  OBVIOUS
<1>1. /\ I2cTypeOK /\ todo = <<>> /\ op' = "read" /\ todo' = ReadPulses
      /\ stage' = "read" /\ stage = "reading"
      /\ got' = <<>> /\ UNCHANGED <<sda, scl, slave, caught, arg>>
      /\ ReadPulses \in Seq(Calls) /\ Len(ReadPulses) = 18
  BY PulsesTyped DEF ReadByte, Call, I2cInv, I2cTypeOK
<1>2. I2cTypeOK'
  BY <1>1 DEF I2cTypeOK
<1>3. StageOfOp'
  BY <1>1 DEF StageOfOp
<1>4. ASSUME ~caught PROVE Reading'
  <2>1. sda = 1 /\ scl = 0 /\ slave.mode = "send" /\ slave.idx = 1
    BY <1>1, <1>4 DEF I2cInv, I2cGood, BusGood, Rest
  <2>2. todo' = <<Drive(sda', 0)>> \o ReadBits /\ Len(todo') = 18
    BY <1>1 DEF ReadPulses, ReadBits
  <2> QED BY <1>1, <2>1, <2>2 DEF Reading, ReadBits
<1>5. todo' # <<>>
  <2>1. todo' \in Seq(Calls) /\ Len(todo') # 0
    BY <1>1
  <2> QED BY <2>1, NoneLeft, Zenon
<1> QED BY <1>1, <1>2, <1>3, <1>4, <1>5 DEF I2cInv, I2cGood, BusGood

LEMMA SendAckInductive == I2cInv /\ SendAck => I2cInv'
<1> SUFFICES ASSUME I2cInv, SendAck PROVE I2cInv'
  OBVIOUS
<1>1. PICK l \in Levels : Call(IF l = 0 THEN "ack" ELSE "nack", SetAckPulses(l),
                               IF l = 0 THEN "reading" ELSE "ending")
  BY DEF SendAck, Levels
<1>2. /\ I2cTypeOK /\ todo = <<>> /\ op' = (IF l = 0 THEN "ack" ELSE "nack")
      /\ todo' = SetAckPulses(l) /\ stage' = (IF l = 0 THEN "reading" ELSE "ending")
      /\ stage = "read" /\ got' = <<>> /\ UNCHANGED <<sda, scl, slave, caught, arg>>
      /\ SetAckPulses(l) \in Seq(Calls) /\ SetAckPulses(l) # <<>>
  BY <1>1, PulsesTyped DEF SendAck, Call, I2cInv, I2cTypeOK
<1>3. I2cTypeOK'
  BY <1>2 DEF I2cTypeOK
<1>4. StageOfOp'
  BY <1>2 DEF StageOfOp
<1>5. ASSUME ~caught PROVE Acking(l)'
  <2>1. scl = 0 /\ slave.mode = "mack"
    BY <1>2, <1>5 DEF I2cInv, I2cGood, BusGood, Rest
  <2> QED BY <1>2, <2>1 DEF Acking, SetAckPulses
<1>6. ASSUME ~caught PROVE BusGood'
  <2>1. CASE l = 0
    BY <1>2, <1>5, <1>6, <2>1 DEF BusGood
  <2>2. CASE l = 1
    BY <1>2, <1>5, <1>6, <2>2 DEF BusGood
  <2> QED BY <2>1, <2>2 DEF Levels
<1> QED BY <1>2, <1>3, <1>4, <1>6 DEF I2cInv, I2cGood

\* A restart leaves the slave anywhere; caught is what i2c_master_init cannot undo.
LEMMA RestartInductive == I2cInv /\ Restart => I2cInv'
<1> SUFFICES ASSUME I2cInv, Restart PROVE I2cInv'
  OBVIOUS
<1>1. /\ I2cTypeOK /\ sda' = 1 /\ scl' = 1 /\ stage' = "reset" /\ op' = "none" /\ todo' = <<>>
      /\ arg' = <<>> /\ got' = <<>> /\ caught' = (slave'.mode = "recv" /\ Len(slave'.in) = 8)
  BY DEF Restart, I2cInv
<1>2. SlaveGood(slave')
  <2>1. PICK byte \in Bytes : slave' = React(slave, 1, 1, TRUE, byte) \/ slave' = Rise(slave, Wire(1))
    BY DEF Restart
  <2>2. SlaveGood(React(slave, 1, 1, TRUE, byte))
    BY <1>1, Reactions DEF I2cTypeOK, Reaction, Levels
  <2>3. SlaveGood(Rise(slave, Wire(1)))
    <3>1. Wire(1) \in Levels
      BY DEF Wire, Levels
    <3> QED BY <1>1, <3>1, RiseGood DEF I2cTypeOK
  <2> QED BY <2>1, <2>2, <2>3
<1>3. I2cTypeOK'
  BY <1>1, <1>2 DEF I2cTypeOK, Levels
<1>4. StageOfOp'
  BY <1>1 DEF StageOfOp
<1>5. ~caught' => Rest'
  BY <1>1 DEF Rest
<1> QED BY <1>1, <1>3, <1>4, <1>5 DEF I2cInv, I2cGood, BusGood

\* The invariant of the I2C master: after every call of setDC, whatever the user does next
\* and whenever the module restarts.
THEOREM I2cInductive == I2cSpec => []I2cInv
<1>1. I2cInit => I2cInv
  <2> SUFFICES ASSUME I2cInit PROVE I2cInv
    OBVIOUS
  <2>1. I2cTypeOK
    <3>1. <<>> \in Seq(Calls) /\ <<>> \in Seq(Levels)
      OBVIOUS
    <3>2. SlaveGood(slave)
      BY IdleGood DEF I2cInit
    <3> QED BY <3>1, <3>2 DEF I2cInit, I2cTypeOK, Levels
  <2>2. StageOfOp
    BY DEF I2cInit, StageOfOp
  <2>3. Rest
    BY DEF I2cInit, Rest, SlaveIdle
  <2> QED BY <2>1, <2>2, <2>3 DEF I2cInit, I2cInv, I2cGood, BusGood
<1>2. I2cInv /\ [I2cNext]_i2cVars => I2cInv'
  <2> SUFFICES ASSUME I2cInv, [I2cNext]_i2cVars PROVE I2cInv'
    OBVIOUS
  <2>1. CASE UNCHANGED i2cVars
    BY <2>1 DEF I2cInv, I2cTypeOK, StageOfOp, I2cGood, BusGood, Rest, Initing, Starting, Stopping,
      Writing, Checking, Reading, Acking, i2cVars
  <2>2. CASE \E b \in Bytes : WriteByte(b)
    BY <2>2, WriteByteInductive
  <2> QED BY <2>1, <2>2, GpioInitInductive, StartInductive, StopInductive, CheckAckInductive, AnsweredInductive,
       ReadByteInductive, SendAckInductive, SetDCInductive, RestartInductive DEF I2cNext
<1> QED BY <1>1, <1>2, PTL DEF I2cSpec

\* Whatever i2c_master_writeByte was given the slave has taken, whatever readByte returns the
\* slave has sent, checkAck reports what the slave answered, and i2c_master_init frees the bus
\* whatever the restart of the module cut short, but for a slave caught at its acknowledge.
THEOREM TransferAlwaysExact == I2cSpec => []TransferExact
<1>1. I2cInv => TransferExact
  <2> SUFFICES ASSUME I2cInv, ~caught, todo = <<>>
               PROVE  /\ op = "init" => slave = SlaveIdle /\ sda = 1 /\ scl = 1
                      /\ op = "write" => slave.in = arg /\ slave.mode = "ack"
                      /\ op = "checkAck" /\ got = <<0>> => slave.mode \in {"recv", "send"}
                      /\ op = "checkAck" /\ got = <<1>> => slave = SlaveIdle
                      /\ op = "read" => got = slave.out /\ slave.mode = "mack"
                      /\ op = "nack" => slave = SlaveIdle
    BY DEF TransferExact, InitFreesBus, Done
  <2>1. Rest /\ StageOfOp
    BY DEF I2cInv, I2cGood, BusGood
  <2>2. <<0>> # <<1>>
    OBVIOUS
  <2>3. op = "init" => slave = SlaveIdle /\ sda = 1 /\ scl = 1
    BY <2>1 DEF Rest, StageOfOp
  <2>4. op = "write" => slave.in = arg /\ slave.mode = "ack"
    BY <2>1 DEF Rest, StageOfOp
  <2>5. /\ op = "read" => got = slave.out /\ slave.mode = "mack"
        /\ op = "nack" => slave = SlaveIdle
    BY <2>1 DEF Rest, StageOfOp
  <2>6. op = "checkAck" /\ got = <<0>> => slave.mode \in {"recv", "send"}
    BY <2>1, <2>2 DEF Rest, StageOfOp
  <2>7. op = "checkAck" /\ got = <<1>> => slave = SlaveIdle
    BY <2>1, <2>2 DEF Rest, StageOfOp
  <2> QED BY <2>3, <2>4, <2>5, <2>6, <2>7
<1> QED BY <1>1, I2cInductive, PTL
=============================================================================
