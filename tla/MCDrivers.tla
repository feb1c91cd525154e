------------------------------ MODULE MCDrivers ------------------------------
(***************************************************************************)
(* A bench for the drivers.  No function of one calls another, and the     *)
(* three SPI ones are alternative uses of one controller: each is run      *)
(* while the others rest.  device says which.                              *)
(***************************************************************************)
EXTENDS SpiOverlap, SpiMaster, SpiSlave, I2cMaster, UartTx, DeviceTimer, Key

VARIABLE device

MCDivs == {0, 2}
MCResetRegs ==
  {[set |-> "reset", edge |-> e, setup |-> FALSE, clock |-> [eq |-> e, div |-> 3], cs |-> 0] :
     e \in BOOLEAN}

\* A read with a short last chunk, and one that ends behind the chip.
MCReads == {[addr |-> 0, len |-> 21], [addr |-> 30, len |-> 4]}

MCSpiBytes == {1, 165, 254}
MCResetPhases == {{}, {"mosi"}, {"addr", "dummy", "miso"}}

\* An address to write to, and one to read from.
MCBytes == {<<1, 0, 1, 0, 0, 1, 1, 0>>, <<0, 1, 1, 0, 0, 0, 0, 1>>}

Timer(kind, at_, known) == [kind |-> kind, at |-> at_, known |-> known]

\* None, one, two with a common moment, a fixed one among periodic ones, an action the
\* plug does not know.
MCLists ==
  {<<>>, <<Timer("l", 5, TRUE)>>, <<Timer("l", 4, TRUE), Timer("w", 6, TRUE)>>,
   <<Timer("f", 107, TRUE), Timer("l", 2, TRUE)>>,
   <<Timer("w", 2, TRUE), Timer("w", 3, FALSE)>>}

----------------------------------------------------------------------------
driverVars == <<spiVars, masterVars, slaveVars, i2cVars, txVars, timerVars, keyVars>>

\* A device that is not on the bench has one initial state.
DriversInit ==
  /\ device \in {"overlap", "master", "slave", "i2c", "uart", "timer", "key"}
  /\ SpiInit /\ MasterUp /\ SlaveInit /\ I2cInit /\ TxInit /\ TimerInit /\ KeyInit
  /\ device # "overlap" => ~sysclk /\ ~reg.edge
  /\ device # "master" => phases = {"command"}
  /\ device # "uart" => ~ring
  /\ device # "key" => pin = 1

OverlapOn == device = "overlap" /\ SpiNext
             /\ UNCHANGED <<masterVars, slaveVars, i2cVars, txVars, timerVars, keyVars>>
MasterOn == device = "master" /\ MasterNext
            /\ UNCHANGED <<spiVars, slaveVars, i2cVars, txVars, timerVars, keyVars>>
SlaveOn == device = "slave" /\ SlaveNext
           /\ UNCHANGED <<spiVars, masterVars, i2cVars, txVars, timerVars, keyVars>>
I2cOn == device = "i2c" /\ I2cNext
         /\ UNCHANGED <<spiVars, masterVars, slaveVars, txVars, timerVars, keyVars>>
UartOn == device = "uart" /\ TxNext
          /\ UNCHANGED <<spiVars, masterVars, slaveVars, i2cVars, timerVars, keyVars>>
TimerOn == device = "timer" /\ TimerNext
           /\ UNCHANGED <<spiVars, masterVars, slaveVars, i2cVars, txVars, keyVars>>
KeyOn == device = "key" /\ KeyNext
         /\ UNCHANGED <<spiVars, masterVars, slaveVars, i2cVars, txVars, timerVars>>

DriversNext ==
  /\ OverlapOn \/ MasterOn \/ SlaveOn \/ I2cOn \/ UartOn \/ TimerOn \/ KeyOn
  /\ UNCHANGED device

\* The transmit path rests in states in which TxFairness asks for nothing.
DriversSpec ==
  DriversInit /\ [][DriversNext]_<<driverVars, device>> /\ TxFairness
=============================================================================
