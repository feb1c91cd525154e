------------------------------- MODULE I2cMaster -------------------------------
(***************************************************************************)
(* driver/i2c_master.c: an I2C master made of two open-drain GPIO pins.    *)
(* Every function of it is a sequence of i2c_master_setDC calls; a step of *)
(* the model is one of them, with what the slave on the bus makes of it.   *)
(*                                                                         *)
(* gpio_output_set raises pins before it lowers others, and two pins it    *)
(* moves at once may arrive in either order: if SDA moves in a call before *)
(* or after which SCL is high, the slave sees a START or a STOP.           *)
(***************************************************************************)
EXTENDS Integers, Sequences

CONSTANTS
  Bytes,       \* the bytes written and read: sequences of 8 bits, high bit first
  InitClocks   \* the clock pulses of i2c_master_init (28: three bytes, their acknowledges and one)

ASSUME I2cMasterOK ==
  /\ Bytes \subseteq [1 .. 8 -> {0, 1}]
  /\ InitClocks \in Nat /\ InitClocks > 18 /\ InitClocks % 9 = 1

VARIABLES
  sda, scl,   \* m_nLastSDA, m_nLastSCL: what the pins drive
  stage,      \* what a user of the driver may call next
  op,         \* the function in progress
  todo,       \* its remaining calls of setDC
  arg,        \* the byte it writes
  got,        \* the bits it has read
  slave,      \* the device on the bus
  caught      \* ghost: was the slave about to acknowledge when the module restarted?

i2cVars == <<sda, scl, stage, op, todo, arg, got, slave, caught>>

\* Pull: SDA held low by the slave.  out, idx: the byte it sends and the bit it is at.
SlaveIdle == [mode |-> "idle", pull |-> FALSE, in |-> <<>>, first |-> FALSE,
              out |-> <<>>, idx |-> 0, nack |-> 0]

I2cInit ==
  /\ sda = 1 /\ scl = 1
  /\ stage = "reset" /\ op = "none" /\ todo = <<>> /\ arg = <<>> /\ got = <<>>
  /\ slave = SlaveIdle /\ caught = FALSE

----------------------------------------------------------------------------
\* The calls of setDC each function makes; Sampled is followed by getDC.
Drive(d, c) == [sda |-> d, scl |-> c, sample |-> FALSE]
Sampled(d, c) == [sda |-> d, scl |-> c, sample |-> TRUE]

StartPulses == <<Drive(1, scl), Drive(1, 1), Drive(0, 1)>>

StopPulses(c) == <<Drive(0, c), Drive(0, 1), Drive(1, 1)>>

\* i2c_master_setAck: send_ack is level 0, send_nack level 1.
SetAckPulses(level) ==
  <<Drive(sda, 0), Drive(level, 0), Drive(level, 1), Drive(level, 0), Drive(1, 0)>>

GetAckPulses == <<Drive(sda, 0), Drive(1, 0), Sampled(1, 1), Drive(1, 0)>>

ReadPulses ==
  <<Drive(sda, 0)>>
    \o [k \in 1 .. 17 |-> IF k % 2 = 0 THEN Sampled(1, 1) ELSE Drive(1, 0)]

\* Three calls for each bit: SCL is high in the second.
BitPulses(b) ==
  [k \in 1 .. 24 |-> Drive(b[(k + 2) \div 3], IF k % 3 = 2 THEN 1 ELSE 0)]

\* Mutant of WritePulses: SCL is not brought down before SDA takes the first bit.
WritePulsesAtOnce(b) == BitPulses(b)

WritePulses(b) == <<Drive(sda, 0)>> \o BitPulses(b)

\* i2c_master_init: toggle SDA, clock out whatever the slave is at, stop.
InitPulses ==
  <<Drive(1, 0), Drive(0, 0), Drive(1, 0)>>
    \o [k \in 1 .. 2 * InitClocks |-> Drive(1, IF k % 2 = 0 THEN 1 ELSE 0)]
    \o StopPulses(1)

----------------------------------------------------------------------------
\* A slave by the I2C protocol.  ack and byte: whether it acknowledges the byte it
\* has taken, and what it sends next.
Condition(s, d) == IF d = 0 THEN [SlaveIdle EXCEPT !.mode = "recv", !.first = TRUE]
                   ELSE SlaveIdle

Rise(s, level) ==
  CASE s.mode = "recv" /\ Len(s.in) < 8 -> [s EXCEPT !.in = Append(@, level)]
    [] s.mode = "mack" -> [s EXCEPT !.nack = level]
    [] OTHER -> s

Sending(s, byte) == [s EXCEPT !.mode = "send", !.out = byte, !.idx = 1, !.pull = byte[1] = 0]

Fall(s, ack, byte) ==
  CASE s.mode = "recv" /\ Len(s.in) = 8 -> [s EXCEPT !.mode = "ack", !.pull = ack]
    [] s.mode = "ack" /\ ~s.pull -> SlaveIdle
    [] s.mode = "ack" /\ s.pull /\ s.first /\ s.in[8] = 1 -> Sending([s EXCEPT !.first = FALSE], byte)
    [] s.mode = "ack" /\ s.pull /\ ~(s.first /\ s.in[8] = 1) ->
         [s EXCEPT !.mode = "recv", !.in = <<>>, !.first = FALSE, !.pull = FALSE]
    [] s.mode = "send" /\ s.idx < 8 -> [s EXCEPT !.idx = @ + 1, !.pull = s.out[s.idx + 1] = 0]
    [] s.mode = "send" /\ s.idx = 8 -> [s EXCEPT !.mode = "mack", !.pull = FALSE]
    [] s.mode = "mack" -> IF s.nack = 1 THEN SlaveIdle ELSE Sending(s, byte)
    [] OTHER -> s

Wire(d) == IF slave.pull THEN 0 ELSE d

\* The slave when the pins go to d and c.
React(s, d, c, ack, byte) ==
  CASE Wire(d) # Wire(sda) /\ (scl = 1 \/ c = 1) -> Condition(s, Wire(d))
    [] Wire(d) = Wire(sda) /\ scl < c -> Rise(s, Wire(d))
    [] scl > c /\ ~(Wire(d) # Wire(sda)) -> Fall(s, ack, byte)
    [] OTHER -> s

----------------------------------------------------------------------------
\* i2c_master_setDC and, where the function looks at the pin, i2c_master_getDC.
SetDC ==
  /\ todo # <<>>
  /\ LET p == Head(todo) IN
     /\ sda' = p.sda /\ scl' = p.scl
     /\ \E ack \in BOOLEAN, byte \in Bytes : slave' = React(slave, p.sda, p.scl, ack, byte)
     /\ got' = IF p.sample THEN Append(got, IF slave'.pull THEN 0 ELSE p.sda) ELSE got
  /\ todo' = Tail(todo)
  /\ UNCHANGED <<stage, op, arg, caught>>

\* A function is called when the one before has returned.
Call(f, pulses, after) ==
  /\ todo = <<>>
  /\ op' = f /\ todo' = pulses /\ stage' = after /\ got' = <<>>
  /\ UNCHANGED <<sda, scl, slave, caught>>

GpioInit == stage = "reset" /\ Call("init", InitPulses, "free") /\ UNCHANGED arg

Start ==
  /\ stage \in {"free", "sending", "ending"}
  /\ Call("start", StartPulses, "started") /\ UNCHANGED arg

Stop ==
  /\ stage \in {"sending", "ending"}
  /\ Call("stop", StopPulses(scl), "free") /\ UNCHANGED arg

WriteByte(b) ==
  /\ stage \in {"started", "sending"}
  /\ Call("write", WritePulses(b), IF stage = "started" THEN "addressed" ELSE "written")
  /\ arg' = b

\* i2c_master_checkAck: the answer is in got.
CheckAck ==
  /\ stage \in {"addressed", "written"}
  /\ Call("checkAck", GetAckPulses,
          IF stage = "addressed" /\ arg[8] = 1 THEN "toRead" ELSE "toSend")
  /\ UNCHANGED arg

\* What the user does with the answer.
Answered ==
  /\ stage \in {"toRead", "toSend"} /\ todo = <<>>
  /\ stage' = IF got = <<1>> THEN "ending" ELSE IF stage = "toRead" THEN "reading" ELSE "sending"
  /\ UNCHANGED <<sda, scl, op, todo, arg, got, slave, caught>>

ReadByte ==
  /\ stage = "reading"
  /\ Call("read", ReadPulses, "read") /\ UNCHANGED arg

SendAck ==
  /\ stage = "read"
  /\ \/ Call("ack", SetAckPulses(0), "reading")
     \/ Call("nack", SetAckPulses(1), "ending")
  /\ UNCHANGED arg

\* The module restarts: the pins float, in either order when both were low.
Restart ==
  /\ stage # "reset"
  /\ sda' = 1 /\ scl' = 1
  /\ \E byte \in Bytes :
       \/ slave' = React(slave, 1, 1, TRUE, byte)
       \/ /\ scl = 0 /\ slave' = Rise(slave, Wire(1))
  /\ caught' = (slave'.mode = "recv" /\ Len(slave'.in) = 8)
  /\ stage' = "reset" /\ op' = "none" /\ todo' = <<>> /\ arg' = <<>> /\ got' = <<>>

I2cNext ==
  \/ GpioInit \/ Start \/ Stop \/ (\E b \in Bytes : WriteByte(b))
  \/ CheckAck \/ Answered \/ ReadByte \/ SendAck
  \/ SetDC \/ Restart

I2cSpec == I2cInit /\ [][I2cNext]_i2cVars

----------------------------------------------------------------------------
Done(f) == op = f /\ todo = <<>>

\* i2c_master_init: whatever byte a restart of the module cut short, its pulses end with
\* a free bus and a slave that waits for a START.
InitFreesBus == Done("init") => slave = SlaveIdle /\ sda = 1 /\ scl = 1

(* What a function reports is what the slave did, and what it was asked to    *)
(* send is what the slave took, in every order of bytes, acknowledges,        *)
(* repeated starts and restarts: nothing a byte or an acknowledge does looks  *)
(* like a START or a STOP.  Only a slave that had a whole byte and had not    *)
(* yet acknowledged it when the module restarted is in the middle of an       *)
(* acknowledge again after 28 clocks, and misses the STOP (caught).          *)
TransferExact ==
  ~caught =>
    /\ InitFreesBus
    /\ Done("write") => slave.in = arg
    /\ Done("write") /\ stage = "addressed" => slave.mode = "ack"
    /\ Done("checkAck") /\ got = <<0>> => slave.mode \in {"recv", "send"}
    /\ Done("checkAck") /\ got = <<1>> => slave = SlaveIdle
    /\ Done("read") => got = slave.out /\ slave.mode = "mack"
    /\ Done("nack") => slave = SlaveIdle
=============================================================================
