---------------------------- MODULE SpiRegisters ----------------------------
(***************************************************************************)
(* A transfer of reg_io (mcu_firmware/source/fpga_io.py, and the same in   *)
(* fpga_gateware/fpga_io_sim.py), bit by bit, and the gateware that        *)
(* answers it: route_spi_signals (test6_modified_ila_with_sdram_fifo.py)   *)
(* brings the pins through synchronisers to SPIRegisterInterface of amlib  *)
(* and gives its output back one cycle of sclk later.  amlib is external;  *)
(* the netlist of test6 shows its state machine.  A step is a clock of     *)
(* sync, or a change of the pins, HalfClocks after the one before.  A word *)
(* is the sequence of its bits, the first one sent first.                  *)
(***************************************************************************)
EXTENDS Integers

CONSTANTS
  CommandBits, WordBits,   \* 8: read or write, and CMD_ADDR_BITS; REG_DATA_BITS, 16
  HalfClocks,              \* clocks of sync in half a cycle of sclk: 12 at 1 MHz
  Addresses, SpiWords      \* of the registers; values that are written

ASSUME SpiAssumption ==
  /\ CommandBits \in Nat \ {0} /\ WordBits \in Nat \ {0} /\ HalfClocks \in Nat \ {0}
  /\ Addresses \subseteq [1 .. CommandBits - 1 -> {0, 1}] /\ SpiWords \subseteq [1 .. WordBits -> {0, 1}]

VARIABLES
  pins, stage0, board_spi,   \* csn, sck, sdi: at the pins, and in the synchronisers
  pastSck,                   \* sck a clock ago, for Rose and Fell
  device, registers,         \* SPIRegisterInterface and its registers
  last_sdo, cipo,
  io,                        \* reg_io
  rest,                      \* clocks since the pins changed
  expects                    \* history: what the transfer should leave and return

spiVars == <<pins, stage0, board_spi, pastSck, device, registers, last_sdo, cipo, io, rest, expects>>

FrameBits == CommandBits + WordBits
Zeros(n) == [i \in 1 .. n |-> 0]

IdlePins == [csn |-> 1, sck |-> 1, sdi |-> 0]
SpiInit ==
  /\ pins = IdlePins /\ stage0 = pins /\ board_spi = pins /\ pastSck = 1
  /\ device = [fsm |-> "STALL", bits |-> 0, sdo |-> 0,
               command |-> Zeros(CommandBits), word |-> Zeros(WordBits)]
  /\ registers = [a \in Addresses |-> Zeros(WordBits)] /\ last_sdo = 0 /\ cipo = 0
  /\ io = [at |-> "idle", frame |-> Zeros(FrameBits), bit |-> 0, got |-> Zeros(WordBits)]
  /\ rest = HalfClocks /\ expects = [regs |-> registers, got |-> Zeros(WordBits)]

-----------------------------------------------------------------------------
SckRose == pastSck = 0 /\ board_spi.sck = 1
SckFell == pastSck = 1 /\ board_spi.sck = 0
Selected == board_spi.csn = 0

Shifted(word, n, bit) == [i \in 1 .. n |-> IF i < n THEN word[i + 1] ELSE bit]
TopBit(word) == word[1]
AddressOf(command) == [i \in 1 .. CommandBits - 1 |-> command[i + 1]]
Writes(command) == command[1] = 1
ReadOf(command) ==
  IF AddressOf(command) \in Addresses THEN registers[AddressOf(command)] ELSE Zeros(WordBits)

\* SPICommandInterface: it samples at the falling edge.
To(state) == device' = [device EXCEPT !.fsm = state]
DeviceClock ==
  \/ device.fsm = "STALL" /\ To(IF Selected THEN "STALL" ELSE "IDLE")
  \/ /\ device.fsm = "IDLE"
     /\ device' = [device EXCEPT !.fsm = IF Selected THEN "COMMAND" ELSE "IDLE", !.bits = 0]
  \/ /\ device.fsm = "COMMAND" /\ device.bits < CommandBits
     /\ device' = [device EXCEPT
          !.fsm = IF Selected THEN @ ELSE "IDLE",
          !.bits = IF SckFell THEN @ + 1 ELSE @,
          !.command = IF SckFell THEN Shifted(@, CommandBits, board_spi.sdi) ELSE @]
  \/ /\ device.fsm = "COMMAND" /\ device.bits >= CommandBits
     /\ device' = [device EXCEPT !.fsm = "PROCESSING", !.bits = 0]
  \/ device.fsm = "PROCESSING" /\ To("LATCH")
  \/ /\ device.fsm = "LATCH"
     /\ device' = [device EXCEPT !.fsm = "SHIFT", !.word = ReadOf(device.command)]
  \/ /\ device.fsm = "SHIFT" /\ device.bits < WordBits
     /\ device' = [device EXCEPT
          !.fsm = IF Selected THEN @ ELSE "IDLE",
          !.sdo = TopBit(device.word),
          !.bits = IF SckFell THEN @ + 1 ELSE @,
          !.word = IF SckFell THEN Shifted(@, WordBits, board_spi.sdi) ELSE @]
  \/ /\ device.fsm = "SHIFT" /\ device.bits >= WordBits
     /\ device' = [device EXCEPT !.fsm = "STALL", !.sdo = TopBit(device.word), !.bits = 0]

RegistersClock ==
  registers' =
    IF device.fsm = "SHIFT" /\ device.bits >= WordBits /\ Writes(device.command)
         /\ AddressOf(device.command) \in Addresses
    THEN [registers EXCEPT ![AddressOf(device.command)] = device.word] ELSE registers

\* Faulty variant of NextCipo: the output goes straight to the pin, as in
\* jan30_spi_tests/test4_spi_amlib_spi_registers_test_16bit.py.
CipoAtOnce == device.sdo
NextCipo == IF SckFell THEN last_sdo ELSE cipo

SpiClock ==
  /\ rest < HalfClocks \/ (io.at = "idle" /\ board_spi # pins)
  /\ rest' = IF rest < HalfClocks THEN rest + 1 ELSE rest
  /\ stage0' = pins /\ board_spi' = stage0 /\ pastSck' = board_spi.sck
  /\ DeviceClock /\ RegistersClock
  /\ last_sdo' = IF SckRose THEN device.sdo ELSE last_sdo
  /\ cipo' = NextCipo
  /\ UNCHANGED <<pins, io, expects>>

-----------------------------------------------------------------------------
\* A bit that says whether it writes, the address, the value.
Frame(write, addr, value) ==
  [i \in 1 .. FrameBits |-> IF i = 1 THEN IF write THEN 1 ELSE 0
                           ELSE IF i <= CommandBits THEN addr[i - 1] ELSE value[i - CommandBits]]

Changes(newPins) ==
  /\ rest = HalfClocks /\ rest' = 0 /\ pins' = newPins
  /\ UNCHANGED <<stage0, board_spi, pastSck, device, registers, last_sdo, cipo>>

reg_io ==
  /\ io.at = "idle" /\ board_spi = pins
  /\ \E addr \in Addresses, write \in BOOLEAN, value \in SpiWords :
       /\ io' = [at |-> "low", bit |-> 0, got |-> Zeros(WordBits),
                 frame |-> Frame(write, addr, value)]
       /\ expects' = [regs |-> IF write THEN [registers EXCEPT ![addr] = value] ELSE registers,
                      got |-> registers[addr]]
  /\ Changes([pins EXCEPT !.csn = 0])

\* spi.write_readinto: a bit is sent as sclk falls, and one read before it rises.
SclkFalls ==
  /\ io.at = "low" /\ io.bit < FrameBits
  /\ io' = [io EXCEPT !.at = "high"]
  /\ Changes([pins EXCEPT !.sck = 0, !.sdi = io.frame[io.bit + 1]]) /\ UNCHANGED expects

SclkRises ==
  /\ io.at = "high"
  /\ io' = [io EXCEPT !.at = "low", !.bit = @ + 1, !.got = Shifted(@, WordBits, cipo)]
  /\ Changes([pins EXCEPT !.sck = 1]) /\ UNCHANGED expects

reg_io_ends ==
  /\ io.at = "low" /\ io.bit = FrameBits
  /\ io' = [io EXCEPT !.at = "idle"]
  /\ Changes([pins EXCEPT !.csn = 1]) /\ UNCHANGED expects

SpiNext == SpiClock \/ reg_io \/ SclkFalls \/ SclkRises \/ reg_io_ends
SpiSpec == SpiInit /\ [][SpiNext]_spiVars

-----------------------------------------------------------------------------
SpiTypeOK ==
  /\ {pins, stage0, board_spi} \subseteq [csn : {0, 1}, sck : {0, 1}, sdi : {0, 1}]
  /\ device \in [fsm : {"STALL", "IDLE", "COMMAND", "PROCESSING", "LATCH", "SHIFT"}, bits : 0 .. FrameBits,
                  command : [1 .. CommandBits -> {0, 1}], word : [1 .. WordBits -> {0, 1}], sdo : {0, 1}]
  /\ registers \in [Addresses -> SpiWords \cup {Zeros(WordBits)}] /\ {last_sdo, cipo} \subseteq {0, 1}
  /\ io \in [at : {"idle", "low", "high"}, frame : [1 .. FrameBits -> {0, 1}], bit : 0 .. FrameBits,
              got : [1 .. WordBits -> {0, 1}]]
  /\ rest \in 0 .. HalfClocks

\* A read returns what the register holds, whole and not off by a bit, and a write
\* leaves in its register, and only there, the word that was sent
\* (fpga_io.py:13-18 tells of words off by a bit).
TransfersWhole ==
  io.at = "idle" => registers = expects.regs /\ io.got = expects.got
=============================================================================
