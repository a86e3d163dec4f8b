----------------------------- MODULE IlaMemory -----------------------------
(***************************************************************************)
(* The logic analyser that keeps its samples in a memory, and the process  *)
(* that simulates it (test4_fpga_ila_to_gui_and_gtkwave.py: spi_tests).    *)
(* The analyser is SyncSerialILA of amlib; its state machine is also in    *)
(* the branch without a FIFO of tests2_feb2022/test3_fast_fifo_ila_gui.py. *)
(*                                                                         *)
(* spi_tests reads the register that says whether the capture is complete, *)
(* and goes on whatever it says: it relies on the command of a transfer    *)
(* taking longer than a capture.  The next come when it is run again.      *)
(*                                                                         *)
(* A step of the gateware is a clock, a step of the process an edge on the *)
(* pins: the end of a register transfer comes at least TransferClocks      *)
(* after its beginning, any other edge at least EdgeClocks after the last. *)
(***************************************************************************)
EXTENDS Integers, Sequences

CONSTANTS
  MemoryDepth,     \* samples of a capture, sample_depth (100)
  MemoryNumbers,   \* values of captured_sample_number (128)
  TransferClocks,  \* of the 24 bits of reg_io (600 at 1 MHz)
  CommandClocks,   \* of the first 8 of them, when the word to read is taken over (200)
  EdgeClocks,      \* clocks between two other edges
  Rounds           \* bound: runs of spi_tests

ASSUME MemoryAssumption ==
  /\ MemoryDepth \in Nat \ {0} /\ MemoryNumbers \in Nat /\ MemoryDepth <= MemoryNumbers
  /\ {TransferClocks, EdgeClocks, Rounds} \subseteq Nat /\ CommandClocks \in 1 .. TransferClocks

VARIABLES
  analyser,    \* registers of the analyser, and its memory
  completes,   \* complete a clock ago, and the LEDs, which count its rises
  numbering,   \* registers of SyncSerialILA
  wires,       \* what the gateware sees of the pins in the next clock
  process,     \* spi_tests
  captures,    \* triggers so far
  sinceTrigger, sinceEdge   \* clocks

memoryVars ==
  <<analyser, completes, numbering, wires, process, captures, sinceTrigger, sinceEdge>>

\* A sample is known by its trigger and by how many clocks came between.
SampleNow == <<captures, sinceTrigger>>
Nothing == <<0, 0>>

\* The transfers of spi_tests.
Transfers == <<"write leds", "read leds", "read trig", "write trig", "read trig", "alt_fifo_io">>

MemoryInit ==
  /\ analyser = [fsm |-> "IDLE", complete |-> FALSE, position |-> 0,
                 memory |-> [a \in 0 .. MemoryDepth - 1 |-> Nothing]]
  /\ completes = [past |-> FALSE, leds |-> 0]
  /\ numbering = [current |-> 0, number |-> 0, tx |-> Nothing]
  /\ wires = [csn |-> 0, trigger |-> FALSE, wordEnd |-> FALSE]
  /\ process = [at |-> 1, bits |-> FALSE, seen |-> FALSE, words |-> <<>>, round |-> 1]
  /\ captures = 0 /\ sinceTrigger = MemoryDepth /\ sinceEdge = 0

-----------------------------------------------------------------------------
AwaitTrigger ==
  /\ analyser.fsm = "IDLE"
  /\ analyser' = IF wires.trigger
                 THEN [analyser EXCEPT !.fsm = "CAPTURE", !.complete = FALSE, !.position = 0]
                 ELSE analyser

\* Faulty variant of Last: one sample is left out.
LastButOne == analyser.position = MemoryDepth - 2
Last == analyser.position = MemoryDepth - 1

CaptureOne ==
  /\ analyser.fsm = "CAPTURE"
  /\ analyser' = [analyser EXCEPT !.memory[analyser.position] = SampleNow,
                                  !.position = (@ + 1) % MemoryNumbers,
                                  !.complete = Last,
                                  !.fsm = IF Last THEN "IDLE" ELSE "CAPTURE"]

CountRises ==
  completes' = [past |-> analyser.complete,
                leds |-> IF analyser.complete /\ ~completes.past THEN (completes.leds + 1) % 2^8
                         ELSE completes.leds]

\* What lies past the memory is anything; here, nothing.
Captured ==
  IF numbering.number < MemoryDepth THEN analyser.memory[numbering.number] ELSE Nothing

\* The words are numbered from 1 while csn is 1; the one to send is taken over
\* when a word ends, and all the time before the first.
SendNumbered ==
  numbering' =
    [current |-> CASE wires.csn = 0                             -> 0
                   [] wires.csn = 1 /\ numbering.current = 0    -> 1
                   [] OTHER -> (numbering.current + IF wires.wordEnd THEN 1 ELSE 0) % MemoryNumbers,
     number  |-> numbering.current,
     tx      |-> IF wires.csn = 0 \/ wires.wordEnd THEN Captured ELSE numbering.tx]

\* Before the next edge.
ClocksNeeded == IF process.bits THEN TransferClocks ELSE EdgeClocks

Kind == Transfers[process.at]

\* The register interface takes the word over that it sends behind the command.
LatchRegister ==
  process' = IF process.bits /\ Kind = "read trig" /\ sinceEdge + 1 = CommandClocks
             THEN [process EXCEPT !.seen = analyser.complete] ELSE process

MemoryClock ==
  /\ AwaitTrigger \/ CaptureOne
  /\ CountRises /\ SendNumbered /\ LatchRegister
  /\ wires' = [wires EXCEPT !.trigger = FALSE, !.wordEnd = FALSE]
  /\ sinceTrigger' = CASE wires.trigger                                     -> 0
                       [] ~wires.trigger /\ sinceTrigger < MemoryDepth      -> sinceTrigger + 1
                       [] OTHER                                             -> sinceTrigger
  /\ sinceEdge' = IF sinceEdge < ClocksNeeded THEN sinceEdge + 1 ELSE sinceEdge
  /\ UNCHANGED captures

-----------------------------------------------------------------------------
NextEdge ==
  /\ sinceEdge = ClocksNeeded /\ sinceEdge' = 0
  /\ UNCHANGED <<analyser, completes, numbering, sinceTrigger>>
Pins(csn, trigger, wordEnd) == wires' = [csn |-> csn, trigger |-> trigger, wordEnd |-> wordEnd]

\* reg_io, and its last bit, after which a register that is written is strobed.
BeginTransfer ==
  /\ Kind # "alt_fifo_io" /\ ~process.bits /\ (process.at = 1 \/ wires.csn = 1)
  /\ process' = [process EXCEPT !.bits = TRUE]
  /\ NextEdge /\ Pins(0, FALSE, FALSE) /\ UNCHANGED captures
EndTransfer ==
  /\ process.bits
  /\ process' = [process EXCEPT !.bits = FALSE, !.at = @ + 1]
  /\ captures' = IF Kind = "write trig" THEN captures + 1 ELSE captures
  /\ NextEdge /\ Pins(0, Kind = "write trig", FALSE)

\* The registers are let go, which selects the analyser.
Deselect ==
  /\ ~process.bits /\ process.at > 1 /\ Len(process.words) = 0 /\ wires.csn = 0
  /\ NextEdge /\ Pins(1, FALSE, FALSE) /\ UNCHANGED <<process, captures>>

\* alt_fifo_io: a word of 32 bits, and the end.
NextWord ==
  /\ Kind = "alt_fifo_io" /\ wires.csn = 1 /\ Len(process.words) < MemoryDepth
  /\ process' = [process EXCEPT !.words = Append(@, numbering.tx)]
  /\ NextEdge /\ Pins(1, FALSE, TRUE) /\ UNCHANGED captures
RunAgain ==
  /\ Len(process.words) = MemoryDepth /\ process.round < Rounds
  /\ process' = [process EXCEPT !.at = 1, !.words = <<>>, !.round = @ + 1]
  /\ NextEdge /\ Pins(0, FALSE, FALSE) /\ UNCHANGED captures

spi_tests == BeginTransfer \/ EndTransfer \/ Deselect \/ NextWord \/ RunAgain

MemoryNext == MemoryClock \/ spi_tests
MemorySpec == MemoryInit /\ [][MemoryNext]_memoryVars

-----------------------------------------------------------------------------
MemoryTypeOK ==
  /\ analyser.fsm \in {"IDLE", "CAPTURE"} /\ analyser.position \in 0 .. MemoryDepth
  /\ completes.leds \in 0 .. 255 /\ numbering.current \in 0 .. MemoryNumbers - 1
  /\ process.at \in DOMAIN Transfers /\ Len(process.words) <= MemoryDepth

\* The words read are the samples of the latest capture, from the one of the
\* trigger on, though nothing waited for it to be complete (test4:247-250): it is
\* when the register is read again, and the LEDs show how many there were (in 8 bits).
CaptureIsRead ==
  /\ \A k \in DOMAIN process.words : process.words[k] = <<captures, k - 1>>
  /\ process.at = 6 => process.seen /\ completes.leds = captures % 2^8
=============================================================================
