--------------------------- MODULE FifoRegisters ---------------------------
(***************************************************************************)
(* A FIFO reached through registers, and the test of it.  In the gateware  *)
(* (test2_uploadable_fifotests.py) a written register is pushed, and a     *)
(* register that was read is popped, five clocks after the strobe of the   *)
(* register interface; what the FIFO says of itself is registered too.     *)
(* The test (fpga_io_sim.test_fifo) asks before each word whether there is *)
(* room, then reads until nothing is left.  It gives up when the FIFO is   *)
(* not ready and its time has passed: words it wrote then stay inside.     *)
(*                                                                         *)
(* A step of the gateware is a clock.  A step of the test is a transfer,   *)
(* at the moment it reads or strobes a register; Apart clocks at least lie *)
(* between two of them, as the bits of a transfer do.  Words are numbered  *)
(* in the order they are written.                                          *)
(***************************************************************************)
EXTENDS Integers, Sequences, AsyncFifo

CONSTANTS
  Places,       \* words of the FIFO, the next power of 2 to its depth (32)
  FifoTests,    \* sizes of the tests, one after the other
  Apart         \* least number of clocks between two transfers

ASSUME FifoTestAssumption ==
  Places \in Nat \ {0} /\ FifoTests \in Seq(Nat) /\ Apart \in Nat

VARIABLES
  fifo0,      \* test_fifo0
  bridge,     \* the registers between it and the register interface
  strobes,    \* of the register interface, in the next clock
  tester,     \* test_fifo
  put, got,   \* history: words written, and read
  apart       \* clocks since the last transfer

fifoTestVars == <<fifo0, bridge, strobes, tester, put, got, apart>>

Never == <<0, 0, 0, 0, 0, 0>>

FifoTestInit ==
  /\ fifo0 = EmptyFifo(0)
  /\ bridge = [copi |-> 0, cipo |-> 0, wData |-> 0, wEn |-> FALSE, rEn |-> FALSE,
               wRdy |-> FALSE, rRdy |-> FALSE, rLevel |-> 0, wPast |-> Never, rPast |-> Never]
  /\ strobes = [write |-> 0, read |-> 0]
  /\ tester = [pc |-> "ended", run |-> 0, i |-> 0, late |-> FALSE, taken |-> 0]
  /\ put = 0 /\ got = 0 /\ apart = Apart

-----------------------------------------------------------------------------
\* Rose(strobe, 5): five clocks ago, and not six.
RoseFiveAgo(past) == past[5] = 1 /\ past[6] = 0

\* Faulty variant of WriteEnable: the strobe itself, with which the register takes
\* its word, so that the one before is pushed (as in test3_fast_fifo_ila_gui.py:432).
WriteAtOnce == strobes.write = 1
WriteEnable == RoseFiveAgo(bridge.wPast) /\ bridge.wRdy

BridgeClock ==
  /\ fifo0' = AfterClock(fifo0, Places, bridge.wEn, bridge.wData, bridge.rEn)
  /\ bridge' =
       [copi  |-> IF strobes.write = 1 THEN put ELSE bridge.copi,
        wEn   |-> WriteEnable,
        wData |-> IF WriteEnable THEN bridge.copi ELSE bridge.wData,
        cipo  |-> IF bridge.rRdy THEN fifo0.rData ELSE bridge.cipo,
        rEn   |-> RoseFiveAgo(bridge.rPast),
        wRdy  |-> WRdy(fifo0, Places), rRdy |-> fifo0.rRdy, rLevel |-> fifo0.rLevel,
        wPast |-> <<strobes.write>> \o SubSeq(bridge.wPast, 1, 5),
        rPast |-> <<strobes.read>> \o SubSeq(bridge.rPast, 1, 5)]
  /\ strobes' = [write |-> 0, read |-> 0]
  /\ apart' = IF apart < Apart THEN apart + 1 ELSE apart
  /\ UNCHANGED <<tester, put, got>>

-----------------------------------------------------------------------------
Transfer == apart = Apart /\ apart' = 0 /\ UNCHANGED <<fifo0, bridge>>
Reads == Transfer /\ UNCHANGED <<strobes, put, got>>

\* What comes after a word was written.
Written(i) == IF i = FifoTests[tester.run] THEN "readRdy" ELSE "writeRdy"

StartFifoTest ==
  /\ tester.pc \in {"ended", "aborted"} /\ tester.run < Len(FifoTests)
  /\ tester' = [tester EXCEPT !.pc = IF FifoTests[tester.run + 1] = 0 THEN "readRdy" ELSE "writeRdy",
                              !.run = @ + 1, !.i = 0, !.late = FALSE]
  /\ UNCHANGED <<fifo0, bridge, strobes, put, got, apart>>

\* The time of the test has passed.
TimePasses ==
  /\ tester.pc \notin {"ended", "aborted"} /\ ~tester.late
  /\ tester' = [tester EXCEPT !.late = TRUE]
  /\ UNCHANGED <<fifo0, bridge, strobes, put, got, apart>>

AskRoom ==
  /\ tester.pc = "writeRdy"
  /\ tester' = [tester EXCEPT !.pc = CASE bridge.wRdy                 -> "write"
                                       [] ~bridge.wRdy /\ tester.late -> "aborted"
                                       [] OTHER                       -> "writeRdy"]
  /\ Reads

WriteWord ==
  /\ tester.pc = "write"
  /\ tester' = [tester EXCEPT !.pc = Written(tester.i + 1), !.i = @ + 1]
  /\ strobes' = [write |-> 1, read |-> 0] /\ put' = put + 1
  /\ Transfer /\ UNCHANGED got

AskReady ==
  /\ tester.pc = "readRdy"
  /\ tester' = [tester EXCEPT !.pc = CASE bridge.rRdy                 -> "read"
                                       [] ~bridge.rRdy /\ tester.late -> "aborted"
                                       [] OTHER                       -> "level"]
  /\ Reads

AskLevel ==
  /\ tester.pc = "level"
  /\ tester' = [tester EXCEPT !.pc = IF bridge.rLevel = 0 THEN "ended" ELSE "readRdy"]
  /\ Reads

\* A read of the data register: its value goes out, then its strobe comes.
TakeWord ==
  /\ tester.pc = "read"
  /\ tester' = [tester EXCEPT !.pc = "taken", !.taken = bridge.cipo]
  /\ Reads
StrobeRead ==
  /\ tester.pc = "taken"
  /\ tester' = [tester EXCEPT !.pc = "readRdy"]
  /\ strobes' = [write |-> 0, read |-> 1] /\ got' = got + 1
  /\ Transfer /\ UNCHANGED put

FifoTester == AskRoom \/ WriteWord \/ AskReady \/ AskLevel \/ TakeWord \/ StrobeRead
FifoTestNext == BridgeClock \/ FifoTester \/ StartFifoTest \/ TimePasses

\* The clock runs, the test goes on, and its time passes.
FifoTestFair ==
  WF_fifoTestVars(BridgeClock) /\ WF_fifoTestVars(FifoTester) /\ WF_fifoTestVars(TimePasses)
FifoTestSpec == FifoTestInit /\ [][FifoTestNext]_fifoTestVars /\ FifoTestFair

-----------------------------------------------------------------------------
\* Every word comes back once, in the order they were written, also those an
\* aborted test left behind (fpga_io_sim.py:141).
ReadsInOrder == tester.pc = "taken" => tester.taken = got + 1

\* A test that ends because the level is 0 has read all there were (fpga_io_sim.py:164).
EndsWithAll == tester.pc = "ended" => got = put

\* Both, and a test of more words than the FIFO holds ends too, though it waits for
\* room that only it could make (fpga_io_sim.py:138).
FifoReadsBack ==
  /\ [](ReadsInOrder /\ EndsWithAll)
  /\ \A r \in 1 .. Len(FifoTests) :
       tester.run = r ~> tester.pc \in {"ended", "aborted"}
=============================================================================
