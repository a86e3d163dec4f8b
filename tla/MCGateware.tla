---------------------------- MODULE MCGateware ----------------------------
(***************************************************************************)
(* The parts of the gateware that stand alone, for TLC: a behaviour is one *)
(* of one of them, and the others stay as they began.  Of Timers, each of  *)
(* the three is a part.                                                    *)
(***************************************************************************)
EXTENDS Delayer, IlaFifo, FifoRegisters, FifoBuffer, Timers, TimerTest, IlaMemory

VARIABLE part

allVars == <<part, vars, ilaVars, fifoTestVars, bufferVars, timersVars, timerTestVars, memoryVars>>

\* Sizes of three tests in a row: the second does not fit.
ThreeTests == <<10, 40, 5>>

MCInit ==
  /\ part \in {"delayer", "analyser", "fifo", "buffer", "clocky", "refresh", "twice", "timer", "memory"}
  /\ Init /\ (part # "delayer" => clks = 1)
  /\ IlaInit /\ FifoTestInit /\ FifoBufferInit /\ TimersInit /\ TimerTestInit /\ MemoryInit

OnDelayer  == UNCHANGED <<part, ilaVars, fifoTestVars, bufferVars, timersVars, timerTestVars, memoryVars>>
OnAnalyser == UNCHANGED <<part, vars, fifoTestVars, bufferVars, timersVars, timerTestVars, memoryVars>>
OnFifo     == UNCHANGED <<part, vars, ilaVars, bufferVars, timersVars, timerTestVars, memoryVars>>
OnBuffer   == UNCHANGED <<part, vars, ilaVars, fifoTestVars, timersVars, timerTestVars, memoryVars>>
OnTimers   == UNCHANGED <<part, vars, ilaVars, fifoTestVars, bufferVars, timerTestVars, memoryVars>>
OnTest     == UNCHANGED <<part, vars, ilaVars, fifoTestVars, bufferVars, timersVars, memoryVars>>
OnMemory   == UNCHANGED <<part, vars, ilaVars, fifoTestVars, bufferVars, timersVars, timerTestVars>>

MCNext ==
  \/ part = "delayer" /\ Next /\ OnDelayer
  \/ part = "analyser" /\ IlaNext /\ OnAnalyser
  \/ part = "fifo" /\ FifoTestNext /\ OnFifo
  \/ part = "buffer" /\ FifoBufferNext /\ OnBuffer
  \/ part = "clocky" /\ ClockyNext /\ OnTimers
  \/ part = "refresh" /\ RefreshNext /\ OnTimers
  \/ part = "twice" /\ TwiceNext /\ OnTimers
  \/ part = "timer" /\ TimerTestNext /\ OnTest
  \/ part = "memory" /\ MemoryNext /\ OnMemory

\* The fairness of each part, for the part that runs.
MCFair ==
  /\ WF_vars(part = "delayer" /\ Start)
  /\ WF_ilaVars(part = "analyser" /\ Clock) /\ WF_ilaVars(part = "analyser" /\ Test)
  /\ WF_fifoTestVars(part = "fifo" /\ BridgeClock)
  /\ WF_fifoTestVars(part = "fifo" /\ FifoTester)
  /\ WF_fifoTestVars(part = "fifo" /\ TimePasses)
  /\ WF_bufferVars(part = "buffer" /\ ShowWord)
  /\ WF_bufferVars(part = "buffer" /\ ReadClock(0))
  /\ WF_timersVars(part = "twice" /\ TwiceNext)
  /\ WF_timerTestVars(part = "timer" /\ TimerTestNext)

MCSpec == MCInit /\ [][MCNext]_allVars /\ MCFair

\* Every part has the types its own invariant says.
GatewareTypeOK == TypeOK /\ IlaTypeOK /\ FifoBufferTypeOK /\ MemoryTypeOK

\* What the analysers give out is their capture, of either kind.
CapturesAreRead == InOrder /\ CaptureIsRead
=============================================================================
