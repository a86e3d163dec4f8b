----------------------------- MODULE TimerTest -----------------------------
(***************************************************************************)
(* The simulation of tests2_feb2022/test1_amlib_timers.py: a timer in a    *)
(* slow clock domain made by add_clock (clks.py), the registers that       *)
(* records connected in the domain put in front of and behind it, and the  *)
(* process timer_test that starts it, waits for done and resets the        *)
(* domain, three times.  A step is a clock of sync; the slow domain and    *)
(* the process go on when its clock rises.  Timer is a part of amlib; the  *)
(* netlist test1_amlib_timers_build/top.debug.v shows what it is.          *)
(***************************************************************************)
EXTENDS Integers

CONSTANTS
  Divisor,       \* of the slow clock (25)
  TimerLoad,     \* clocks of the timer (100)
  DelayClocks,   \* clocks of sync in the delays of the process (25, a microsecond)
  Repeats        \* 3

ASSUME TimerTestAssumption ==
  /\ {Divisor, TimerLoad, DelayClocks, Repeats} \subseteq Nat \ {0} /\ Divisor > 3 /\ TimerLoad > 1

VARIABLES
  clkCounter, slowClk,   \* of add_clock
  rst,                   \* of the slow domain
  starts, dones,         \* the registers before and behind the timer, nearest to the test first
  timer,                 \* state and counter of the Timer
  proc,                  \* timer_test
  lasted                 \* history: slow clocks since start was strobed

timerTestVars == <<clkCounter, slowClk, rst, starts, dones, timer, proc, lasted>>

NoneSet == <<0, 0, 0, 0>>
TimerTestInit ==
  /\ clkCounter = 0 /\ slowClk = 0 /\ rst = 0
  /\ starts = NoneSet /\ dones = NoneSet /\ timer = [state |-> "IDLE", counter |-> 0]
  /\ proc = [pc |-> "delayStart", left |-> DelayClocks, repeat |-> 0, start |-> 0, reset |-> 0]
  /\ lasted = 0

-----------------------------------------------------------------------------
Wraps == clkCounter = Divisor \div 2 - 1
Toggles == clkCounter = 0

Divide ==
  /\ clkCounter' = IF Wraps THEN 0 ELSE (clkCounter + 1) % 16
  /\ slowClk' = IF Toggles THEN 1 - slowClk ELSE slowClk

\* The register that resets the domain is in it too: held at 1, it is 1 in every
\* other clock.
\* Faulty variant of NextRst: it is not.
RstHeld == IF rst = 1 \/ proc.reset = 1 THEN 1 ELSE 0
NextRst == IF rst = 1 THEN 0 ELSE proc.reset

\* Timer of amlib, without reload.
Timer ==
  CASE timer.state = "IDLE" ->
         IF starts[4] = 1 /\ timer.counter > 0
         THEN [state |-> "RUNNING", counter |-> timer.counter - 1]
         ELSE [state |-> "IDLE", counter |-> TimerLoad]
    [] timer.state = "RUNNING" ->
         [state |-> IF timer.counter = 1 THEN "DONE" ELSE "RUNNING", counter |-> timer.counter - 1]
    [] OTHER -> [timer EXCEPT !.state = "IDLE"]   \* DONE

Flags(p) == IF p THEN 1 ELSE 0

SlowClock ==
  /\ rst' = NextRst
  /\ IF rst = 1
     THEN /\ starts' = NoneSet /\ dones' = NoneSet
          /\ timer' = [state |-> "IDLE", counter |-> 0]
     ELSE /\ starts' = <<proc.start, starts[1], starts[2], starts[3]>>
          /\ dones' = <<dones[2], dones[3], dones[4], Flags(timer.state = "DONE")>>
          /\ timer' = Timer

\* The process at a slow clock: strobe is two of them.
AtTick ==
  CASE proc.pc = "startHigh" -> [proc EXCEPT !.pc = "startLow", !.start = 0]
    [] proc.pc = "startLow"  -> [proc EXCEPT !.pc = "waits"]
    [] proc.pc = "waits" /\ dones[1] = 1 ->
         [proc EXCEPT !.pc = "delayEnd", !.left = DelayClocks]
    [] proc.pc = "resetHigh" -> [proc EXCEPT !.pc = "resetLow", !.reset = 0]
    [] proc.pc = "resetLow" /\ proc.repeat + 1 < Repeats ->
         [proc EXCEPT !.pc = "delayStart", !.left = DelayClocks, !.repeat = @ + 1]
    [] proc.pc = "resetLow" /\ proc.repeat + 1 = Repeats ->
         [proc EXCEPT !.pc = "ended", !.repeat = @ + 1, !.reset = 1]
    [] OTHER -> proc

\* Its delays end between the slow clocks.
Delaying(p) ==
  CASE p.pc \in {"delayStart", "delayEnd"} /\ p.left > 0 -> [p EXCEPT !.left = @ - 1]
    [] p.pc = "delayStart" /\ p.left = 0 -> [p EXCEPT !.pc = "startHigh", !.start = 1]
    [] p.pc = "delayEnd" /\ p.left = 0   -> [p EXCEPT !.pc = "resetHigh", !.reset = 1]
    [] OTHER -> p

\* The clock of the slow domain rises when it is toggled from 0.
Rises == slowClk = 0 /\ Toggles

TickClock ==
  /\ Rises
  /\ Divide /\ SlowClock
  /\ proc' = AtTick
  /\ lasted' = CASE proc.pc = "startHigh" -> 0
                 [] proc.pc \in {"startLow", "waits"} /\ lasted < 2 * TimerLoad + 8 -> lasted + 1
                 [] OTHER -> lasted

IdleClock ==
  /\ ~Rises
  /\ Divide /\ proc' = Delaying(proc)
  /\ UNCHANGED <<rst, starts, dones, timer, lasted>>

TimerTestNext == TickClock \/ IdleClock
TimerTestSpec == TimerTestInit /\ [][TimerTestNext]_timerTestVars /\ WF_timerTestVars(TimerTestNext)

-----------------------------------------------------------------------------
\* A round takes as long each time: the clocks of the timer and eight registers.
RoundsAsLong == proc.pc = "delayEnd" => lasted = TimerLoad + 8

\* The test ends ("often this block will hang if the design is broken", line
\* 207): the domain comes out of each reset, the timer has been loaded again
\* when it is started, and its done, one slow clock long, is not missed.
TimerTestEnds ==
  /\ proc.pc = "startHigh" ~> proc.pc = "ended"
  /\ []RoundsAsLong
=============================================================================
