------------------------------ MODULE Delayer ------------------------------
(***************************************************************************)
(* A timer of an FPGA design (tests2_feb2022/test7_formal_verification_    *)
(* timer_restructured.py) and a design that waits with it, Testbench.      *)
(* Delayer.delay_for_clks adds logic to the state that waits: delay_fsm,   *)
(* which loads the counter of the submodule, for more than 8 clocks, and a *)
(* shift register for fewer.  Everything is in one clock domain: a step is *)
(* a clock, and each register takes what the others held before it.        *)
(*                                                                         *)
(* Between Testbench and the counter are registers for each direction, as  *)
(* both sides connect their records in the domain:                         *)
(*   load: tb.load -> ui.load -> own.load -> countdown                     *)
(*   done: countdown -> own.done -> ui.done -> tb.done                     *)
(* (_ui of Testbench, delayer.ui, _ui of Delayer).                         *)
(***************************************************************************)
EXTENDS Integers

CONSTANT MaxLoad   \* largest value of the counter, 2^12 - 1 in the code

ASSUME MaxLoadAssumption == MaxLoad \in Nat \ {0}

VARIABLES
  clks,           \* the delay asked for when the design is elaborated
  testbench_fsm, delay_fsm, shift_timer,
  tb, ui, own,    \* the records
  countdown,
  elapsed         \* history: clocks spent in START

vars == <<clks, testbench_fsm, delay_fsm, shift_timer, tb, ui, own, countdown, elapsed>>

-----------------------------------------------------------------------------
Long  == clks > 8
Short == clks \in 2 .. 8

\* What the counter is loaded with: the rest of the delay passes on the way.
\* Faulty variant of Load: one register was forgotten.
LoadOneMore == clks - 7
Load == clks - 8

Bit(p) == IF p THEN 1 ELSE 0

\* How long the state that waits is to last, see OnTime.
Lasts == IF clks = 1 THEN 1 ELSE clks - 1

\* shift_timer is the set of its bits that are 1.
AllOnes == IF Short THEN 0 .. clks - 2 ELSE {}
Zero == [load |-> 0, done |-> 0]

Init ==
  /\ clks \in 1 .. MaxLoad + 8
  /\ testbench_fsm = "INITIAL" /\ delay_fsm = "INIT" /\ shift_timer = AllOnes
  /\ tb = Zero /\ ui = Zero /\ own = Zero /\ countdown = 0 /\ elapsed = 0

\* What delay_for_clks returns.
Delayed ==
  \/ Long /\ tb.done = 1
  \/ Short /\ shift_timer = {0}
  \/ clks = 1

\* Faulty variant of AfterLoaded: the counter is loaded again and again.
AfterLoadedAgain == "INIT"
AfterLoaded == "DONE"

\* The logic of delay_for_clks, part of state START.
Shift == shift_timer' = {i - 1 : i \in shift_timer \ {0}}
DelayFsm ==
  delay_fsm' = CASE ~Long                -> delay_fsm
                 [] delay_fsm = "INIT"   -> "LOADED"
                 [] delay_fsm = "LOADED" -> AfterLoaded
                 [] delay_fsm = "DONE"   -> "DONE"

\* Nothing else drives the load of Testbench.
TbLoad == IF testbench_fsm = "START" /\ Long /\ delay_fsm = "INIT" THEN Load ELSE 0

\* Faulty variant of Decremented: no Mux.
DecrementedAlways == countdown - 1
Decremented == IF countdown > 0 THEN countdown - 1 ELSE countdown

\* Faulty variant of CountedDown: stays set.
AtZero == countdown <= 1
CountedDown == countdown = 1

\* The records, and the counter.
Registers ==
  /\ tb'  = [load |-> TbLoad, done |-> ui.done]
  /\ ui'  = [load |-> tb.load, done |-> own.done]
  /\ own' = [load |-> ui.load, done |-> Bit(CountedDown)]
  /\ countdown' = IF own.load # 0 THEN own.load ELSE Decremented
  /\ UNCHANGED clks

\* INITIAL is left when a button is pressed, or at once in the simulation.
Initial ==
  /\ testbench_fsm = "INITIAL"
  /\ testbench_fsm' \in {"INITIAL", "START"}
  /\ Registers /\ UNCHANGED <<delay_fsm, shift_timer, elapsed>>

Start ==
  /\ testbench_fsm = "START"
  /\ testbench_fsm' = IF Delayed THEN "DONE" ELSE "START"
  /\ Shift /\ DelayFsm
  /\ Registers
  /\ elapsed' = IF elapsed > Lasts THEN elapsed ELSE elapsed + 1   \* too late is too late

Done ==
  /\ testbench_fsm = "DONE"
  /\ Registers /\ UNCHANGED <<testbench_fsm, delay_fsm, shift_timer, elapsed>>

\* The reset button resets the domain, at any clock.
Reset ==
  /\ testbench_fsm' = "INITIAL" /\ delay_fsm' = "INIT" /\ shift_timer' = AllOnes
  /\ tb' = Zero /\ ui' = Zero /\ own' = Zero /\ countdown' = 0 /\ elapsed' = 0
  /\ UNCHANGED clks

Next == Initial \/ Start \/ Done \/ Reset

\* The clock goes on while the design waits.
Spec == Init /\ [][Next]_vars /\ WF_vars(Start)

-----------------------------------------------------------------------------
Records == [load : 0 .. MaxLoad, done : {0, 1}]

TypeOK ==
  /\ clks \in 1 .. MaxLoad + 8
  /\ testbench_fsm \in {"INITIAL", "START", "DONE"}
  /\ delay_fsm \in {"INIT", "LOADED", "DONE"}
  /\ shift_timer \subseteq 0 .. 6
  /\ {tb, ui, own} \subseteq Records
  /\ countdown \in 0 .. MaxLoad
  /\ elapsed \in Nat

\* The state that waits lasts clks - 1 clocks: the simulation, which counts the
\* first clock of DONE too, measures clks (line 341).  One clock is the least.
OnTime ==
  /\ testbench_fsm = "START" => elapsed < Lasts
  /\ testbench_fsm = "DONE" => elapsed = Lasts

\* A state that waits is left, whatever the delay: unless there is a reset the
\* pulse does come, and is not missed (line 225).
Ends == testbench_fsm = "START" ~> testbench_fsm # "START"
=============================================================================
