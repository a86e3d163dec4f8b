--------------------------- MODULE RefreshMonitor ---------------------------
(***************************************************************************)
(* refresh_monitor of the SDRAM simulation (test1_simulation.py): a        *)
(* counter that leaks by one in a clock and gains per_refresh by a whole   *)
(* refresh, and fails the simulation when it is at zero.  After a refresh  *)
(* it waits in assert_idle_cmd_for until another command comes.  A step is *)
(* a clock of the chip, with any command of any controller.                *)
(***************************************************************************)
EXTENDS Integers

CONSTANTS
  RefreshTime,   \* clocks a refresh takes, T_RC
  PerRefresh,    \* increment_per_refresh
  CounterMax     \* clks_per_period

ASSUME RefreshMonitorAssumption ==
  RefreshTime \in Nat \ {0} /\ PerRefresh \in Nat \ {0} /\ CounterMax \in Nat \ {0, 1}

VARIABLES
  counter,
  ref,      \* clocks it has waited since a refresh, 0 when it does not wait
  alarm,    \* the assertion failed
  command,  \* history: the last command, and clocks since
  late      \* history: clocks since the last refresh

monitorVars == <<counter, ref, alarm, command, late>>

MonitorInit ==
  /\ counter = CounterMax /\ ref = 0 /\ alarm = FALSE
  /\ command = [is |-> "NOP", clks |-> 0] /\ late = 0

Limit == CounterMax + PerRefresh + RefreshTime + 1   \* of the histories
Longer(n) == IF n < Limit THEN n + 1 ELSE n

-----------------------------------------------------------------------------
\* Faulty variant of WholeRefresh: the clock of the refresh counts too.
WholeRefreshEarly == ref + 1 >= RefreshTime
WholeRefresh == ref >= RefreshTime

\* The monitor goes on when a command ends its wait, which it does not look at
\* again, or when it had no refresh to wait for.
GoesOn(c) == IF ref > 0 THEN c # "NOP" ELSE c # "REF"
NextCounter(c) ==
  IF ref > 0 /\ WholeRefresh /\ counter < CounterMax
  THEN counter + PerRefresh - 1 ELSE counter - 1

Leaks(c) ==
  /\ GoesOn(c)
  /\ ref' = 0 /\ counter' = NextCounter(c)
  /\ alarm' \in BOOLEAN /\ (alarm' <=> NextCounter(c) <= 0)   \* the assert fails
WaitsForIdle(c) ==
  /\ ~GoesOn(c)
  /\ ref' = Longer(ref) /\ UNCHANGED <<counter, alarm>>

ChipClock(c) ==
  /\ ~alarm
  /\ Leaks(c) \/ WaitsForIdle(c)
  /\ command' = IF c = "NOP" THEN [command EXCEPT !.clks = Longer(@)] ELSE [is |-> c, clks |-> 0]
  /\ late' = IF c = "REF" THEN 0 ELSE Longer(late)

MonitorNext == \E c \in {"NOP", "REF", "OTHER"} : ChipClock(c)
MonitorSpec == MonitorInit /\ [][MonitorNext]_monitorVars

-----------------------------------------------------------------------------
MonitorTypeOK ==
  /\ counter \in 0 .. CounterMax + PerRefresh /\ ref \in 0 .. Limit /\ alarm \in BOOLEAN
  /\ command \in [is : {"NOP", "REF", "OTHER"}, clks : 0 .. Limit] /\ late \in 0 .. Limit

\* The counter rises only by a refresh that had its whole time before the next
\* command, though that time is counted by a helper entered in the clock of the
\* refresh itself (test1_simulation.py:143).
OnlyWholeRefreshes ==
  [][counter' > counter => command.is = "REF" /\ command'.clks = 0
                             /\ command.clks + 1 >= RefreshTime]_monitorVars
=============================================================================
