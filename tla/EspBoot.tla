------------------------------ MODULE EspBoot ------------------------------
(***************************************************************************)
(* Reset and boot mode of the MCU, which UploadBase (common/upload.py)     *)
(* derives from the DTR and RTS lines of the serial port: en resets it, and*)
(* the pin gpio0 chooses, as it comes out of reset, between the application*)
(* and the loader.  gpio0 is a pin of both directions whose output nothing *)
(* enables, so what its register holds never reaches the MCU.  The tools on*)
(* the host set the two lines one after the other, so every order they go  *)
(* through is seen.  The MCU and the tools are external: the MCU needs     *)
(* ResetClocks of en low to be reset, and starts RiseClocks after en rose; *)
(* two lines set together arrive at most SkewClocks apart.  A step is a    *)
(* clock of sync, or a change of a line.                                   *)
(***************************************************************************)
EXTENDS Integers, Sequences

CONSTANTS ResetClocks, RiseClocks, SkewClocks

ASSUME EspBootAssumption ==
  /\ {ResetClocks, RiseClocks, SkewClocks} \subseteq Nat
  /\ SkewClocks < ResetClocks - 1 /\ SkewClocks < RiseClocks - 1

VARIABLES
  dtr, rts, pwr,   \* lines of the port, and the button
  en, gpio0,       \* registers of the gateware
  esp,             \* mode of the MCU, and how long en has had its value
  tool,            \* lines the host has still to set
  waits,           \* clocks since it set one
  asked, starts    \* history: resets that the last tool or press of the button
                   \* asks for, and how often the MCU has started since it began

bootVars == <<dtr, rts, pwr, en, gpio0, esp, tool, waits, asked, starts>>

LongWait == ResetClocks + RiseClocks + 2   \* tools wait longer after a pair of lines

BootInit ==
  /\ dtr = 1 /\ rts = 1 /\ pwr = 0 /\ en = 1 /\ gpio0 = 1
  /\ esp = [mode |-> "app", low |-> 0, high |-> RiseClocks]
  /\ tool = <<>> /\ waits = LongWait /\ asked = 0 /\ starts = 0

-----------------------------------------------------------------------------
\* Faulty variant of ResetNow: both lines set reset it as well.
ResetByBoth == rts = 0
ResetNow == dtr = 1 /\ rts = 0
LoaderNow == dtr = 0 /\ rts = 1

\* The pull-up holds the pin while its output is not enabled, as it never is.
gpio0_oe == 0
Gpio0Pin == IF gpio0_oe = 1 THEN gpio0 ELSE 1

\* The MCU follows en, and looks at the pin as it starts.
EspClock ==
  LET low == IF en = 0 THEN (IF esp.low < ResetClocks THEN esp.low + 1 ELSE esp.low) ELSE 0
      high == IF en = 1 THEN (IF esp.high < RiseClocks THEN esp.high + 1 ELSE esp.high) ELSE 0
      starting == esp.mode = "off" /\ high = RiseClocks
  IN /\ esp' = [low |-> low, high |-> high,
                mode |-> IF low = ResetClocks THEN "off"
                         ELSE IF starting THEN IF Gpio0Pin = 1 THEN "app" ELSE "loader"
                         ELSE esp.mode]
     /\ starts' = IF starting /\ starts < 2 THEN starts + 1 ELSE starts

BootClock ==
  /\ en' = (IF ResetNow \/ pwr = 1 THEN 0 ELSE 1)
  /\ gpio0' = (IF LoaderNow THEN 0 ELSE 1)
  /\ EspClock
  /\ waits' = IF waits < LongWait THEN waits + 1 ELSE waits
  /\ tool # <<>> /\ tool[1].together => waits < SkewClocks
  /\ UNCHANGED <<dtr, rts, pwr, tool, asked>>

-----------------------------------------------------------------------------
Both(d, r) == [dtr |-> d, rts |-> r, together |-> TRUE]
Then(d, r) == [dtr |-> d, rts |-> r, together |-> FALSE]

\* What the tools do: a reset, the way into the loader (esptool), the opening of
\* the port, which sets both lines, and its closing, in either order.
HardReset == <<Then(1, 0), Then(1, 1)>>
EnterLoader == <<Then(1, 0), Then(0, 0), Both(0, 1), Then(1, 1)>>
Opens == {<<Then(d, 1 - d), Both(0, 0)>> : d \in {0, 1}}
Closes == {<<Then(d, 1 - d), Both(1, 1)>> : d \in {0, 1}}

Rested == tool = <<>> /\ waits = LongWait /\ pwr = 0
StartTool ==
  /\ Rested
  /\ \/ dtr = 1 /\ rts = 1 /\ tool' = HardReset /\ asked' = 1
     \/ dtr = 1 /\ rts = 1 /\ tool' = EnterLoader /\ asked' = 1
     \/ dtr = 1 /\ rts = 1 /\ tool' \in Opens /\ asked' = 0
     \/ dtr = 0 /\ rts = 0 /\ tool' \in Closes /\ asked' = 0
  /\ starts' = 0
  /\ UNCHANGED <<dtr, rts, pwr, en, gpio0, esp, waits>>

SetLine ==
  /\ tool # <<>>
  /\ tool[1].together \/ waits = LongWait
  /\ dtr' = tool[1].dtr /\ rts' = tool[1].rts /\ tool' = Tail(tool) /\ waits' = 0
  /\ UNCHANGED <<pwr, en, gpio0, esp, asked, starts>>

Button ==
  /\ Rested \/ (pwr = 1 /\ waits = LongWait)
  /\ pwr' = 1 - pwr /\ waits' = 0 /\ asked' = 1 /\ starts' = 0
  /\ UNCHANGED <<dtr, rts, en, gpio0, esp, tool>>

BootNext == BootClock \/ StartTool \/ SetLine \/ Button
BootSpec == BootInit /\ [][BootNext]_bootVars

-----------------------------------------------------------------------------
BootTypeOK ==
  /\ {dtr, rts, pwr, en, gpio0} \subseteq {0, 1}
  /\ esp \in [mode : {"app", "loader", "off"}, low : 0 .. ResetClocks, high : 0 .. RiseClocks]
  /\ Len(tool) <= 4 /\ waits \in 0 .. LongWait /\ asked \in 0 .. 1 /\ starts \in 0 .. 2

\* Once a tool or the button is done, the MCU runs the application, and it has
\* started again exactly when they asked for a reset, and then once: that one line
\* is set before the other neither resets it, as a port is opened or closed, nor
\* leaves it off or resets it a second time, and no order takes it into the loader
\* (upload.py:34, 122-133).
StartsAsAsked == Rested => esp.mode = "app" /\ starts = asked
=============================================================================
