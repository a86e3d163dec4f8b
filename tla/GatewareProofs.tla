--------------------------- MODULE GatewareProofs ---------------------------
(***************************************************************************)
(* The timers of the gateware are exact and stay within their limits, the  *)
(* FIFO with its register is one FIFO of one word more, the analyser with  *)
(* a memory gives out what it captured, and a FIFO behind registers gives  *)
(* back what was written: for every width, top, period, delay, size and    *)
(* depth, and every set of words.                                          *)
(***************************************************************************)
EXTENDS MCGateware, IlaFifoProofs

-----------------------------------------------------------------------------
(* Delayer                                                                 *)

\* Where the load and the pulse are, and what the counter has left, when the
\* wait has lasted t clocks.
On(load, done) == [load |-> load, done |-> Bit(done)]
Way(t) ==
  /\ delay_fsm = (IF t = 0 THEN "INIT" ELSE IF t = 1 THEN "LOADED" ELSE "DONE")
  /\ tb  = On(IF t = 1 THEN clks - 8 ELSE 0, t = clks - 2)
  /\ ui  = On(IF t = 2 THEN clks - 8 ELSE 0, t = clks - 3)
  /\ own = On(IF t = 3 THEN clks - 8 ELSE 0, t = clks - 4)
  /\ countdown = IF t \in 4 .. clks - 4 THEN clks - 4 - t ELSE 0

Waited ==
  /\ Long => Way(elapsed)
  /\ ~Long => tb = Zero /\ ui = Zero /\ own = Zero /\ countdown = 0
  /\ shift_timer = IF Short THEN 0 .. clks - 2 - elapsed ELSE {}

DelayerInv ==
  /\ clks \in 1 .. MaxLoad + 8 /\ elapsed \in Nat
  /\ delay_fsm \in {"INIT", "LOADED", "DONE"}
  /\ testbench_fsm \in {"INITIAL", "START", "DONE"}
  /\ testbench_fsm = "INITIAL" => elapsed = 0
  /\ testbench_fsm = "START" => elapsed < Lasts
  /\ testbench_fsm = "DONE" => elapsed = Lasts
  /\ Waited

-----------------------------------------------------------------------------
\* Everything is 0 when the wait begins, and when it is over.
LEMMA WayAtRest ==
  ASSUME clks \in Nat, Long, NEW t \in Nat, t = 0 \/ t = clks - 1
  PROVE  Way(t) <=> /\ delay_fsm = IF t = 0 THEN "INIT" ELSE "DONE"
                    /\ tb = Zero /\ ui = Zero /\ own = Zero /\ countdown = 0
BY DEF Way, On, Bit, Zero, Long

LEMMA InitHolds == Init => DelayerInv
<1> SUFFICES ASSUME Init PROVE DelayerInv  OBVIOUS
<1>1. clks \in Nat /\ elapsed = 0  BY MaxLoadAssumption DEF Init
<1>2. Waited
  <2>1. Long => Way(elapsed)  BY <1>1, WayAtRest DEF Init
  <2> QED BY <1>1, <2>1 DEF Waited, Init, AllOnes
<1> QED BY <1>1, <1>2 DEF DelayerInv, Init, Lasts

LEMMA RestHolds ==
  ASSUME DelayerInv, testbench_fsm \in {"INITIAL", "DONE"}, Registers,
         UNCHANGED <<delay_fsm, shift_timer, elapsed>>
  PROVE  Waited'
<1>1. clks \in Nat /\ clks' = clks /\ elapsed' = elapsed /\ elapsed \in Nat
  BY MaxLoadAssumption DEF DelayerInv, Registers
<1>2. Long => elapsed = 0 \/ elapsed = clks - 1  BY <1>1 DEF DelayerInv, Lasts, Long
<1>3. tb = Zero /\ ui = Zero /\ own = Zero /\ countdown = 0
  BY <1>1, <1>2, WayAtRest DEF DelayerInv, Waited
<1>4. tb' = Zero /\ ui' = Zero /\ own' = Zero /\ countdown' = 0
  BY <1>3 DEF Registers, TbLoad, Zero, CountedDown, Decremented, Bit, DelayerInv
<1>5. Long => Way(elapsed)'
  BY <1>1, <1>2, <1>4, WayAtRest DEF DelayerInv, Waited, Way, On, Bit, Zero, Long
<1> QED BY <1>1, <1>4, <1>5 DEF DelayerInv, Waited, Long, Short

\* The load and the pulse each go one register further.
LEMMA WayHolds ==
  ASSUME clks \in Nat, Long, NEW t \in Nat, t < clks - 1, Way(t),
         testbench_fsm = "START", Registers, DelayFsm
  PROVE  Way(t + 1)'
<1>1. clks' = clks  BY DEF Registers
<1>2. delay_fsm' = IF t + 1 = 1 THEN "LOADED" ELSE "DONE"
  BY DEF Way, DelayFsm, AfterLoaded
<1>3. tb' = On(IF t + 1 = 1 THEN clks - 8 ELSE 0, t + 1 = clks - 2)
  BY DEF Registers, TbLoad, Load, Way, On, Bit, Long
<1>4. ui' = On(IF t + 1 = 2 THEN clks - 8 ELSE 0, t + 1 = clks - 3)
  BY DEF Registers, Way, On, Bit, Long
<1>5. own' = On(IF t + 1 = 3 THEN clks - 8 ELSE 0, t + 1 = clks - 4)
  BY DEF Registers, Way, On, Bit, Long, CountedDown
<1>6. countdown' = IF t + 1 \in 4 .. clks - 4 THEN clks - 4 - (t + 1) ELSE 0
  BY DEF Registers, Way, On, Long, Decremented
<1> QED BY <1>1, <1>2, <1>3, <1>4, <1>5, <1>6 DEF Way, On

LEMMA StartHolds == ASSUME DelayerInv, Start PROVE DelayerInv'
<1>1. clks \in Nat /\ clks' = clks /\ elapsed' = elapsed + 1 /\ elapsed \in Nat
      /\ testbench_fsm = "START" /\ elapsed < Lasts
  <2>1. clks \in Nat /\ elapsed \in Nat /\ testbench_fsm = "START" /\ elapsed < Lasts
    BY MaxLoadAssumption DEF DelayerInv, Start
  <2>2. Lasts \in Nat  BY <2>1 DEF Lasts, DelayerInv
  <2> QED BY <2>1, <2>2 DEF Start, Registers
<1>2. Delayed <=> elapsed + 1 = Lasts
  <2>1. CASE Long
    <3>1. tb.done = Bit(elapsed = clks - 2)  BY <2>1 DEF DelayerInv, Waited, Way, On
    <3>2. Delayed <=> tb.done = 1  BY <1>1, <2>1 DEF Delayed, Short, Long
    <3>3. elapsed + 1 = Lasts <=> elapsed = clks - 2  BY <1>1, <2>1 DEF Lasts, Long
    <3> QED BY <3>1, <3>2, <3>3 DEF Bit
  <2>2. CASE Short
    <3>1. shift_timer = 0 .. clks - 2 - elapsed /\ clks - 2 - elapsed \in Nat
      BY <1>1, <2>2 DEF DelayerInv, Waited, Lasts, Short
    <3>2. shift_timer = {0} <=> clks - 2 - elapsed = 0  BY <3>1
    <3> QED BY <1>1, <2>2, <3>2 DEF Delayed, Lasts, Short, Long
  <2>3. CASE ~Long /\ ~Short
    BY <1>1, <2>3 DEF DelayerInv, Delayed, Lasts, Short, Long
  <2> QED BY <2>1, <2>2, <2>3
<1>3. Waited'
  <2>1. CASE Long
    <3>1. PICK t \in Nat : t = elapsed  BY <1>1
    <3>2. t < clks - 1  BY <1>1, <2>1, <3>1 DEF Lasts, Long
    <3>3. Way(t)  BY <2>1, <3>1 DEF DelayerInv, Waited, Way
    <3>4. Way(t + 1)'
      BY <1>1, <2>1, <3>2, <3>3, WayHolds DEF Start
    <3>5. Way(elapsed)'  BY <1>1, <3>1, <3>4 DEF Way
    <3>6. shift_timer' = {}  BY <2>1 DEF DelayerInv, Waited, Start, Shift, Long, Short
    <3> QED BY <1>1, <2>1, <3>5, <3>6 DEF Waited, Long, Short
  <2>2. CASE ~Long
    <3>1. tb' = Zero /\ ui' = Zero /\ own' = Zero /\ countdown' = 0
      BY <2>2 DEF DelayerInv, Waited, Start, Registers, TbLoad, Zero, CountedDown, Decremented, Bit
    <3>2. shift_timer' = {i - 1 : i \in shift_timer \ {0}}  BY DEF Start, Shift
    <3>3. shift_timer' = IF Short THEN 0 .. clks - 2 - (elapsed + 1) ELSE {}
      <4>1. CASE Short
        <5>1. PICK m \in Int : m = clks - 2 - elapsed  BY <1>1
        <5>2. shift_timer = 0 .. m  BY <4>1, <5>1 DEF DelayerInv, Waited
        <5>3. shift_timer' = 0 .. m - 1
          <6>1. \A j \in shift_timer' : j \in 0 .. m - 1  BY <3>2, <5>2
          <6>2. \A j \in 0 .. m - 1 : j \in shift_timer'
            <7> TAKE j \in 0 .. m - 1
            <7>1. j + 1 \in shift_timer \ {0} /\ j = (j + 1) - 1  BY <5>2
            <7> QED BY <3>2, <7>1
          <6> QED BY <6>1, <6>2
        <5>4. m - 1 = clks - 2 - (elapsed + 1)  BY <1>1, <5>1
        <5> QED BY <4>1, <5>3, <5>4
      <4>2. CASE ~Short
        BY <3>2, <4>2 DEF DelayerInv, Waited
      <4> QED BY <4>1, <4>2
    <3> QED BY <1>1, <2>2, <3>1, <3>3 DEF Waited, Long, Short
  <2> QED BY <2>1, <2>2
<1>4. testbench_fsm' = IF Delayed THEN "DONE" ELSE "START"  BY DEF Start
<1>5. Lasts \in Nat /\ Lasts' = Lasts  BY <1>1 DEF Lasts, DelayerInv
<1>6. delay_fsm' \in {"INIT", "LOADED", "DONE"}
  BY DEF DelayerInv, Start, DelayFsm, AfterLoaded
<1> QED BY <1>1, <1>2, <1>3, <1>4, <1>5, <1>6 DEF DelayerInv

LEMMA StepHolds == ASSUME DelayerInv, [Next]_vars PROVE DelayerInv'
<1>1. CASE Start  BY <1>1, StartHolds
<1>2. CASE Initial
  <2>1. Waited'  BY <1>2, RestHolds DEF Initial
  <2>2. Lasts > 0  BY DEF DelayerInv, Lasts
  <2> QED BY <1>2, <2>1, <2>2 DEF DelayerInv, Initial, Registers, Lasts
<1>3. CASE Done
  <2>1. Waited'  BY <1>3, RestHolds DEF Done
  <2> QED BY <1>3, <2>1 DEF DelayerInv, Done, Registers, Lasts
<1>4. CASE Reset
  <2>1. Init'  BY <1>4 DEF Reset, DelayerInv, Init, AllOnes, Short
  <2> QED BY <2>1, InitHolds, PTL
<1>5. CASE UNCHANGED vars
  BY <1>5 DEF vars, DelayerInv, Waited, Way, Long, Short, Lasts
<1> QED BY <1>1, <1>2, <1>3, <1>4, <1>5 DEF Next

\* Where everything is at each clock of a wait (Delayer.delay_for_clks and
\* Delayer.elaborate).
THEOREM DelayerInvariant == Spec => []DelayerInv
BY InitHolds, StepHolds, PTL DEF Spec

LEMMA DelayerTypesFollow == DelayerInv => TypeOK
<1> SUFFICES ASSUME DelayerInv PROVE TypeOK OBVIOUS
<1>1. clks \in Nat /\ MaxLoad \in Nat  BY MaxLoadAssumption DEF DelayerInv
<1>2. \A load \in 0 .. MaxLoad, done \in BOOLEAN : On(load, done) \in Records
  BY DEF On, Bit, Records
<1>3. shift_timer \subseteq 0 .. 6  BY <1>1 DEF DelayerInv, Waited, Short
<1>4. tb \in Records /\ ui \in Records /\ own \in Records /\ countdown \in 0 .. MaxLoad
  <2>1. CASE Long
    <3>1. Way(elapsed) /\ elapsed \in Nat  BY <2>1 DEF DelayerInv, Waited
    <3>2. clks - 8 \in 0 .. MaxLoad /\ 0 \in 0 .. MaxLoad  BY <1>1, <2>1 DEF DelayerInv, Long
    <3>3. tb \in Records /\ ui \in Records /\ own \in Records
      BY <1>2, <3>1, <3>2 DEF Way
    <3>4. countdown \in 0 .. MaxLoad  BY <1>1, <3>1, <3>2 DEF Way
    <3> QED BY <3>3, <3>4
  <2>2. CASE ~Long  BY <1>1, <2>2 DEF DelayerInv, Waited, Zero, Records
  <2> QED BY <2>1, <2>2
<1> QED BY <1>1, <1>3, <1>4 DEF DelayerInv, TypeOK

\* The registers stay within their widths.
THEOREM DelayerTypes == Spec => []TypeOK
BY DelayerInvariant, DelayerTypesFollow, PTL

\* A state that waits lasts as long as it was asked to (line 103: "this compensates
\* for delays etc in the implementation").
THEOREM Exact == Spec => []OnTime
<1>1. DelayerInv => OnTime  BY DEF DelayerInv, OnTime
<1> QED BY <1>1, DelayerInvariant, PTL

-----------------------------------------------------------------------------
LEMMA NoWrap ==
  ASSUME NEW n \in Nat, NEW w \in Nat, n < w
  PROVE  n % w = n
OBVIOUS

-----------------------------------------------------------------------------
(* Clocky                                                                  *)

LEMMA LoadedInRange == \A v \in Nat : Loaded(v) \in 0 .. ClockyTop
BY TimersAssumption DEF Loaded

LEMMA CountsOn ==
  ASSUME x \in 0 .. ClockyTop, x # ClockyTop
  PROVE  (x + 1) % 2 ^ ClockyWidth = x + 1
<1>1. x + 1 \in Nat /\ 2 ^ ClockyWidth \in Nat /\ x + 1 < 2 ^ ClockyWidth
  BY TimersAssumption
<1>. QED
  BY <1>1, NoWrap

LEMMA ClockyStep ==
  ASSUME NeverPastTop, [TimersNext]_timersVars
  PROVE  /\ NeverPastTop'
         /\ \/ UNCHANGED <<x, asked>>
            \/ /\ that_clock_increments /\ that_rollover_occurs
               /\ that_load_works /\ expected_behavior
<1> USE TimersAssumption
<1> DEFINE Asserted == /\ that_clock_increments /\ that_rollover_occurs
                       /\ that_load_works /\ expected_behavior
<1>1. CASE ClockyReset
  <2>1. NeverPastTop'
    BY <1>1 DEF ClockyReset, NeverPastTop
  <2>2. Asserted
    BY <1>1 DEF ClockyReset, that_clock_increments, that_rollover_occurs, that_load_works,
                expected_behavior
  <2>. QED
    BY <2>1, <2>2
<1>2. CASE ClockyLoad
  <2>1. PICK value \in 0 .. 2 ^ ClockyWidth - 1 :
          x' = Loaded(value) /\ asked' = [rst |-> 0, load |-> 1, value |-> value]
    BY <1>2 DEF ClockyLoad
  <2>2. value \in Nat
    BY <2>1
  <2>3. NeverPastTop'
    BY <2>1, <2>2, LoadedInRange DEF NeverPastTop
  <2>4. Asserted
    BY <2>1 DEF Loaded, that_clock_increments, that_rollover_occurs, that_load_works,
                expected_behavior
  <2>. QED
    BY <2>3, <2>4
<1>3. CASE ClockyCount
  <2>1. asked' = [rst |-> 0, load |-> 0, value |-> 0]
    BY <1>3 DEF ClockyCount
  <2>2. CASE x = ClockyTop
    <3>1. x' = 0
      BY <1>3, <2>2 DEF ClockyCount
    <3>. QED
      BY <2>1, <2>2, <3>1 DEF NeverPastTop, that_clock_increments, that_rollover_occurs,
                              that_load_works, expected_behavior
  <2>3. CASE x # ClockyTop
    <3>1. x' = x + 1 /\ x' = (x + 1) % 2 ^ ClockyWidth
      BY <1>3, <2>3, CountsOn DEF ClockyCount, NeverPastTop
    <3>. QED
      BY <2>1, <2>3, <3>1 DEF NeverPastTop, that_clock_increments, that_rollover_occurs,
                              that_load_works, expected_behavior
  <2>. QED
    BY <2>2, <2>3
<1>4. CASE RefreshNext \/ TwiceNext \/ UNCHANGED timersVars
  BY <1>4 DEF RefreshNext, RefreshTick, RefreshIdle, TwiceNext, timersVars, NeverPastTop
<1>. QED
  BY <1>1, <1>2, <1>3, <1>4 DEF TimersNext, ClockyNext

-----------------------------------------------------------------------------
(* RefreshTimer                                                            *)

\* What is left of the period and what has gone by make it up.
RefreshInv ==
  /\ count \in 0 .. Trefi - 1 /\ waited = Trefi - 1 - count
  /\ pulse \in {0, 1} /\ (pulse = 1 <=> count = 0)

LEMMA RefreshStep == RefreshInv /\ [TimersNext]_timersVars => RefreshInv'
<1> SUFFICES ASSUME RefreshInv, [TimersNext]_timersVars PROVE RefreshInv'
  OBVIOUS
<1> USE TimersAssumption
<1>1. CASE RefreshTick
  <2>1. CASE count # 0
    BY <1>1, <2>1 DEF RefreshTick, CountDown, RefreshInv
  <2>2. CASE count = 0
    BY <1>1, <2>2 DEF RefreshTick, Reload, RefreshInv
  <2>. QED
    BY <2>1, <2>2
<1>2. CASE RefreshIdle
  BY <1>2 DEF RefreshIdle, Reload, RefreshInv
<1>3. CASE ClockyNext \/ TwiceNext \/ UNCHANGED timersVars
  BY <1>3 DEF ClockyNext, TwiceNext, timersVars, RefreshInv
<1>. QED
  BY <1>1, <1>2, <1>3 DEF TimersNext, RefreshNext

LEMMA TimersInitHolds == TimersInit => NeverPastTop /\ RefreshInv
BY TimersAssumption DEF TimersInit, ClockyInit, RefreshInit, NeverPastTop, RefreshInv

LEMMA LimitsFollow == RefreshInv => PulseAtTheEnd
BY TimersAssumption DEF RefreshInv, PulseAtTheEnd

\* Whatever the tops, widths and periods: Clocky never leaves its range and test4's
\* asserts hold (test4_formal_verification.py:38), and the pulse of the refresh
\* timer is there just when its period has passed (test5_formal_verification_2.py:65).
THEOREM CountersAtTheirLimits == TimersSpec => AtTheirLimits
<1>1. NeverPastTop /\ [TimersNext]_timersVars => NeverPastTop'
  BY ClockyStep
<1>2. NeverPastTop /\ [TimersNext]_timersVars
        => [that_clock_increments /\ that_rollover_occurs /\ that_load_works
              /\ expected_behavior]_<<x, asked>>
  BY ClockyStep
<1>. QED
  BY <1>1, <1>2, RefreshStep, TimersInitHolds, LimitsFollow, PTL
     DEF TimersSpec, AtTheirLimits, AssertsHold

-----------------------------------------------------------------------------
(* Two waits with one counter                                              *)

\* Where all the registers are, e clocks into a wait of n by the delay_fsm `fsm'.
Waiting(fsm, n) ==
  LET e == twice.elapsed IN
  /\ e \in 0 .. n + 4
  /\ fsm = IF e = 0 THEN "INIT" ELSE IF e = 1 THEN "LOADED" ELSE "DONE"
  /\ twice.load = IF e = 1 THEN n ELSE 0
  /\ twice.uiLoad = IF e = 2 THEN n ELSE 0
  /\ twice.countdown = IF e \in 3 .. n + 2 THEN n + 3 - e ELSE 0
  /\ twice.uiDone = IF e = n + 3 THEN 1 ELSE 0
  /\ twice.done = IF e = n + 4 THEN 1 ELSE 0

AtRest ==
  /\ twice.load = 0 /\ twice.uiLoad = 0 /\ twice.countdown = 0
  /\ twice.uiDone = 0 /\ twice.done = 0

TwiceInv ==
  \/ twice.fsm = "INITIAL" /\ AtRest /\ twice.delay1 = "INIT" /\ twice.delay2 = "INIT"
  \/ twice.fsm = "START" /\ Waiting(twice.delay1, FirstWait) /\ twice.delay2 = "INIT"
  \/ twice.fsm = "START2" /\ Waiting(twice.delay2, SecondWait)
  \/ twice.fsm = "DONE"

OnTimeTwice ==
  twice.fsm \in {"START", "START2"} /\ twice'.fsm # twice.fsm
    => twice.elapsed = DelayOf(twice.fsm) + 4

LEMMA TwiceStep ==
  ASSUME TwiceInv, [TimersNext]_timersVars
  PROVE  TwiceInv' /\ (OnTimeTwice \/ UNCHANGED twice)
<1> USE TimersAssumption
<1>1. CASE TwiceNext /\ twice.fsm = "INITIAL"
  BY <1>1 DEF TwiceInv, TwiceNext, AtRest, Waiting, NextState, LoadNow, Advance, AtOne, OnTimeTwice
<1>2. CASE TwiceNext /\ twice.fsm = "START"
  <2>1. Waiting(twice.delay1, FirstWait) /\ twice.delay2 = "INIT"
    BY <1>2 DEF TwiceInv
  <2>2. CASE twice.elapsed = FirstWait + 4
    BY <1>2, <2>1, <2>2 DEF TwiceInv, TwiceNext, Waiting, NextState, LoadNow, DelayOf, SecondFsm,
                            Advance, AtOne, OnTimeTwice
  <2>3. CASE twice.elapsed # FirstWait + 4
    BY <1>2, <2>1, <2>3 DEF TwiceInv, TwiceNext, Waiting, NextState, LoadNow, DelayOf, SecondFsm,
                            Advance, AtOne, OnTimeTwice, Late
  <2>. QED
    BY <2>2, <2>3
<1>3. CASE TwiceNext /\ twice.fsm = "START2"
  <2>1. Waiting(twice.delay2, SecondWait)
    BY <1>3 DEF TwiceInv
  <2>2. CASE twice.elapsed = SecondWait + 4
    BY <1>3, <2>1, <2>2 DEF TwiceInv, TwiceNext, Waiting, NextState, DelayOf, OnTimeTwice
  <2>3. CASE twice.elapsed # SecondWait + 4
    BY <1>3, <2>1, <2>3 DEF TwiceInv, TwiceNext, Waiting, NextState, LoadNow, DelayOf, SecondFsm,
                            Advance, AtOne, OnTimeTwice, Late
  <2>. QED
    BY <2>2, <2>3
<1>4. CASE TwiceNext /\ twice.fsm = "DONE"
  BY <1>4 DEF TwiceInv, TwiceNext, NextState, OnTimeTwice
<1>5. CASE UNCHANGED twice
  BY <1>5 DEF TwiceInv, AtRest, Waiting
<1>6. TwiceNext \/ UNCHANGED twice
  BY DEF TimersNext, ClockyNext, RefreshNext, RefreshTick, RefreshIdle, timersVars
<1>. QED
  BY <1>1, <1>2, <1>3, <1>4, <1>5, <1>6 DEF TwiceInv

\* Of two waits that share the counter each lasts what it asked for and four
\* clocks, for all lengths: neither ends by what the other left in a register
\* (test6_formal_verification_timer.py:232, 236).
THEOREM TwoWaitsOnTime == TimersSpec => WaitsExact
<1>1. TimersInit => TwiceInv
  BY DEF TimersInit, TwiceInit, TwiceInv, AtRest
<1>2. TwiceInv /\ [TimersNext]_timersVars => TwiceInv' /\ [OnTimeTwice]_twice
  BY TwiceStep
<1>. QED
  BY <1>1, <1>2, PTL DEF TimersSpec, WaitsExact, OnTimeTwice

-----------------------------------------------------------------------------
(* FifoBuffer                                                              *)

\* A word in front of a sequence: what of it is first, what follows, how long it
\* is, and that it does not matter to what is appended.
LEMMA InFront ==
  ASSUME NEW S, NEW w \in S, NEW s \in Seq(S)
  PROVE  /\ <<w>> \o s \in Seq(S) /\ <<w>> \o s # <<>>
         /\ Len(<<w>> \o s) = Len(s) + 1
         /\ Head(<<w>> \o s) = w /\ Tail(<<w>> \o s) = s
         /\ \A v \in S : Append(<<w>> \o s, v) = <<w>> \o Append(s, v)
<1> DEFINE c == <<w>> \o s
<1>1. <<w>> \in Seq(S) /\ Len(<<w>>) = 1 /\ <<w>>[1] = w
  OBVIOUS
<1>2. c \in Seq(S) /\ Len(c) = Len(s) + 1 /\ c[1] = w
  BY <1>1, ConcatProperties
<1>3. \A i \in 1..Len(s) : c[i + 1] = s[i]
  BY <1>1, <1>2, ConcatProperties
<1>4. c # <<>> /\ Head(c) = w
  BY <1>2
<1>5. Tail(c) = s
  <2>1. Tail(c) \in Seq(S) /\ Len(Tail(c)) = Len(s)
    BY <1>2, <1>4, HeadTailProperties
  <2>2. \A i \in 1..Len(s) : Tail(c)[i] = s[i]
    BY <1>2, <1>3, <1>4, HeadTailProperties
  <2>. QED
    BY <2>1, <2>2, SeqEqual
<1>6. ASSUME NEW v \in S
      PROVE  Append(c, v) = <<w>> \o Append(s, v)
  <2>1. Append(c, v) = c \o <<v>> /\ Append(s, v) = s \o <<v>>
    BY <1>2, AppendIsConcat
  <2>. QED
    BY <1>1, <2>1, ConcatAssociative
<1>. QED
  BY <1>2, <1>4, <1>5, <1>6

\* The first word in front of what follows is the sequence.
LEMMA HeadThenTail ==
  ASSUME NEW S, NEW s \in Seq(S), s # <<>>
  PROVE  <<Head(s)>> \o Tail(s) = s
<1> DEFINE h == <<Head(s)>>
<1>1. /\ Head(s) \in S /\ Tail(s) \in Seq(S) /\ Len(Tail(s)) = Len(s) - 1
      /\ \A i \in 1..Len(Tail(s)) : Tail(s)[i] = s[i + 1]
  BY HeadTailProperties
<1>2. h \in Seq(S) /\ Len(h) = 1 /\ h[1] = s[1]
  BY <1>1
<1>3. h \o Tail(s) \in Seq(S) /\ Len(h \o Tail(s)) = Len(s)
  BY <1>1, <1>2, ConcatProperties
<1>4. \A i \in 1..Len(s) : (h \o Tail(s))[i] = s[i]
  BY <1>1, <1>2, ConcatProperties
<1>. QED
  BY <1>3, <1>4, SeqEqual

-----------------------------------------------------------------------------
(* Types                                                                   *)

LEMMA BufferInit == FifoBufferInit => FifoBufferTypeOK
BY FifoBufferAssumption DEF FifoBufferInit, FifoBufferTypeOK

LEMMA BufferStep ==
  FifoBufferTypeOK /\ [FifoBufferNext]_bufferVars => FifoBufferTypeOK'
<1> SUFFICES ASSUME FifoBufferTypeOK, [FifoBufferNext]_bufferVars PROVE FifoBufferTypeOK'
  OBVIOUS
<1> USE FifoBufferAssumption
<1>1. CASE UNCHANGED bufferVars
  BY <1>1 DEF bufferVars, FifoBufferTypeOK
<1>2. ASSUME NEW w \in Word, WriteWordIn(w) PROVE FifoBufferTypeOK'
  <2>1. core' \in Seq(Word) /\ Len(core') = Len(core) + 1
    BY <1>2, AppendProperties DEF WriteWordIn, FifoBufferTypeOK
  <2>. QED
    BY <1>2, <2>1 DEF WriteWordIn, FifoBufferTypeOK
<1>3. CASE ShowWord
  BY <1>3 DEF ShowWord, FifoBufferTypeOK
<1>4. ASSUME NEW rEn \in {0, 1}, ReadClock(rEn) PROVE FifoBufferTypeOK'
  <2>1. rLevel' \in Nat /\ taken' \in Word \cup {NoWord}
    BY <1>4 DEF ReadClock, Consumed, FifoBufferTypeOK
  <2>2. CASE Fetch(rEn) /\ shown > 0
    <3>1. core # <<>> /\ core' = Tail(core) /\ rData' = Head(core)
      BY <2>2 DEF Fetch, FifoBufferTypeOK
    <3>2. core' \in Seq(Word) /\ Len(core') = Len(core) - 1 /\ rData' \in Word
      BY <3>1, HeadTailProperties DEF FifoBufferTypeOK
    <3>. QED
      BY <2>1, <2>2, <3>2 DEF Fetch, FifoBufferTypeOK
  <2>3. CASE Fetch(rEn) /\ ~(shown > 0)
    BY <2>1, <2>3 DEF Fetch, FifoBufferTypeOK
  <2>4. CASE Keep(rEn)
    BY <2>1, <2>4 DEF Keep, FifoBufferTypeOK
  <2>. QED
    BY <1>4, <2>2, <2>3, <2>4 DEF ReadClock
<1>. QED
  BY <1>1, <1>2, <1>3, <1>4 DEF FifoBufferNext

\* The variables of the buffer have their types (FifoBuffer.tla).
THEOREM BufferTypes == FifoBufferSpec => []FifoBufferTypeOK
BY BufferInit, BufferStep, PTL DEF FifoBufferSpec

-----------------------------------------------------------------------------
(* The FIFO the buffer is                                                  *)

LEMMA BufferInitMaps == FifoBufferInit => Fifo!WordFifoInit
BY DEF FifoBufferInit, Fifo!WordFifoInit, Contents

\* A word written joins the end of what is inside.
LEMMA WriteMaps ==
  ASSUME FifoBufferTypeOK, NEW w \in Word, WriteWordIn(w)
  PROVE  Fifo!Put(w)
<1> USE FifoBufferAssumption
<1>1. CASE rRdy = 1
  <2>1. rData \in Word /\ core \in Seq(Word)
    BY <1>1 DEF FifoBufferTypeOK
  <2>2. Contents = <<rData>> \o core /\ Contents' = <<rData>> \o Append(core, w)
    BY <1>1 DEF WriteWordIn, Contents
  <2>3. Len(Contents) = Len(core) + 1 /\ Append(Contents, w) = Contents'
    BY <2>1, <2>2, InFront
  <2>. QED
    BY <2>1, <2>3 DEF Fifo!Put, WriteWordIn
<1>2. CASE rRdy # 1
  <2>1. core \in Seq(Word) /\ Contents = core /\ Contents' = Append(core, w)
    BY <1>2, AppendProperties DEF WriteWordIn, Contents, FifoBufferTypeOK
  <2>. QED
    BY <2>1 DEF Fifo!Put, WriteWordIn
<1>. QED
  BY <1>1, <1>2

\* In a clock of the reader a word is taken, or none.
LEMMA ReadMaps ==
  ASSUME FifoBufferTypeOK, NEW rEn \in {0, 1}, ReadClock(rEn)
  PROVE  Fifo!Take \/ Fifo!Count
<1> USE FifoBufferAssumption
<1>1. CASE rRdy = 1 /\ rEn = 1
  <2>1. rData \in Word /\ core \in Seq(Word)
    BY <1>1 DEF FifoBufferTypeOK
  <2>2. Contents = <<rData>> \o core
    BY <1>1 DEF Contents
  <2>3. Contents # <<>> /\ Head(Contents) = rData /\ Tail(Contents) = core
    BY <2>1, <2>2, InFront
  <2>4. Fetch(rEn)
    BY <1>1 DEF ReadClock, Keep, Wanted
  <2>5. Contents' = core
    <3>1. CASE shown > 0
      <4>1. core # <<>> /\ rRdy' = 1 /\ rData' = Head(core) /\ core' = Tail(core)
        BY <2>4, <3>1 DEF Fetch, FifoBufferTypeOK
      <4>2. Head(core) \in Word /\ Tail(core) \in Seq(Word)
        BY <2>1, <4>1, HeadTailProperties
      <4>3. <<Head(core)>> \o Tail(core) = core
        BY <2>1, <4>1, <4>2, HeadThenTail
      <4>. QED
        BY <4>1, <4>3 DEF Contents
    <3>2. CASE ~(shown > 0)
      BY <2>1, <2>4, <3>2 DEF Fetch, Contents
    <3>. QED
      BY <3>1, <3>2
  <2>6. taken' = rData /\ rLevel' = shown
    BY <1>1 DEF ReadClock, Consumed, FifoBufferTypeOK
  <2>7. rLevel' \in 0..Len(core)
    BY <2>6 DEF FifoBufferTypeOK
  <2>. QED
    BY <2>3, <2>5, <2>6, <2>7 DEF Fifo!Take
<1>2. CASE ~(rRdy = 1 /\ rEn = 1)
  <2>1. taken' = taken
    BY <1>2 DEF ReadClock
  <2>2. core \in Seq(Word)
    BY DEF FifoBufferTypeOK
  <2>3. CASE rRdy = 1
    <3>1. rEn = 0 /\ Keep(rEn) /\ rData \in Word
      BY <1>2, <2>3 DEF ReadClock, Fetch, Wanted, FifoBufferTypeOK
    <3>2. Contents' = Contents /\ Len(Contents) = Len(core) + 1
      BY <2>2, <2>3, <3>1, InFront DEF Keep, Contents
    <3>3. rLevel' \in 0..Len(core) + 1
      BY <2>2, <2>3, <3>1 DEF ReadClock, Consumed, FifoBufferTypeOK
    <3>. QED
      BY <2>1, <3>2, <3>3 DEF Fifo!Count
  <2>4. CASE rRdy # 1
    <3>1. Contents = core /\ Fetch(rEn)
      BY <2>2, <2>4 DEF Contents, ReadClock, Keep, Wanted, FifoBufferTypeOK
    <3>2. rLevel' \in 0..Len(core)
      BY <2>4 DEF ReadClock, Consumed, FifoBufferTypeOK
    <3>3. Contents' = core
      <4>1. CASE shown > 0
        <5>1. core # <<>> /\ rRdy' = 1 /\ rData' = Head(core) /\ core' = Tail(core)
          BY <3>1, <4>1 DEF Fetch, FifoBufferTypeOK
        <5>2. <<Head(core)>> \o Tail(core) = core
          BY <2>2, <5>1, HeadThenTail
        <5>. QED
          BY <5>1, <5>2 DEF Contents
      <4>2. CASE ~(shown > 0)
        BY <2>2, <3>1, <4>2 DEF Fetch, Contents
      <4>. QED
        BY <4>1, <4>2
    <3>. QED
      BY <2>1, <3>1, <3>2, <3>3 DEF Fifo!Count
  <2>. QED
    BY <2>3, <2>4
<1>. QED
  BY <1>1, <1>2

\* Every step of the buffer is one of the FIFO, or changes nothing of it.
LEMMA BufferMaps ==
  FifoBufferTypeOK /\ [FifoBufferNext]_bufferVars
    => [Fifo!WordFifoNext]_<<Contents, taken, rLevel>>
<1> SUFFICES ASSUME FifoBufferTypeOK, [FifoBufferNext]_bufferVars
             PROVE  [Fifo!WordFifoNext]_<<Contents, taken, rLevel>>
  OBVIOUS
<1>1. CASE UNCHANGED bufferVars
  BY <1>1 DEF bufferVars, Contents
<1>2. ASSUME NEW w \in Word, WriteWordIn(w) PROVE Fifo!WordFifoNext
  BY <1>2, WriteMaps DEF Fifo!WordFifoNext
<1>3. CASE ShowWord
  BY <1>3 DEF ShowWord, Contents
<1>4. ASSUME NEW rEn \in {0, 1}, ReadClock(rEn) PROVE Fifo!WordFifoNext
  BY <1>4, ReadMaps DEF Fifo!WordFifoNext
<1>. QED
  BY <1>1, <1>2, <1>3, <1>4 DEF FifoBufferNext

\* AsyncFIFOBuffered_SDRAMtest is a FIFO of one word more than the controller
\* holds: each word is taken once, in order, and r_level never promises more than
\* there is (test6_modified_ila_with_sdram_fifo.py:309), whatever its size.
THEOREM BufferIsFifo == FifoBufferSpec => BufferImplements
<1>1. FifoBufferInit => Fifo!WordFifoInit
  BY BufferInitMaps
<1>2. FifoBufferTypeOK /\ [FifoBufferNext]_bufferVars
        => [Fifo!WordFifoNext]_<<Contents, taken, rLevel>>
  BY BufferMaps
<1>. QED
  BY <1>1, <1>2, BufferTypes, PTL DEF FifoBufferSpec, BufferImplements, Fifo!WordFifoSpec

-----------------------------------------------------------------------------
(* The analyser with a memory, and spi_tests                               *)

\* The command of a transfer lasts longer than a capture, and two edges are two
\* clocks apart.
LongCommand == MemoryDepth < CommandClocks
ClearEdges == 2 <= EdgeClocks

MemorySamples == Nat \X Nat
Words == process.words
MemoryTypes ==
  /\ analyser \in [fsm : {"IDLE", "CAPTURE"}, complete : BOOLEAN, position : Nat,
                   memory : [0 .. MemoryDepth - 1 -> MemorySamples]]
  /\ completes \in [past : BOOLEAN, leds : Nat]
  /\ numbering \in [current : Nat, number : Nat, tx : MemorySamples]
  /\ wires \in [csn : {0, 1}, trigger : BOOLEAN, wordEnd : BOOLEAN]
  /\ process \in [at : 1 .. 6, bits : BOOLEAN, seen : BOOLEAN, words : Seq(MemorySamples), round : Nat]
  /\ captures \in Nat /\ sinceTrigger \in 0 .. MemoryDepth /\ sinceEdge \in 0 .. ClocksNeeded
  /\ Len(Words) <= MemoryDepth

\* The first n places of the memory hold the samples since the last trigger.
Sampled(n) == \A a \in 0 .. n - 1 : analyser.memory[a] = <<captures, a>>

\* A trigger on its way, the capture while it lasts, and after it.
MemoryTriggered ==
  wires.trigger =>
    /\ analyser.fsm = "IDLE" /\ captures > 0 /\ sinceEdge = 0 /\ process.at = 5 /\ ~process.bits
    /\ analyser.complete = completes.past
Capturing ==
  analyser.fsm = "CAPTURE" =>
    /\ captures > 0 /\ ~analyser.complete
    /\ analyser.position = sinceTrigger /\ sinceTrigger < MemoryDepth /\ Sampled(sinceTrigger)
Complete ==
  analyser.fsm = "IDLE" /\ ~wires.trigger =>
    (analyser.complete <=> captures > 0) /\ (captures > 0 => Sampled(MemoryDepth))

\* The LEDs have counted every capture but the one that is not over.
Pending == wires.trigger \/ analyser.fsm = "CAPTURE" \/ (analyser.complete /\ ~completes.past)
Counted ==
  /\ completes.leds = (captures - IF Pending THEN 1 ELSE 0) % 2^8
  /\ completes.past /\ analyser.fsm = "IDLE" => analyser.complete

\* A capture is over before the command of the transfer that asks whether it is.
Settled == analyser.fsm = "IDLE" /\ ~wires.trigger /\ analyser.complete = completes.past
InTime ==
  /\ process.at >= 5 => captures > 0
  /\ ~Settled =>
       /\ process.at = 5
       /\ process.bits => sinceEdge <= IF analyser.fsm = "CAPTURE" THEN sinceTrigger ELSE MemoryDepth

\* The word sent and the number of the next, before and between the words.
BeforeWords ==
  /\ process.bits => /\ wires.csn = 0 /\ process.at < 6
                     /\ sinceEdge >= 1 => numbering.current = 0
                     /\ sinceEdge >= 2 => numbering.number = 0
  /\ process.at = 6 /\ wires.csn = 0 =>
       /\ numbering.current = 0 /\ numbering.number = 0 /\ Words = <<>>
       /\ sinceEdge > 0 => numbering.tx = <<captures, 0>>
  /\ wires.wordEnd => process.at = 6 /\ wires.csn = 1 /\ sinceEdge = 0 /\ Len(Words) > 0
WordAt(n) ==
  /\ sinceEdge = 0 =>
       /\ numbering.current = n /\ numbering.number = n /\ (wires.wordEnd <=> n > 0)
       /\ n = 0 => numbering.tx = <<captures, 0>>
  /\ sinceEdge > 0 =>
       /\ numbering.tx = <<captures, n>>
       /\ n + 1 < MemoryDepth =>
            /\ numbering.current = n + 1
            /\ numbering.number = IF sinceEdge = 1 THEN n ELSE n + 1
AmongWords == process.at = 6 /\ wires.csn = 1 /\ Len(Words) < MemoryDepth => WordAt(Len(Words))

Given ==
  /\ process.at < 6 => Words = <<>>
  /\ process.at = 6 => process.seen
  /\ process.at = 5 /\ process.bits /\ sinceEdge >= CommandClocks => process.seen
  /\ \A k \in DOMAIN Words : Words[k] = <<captures, k - 1>>

MemoryInv ==
  /\ MemoryTypes /\ MemoryTriggered /\ Capturing /\ Complete /\ Counted /\ InTime
  /\ BeforeWords /\ AmongWords /\ Given

LEMMA MemoryInitHolds == MemoryInit => MemoryInv
<1> SUFFICES ASSUME MemoryInit PROVE MemoryInv
  OBVIOUS
<1>1. MemoryTypes
  BY MemoryAssumption, EmptySeq DEF MemoryInit, MemoryTypes, MemorySamples, Nothing, Words, ClocksNeeded
<1>. QED
  BY <1>1, MemoryAssumption
     DEF MemoryInit, MemoryInv, MemoryTypes, MemoryTriggered, Capturing, Complete, Counted, Pending,
         InTime, Settled, BeforeWords, AmongWords, Given, Words

-----------------------------------------------------------------------------
\* The clock.

LEMMA MemorySampleIs == ASSUME MemoryTypes PROVE SampleNow \in MemorySamples
BY DEF MemoryTypes, SampleNow, MemorySamples

\* What a clock makes of the registers of the analyser.
LEMMA CaptureOneIs ==
  ASSUME MemoryTypes, CaptureOne
  PROVE  /\ analyser.fsm = "CAPTURE"
         /\ analyser' \in [fsm : {"IDLE", "CAPTURE"}, complete : BOOLEAN, position : Nat,
                           memory : [0 .. MemoryDepth - 1 -> MemorySamples]]
         /\ analyser'.fsm = IF Last THEN "IDLE" ELSE "CAPTURE"
         /\ analyser'.complete = Last
         /\ analyser'.position = (analyser.position + 1) % MemoryNumbers
         /\ \A a \in 0 .. MemoryDepth - 1 :
              analyser'.memory[a] = IF a = analyser.position THEN SampleNow ELSE analyser.memory[a]
<1> DEFINE M == [analyser.memory EXCEPT ![analyser.position] = SampleNow]
           p == (analyser.position + 1) % MemoryNumbers
           f == IF Last THEN "IDLE" ELSE "CAPTURE"
<1>1. analyser' = [analyser EXCEPT !.memory = M, !.position = p, !.complete = Last, !.fsm = f]
  BY DEF CaptureOne, MemoryTypes
<1>2. M \in [0 .. MemoryDepth - 1 -> MemorySamples]
  BY MemorySampleIs DEF MemoryTypes
<1>3. \A a \in 0 .. MemoryDepth - 1 :
        M[a] = IF a = analyser.position THEN SampleNow ELSE analyser.memory[a]
  BY DEF MemoryTypes
<1>4. p \in Nat
  <2>1. MemoryNumbers \in Nat \ {0}
    BY MemoryAssumption
  <2>2. analyser.position + 1 \in Nat
    BY DEF MemoryTypes
  <2> DEFINE q == analyser.position + 1
  <2> HIDE DEF q
  <2>3. q % MemoryNumbers \in Nat
    BY <2>1, <2>2 DEF q
  <2>. QED
    BY <2>3 DEF q
<1>5. f \in {"IDLE", "CAPTURE"} /\ Last \in BOOLEAN
  BY DEF Last
<1>6. analyser.fsm = "CAPTURE"
  BY DEF CaptureOne
<1> HIDE DEF M, p, f
<1>7. /\ analyser' \in [fsm : {"IDLE", "CAPTURE"}, complete : BOOLEAN, position : Nat,
                        memory : [0 .. MemoryDepth - 1 -> MemorySamples]]
      /\ analyser'.fsm = f /\ analyser'.complete = Last /\ analyser'.position = p
      /\ analyser'.memory = M
  BY <1>1, <1>2, <1>4, <1>5 DEF MemoryTypes
<1>. QED
  BY <1>3, <1>6, <1>7 DEF f, p

LEMMA AwaitTriggerIs ==
  ASSUME MemoryTypes, AwaitTrigger
  PROVE  /\ analyser.fsm = "IDLE"
         /\ analyser' \in [fsm : {"IDLE", "CAPTURE"}, complete : BOOLEAN, position : Nat,
                           memory : [0 .. MemoryDepth - 1 -> MemorySamples]]
         /\ wires.trigger =>
              analyser'.fsm = "CAPTURE" /\ ~analyser'.complete /\ analyser'.position = 0
         /\ ~wires.trigger => analyser' = analyser
         /\ analyser'.memory = analyser.memory
BY DEF MemoryTypes, AwaitTrigger

LEMMA CountRisesIs ==
  ASSUME MemoryTypes, CountRises
  PROVE  /\ completes' \in [past : BOOLEAN, leds : Nat]
         /\ completes'.past = analyser.complete
         /\ completes'.leds = IF analyser.complete /\ ~completes.past
                              THEN (completes.leds + 1) % 2^8 ELSE completes.leds
BY DEF MemoryTypes, CountRises

LEMMA KindIs ==
  ASSUME process.at \in 1 .. 6
  PROVE  /\ Kind = "write trig" <=> process.at = 4
         /\ Kind = "alt_fifo_io" <=> process.at = 6
         /\ process.at = 5 => Kind = "read trig"
<1>1. /\ Transfers[1] = "write leds" /\ Transfers[2] = "read leds" /\ Transfers[3] = "read trig"
      /\ Transfers[4] = "write trig" /\ Transfers[5] = "read trig" /\ Transfers[6] = "alt_fifo_io"
  BY DEF Transfers
<1>2. \/ process.at = 1 \/ process.at = 2 \/ process.at = 3
      \/ process.at = 4 \/ process.at = 5 \/ process.at = 6
  OBVIOUS
<1>. QED
  BY <1>1, <1>2 DEF Kind

LEMMA MemoryClockIs ==
  ASSUME MemoryTypes, MemoryClock
  PROVE  /\ wires' \in [csn : {0, 1}, trigger : BOOLEAN, wordEnd : BOOLEAN]
         /\ wires'.csn = wires.csn /\ ~wires'.trigger /\ ~wires'.wordEnd
         /\ sinceTrigger' \in 0 .. MemoryDepth
         /\ wires.trigger => sinceTrigger' = 0
         /\ ~wires.trigger /\ sinceTrigger < MemoryDepth => sinceTrigger' = sinceTrigger + 1
         /\ sinceEdge' \in 0 .. ClocksNeeded
         /\ sinceEdge' = IF sinceEdge < ClocksNeeded THEN sinceEdge + 1 ELSE sinceEdge
         /\ ClocksNeeded' = ClocksNeeded /\ captures' = captures
         /\ process' \in [at : 1 .. 6, bits : BOOLEAN, seen : BOOLEAN, words : Seq(MemorySamples), round : Nat]
         /\ process'.at = process.at /\ process'.bits = process.bits /\ process'.words = process.words
         /\ process'.seen = IF process.bits /\ Kind = "read trig" /\ sinceEdge + 1 = CommandClocks
                            THEN analyser.complete ELSE process.seen
<1>1. ClocksNeeded \in Nat
  BY MemoryAssumption DEF ClocksNeeded
<1>2. wires' = [wires EXCEPT !.trigger = FALSE, !.wordEnd = FALSE]
  BY DEF MemoryClock
<1>3. /\ wires' \in [csn : {0, 1}, trigger : BOOLEAN, wordEnd : BOOLEAN]
      /\ wires'.csn = wires.csn /\ ~wires'.trigger /\ ~wires'.wordEnd
  BY <1>2 DEF MemoryTypes
<1>4. /\ sinceTrigger' \in 0 .. MemoryDepth
      /\ wires.trigger => sinceTrigger' = 0
      /\ ~wires.trigger /\ sinceTrigger < MemoryDepth => sinceTrigger' = sinceTrigger + 1
  <2>1. CASE wires.trigger
    BY <2>1, MemoryAssumption DEF MemoryTypes, MemoryClock
  <2>2. CASE ~wires.trigger /\ sinceTrigger < MemoryDepth
    BY SMTT(20), <2>2, MemoryAssumption DEF MemoryTypes, MemoryClock
  <2>3. CASE ~wires.trigger /\ ~(sinceTrigger < MemoryDepth)
    BY <2>3, MemoryAssumption DEF MemoryTypes, MemoryClock
  <2>. QED
    BY <2>1, <2>2, <2>3
<1>5. /\ sinceEdge' \in 0 .. ClocksNeeded
      /\ sinceEdge' = IF sinceEdge < ClocksNeeded THEN sinceEdge + 1 ELSE sinceEdge
  BY <1>1 DEF MemoryTypes, MemoryClock
<1> DEFINE takes == process.bits /\ Kind = "read trig" /\ sinceEdge + 1 = CommandClocks
<1>6. process' = IF takes THEN [process EXCEPT !.seen = analyser.complete] ELSE process
  BY DEF MemoryClock, LatchRegister
<1> HIDE DEF takes
<1>7. /\ process' \in [at : 1 .. 6, bits : BOOLEAN, seen : BOOLEAN, words : Seq(MemorySamples), round : Nat]
      /\ process'.at = process.at /\ process'.bits = process.bits /\ process'.words = process.words
      /\ process'.seen = IF takes THEN analyser.complete ELSE process.seen
  <2>1. /\ process \in [at : 1 .. 6, bits : BOOLEAN, seen : BOOLEAN, words : Seq(MemorySamples), round : Nat]
        /\ analyser.complete \in BOOLEAN
    BY DEF MemoryTypes
  <2>. QED
    BY <1>6, <2>1
<1>8. captures' = captures
  BY DEF MemoryClock
<1>9. ClocksNeeded' = ClocksNeeded
  BY <1>7 DEF ClocksNeeded
<1>. QED
  BY <1>3, <1>4, <1>5, <1>7, <1>8, <1>9 DEF takes

LEMMA SendNumberedIs ==
  ASSUME MemoryTypes, SendNumbered
  PROVE  /\ numbering' \in [current : Nat, number : Nat, tx : MemorySamples]
         /\ numbering'.number = numbering.current
         /\ numbering'.tx = IF wires.csn = 0 \/ wires.wordEnd THEN Captured ELSE numbering.tx
         /\ wires.csn = 0 => numbering'.current = 0
         /\ wires.csn = 1 /\ numbering.current = 0 => numbering'.current = 1
         /\ wires.csn = 1 /\ numbering.current > 0 =>
              numbering'.current =
                (numbering.current + IF wires.wordEnd THEN 1 ELSE 0) % MemoryNumbers
<1> DEFINE n == numbering.current + IF wires.wordEnd THEN 1 ELSE 0
           c == CASE wires.csn = 0                             -> 0
                  [] wires.csn = 1 /\ numbering.current = 0    -> 1
                  [] OTHER -> n % MemoryNumbers
           t == IF wires.csn = 0 \/ wires.wordEnd THEN Captured ELSE numbering.tx
<1>1. numbering' = [current |-> c, number |-> numbering.current, tx |-> t]
  BY DEF SendNumbered
<1>2. n \in Nat /\ MemoryNumbers \in Nat \ {0}
  BY MemoryAssumption DEF MemoryTypes
<1>3. Captured \in MemorySamples
  <2>1. CASE numbering.number < MemoryDepth
    BY <2>1, MemoryAssumption DEF MemoryTypes, Captured
  <2>2. CASE ~(numbering.number < MemoryDepth)
    BY <2>2 DEF Captured, Nothing, MemorySamples
  <2>. QED
    BY <2>1, <2>2
<1>4. t \in MemorySamples
  BY <1>3 DEF MemoryTypes
<1> HIDE DEF n, t
<1>5. n % MemoryNumbers \in Nat
  BY <1>2
<1>6. /\ c \in Nat
      /\ wires.csn = 0 => c = 0
      /\ wires.csn = 1 /\ numbering.current = 0 => c = 1
      /\ wires.csn = 1 /\ numbering.current > 0 => c = n % MemoryNumbers
  <2>1. wires.csn \in {0, 1} /\ numbering.current \in Nat
    BY DEF MemoryTypes
  <2>2. CASE wires.csn = 0
    BY <2>1, <2>2
  <2>3. CASE wires.csn = 1 /\ numbering.current = 0
    BY <2>1, <2>3
  <2>4. CASE wires.csn = 1 /\ numbering.current > 0
    BY <2>1, <2>4, <1>5
  <2>. QED
    BY <2>1, <2>2, <2>3, <2>4
<1> HIDE DEF c
<1>7. numbering.current \in Nat
  BY DEF MemoryTypes
<1>. QED
  BY <1>1, <1>4, <1>6, <1>7 DEF n, t

\* The modulus of a number that is smaller, and of the LEDs.
LEMMA SmallMod == ASSUME NEW m \in Nat, NEW n \in Nat, m < n PROVE m % n = m
OBVIOUS
LEMMA NextMod == ASSUME NEW m \in Nat PROVE (((m - 1) % 2^8) + 1) % 2^8 = m % 2^8
<1>1. 2^8 = 256
  OBVIOUS
<1>. QED
  BY <1>1

\* A capture goes on.
LEMMA CaptureHolds ==
  ASSUME MemoryInv, MemoryClock, CaptureOne
  PROVE  MemoryTriggered' /\ Capturing' /\ Complete' /\ Counted' /\ InTime'
<1>0. PICK p \in Nat : p = sinceTrigger
  BY DEF MemoryInv, MemoryTypes
<1>1. /\ MemoryTypes /\ MemoryTriggered /\ Capturing /\ Counted /\ InTime
      /\ MemoryDepth \in Nat /\ MemoryNumbers \in Nat /\ 0 < MemoryDepth /\ MemoryDepth <= MemoryNumbers
  BY MemoryAssumption DEF MemoryInv
<1>2. /\ analyser.fsm = "CAPTURE" /\ ~analyser.complete /\ captures > 0 /\ ~wires.trigger
      /\ analyser.position = p /\ p \in Nat /\ p < MemoryDepth /\ Sampled(p)
  BY <1>0, <1>1, CaptureOneIs DEF MemoryTypes, MemoryTriggered, Capturing
<1>3. /\ ~wires'.trigger /\ sinceTrigger' = p + 1 /\ captures' = captures
      /\ process'.at = process.at /\ process'.bits = process.bits
      /\ sinceEdge \in Nat /\ sinceEdge' \in Nat /\ sinceEdge' <= sinceEdge + 1
  <2>1. ClocksNeeded \in Nat
    BY MemoryAssumption DEF ClocksNeeded
  <2>2. sinceEdge \in 0 .. ClocksNeeded
    BY <1>1 DEF MemoryTypes
  <2>3. sinceEdge' = IF sinceEdge < ClocksNeeded THEN sinceEdge + 1 ELSE sinceEdge
    BY <1>1, MemoryClockIs
  <2>4. sinceEdge \in Nat /\ sinceEdge' \in Nat /\ sinceEdge' <= sinceEdge + 1
    BY <2>1, <2>2, <2>3
  <2>5. /\ ~wires'.trigger /\ captures' = captures
        /\ process'.at = process.at /\ process'.bits = process.bits
        /\ ~wires.trigger /\ sinceTrigger < MemoryDepth => sinceTrigger' = sinceTrigger + 1
    BY <1>1, MemoryClockIs
  <2>. QED
    BY <1>0, <1>2, <2>4, <2>5
<1>4. /\ Last => p + 1 = MemoryDepth
      /\ ~Last => p + 1 < MemoryDepth /\ analyser'.position = p + 1
      /\ analyser'.complete = Last /\ analyser'.fsm = IF Last THEN "IDLE" ELSE "CAPTURE"
  <2>1. Last <=> p = MemoryDepth - 1
    BY <1>2 DEF Last
  <2>2. analyser'.position = (p + 1) % MemoryNumbers
    BY <1>1, <1>2, CaptureOneIs
  <2>3. ~Last => p + 1 < MemoryDepth /\ p + 1 < MemoryNumbers
    BY <1>1, <1>2, <2>1
  <2>4. ~Last => (p + 1) % MemoryNumbers = p + 1
    BY <1>1, <1>2, <2>3, SmallMod
  <2>5. analyser'.complete = Last /\ analyser'.fsm = IF Last THEN "IDLE" ELSE "CAPTURE"
    BY <1>1, CaptureOneIs
  <2>. QED
    BY <1>1, <1>2, <2>1, <2>2, <2>3, <2>4, <2>5
<1>5. \A a \in 0 .. p : analyser'.memory[a] = <<captures, a>>
  <2> SUFFICES ASSUME NEW a \in 0 .. p PROVE analyser'.memory[a] = <<captures, a>>
    OBVIOUS
  <2>1. a \in 0 .. MemoryDepth - 1
    BY <1>1, <1>2
  <2>2. analyser'.memory[a] = IF a = p THEN SampleNow ELSE analyser.memory[a]
    BY <1>1, <1>2, <2>1, CaptureOneIs
  <2>. QED
    BY <1>0, <1>2, <2>2 DEF SampleNow, Sampled
<1>6. completes'.past = FALSE /\ completes'.leds = completes.leds
  BY <1>1, <1>2, CountRisesIs DEF MemoryClock
<1>7. Sampled(p + 1)'
  BY <1>2, <1>3, <1>5 DEF Sampled
<1>8. MemoryTriggered' /\ Capturing' /\ Complete'
  BY <1>2, <1>3, <1>4, <1>7 DEF MemoryTriggered, Capturing, Complete, Sampled
<1>9. Counted'
  <2>1. Pending /\ Pending'
    BY <1>2, <1>4, <1>6 DEF Pending
  <2>2. completes.leds = (captures - 1) % 2^8
    BY <1>1, <2>1 DEF Counted
  <2>3. completes'.leds = (captures' - 1) % 2^8
    BY <1>3, <1>6, <2>2
  <2>. QED
    BY <1>6, <2>1, <2>3 DEF Counted
<1>10. InTime'
  <2>1. ~Settled /\ process.at = 5 /\ (process.bits => sinceEdge <= p)
    BY <1>0, <1>1, <1>2 DEF Settled, InTime
  <2>2. process.bits => sinceEdge' <= p + 1
    BY <1>2, <1>3, <2>1
  <2>3. process.bits => sinceEdge' <= IF analyser'.fsm = "CAPTURE" THEN sinceTrigger' ELSE MemoryDepth
    BY <1>3, <1>4, <2>2
  <2>. QED
    BY <1>2, <1>3, <2>1, <2>3 DEF InTime
<1>. QED
  BY <1>8, <1>9, <1>10

\* None goes on: one begins, or not.
LEMMA AwaitHolds ==
  ASSUME MemoryInv, MemoryClock, AwaitTrigger
  PROVE  MemoryTriggered' /\ Capturing' /\ Complete' /\ Counted' /\ InTime'
<1>1. /\ MemoryTypes /\ MemoryTriggered /\ Complete /\ Counted /\ InTime
      /\ MemoryDepth \in Nat /\ 0 < MemoryDepth
  BY MemoryAssumption DEF MemoryInv
<1>2. analyser.fsm = "IDLE" /\ captures \in Nat /\ sinceEdge \in Nat
  <2>1. ClocksNeeded \in Nat
    BY MemoryAssumption DEF ClocksNeeded
  <2>. QED
    BY <1>1, <2>1, AwaitTriggerIs DEF MemoryTypes
<1>3. /\ ~wires'.trigger /\ captures' = captures
      /\ process'.at = process.at /\ process'.bits = process.bits
      /\ wires.trigger => sinceTrigger' = 0
  BY <1>1, MemoryClockIs
<1>4. /\ completes'.past = analyser.complete
      /\ completes'.leds = IF analyser.complete /\ ~completes.past
                           THEN (completes.leds + 1) % 2^8 ELSE completes.leds
  BY <1>1, CountRisesIs DEF MemoryClock
<1>5. analyser.complete \in BOOLEAN /\ completes.past \in BOOLEAN /\ completes.leds \in Nat
  BY <1>1 DEF MemoryTypes
<1>6. CASE wires.trigger
  <2>1. /\ captures > 0 /\ process.at = 5 /\ ~process.bits /\ analyser.complete = completes.past
    BY <1>1, <1>6 DEF MemoryTriggered
  <2>2. /\ analyser'.fsm = "CAPTURE" /\ ~analyser'.complete /\ analyser'.position = 0
        /\ sinceTrigger' = 0
    BY <1>1, <1>3, <1>6, AwaitTriggerIs
  <2>3. Sampled(0)'
    BY DEF Sampled
  <2>4. MemoryTriggered' /\ Capturing' /\ Complete'
    BY <1>1, <1>3, <2>1, <2>2, <2>3 DEF MemoryTriggered, Capturing, Complete, Sampled
  <2>5. Counted'
    <3>1. Pending /\ Pending'
      BY <1>6, <2>2 DEF Pending
    <3>2. completes.leds = (captures - 1) % 2^8
      BY <1>1, <3>1 DEF Counted
    <3>3. completes'.leds = (captures' - 1) % 2^8
      BY <1>3, <1>4, <2>1, <3>2
    <3>. QED
      BY <2>2, <3>1, <3>3 DEF Counted
  <2>6. InTime'
    BY <1>3, <2>1 DEF InTime
  <2>. QED
    BY <2>4, <2>5, <2>6
<1>7. CASE ~wires.trigger
  <2>1. analyser' = analyser
    BY <1>1, <1>7, AwaitTriggerIs
  <2>2. (analyser.complete <=> captures > 0) /\ (captures > 0 => Sampled(MemoryDepth))
    BY <1>1, <1>2, <1>7 DEF Complete
  <2>3. MemoryTriggered' /\ Capturing' /\ Complete'
    BY <1>2, <1>3, <2>1, <2>2 DEF MemoryTriggered, Capturing, Complete, Sampled
  <2>4. Settled' /\ ~Pending'
    BY <1>2, <1>3, <1>4, <1>5, <2>1 DEF Settled, Pending
  <2>5. completes'.leds = captures % 2^8
    <3>1. CASE analyser.complete /\ ~completes.past
      <4>1. completes.leds = (captures - 1) % 2^8
        BY <1>1, <3>1 DEF Pending, Counted
      <4>. QED
        BY <1>2, <1>4, <3>1, <4>1, NextMod
    <3>2. CASE ~(analyser.complete /\ ~completes.past)
      <4>1. ~Pending
        BY <1>2, <1>7, <3>2 DEF Pending
      <4>2. completes.leds = (captures - 0) % 2^8
        BY <1>1, <4>1 DEF Counted
      <4>3. captures - 0 = captures
        BY <1>2
      <4>. QED
        BY <1>4, <3>2, <4>2, <4>3
    <3>. QED
      BY <3>1, <3>2
  <2>6. Counted'
    <3>1. captures' - 0 = captures
      BY <1>2, <1>3
    <3>. QED
      BY <1>4, <2>1, <2>4, <2>5, <3>1 DEF Counted
  <2>7. InTime'
    BY <1>1, <1>3, <2>4 DEF InTime
  <2>. QED
    BY <2>3, <2>6, <2>7
<1>. QED
  BY <1>6, <1>7

\* What is sent in a clock, and the number of the next word.
LEMMA NumberingHolds ==
  ASSUME MemoryInv, MemoryClock, ClearEdges
  PROVE  BeforeWords' /\ AmongWords'
<1>0. PICK n \in Nat : n = Len(Words)
  BY LenProperties DEF MemoryInv, MemoryTypes, Words
<1>1. /\ MemoryTypes /\ BeforeWords /\ AmongWords
      /\ MemoryDepth \in Nat /\ MemoryNumbers \in Nat /\ 0 < MemoryDepth /\ MemoryDepth <= MemoryNumbers
  BY MemoryAssumption DEF MemoryInv
<1>2. /\ wires.csn \in {0, 1} /\ wires.wordEnd \in BOOLEAN
      /\ wires'.csn = wires.csn /\ ~wires'.wordEnd /\ captures' = captures
      /\ process'.at = process.at /\ process'.bits = process.bits /\ process'.words = process.words
      /\ process.bits \in BOOLEAN /\ process.at \in 1 .. 6
  BY <1>1, MemoryClockIs DEF MemoryTypes
<1>3. /\ sinceEdge \in Nat /\ sinceEdge' \in Nat /\ sinceEdge' <= sinceEdge + 1
      /\ ~process.bits => sinceEdge' > 0 /\ (sinceEdge > 0 => sinceEdge' > 1)
  <2>1. ClocksNeeded \in Nat /\ (~process.bits => 2 <= ClocksNeeded)
    BY MemoryAssumption DEF ClocksNeeded, ClearEdges
  <2>2. sinceEdge \in 0 .. ClocksNeeded
    BY <1>1 DEF MemoryTypes
  <2>3. sinceEdge' = IF sinceEdge < ClocksNeeded THEN sinceEdge + 1 ELSE sinceEdge
    BY <1>1, MemoryClockIs
  <2>. QED
    BY <2>1, <2>2, <2>3
<1>4. /\ numbering.current \in Nat /\ numbering'.number = numbering.current
      /\ numbering'.tx = IF wires.csn = 0 \/ wires.wordEnd THEN Captured ELSE numbering.tx
      /\ wires.csn = 0 => numbering'.current = 0
      /\ wires.csn = 1 /\ numbering.current = 0 => numbering'.current = 1
      /\ wires.csn = 1 /\ numbering.current > 0 =>
           numbering'.current = (numbering.current + IF wires.wordEnd THEN 1 ELSE 0) % MemoryNumbers
  BY <1>1, SendNumberedIs DEF MemoryClock, MemoryTypes
\* The memory while words are sent.
<1>5. process.at = 6 => \A a \in 0 .. MemoryDepth - 1 : numbering.number = a => Captured = <<captures, a>>
  <2>1. process.at = 6 => Sampled(MemoryDepth)
    BY <1>1 DEF MemoryInv, InTime, Settled, Complete
  <2>. QED
    BY <1>1, <2>1 DEF Captured, Sampled
<1>6. BeforeWords'
  <2>1. process'.bits => /\ wires'.csn = 0 /\ process'.at < 6
                         /\ sinceEdge' >= 1 => numbering'.current = 0
                         /\ sinceEdge' >= 2 => numbering'.number = 0
    BY <1>1, <1>2, <1>3, <1>4 DEF BeforeWords
  <2>2. process'.at = 6 /\ wires'.csn = 0 =>
          /\ numbering'.current = 0 /\ numbering'.number = 0 /\ Words' = <<>>
          /\ sinceEdge' > 0 => numbering'.tx = <<captures', 0>>
    BY <1>1, <1>2, <1>4, <1>5 DEF BeforeWords, Words
  <2>. QED
    BY <1>2, <2>1, <2>2 DEF BeforeWords
<1>7. AmongWords'
  <2> SUFFICES ASSUME process.at = 6, wires.csn = 1, n < MemoryDepth PROVE WordAt(Len(Words))'
    BY <1>0, <1>2 DEF AmongWords, Words
  <2>1. WordAt(n) /\ ~process.bits
    BY <1>0, <1>1 DEF AmongWords, BeforeWords
  <2>2. sinceEdge' > 0
    BY <1>3, <2>1
  <2>3. CASE sinceEdge = 0
    <3>1. numbering.current = n /\ numbering.number = n /\ (wires.wordEnd <=> n > 0)
      BY <2>1, <2>3 DEF WordAt
    <3>2. numbering'.tx = <<captures, n>>
      BY <1>1, <1>4, <1>5, <2>1, <2>3, <3>1 DEF WordAt
    <3>3. n + 1 < MemoryDepth => numbering'.current = n + 1
      <4>1. CASE n = 0
        BY <1>4, <3>1, <4>1
      <4>2. CASE n > 0 /\ n + 1 < MemoryDepth
        <5>1. n + 1 < MemoryNumbers
          BY <1>1, <4>2
        <5>2. numbering'.current = (n + 1) % MemoryNumbers
          BY <1>4, <3>1, <4>2
        <5>. QED
          BY <1>1, <5>1, <5>2, SmallMod
      <4>. QED
        BY <4>1, <4>2
    <3>4. sinceEdge' = 1
      BY <1>3, <2>2, <2>3
    <3>5. WordAt(n)'
      BY <1>2, <1>4, <3>1, <3>2, <3>3, <3>4 DEF WordAt
    <3>. QED
      BY <1>0, <1>2, <3>5 DEF WordAt, Words
  <2>4. CASE sinceEdge > 0
    <3>1. /\ numbering.tx = <<captures, n>>
          /\ n + 1 < MemoryDepth => numbering.current = n + 1
      BY <2>1, <2>4 DEF WordAt
    <3>2. ~wires.wordEnd
      BY <1>1, <2>4 DEF BeforeWords
    <3>3. numbering'.tx = <<captures, n>>
      BY <1>4, <3>1, <3>2
    <3>4. n + 1 < MemoryDepth => numbering'.current = n + 1 /\ numbering'.number = n + 1
      <4> SUFFICES ASSUME n + 1 < MemoryDepth PROVE numbering'.current = n + 1
        BY <1>4, <3>1
      <4>1. n + 1 < MemoryNumbers
        BY <1>1
      <4>2. numbering'.current = (n + 1) % MemoryNumbers
        BY <1>4, <3>1, <3>2
      <4>. QED
        BY <1>1, <4>1, <4>2, SmallMod
    <3>5. sinceEdge' > 1
      BY <1>3, <2>1, <2>4
    <3>6. WordAt(n)'
      BY <1>2, <1>3, <3>3, <3>4, <3>5 DEF WordAt
    <3>. QED
      BY <1>0, <1>2, <3>6 DEF WordAt, Words
  <2>. QED
    BY <1>3, <2>3, <2>4
<1>. QED
  BY <1>6, <1>7

\* No capture goes on that began longer ago than one lasts.
LEMMA CapturesEnd ==
  ASSUME MemoryInv, process.bits, sinceEdge >= MemoryDepth
  PROVE  analyser.fsm # "CAPTURE"
<1> SUFFICES ASSUME analyser.fsm = "CAPTURE" PROVE FALSE
  OBVIOUS
<1>1. sinceTrigger \in Nat /\ MemoryDepth \in Nat /\ ClocksNeeded \in Nat
  BY MemoryAssumption DEF MemoryInv, MemoryTypes, ClocksNeeded
<1>2. sinceEdge \in Nat /\ sinceTrigger < MemoryDepth /\ sinceEdge <= sinceTrigger
  BY <1>1 DEF MemoryInv, MemoryTypes, Capturing, InTime, Settled
<1>. QED
  BY <1>1, <1>2

LEMMA MemoryClockHolds ==
  ASSUME MemoryInv, MemoryClock, LongCommand, ClearEdges
  PROVE  MemoryInv'
<1>1. MemoryTypes'
  <2>1. MemoryTypes
    BY DEF MemoryInv
  <2>2. analyser' \in [fsm : {"IDLE", "CAPTURE"}, complete : BOOLEAN, position : Nat,
                       memory : [0 .. MemoryDepth - 1 -> MemorySamples]]
    BY <2>1, CaptureOneIs, AwaitTriggerIs DEF MemoryClock
  <2>3. /\ completes' \in [past : BOOLEAN, leds : Nat]
        /\ numbering' \in [current : Nat, number : Nat, tx : MemorySamples]
    BY <2>1, CountRisesIs, SendNumberedIs DEF MemoryClock
  <2>. QED
    BY <2>1, <2>2, <2>3, MemoryClockIs DEF MemoryTypes, Words
<1>2. Given'
  <2>1. /\ MemoryTypes /\ MemoryTriggered /\ Complete /\ InTime /\ Given
        /\ process.at \in 1 .. 6 /\ sinceEdge \in Nat /\ sinceTrigger \in Nat
        /\ MemoryDepth \in Nat /\ CommandClocks \in Nat /\ MemoryDepth < CommandClocks
    <3>1. ClocksNeeded \in Nat
      BY MemoryAssumption DEF ClocksNeeded
    <3>. QED
      BY <3>1, MemoryAssumption DEF MemoryInv, MemoryTypes, LongCommand
  <2>2. /\ captures' = captures /\ Words' = Words
        /\ process'.at = process.at /\ process'.bits = process.bits
        /\ sinceEdge' = IF sinceEdge < ClocksNeeded THEN sinceEdge + 1 ELSE sinceEdge
        /\ process'.seen = IF process.bits /\ Kind = "read trig" /\ sinceEdge + 1 = CommandClocks
                           THEN analyser.complete ELSE process.seen
    BY <2>1, MemoryClockIs DEF Words
  <2>3. process.at = 6 => ~process.bits
    BY DEF MemoryInv, BeforeWords
  <2>4. ASSUME process.at = 5, process.bits, sinceEdge' >= CommandClocks PROVE process'.seen
    <3>1. CASE sinceEdge + 1 = CommandClocks
      <4>1. sinceEdge >= MemoryDepth
        BY <2>1, <3>1
      <4>2. analyser.fsm # "CAPTURE"
        BY <2>1, <2>4, <4>1, CapturesEnd DEF MemoryInv
      <4>3. analyser.complete
        BY <2>1, <2>4, <4>2 DEF MemoryTypes, MemoryTriggered, Complete, InTime
      <4>. QED
        BY <2>1, <2>2, <2>4, <3>1, <4>3, KindIs
    <3>2. CASE sinceEdge + 1 # CommandClocks
      <4>1. sinceEdge >= CommandClocks
        BY <2>1, <2>2, <2>4, <3>2
      <4>. QED
        BY <2>1, <2>2, <2>4, <3>2, <4>1 DEF Given
    <3>. QED
      BY <3>1, <3>2
  <2>. QED
    BY <2>1, <2>2, <2>3, <2>4 DEF Given
<1>. QED
  BY <1>1, <1>2, CaptureHolds, AwaitHolds, NumberingHolds DEF MemoryInv, MemoryClock

-----------------------------------------------------------------------------
\* The edges of the process: the gateware stands still.

LEMMA MemoryEdgeIs ==
  ASSUME MemoryInv, NextEdge, LongCommand, ClearEdges
  PROVE  /\ analyser' = analyser /\ completes' = completes /\ numbering' = numbering
         /\ sinceTrigger' = sinceTrigger /\ sinceEdge' = 0
         /\ sinceEdge \in Nat /\ sinceEdge > 1
         /\ process.bits => sinceEdge > MemoryDepth /\ sinceEdge >= CommandClocks
         /\ CommandClocks > 0 /\ ~wires.trigger
<1>1. /\ {TransferClocks, EdgeClocks} \subseteq Nat /\ MemoryDepth \in Nat /\ 0 < MemoryDepth
      /\ CommandClocks \in Nat /\ CommandClocks > 0 /\ CommandClocks <= TransferClocks
      /\ MemoryDepth < CommandClocks /\ 2 <= EdgeClocks
  BY MemoryAssumption DEF LongCommand, ClearEdges
<1>2. sinceEdge = IF process.bits THEN TransferClocks ELSE EdgeClocks
  BY DEF NextEdge, ClocksNeeded
<1>3. sinceEdge \in Nat /\ sinceEdge > 1 /\ (process.bits => sinceEdge > MemoryDepth /\ sinceEdge >= CommandClocks)
  BY <1>1, <1>2
<1>. QED
  BY <1>1, <1>3 DEF NextEdge, MemoryInv, MemoryTriggered

\* When no trigger comes, nothing changes for the analyser.
LEMMA NoTrigger ==
  ASSUME MemoryInv, NextEdge, LongCommand, ClearEdges, captures' = captures, ~wires'.trigger
  PROVE  MemoryTriggered' /\ Capturing' /\ Complete' /\ Counted' /\ (Settled' <=> Settled)
<1>1. ~wires.trigger /\ analyser' = analyser /\ completes' = completes /\ sinceTrigger' = sinceTrigger
  BY MemoryEdgeIs
<1>2. Capturing /\ Complete /\ Counted
  BY DEF MemoryInv
<1>3. MemoryTriggered'
  BY DEF MemoryTriggered
<1>4. Capturing' /\ Complete'
  BY <1>1, <1>2 DEF Capturing, Complete, Sampled
<1>5. Pending' <=> Pending
  BY <1>1 DEF Pending
<1>6. Counted'
  BY <1>1, <1>2, <1>5 DEF Counted
<1>. QED
  BY <1>1, <1>3, <1>4, <1>6 DEF Settled

\* The types, when those of what the edge changes are right.
LEMMA MemoryEdgeTypes ==
  ASSUME MemoryInv, NextEdge, LongCommand, ClearEdges, captures' \in Nat, Len(process'.words) <= MemoryDepth,
         wires' \in [csn : {0, 1}, trigger : BOOLEAN, wordEnd : BOOLEAN],
         process' \in [at : 1 .. 6, bits : BOOLEAN, seen : BOOLEAN, words : Seq(MemorySamples), round : Nat]
  PROVE  MemoryTypes'
<1>1. ClocksNeeded' \in Nat
  BY MemoryAssumption DEF ClocksNeeded
<1>2. 0 \in 0 .. ClocksNeeded'
  BY <1>1
<1>. QED
  BY <1>2, MemoryEdgeIs DEF MemoryInv, MemoryTypes, Words

LEMMA PinsIs ==
  ASSUME NEW c \in {0, 1}, NEW t \in BOOLEAN, NEW w \in BOOLEAN, Pins(c, t, w)
  PROVE  /\ wires' \in [csn : {0, 1}, trigger : BOOLEAN, wordEnd : BOOLEAN]
         /\ wires'.csn = c /\ wires'.trigger = t /\ wires'.wordEnd = w
BY DEF Pins

LEMMA BeginHolds ==
  ASSUME MemoryInv, BeginTransfer, LongCommand, ClearEdges
  PROVE  MemoryInv'
<1>1. /\ MemoryTypes /\ InTime /\ Given /\ NextEdge /\ captures' = captures /\ captures \in Nat
      /\ process' = [process EXCEPT !.bits = TRUE] /\ Pins(0, FALSE, FALSE) /\ process.at # 6
  BY KindIs DEF MemoryInv, MemoryTypes, BeginTransfer
<1>2. /\ process' \in [at : 1 .. 6, bits : BOOLEAN, seen : BOOLEAN, words : Seq(MemorySamples), round : Nat]
      /\ process'.at = process.at /\ process'.words = process.words /\ process'.seen = process.seen
      /\ process.at \in 1 .. 6
  BY <1>1 DEF MemoryTypes
<1>3. /\ wires' \in [csn : {0, 1}, trigger : BOOLEAN, wordEnd : BOOLEAN]
      /\ wires'.csn = 0 /\ ~wires'.trigger /\ ~wires'.wordEnd
  BY <1>1, PinsIs
<1>4. MemoryTypes'
  BY <1>1, <1>2, <1>3, MemoryEdgeTypes DEF MemoryTypes, Words
<1>5. MemoryTriggered' /\ Capturing' /\ Complete' /\ Counted' /\ (Settled' <=> Settled)
  BY <1>1, <1>3, NoTrigger
<1>6. InTime'
  <2>1. sinceEdge' = 0 /\ sinceTrigger' \in Nat /\ MemoryDepth \in Nat
    BY <1>1, MemoryEdgeIs, MemoryAssumption DEF MemoryTypes
  <2>. QED
    BY <1>1, <1>2, <1>5, <2>1 DEF InTime
<1>7. BeforeWords' /\ AmongWords'
  <2>1. sinceEdge' = 0
    BY <1>1, MemoryEdgeIs
  <2>. QED
    BY <1>1, <1>2, <1>3, <2>1 DEF BeforeWords, AmongWords
<1>8. Given'
  <2>1. ~(sinceEdge' >= CommandClocks)
    <3>1. CommandClocks \in Nat
      BY MemoryAssumption
    <3>. QED
      BY <1>1, <3>1, MemoryEdgeIs
  <2>. QED
    BY <1>1, <1>2, <2>1 DEF Given, Words
<1>. QED
  BY <1>4, <1>5, <1>6, <1>7, <1>8 DEF MemoryInv

LEMMA DeselectHolds ==
  ASSUME MemoryInv, Deselect, LongCommand, ClearEdges
  PROVE  MemoryInv'
<1>1. /\ MemoryTypes /\ InTime /\ Given /\ BeforeWords /\ NextEdge /\ captures' = captures /\ captures \in Nat
      /\ process' = process /\ Pins(1, FALSE, FALSE) /\ wires.csn = 0 /\ ~process.bits /\ Len(Words) = 0
  BY DEF MemoryInv, MemoryTypes, Deselect, Words
<1>2. /\ wires' \in [csn : {0, 1}, trigger : BOOLEAN, wordEnd : BOOLEAN]
      /\ wires'.csn = 1 /\ ~wires'.trigger /\ ~wires'.wordEnd
  BY <1>1, PinsIs
<1>3. MemoryTypes'
  BY <1>1, <1>2, MemoryEdgeTypes DEF MemoryTypes, Words
<1>4. MemoryTriggered' /\ Capturing' /\ Complete' /\ Counted' /\ (Settled' <=> Settled)
  BY <1>1, <1>2, NoTrigger
<1>5. InTime'
  BY <1>1, <1>4 DEF InTime
<1>6. sinceEdge' = 0 /\ numbering' = numbering /\ sinceEdge \in Nat /\ sinceEdge > 1
  BY <1>1, MemoryEdgeIs
<1>7. BeforeWords'
  BY <1>1, <1>2 DEF BeforeWords
<1>8. AmongWords'
  <2>1. process.at = 6 => WordAt(0)'
    BY <1>1, <1>2, <1>6 DEF BeforeWords, WordAt
  <2>. QED
    BY <1>1, <2>1 DEF AmongWords, Words
<1>9. Given'
  BY <1>1 DEF Given, Words
<1>. QED
  BY <1>3, <1>4, <1>5, <1>7, <1>8, <1>9 DEF MemoryInv

\* The transfer that writes the trigger has begun when no capture went on; the one
\* that asks for it has lasted longer than the capture.
LEMMA EndHolds ==
  ASSUME MemoryInv, EndTransfer, LongCommand, ClearEdges
  PROVE  MemoryInv'
<1>1. /\ MemoryTypes /\ MemoryTriggered /\ Capturing /\ Complete /\ Counted /\ InTime /\ Given /\ BeforeWords
      /\ NextEdge /\ captures \in Nat
      /\ process.bits /\ process.at < 6 /\ Words = <<>>
  BY DEF MemoryInv, MemoryTypes, EndTransfer, BeforeWords, Given
<1> DEFINE writes == Kind = "write trig"
<1>2. /\ process' = [process EXCEPT !.bits = FALSE, !.at = process.at + 1]
      /\ captures' = (IF writes THEN captures + 1 ELSE captures)
      /\ Pins(0, writes, FALSE)
  BY DEF EndTransfer
<1>3. writes \in BOOLEAN /\ process.at + 1 \in 1 .. 6 /\ process.at \in 1 .. 5
  <2>1. process.at \in 1 .. 6
    BY <1>1 DEF MemoryTypes
  <2>2. process.at \in 1 .. 5 /\ process.at + 1 \in 1 .. 6
    BY <1>1, <2>1
  <2>3. writes \in BOOLEAN
    OBVIOUS
  <2>. QED
    BY <2>2, <2>3
<1>4. writes <=> process.at = 4
  <2>1. process.at \in 1 .. 6
    BY <1>1 DEF MemoryTypes
  <2>. QED
    BY <2>1, KindIs
<1> HIDE DEF writes
<1>6. /\ process' \in [at : 1 .. 6, bits : BOOLEAN, seen : BOOLEAN, words : Seq(MemorySamples), round : Nat]
      /\ process'.at = process.at + 1 /\ process'.words = process.words /\ process'.seen = process.seen
      /\ process'.bits = FALSE
  BY <1>1, <1>2, <1>3 DEF MemoryTypes
<1>7. /\ wires' \in [csn : {0, 1}, trigger : BOOLEAN, wordEnd : BOOLEAN]
      /\ wires'.csn = 0 /\ wires'.trigger = writes /\ ~wires'.wordEnd
  BY <1>2, <1>3, PinsIs
<1>8. /\ sinceEdge' = 0 /\ numbering' = numbering /\ analyser' = analyser /\ completes' = completes
      /\ sinceTrigger' = sinceTrigger /\ sinceEdge \in Nat /\ sinceEdge > 1 /\ sinceEdge > MemoryDepth
      /\ sinceEdge >= CommandClocks /\ ~wires.trigger
  BY <1>1, MemoryEdgeIs
<1>9. MemoryTypes'
  <2>1. captures' \in Nat
    BY <1>1, <1>2
  <2>. QED
    BY <1>1, <1>6, <1>7, <2>1, MemoryEdgeTypes DEF MemoryTypes, Words
<1>10. Settled
  <2>1. sinceTrigger \in Nat /\ sinceTrigger <= MemoryDepth /\ MemoryDepth \in Nat
    BY <1>1, MemoryAssumption DEF MemoryTypes
  <2>. QED
    BY <1>1, <1>8, <2>1 DEF InTime
<1>11. BeforeWords' /\ AmongWords'
  BY <1>1, <1>6, <1>7, <1>8 DEF BeforeWords, AmongWords, Words
<1>12. Given'
  <2>1. Words' = <<>>
    BY <1>1, <1>6 DEF Words
  <2>2. process'.at = 6 => process'.seen
    BY <1>1, <1>3, <1>6, <1>8 DEF Given
  <2>. QED
    BY <1>6, <2>1, <2>2 DEF Given
<1>13. CASE process.at # 4
  <2>1. captures' = captures /\ ~wires'.trigger
    BY <1>2, <1>4, <1>7, <1>13
  <2>2. MemoryTriggered' /\ Capturing' /\ Complete' /\ Counted' /\ (Settled' <=> Settled)
    BY <1>1, <2>1, NoTrigger
  <2>3. process'.at >= 5 => captures' > 0
    BY <1>1, <1>3, <1>6, <1>13, <2>1 DEF InTime
  <2>4. InTime'
    BY <1>10, <2>2, <2>3 DEF InTime
  <2>. QED
    BY <1>9, <1>11, <1>12, <2>2, <2>4 DEF MemoryInv
<1>14. CASE process.at = 4
  <2>1. captures' = captures + 1 /\ captures' > 0 /\ wires'.trigger /\ process'.at = 5 /\ ~process'.bits
    BY <1>1, <1>2, <1>4, <1>6, <1>7, <1>14
  <2>2. analyser.fsm = "IDLE" /\ analyser.complete = completes.past
    BY <1>10 DEF Settled
  <2>3. MemoryTriggered' /\ Capturing' /\ Complete'
    BY <1>8, <2>1, <2>2 DEF MemoryTriggered, Capturing, Complete
  <2>4. Counted'
    <3>1. ~Pending /\ Pending'
      BY <1>8, <2>1, <2>2 DEF Pending
    <3>2. completes.leds = (captures - 0) % 2^8
      BY <1>1, <3>1 DEF Counted
    <3>3. captures - 0 = captures' - 1
      BY <1>1, <2>1
    <3>4. completes'.leds = (captures' - 1) % 2^8
      BY <1>8, <3>2, <3>3
    <3>5. completes'.past /\ analyser'.fsm = "IDLE" => analyser'.complete
      BY <1>1, <1>8 DEF Counted
    <3>. QED
      BY <3>1, <3>4, <3>5 DEF Counted
  <2>5. InTime'
    BY <2>1 DEF InTime
  <2>. QED
    BY <1>9, <1>11, <1>12, <2>3, <2>4, <2>5 DEF MemoryInv
<1>. QED
  BY <1>13, <1>14

LEMMA NextWordHolds ==
  ASSUME MemoryInv, NextWord, LongCommand, ClearEdges
  PROVE  MemoryInv'
<1>0. PICK n \in Nat : n = Len(Words)
  BY LenProperties DEF MemoryInv, MemoryTypes, Words
<1>1. /\ MemoryTypes /\ InTime /\ Given /\ BeforeWords /\ AmongWords
      /\ NextEdge /\ captures' = captures /\ captures \in Nat /\ wires.csn = 1 /\ n < MemoryDepth
      /\ process' = [process EXCEPT !.words = Append(Words, numbering.tx)] /\ Pins(1, FALSE, TRUE)
  BY <1>0 DEF MemoryInv, MemoryTypes, NextWord, Words
<1>2. process.at = 6
  <2>1. process.at \in 1 .. 6 /\ Kind = "alt_fifo_io"
    BY <1>1 DEF MemoryTypes, NextWord
  <2>. QED
    BY <2>1, KindIs
<1>3. /\ sinceEdge' = 0 /\ numbering' = numbering /\ sinceEdge \in Nat /\ sinceEdge > 1
  BY <1>1, MemoryEdgeIs
<1>4. /\ WordAt(n) /\ ~process.bits
  BY <1>0, <1>1, <1>2 DEF AmongWords, BeforeWords
<1>5. /\ numbering.tx = <<captures, n>>
      /\ n + 1 < MemoryDepth => numbering.current = n + 1 /\ numbering.number = n + 1
  BY <1>3, <1>4 DEF WordAt
<1> DEFINE ws == Append(Words, numbering.tx)
<1>6. /\ ws \in Seq(MemorySamples) /\ Len(ws) = n + 1
      /\ \A k \in DOMAIN ws : ws[k] = IF k <= n THEN Words[k] ELSE numbering.tx
      /\ DOMAIN ws = 1 .. n + 1 /\ DOMAIN Words = 1 .. n
  <2>1. Words \in Seq(MemorySamples) /\ numbering.tx \in MemorySamples
    BY <1>1 DEF MemoryTypes, Words
  <2>. QED
    BY <1>0, <2>1, AppendProperties, LenProperties
<1> HIDE DEF ws
<1>7. /\ process' \in [at : 1 .. 6, bits : BOOLEAN, seen : BOOLEAN, words : Seq(MemorySamples), round : Nat]
      /\ process'.at = 6 /\ process'.words = ws /\ process'.seen = process.seen /\ ~process'.bits
  BY <1>1, <1>2, <1>4, <1>6 DEF MemoryTypes, ws
<1>8. /\ wires' \in [csn : {0, 1}, trigger : BOOLEAN, wordEnd : BOOLEAN]
      /\ wires'.csn = 1 /\ ~wires'.trigger /\ wires'.wordEnd
  BY <1>1, PinsIs
<1>9. MemoryTypes'
  <2>1. Len(process'.words) <= MemoryDepth
    BY <1>1, <1>6, <1>7, MemoryAssumption
  <2>. QED
    BY <1>1, <1>7, <1>8, <2>1, MemoryEdgeTypes
<1>10. MemoryTriggered' /\ Capturing' /\ Complete' /\ Counted' /\ (Settled' <=> Settled)
  BY <1>1, <1>8, NoTrigger
<1>11. InTime'
  BY <1>1, <1>2, <1>7, <1>10 DEF InTime
<1>12. BeforeWords' /\ AmongWords'
  <2>1. Len(Words)' = n + 1
    BY <1>6, <1>7 DEF Words
  <2>2. BeforeWords'
    BY <1>3, <1>7, <1>8, <2>1 DEF BeforeWords
  <2>3. n + 1 < MemoryDepth => WordAt(n + 1)'
    BY <1>3, <1>5, <1>8 DEF WordAt
  <2>4. n + 1 < MemoryDepth => WordAt(Len(Words))'
    BY <2>1, <2>3 DEF WordAt
  <2>. QED
    BY <2>1, <2>2, <2>4 DEF AmongWords
<1>13. Given'
  <2>1. \A k \in DOMAIN ws : ws[k] = <<captures, k - 1>>
    <3> SUFFICES ASSUME NEW k \in 1 .. n + 1 PROVE ws[k] = <<captures, k - 1>>
      BY <1>6
    <3>1. CASE k <= n
      BY <1>1, <1>6, <3>1 DEF Given
    <3>2. CASE k = n + 1
      <4>1. k - 1 = n /\ ~(k <= n)
        BY <3>2
      <4>. QED
        BY <1>5, <1>6, <4>1
    <3>. QED
      BY <3>1, <3>2
  <2>2. Words' = ws /\ process'.seen /\ process'.at = 6
    BY <1>1, <1>2, <1>7 DEF Given, Words
  <2>. QED
    BY <1>1, <2>1, <2>2 DEF Given
<1>. QED
  BY <1>9, <1>10, <1>11, <1>12, <1>13 DEF MemoryInv

LEMMA RunAgainHolds ==
  ASSUME MemoryInv, RunAgain, LongCommand, ClearEdges
  PROVE  MemoryInv'
<1>1. /\ MemoryTypes /\ InTime /\ Given /\ BeforeWords /\ NextEdge /\ captures' = captures /\ captures \in Nat
      /\ process' = [process EXCEPT !.at = 1, !.words = <<>>, !.round = process.round + 1]
      /\ Pins(0, FALSE, FALSE) /\ Len(Words) = MemoryDepth
  BY DEF MemoryInv, MemoryTypes, RunAgain, Words
<1>2. process.at = 6 /\ ~process.bits
  <2>1. Words # <<>>
    BY <1>1, MemoryAssumption
  <2>. QED
    BY <1>1, <2>1 DEF MemoryTypes, Given, BeforeWords
<1>3. /\ process' \in [at : 1 .. 6, bits : BOOLEAN, seen : BOOLEAN, words : Seq(MemorySamples), round : Nat]
      /\ process'.at = 1 /\ process'.words = <<>> /\ ~process'.bits
  <2> DEFINE e == <<>>
             r == process.round + 1
  <2>1. e \in Seq(MemorySamples) /\ r \in Nat
    BY <1>1, EmptySeq DEF MemoryTypes
  <2>2. process' = [process EXCEPT !.at = 1, !.words = e, !.round = r]
    BY <1>1
  <2> HIDE DEF e, r
  <2>3. process' \in [at : 1 .. 6, bits : BOOLEAN, seen : BOOLEAN, words : Seq(MemorySamples), round : Nat]
    <3>1. /\ process \in [at : 1 .. 6, bits : BOOLEAN, seen : BOOLEAN, words : Seq(MemorySamples), round : Nat]
          /\ 1 \in 1 .. 6
      BY <1>1 DEF MemoryTypes
    <3>. QED
      BY <2>1, <2>2, <3>1
  <2>4. process'.at = 1 /\ process'.words = e /\ process'.bits = process.bits
    BY <1>1, <2>2 DEF MemoryTypes
  <2>. QED
    BY <1>2, <2>3, <2>4 DEF e
<1>4. /\ wires' \in [csn : {0, 1}, trigger : BOOLEAN, wordEnd : BOOLEAN]
      /\ wires'.csn = 0 /\ ~wires'.trigger /\ ~wires'.wordEnd
  BY <1>1, PinsIs
<1>5. MemoryTypes'
  <2>1. Len(process'.words) <= MemoryDepth
    BY <1>3, MemoryAssumption
  <2>. QED
    BY <1>1, <1>3, <1>4, <2>1, MemoryEdgeTypes
<1>6. MemoryTriggered' /\ Capturing' /\ Complete' /\ Counted' /\ (Settled' <=> Settled)
  BY <1>1, <1>4, NoTrigger
<1>7. InTime'
  BY <1>1, <1>2, <1>3, <1>6 DEF InTime
<1>8. BeforeWords' /\ AmongWords' /\ Given'
  BY <1>3, <1>4 DEF BeforeWords, AmongWords, Given, Words
<1>. QED
  BY <1>5, <1>6, <1>7, <1>8 DEF MemoryInv

LEMMA MemoryStep ==
  ASSUME MemoryInv, [MemoryNext]_memoryVars, LongCommand, ClearEdges
  PROVE  MemoryInv'
<1>1. CASE UNCHANGED memoryVars
  <2>1. MemoryTypes' /\ MemoryTriggered' /\ Capturing' /\ Complete'
    BY <1>1 DEF memoryVars, MemoryInv, MemoryTypes, Words, ClocksNeeded, MemoryTriggered, Capturing,
                Complete, Sampled
  <2>2. Counted' /\ InTime'
    BY <1>1 DEF memoryVars, MemoryInv, Counted, Pending, InTime, Settled
  <2>3. BeforeWords' /\ AmongWords' /\ Given'
    BY <1>1 DEF memoryVars, MemoryInv, BeforeWords, AmongWords, WordAt, Given, Words
  <2>. QED
    BY <2>1, <2>2, <2>3 DEF MemoryInv
<1>. QED
  BY <1>1, MemoryClockHolds, BeginHolds, EndHolds, DeselectHolds, NextWordHolds, RunAgainHolds
     DEF MemoryNext, spi_tests

LEMMA CaptureFollows == MemoryInv => CaptureIsRead
<1> SUFFICES ASSUME MemoryInv PROVE CaptureIsRead
  OBVIOUS
<1>1. process.at = 6 => completes.leds = captures % 2^8
  <2> SUFFICES ASSUME process.at = 6 PROVE completes.leds = captures % 2^8
    OBVIOUS
  <2>1. Settled /\ Counted
    BY DEF MemoryInv, InTime
  <2>2. ~Pending
    BY <2>1 DEF Settled, Pending
  <2>3. completes.leds = (captures - 0) % 2^8 /\ captures - 0 = captures
    BY <2>1, <2>2 DEF Counted, MemoryInv, MemoryTypes
  <2>. QED
    BY <2>3
<1>. QED
  BY <1>1 DEF MemoryInv, Given, CaptureIsRead, Words

\* spi_tests reads every capture whole and in order, and has it complete when it asks
\* (test4:247-250), for every depth of the memory, as long as the command of a
\* transfer lasts longer than a capture.
THEOREM WholeCaptures ==
  LongCommand /\ ClearEdges => (MemorySpec => []CaptureIsRead)
<1> SUFFICES ASSUME LongCommand, ClearEdges PROVE MemorySpec => []CaptureIsRead
  OBVIOUS
<1>1. MemoryInv /\ [MemoryNext]_memoryVars => MemoryInv'
  BY MemoryStep
<1>. QED
  BY <1>1, MemoryInitHolds, CaptureFollows, PTL DEF MemorySpec

\* The registers that address the memory stay within their widths, if there is one
\* sample more to number than none.
TwoNumbers == 2 <= MemoryNumbers
MemoryRange == analyser.position <= MemoryDepth /\ numbering.current < MemoryNumbers

LEMMA RangeStep ==
  ASSUME MemoryInv, MemoryRange, [MemoryNext]_memoryVars, TwoNumbers
  PROVE  MemoryRange'
<1>1. /\ MemoryTypes /\ Capturing /\ MemoryDepth \in Nat /\ MemoryNumbers \in Nat \ {0}
      /\ MemoryDepth <= MemoryNumbers
  BY MemoryAssumption DEF MemoryInv
<1>2. CASE analyser' = analyser /\ numbering' = numbering
  BY <1>2 DEF MemoryRange
<1>3. CASE MemoryClock
  <2>1. analyser'.position <= MemoryDepth
    <3>1. CASE AwaitTrigger
      <4>1. analyser'.position = 0 \/ analyser' = analyser
        BY <1>1, <3>1, AwaitTriggerIs DEF MemoryTypes
      <4>. QED
        BY <1>1, <4>1 DEF MemoryRange
    <3>2. CASE CaptureOne
      <4>1. analyser.position \in Nat /\ analyser.position < MemoryDepth
        BY <1>1, <3>2, CaptureOneIs DEF Capturing, MemoryTypes
      <4>2. PICK n \in Nat : n = analyser.position + 1
        BY <4>1
      <4>3. n <= MemoryDepth /\ n % MemoryNumbers <= n
        BY <1>1, <4>1, <4>2
      <4>4. analyser'.position = n % MemoryNumbers
        BY <1>1, <3>2, <4>2, CaptureOneIs
      <4>. QED
        BY <1>1, <4>3, <4>4
    <3>. QED
      BY <1>3, <3>1, <3>2 DEF MemoryClock
  <2>2. numbering'.current < MemoryNumbers
    <3>1. SendNumbered /\ wires.csn \in {0, 1} /\ numbering.current \in Nat /\ wires.wordEnd \in BOOLEAN
      BY <1>1, <1>3 DEF MemoryClock, MemoryTypes
    <3>2. PICK n \in Nat : n = numbering.current + IF wires.wordEnd THEN 1 ELSE 0
      BY <3>1
    <3>3. n % MemoryNumbers < MemoryNumbers
      BY <1>1
    <3>4. CASE wires.csn = 0
      BY <1>1, <3>1, <3>4, SendNumberedIs
    <3>5. CASE wires.csn = 1 /\ numbering.current = 0
      BY <1>1, <3>1, <3>5, SendNumberedIs DEF TwoNumbers
    <3>6. CASE wires.csn = 1 /\ numbering.current > 0
      BY <1>1, <3>1, <3>2, <3>3, <3>6, SendNumberedIs
    <3>. QED
      BY <3>1, <3>4, <3>5, <3>6
  <2>. QED
    BY <2>1, <2>2 DEF MemoryRange
<1>4. spi_tests => analyser' = analyser /\ numbering' = numbering
  BY DEF spi_tests, BeginTransfer, EndTransfer, Deselect, NextWord, RunAgain, NextEdge
<1>5. UNCHANGED memoryVars => analyser' = analyser /\ numbering' = numbering
  BY DEF memoryVars
<1>. QED
  BY <1>2, <1>3, <1>4, <1>5 DEF MemoryNext

LEMMA MemoryTypesFollow == ASSUME MemoryInv, MemoryRange PROVE MemoryTypeOK
<1>1. /\ analyser.fsm \in {"IDLE", "CAPTURE"} /\ analyser.position \in 0 .. MemoryDepth
      /\ numbering.current \in 0 .. MemoryNumbers - 1 /\ Len(process.words) <= MemoryDepth
  BY MemoryAssumption DEF MemoryInv, MemoryTypes, MemoryRange, Words
<1>2. completes.leds \in 0 .. 255
  <2>1. PICK n \in Int : n = captures - IF Pending THEN 1 ELSE 0
    BY DEF MemoryInv, MemoryTypes
  <2>2. completes.leds = n % 2^8
    BY <2>1 DEF MemoryInv, Counted
  <2>3. 2^8 = 256 /\ n % 256 \in 0 .. 255
    OBVIOUS
  <2>. QED
    BY <2>2, <2>3
<1>3. process.at \in DOMAIN Transfers
  <2>1. process.at \in 1 .. 6
    BY DEF MemoryInv, MemoryTypes
  <2>2. DOMAIN Transfers = 1 .. 6
    BY DEF Transfers
  <2>. QED
    BY <2>1, <2>2
<1>. QED
  BY <1>1, <1>2, <1>3 DEF MemoryTypeOK

-----------------------------------------------------------------------------
(* FifoRegisters                                                           *)

\* Between two transfers a strobe goes all the way to the FIFO and back.
LongApart == 12 <= Apart

FifoTypes(f) == FifoOf(Nat, f) /\ f.rLevel \in Int

\* A strobe that is a clocks old: it goes through the registers of the past to the
\* enable of the FIFO.
StrobeAt(a, strobe, past, en) ==
  /\ a \in 0 .. 6 /\ (strobe = 1 <=> a = 0) /\ (en <=> a = 6)
  /\ \A j \in 1 .. 6 : past[j] = IF j = a THEN 1 ELSE 0
NoStrobe(strobe, past, en) == strobe = 0 /\ ~en /\ \A j \in 1 .. 6 : past[j] = 0

Writing == StrobeAt(apart, strobes.write, bridge.wPast, bridge.wEn)
Reading == StrobeAt(apart, strobes.read, bridge.rPast, bridge.rEn)
NoWrite == NoStrobe(strobes.write, bridge.wPast, bridge.wEn)
NoRead  == NoStrobe(strobes.read, bridge.rPast, bridge.rEn)

TesterStages == {"writeRdy", "write", "readRdy", "level", "read", "taken", "ended", "aborted"}
RegTypes ==
  /\ FifoTypes(fifo0)
  /\ Len(bridge.wPast) = 6 /\ Len(bridge.rPast) = 6
  /\ bridge \in [copi : Nat, cipo : Nat, wData : Nat, wEn : BOOLEAN, rEn : BOOLEAN,
                 wRdy : BOOLEAN, rRdy : BOOLEAN, rLevel : Int, wPast : Seq(Bit01), rPast : Seq(Bit01)]
  /\ strobes.write \in Bit01 /\ strobes.read \in Bit01
  /\ tester \in [pc : TesterStages, run : Nat, i : Nat, late : BOOLEAN, taken : Nat]
  /\ put \in Nat /\ got \in Nat /\ apart \in 0 .. Apart

\* One strobe at a time, and a write only into a FIFO with room.
Strobes ==
  /\ (Writing /\ NoRead) \/ (NoWrite /\ Reading) \/ (NoWrite /\ NoRead)
  /\ Writing => /\ WRdy(fifo0, Places)
                /\ apart > 0 => bridge.copi = put
                /\ apart < 6 => bridge.wRdy
                /\ apart = 6 => bridge.wData = put
  /\ Reading => fifo0.rRdy
  /\ apart >= 8 /\ bridge.wRdy => WRdy(fifo0, Places)

\* The FIFO holds the words from the one after the last that was taken to the last
\* that has arrived.
NextOut == IF Reading THEN got ELSE got + 1
LastIn == IF Writing THEN put - 1 ELSE put
HeldInOrder ==
  /\ fifo0.rRdy => fifo0.rData = NextOut
  /\ Len(fifo0.store) + Flag(fifo0.rRdy) + NextOut = LastIn + 1
  /\ \A i \in 1 .. Len(fifo0.store) : fifo0.store[i] = NextOut + Flag(fifo0.rRdy) + i - 1

\* A word in the FIFO is offered, but for the clocks it takes to get there; and
\* then the registers show it.
Arrival ==
  /\ fifo0.pushed[1] = 1 => apart = 7
  /\ fifo0.pushed[2] = 1 => apart = 8
  /\ ~fifo0.rRdy /\ Len(fifo0.store) > 0 =>
       /\ Len(fifo0.store) = 1 /\ apart \in 7 .. 9
       /\ apart = 7 => fifo0.pushed[1] = 1
       /\ apart = 8 => fifo0.pushed[2] = 1
  /\ bridge.rRdy # fifo0.rRdy => (apart = 7 /\ bridge.rRdy) \/ (apart = 10 /\ fifo0.rRdy)
  /\ fifo0.rRdy /\ bridge.cipo # fifo0.rData => apart \in {7, 10, 11}

TestStage ==
  /\ tester.pc \in {"write", "read", "taken", "level"} => NoWrite /\ NoRead
  /\ tester.pc = "write" => bridge.wRdy /\ WRdy(fifo0, Places)
  /\ tester.pc \in {"read", "taken"} => fifo0.rRdy
  /\ tester.pc = "taken" => tester.taken = got + 1
  /\ tester.pc = "level" => Len(fifo0.store) = 0 /\ ~fifo0.rRdy
  /\ tester.pc = "ended" => got = put

RegInv == RegTypes /\ Strobes /\ HeldInOrder /\ Arrival /\ TestStage

LEMMA RegInitHolds == ASSUME FifoTestInit, LongApart PROVE RegInv
<1>1. /\ <<>> \in Seq(Nat) /\ <<0, 0, 0, 0>> \in Seq(Bit01) /\ Never \in Seq(Bit01)
      /\ Len(<<0, 0, 0, 0>>) = 4 /\ Len(Never) = 6 /\ <<0, 0>> \in [1 .. 2 -> Bit01]
  BY EmptySeq DEF Bit01, Never
<1>2. FifoTypes(fifo0) /\ fifo0.rRdy = FALSE /\ fifo0.store = <<>> /\ fifo0.pushed = <<0, 0>>
  BY <1>1 DEF FifoTestInit, EmptyFifo, FifoTypes, FifoOf
<1>3. /\ bridge.wPast = Never /\ bridge.rPast = Never /\ bridge.wEn = FALSE /\ bridge.rEn = FALSE
      /\ bridge.rRdy = FALSE /\ bridge.wRdy = FALSE /\ bridge.copi = 0 /\ bridge.cipo = 0 /\ bridge.wData = 0
      /\ strobes.write = 0 /\ strobes.read = 0
      /\ put = 0 /\ got = 0 /\ apart = Apart /\ Apart \in Nat
  BY FifoTestAssumption DEF FifoTestInit
<1>4. /\ tester \in [pc : TesterStages, run : Nat, i : Nat, late : BOOLEAN, taken : Nat]
      /\ tester.pc = "ended"
  BY DEF FifoTestInit, TesterStages
<1>5. RegTypes
  <2>1. bridge.wPast \in Seq(Bit01) /\ Len(bridge.wPast) = 6 /\ bridge.rPast \in Seq(Bit01) /\ Len(bridge.rPast) = 6
    BY <1>1, <1>3
  <2>2. bridge \in [copi : Nat, cipo : Nat, wData : Nat, wEn : BOOLEAN, rEn : BOOLEAN,
                    wRdy : BOOLEAN, rRdy : BOOLEAN, rLevel : Int, wPast : Seq(Bit01), rPast : Seq(Bit01)]
    BY <1>1 DEF FifoTestInit
  <2>3. strobes.write \in Bit01 /\ strobes.read \in Bit01 /\ put \in Nat /\ got \in Nat
    BY <1>3 DEF Bit01
  <2>4. apart \in 0 .. Apart
    BY <1>3
  <2>. QED
    BY <1>2, <1>4, <2>1, <2>2, <2>3, <2>4 DEF RegTypes
<1>6. NoWrite /\ NoRead
  BY <1>3 DEF NoWrite, NoRead, NoStrobe, Never
<1>7. ~Writing /\ ~Reading
  BY <1>3 DEF Writing, Reading, StrobeAt, LongApart
<1>8. Strobes
  BY <1>3, <1>6, <1>7 DEF Strobes
<1>9. HeldInOrder
  <2>1. Len(fifo0.store) = 0 /\ Flag(fifo0.rRdy) = 0
    BY <1>2 DEF Flag
  <2>. QED
    BY <1>2, <1>3, <1>7, <2>1 DEF HeldInOrder, NextOut, LastIn
<1>10. Arrival
  <2>1. Len(fifo0.store) = 0 /\ fifo0.pushed[1] = 0 /\ fifo0.pushed[2] = 0
    BY <1>2
  <2>2. bridge.rRdy = fifo0.rRdy /\ ~fifo0.rRdy
    BY <1>2, <1>3
  <2>. QED
    BY <2>1, <2>2 DEF Arrival
<1>11. TestStage
  BY <1>3, <1>4 DEF TestStage
<1>. QED
  BY <1>5, <1>8, <1>9, <1>10, <1>11 DEF RegInv

-----------------------------------------------------------------------------
\* A clock of the FIFO: how many words come in, and how many go out.
Pushes(f, wEn) == IF wEn /\ WRdy(f, Places) THEN 1 ELSE 0
Pops(f, rEn) == IF (rEn \/ ~f.rRdy) /\ Visible(f) > 0 THEN 1 ELSE 0

LEMMA FifoClock ==
  ASSUME RegTypes, BridgeClock,
         NEW in, in = Pushes(fifo0, bridge.wEn), NEW out, out = Pops(fifo0, bridge.rEn)
  PROVE  /\ FifoTypes(fifo0') /\ in \in Bit01 /\ out \in Bit01
         /\ fifo0'.pushed[1] = in /\ fifo0'.pushed[2] = fifo0.pushed[1]
         /\ fifo0'.popped[1] = out /\ fifo0'.popped[2] = fifo0.popped[1]
         /\ fifo0'.rRdy <=> (fifo0.rRdy /\ ~bridge.rEn) \/ out = 1
         /\ fifo0'.rData = IF out = 1 THEN fifo0.store[1] ELSE fifo0.rData
         /\ Len(fifo0'.store) = Len(fifo0.store) - out + in
         /\ Len(fifo0.store) >= out
         /\ \A i \in 1 .. Len(fifo0.store) - out : fifo0'.store[i] = fifo0.store[i + out]
         /\ in = 1 => fifo0'.store[Len(fifo0'.store)] = bridge.wData
<1>1. FifoTypes(fifo0) /\ bridge.wEn \in BOOLEAN /\ bridge.wData \in Nat /\ bridge.rEn \in BOOLEAN
  BY DEF RegTypes
<1>2. fifo0' = AfterClock(fifo0, Places, bridge.wEn, bridge.wData, bridge.rEn)
  BY DEF BridgeClock
<1>3. /\ in \in Bit01 /\ (in = 1 <=> Push(fifo0, Places, bridge.wEn))
      /\ out \in Bit01 /\ (out = 1 <=> Pop(fifo0, bridge.rEn))
  BY DEF Pushes, Pops, Push, Pop, Bit01
<1>4. PICK W : W = Nat
  OBVIOUS
<1>5. /\ FifoOf(Nat, fifo0')
      /\ fifo0'.pushed[1] = in /\ fifo0'.pushed[2] = fifo0.pushed[1]
      /\ fifo0'.popped[1] = out /\ \A i \in 2 .. 4 : fifo0'.popped[i] = fifo0.popped[i - 1]
      /\ fifo0'.rRdy <=> ((fifo0.rRdy /\ ~bridge.rEn) \/ out = 1)
      /\ out = 1 => fifo0'.rData = fifo0.store[1]
      /\ out = 0 => fifo0'.rData = fifo0.rData
      /\ Len(fifo0.store) >= out /\ Len(fifo0'.store) = Len(fifo0.store) - out + in
      /\ \A i \in 1 .. Len(fifo0.store) - out : fifo0'.store[i] = fifo0.store[i + out]
      /\ in = 1 => fifo0'.store[Len(fifo0.store) - out + 1] = bridge.wData
  <2>1. FifoOf(W, fifo0) /\ bridge.wData \in W
    BY <1>1, <1>4 DEF FifoTypes
  <2>2. /\ FifoOf(W, fifo0')
        /\ fifo0'.pushed[1] = in /\ fifo0'.pushed[2] = fifo0.pushed[1]
        /\ fifo0'.popped[1] = out /\ \A i \in 2 .. 4 : fifo0'.popped[i] = fifo0.popped[i - 1]
        /\ fifo0'.rRdy <=> ((fifo0.rRdy /\ ~bridge.rEn) \/ out = 1)
        /\ out = 1 => fifo0'.rData = fifo0.store[1]
        /\ out = 0 => fifo0'.rData = fifo0.rData
        /\ Len(fifo0.store) >= out /\ Len(fifo0'.store) = Len(fifo0.store) - out + in
        /\ \A i \in 1 .. Len(fifo0.store) - out : fifo0'.store[i] = fifo0.store[i + out]
        /\ in = 1 => fifo0'.store[Len(fifo0.store) - out + 1] = bridge.wData
    BY <1>1, <1>2, <1>3, <2>1, AfterClockIs
  <2>. QED
    BY <1>4, <2>2
<1>6. fifo0'.rLevel \in Int
  <2>1. fifo0'.rLevel = Visible(fifo0) + Flag(fifo0.rRdy /\ ~bridge.rEn)
    BY <1>2 DEF AfterClock
  <2>2. Len(fifo0.store) \in Nat /\ fifo0.pushed[1] \in Bit01 /\ fifo0.pushed[2] \in Bit01
    BY <1>1, LenProperties DEF FifoTypes, FifoOf
  <2>. QED
    BY <2>1, <2>2 DEF Visible, Flag, Bit01
<1>7. in = 1 => fifo0'.store[Len(fifo0'.store)] = bridge.wData
  <2>1. in = 1 => Len(fifo0'.store) = Len(fifo0.store) - out + 1
    BY <1>5
  <2>. QED
    BY <1>5, <2>1
<1>8. fifo0'.popped[2] = fifo0.popped[1]
  BY <1>5
<1>9. fifo0'.rData = IF out = 1 THEN fifo0.store[1] ELSE fifo0.rData
  BY <1>3, <1>5 DEF Bit01
<1>. QED
  BY <1>3, <1>5, <1>6, <1>7, <1>8, <1>9 DEF FifoTypes

\* Room does not go away but by a push.
LEMMA RoomStays ==
  ASSUME NEW f, FifoTypes(f), NEW g, FifoTypes(g), NEW out \in Bit01, WRdy(f, Places),
         g.popped[1] = out, g.popped[2] = f.popped[1], Len(g.store) = Len(f.store) - out
  PROVE  WRdy(g, Places)
<1>2. /\ Len(f.store) \in Nat /\ f.popped[1] \in Bit01 /\ f.popped[2] \in Bit01
      /\ Places \in Nat
  <2>1. f.popped[1] \in Bit01 /\ f.popped[2] \in Bit01
    BY ElementOfSeq DEF FifoTypes, FifoOf
  <2>2. Len(f.store) \in Nat
    BY LenProperties DEF FifoTypes, FifoOf
  <2>. QED
    BY <2>1, <2>2, FifoTestAssumption
<1>5. Len(f.store) + f.popped[1] + f.popped[2] < Places
  BY DEF WRdy
<1>4. Len(g.store) + g.popped[1] + g.popped[2] < Places
  BY <1>2, <1>5 DEF Bit01
<1>. QED
  BY <1>4 DEF WRdy

\* A strobe goes one register further in a clock, and out at the end.
LEMMA StrobeMoves ==
  ASSUME NEW a \in 0 .. 6, NEW strobe \in Bit01, NEW p, NEW en, NEW q, NEW next,
         q[1] = strobe, \A i \in 2 .. 6 : q[i] = p[i - 1],
         StrobeAt(a, strobe, p, en), next <=> RoseFiveAgo(p)
  PROVE  /\ a < 6 => StrobeAt(a + 1, 0, q, next)
         /\ a = 6 => NoStrobe(0, q, next)
<1>2. /\ strobe = (IF a = 0 THEN 1 ELSE 0)
      /\ p[1] = (IF a = 1 THEN 1 ELSE 0) /\ p[2] = (IF a = 2 THEN 1 ELSE 0)
      /\ p[3] = (IF a = 3 THEN 1 ELSE 0) /\ p[4] = (IF a = 4 THEN 1 ELSE 0)
      /\ p[5] = (IF a = 5 THEN 1 ELSE 0) /\ p[6] = (IF a = 6 THEN 1 ELSE 0)
  BY DEF StrobeAt, Bit01
<1>3. /\ q[1] = strobe /\ q[2] = p[1] /\ q[3] = p[2] /\ q[4] = p[3] /\ q[5] = p[4] /\ q[6] = p[5]
  OBVIOUS
<1>4. next <=> a = 5
  BY <1>2 DEF RoseFiveAgo
<1>5. \A j \in 1 .. 6 : q[j] = IF j = a + 1 THEN 1 ELSE 0
  <2> SUFFICES ASSUME NEW j \in 1 .. 6 PROVE q[j] = IF j = a + 1 THEN 1 ELSE 0
    OBVIOUS
  <2>1. j = 1 \/ j = 2 \/ j = 3 \/ j = 4 \/ j = 5 \/ j = 6
    OBVIOUS
  <2>. QED
    BY <1>2, <1>3, <2>1
<1>6. a < 6 => StrobeAt(a + 1, 0, q, next)
  BY <1>4, <1>5 DEF StrobeAt
<1>7. a = 6 => NoStrobe(0, q, next)
  BY <1>4, <1>5 DEF NoStrobe
<1>. QED
  BY <1>6, <1>7

LEMMA NoStrobeMoves ==
  ASSUME NEW strobe \in Bit01, NEW p, NEW en, NEW q, NEW next,
         q[1] = strobe, \A i \in 2 .. 6 : q[i] = p[i - 1],
         NoStrobe(strobe, p, en), next => RoseFiveAgo(p)
  PROVE  NoStrobe(0, q, next)
<1>2. ~next
  BY DEF NoStrobe, RoseFiveAgo
<1>3. \A j \in 1 .. 6 : q[j] = 0
  <2> SUFFICES ASSUME NEW j \in 1 .. 6 PROVE q[j] = 0
    OBVIOUS
  <2>1. CASE j = 1
    BY <2>1 DEF NoStrobe
  <2>2. CASE j > 1
    BY <2>2 DEF NoStrobe
  <2>. QED
    BY <2>1, <2>2
<1>. QED
  BY <1>2, <1>3 DEF NoStrobe

-----------------------------------------------------------------------------
\* A clock of the gateware.

\* Strobes in flight exclude each other, by their registers.
LEMMA OneStrobe ==
  ASSUME RegTypes, Strobes
  PROVE  /\ Writing => NoRead /\ ~NoWrite /\ ~Reading
         /\ Reading => NoWrite /\ ~NoRead /\ ~Writing
         /\ ~Writing => NoWrite
         /\ ~Reading => NoRead
<1>1. ~(Writing /\ NoWrite)
  BY DEF Writing, NoWrite, StrobeAt, NoStrobe
<1>2. ~(Reading /\ NoRead)
  BY DEF Reading, NoRead, StrobeAt, NoStrobe
<1>. QED
  BY <1>1, <1>2 DEF Strobes

\* What a clock makes of the registers.
LEMMA BridgeIs ==
  ASSUME RegTypes, BridgeClock, LongApart
  PROVE  /\ bridge' \in [copi : Nat, cipo : Nat, wData : Nat, wEn : BOOLEAN, rEn : BOOLEAN,
                         wRdy : BOOLEAN, rRdy : BOOLEAN, rLevel : Int, wPast : Seq(Bit01), rPast : Seq(Bit01)]
         /\ bridge'.copi = IF strobes.write = 1 THEN put ELSE bridge.copi
         /\ bridge'.wEn <=> RoseFiveAgo(bridge.wPast) /\ bridge.wRdy
         /\ bridge'.wEn => bridge'.wData = bridge.copi
         /\ bridge'.cipo = IF bridge.rRdy THEN fifo0.rData ELSE bridge.cipo
         /\ bridge'.rEn <=> RoseFiveAgo(bridge.rPast)
         /\ bridge'.wRdy <=> WRdy(fifo0, Places)
         /\ bridge'.rRdy <=> fifo0.rRdy
         /\ Len(bridge'.wPast) = 6 /\ Len(bridge'.rPast) = 6
         /\ bridge'.wPast[1] = strobes.write /\ bridge'.rPast[1] = strobes.read
         /\ \A i \in 2 .. 6 : bridge'.wPast[i] = bridge.wPast[i - 1]
         /\ \A i \in 2 .. 6 : bridge'.rPast[i] = bridge.rPast[i - 1]
         /\ strobes'.write = 0 /\ strobes'.read = 0
         /\ apart' \in 0 .. Apart /\ apart' = (IF apart < Apart THEN apart + 1 ELSE apart)
         /\ apart \in Nat /\ Apart \in Nat /\ 12 <= Apart /\ apart <= Apart
         /\ tester' = tester /\ put' = put /\ got' = got
<1> DEFINE w == <<strobes.write>> \o SubSeq(bridge.wPast, 1, 5)
           r == <<strobes.read>> \o SubSeq(bridge.rPast, 1, 5)
<1>1. /\ bridge.wPast \in Seq(Bit01) /\ Len(bridge.wPast) = 6
      /\ bridge.rPast \in Seq(Bit01) /\ Len(bridge.rPast) = 6
      /\ strobes.write \in Bit01 /\ strobes.read \in Bit01
  BY DEF RegTypes
<1> HIDE DEF w, r
<1>2. /\ w \in Seq(Bit01) /\ Len(w) = 6 /\ w[1] = strobes.write
      /\ \A i \in 2 .. 6 : w[i] = bridge.wPast[i - 1]
  <2>1. w = <<strobes.write>> \o SubSeq(bridge.wPast, 1, 5)
    BY DEF w
  <2>. QED
    BY <1>1, <2>1, ShiftIn
<1>3. /\ r \in Seq(Bit01) /\ Len(r) = 6 /\ r[1] = strobes.read
      /\ \A i \in 2 .. 6 : r[i] = bridge.rPast[i - 1]
  <2>1. r = <<strobes.read>> \o SubSeq(bridge.rPast, 1, 5)
    BY DEF r
  <2>. QED
    BY <1>1, <2>1, ShiftIn
<1>4. fifo0.rLevel \in Int /\ fifo0.rRdy \in BOOLEAN /\ fifo0.rData \in Nat
  BY DEF RegTypes, FifoTypes, FifoOf
<1> DEFINE c == IF strobes.write = 1 THEN put ELSE bridge.copi
           e == WriteEnable
           d == IF WriteEnable THEN bridge.copi ELSE bridge.wData
           o == IF bridge.rRdy THEN fifo0.rData ELSE bridge.cipo
           s == RoseFiveAgo(bridge.rPast)
           m == WRdy(fifo0, Places)
<1>5. bridge' = [copi |-> c, wEn |-> e, wData |-> d, cipo |-> o, rEn |-> s, wRdy |-> m,
                 rRdy |-> fifo0.rRdy, rLevel |-> fifo0.rLevel, wPast |-> w, rPast |-> r]
  BY DEF BridgeClock, w, r
<1>6. c \in Nat /\ d \in Nat /\ o \in Nat /\ e \in BOOLEAN /\ s \in BOOLEAN /\ m \in BOOLEAN
  BY <1>4 DEF RegTypes, WriteEnable, RoseFiveAgo, WRdy
<1> HIDE DEF c, e, d, o, s, m
<1>7. /\ bridge' \in [copi : Nat, cipo : Nat, wData : Nat, wEn : BOOLEAN, rEn : BOOLEAN,
                      wRdy : BOOLEAN, rRdy : BOOLEAN, rLevel : Int, wPast : Seq(Bit01), rPast : Seq(Bit01)]
      /\ bridge'.copi = c /\ (bridge'.wEn <=> e) /\ bridge'.wData = d /\ bridge'.cipo = o
      /\ (bridge'.rEn <=> s) /\ (bridge'.wRdy <=> m) /\ (bridge'.rRdy <=> fifo0.rRdy)
      /\ bridge'.wPast = w /\ bridge'.rPast = r
  BY <1>2, <1>3, <1>4, <1>5, <1>6
<1>8. /\ strobes'.write = 0 /\ strobes'.read = 0
      /\ tester' = tester /\ put' = put /\ got' = got
      /\ apart' = (IF apart < Apart THEN apart + 1 ELSE apart)
  BY DEF BridgeClock
<1>9. /\ apart \in Nat /\ Apart \in Nat /\ 12 <= Apart /\ apart <= Apart /\ apart' \in 0 .. Apart
  BY <1>8, FifoTestAssumption DEF RegTypes, LongApart
<1>10. /\ bridge'.wEn <=> RoseFiveAgo(bridge.wPast) /\ bridge.wRdy
       /\ bridge'.wEn => bridge'.wData = bridge.copi
  BY <1>7 DEF e, d, WriteEnable
<1>. QED
  BY <1>2, <1>3, <1>7, <1>8, <1>9, <1>10 DEF c, o, s, m

\* Where the strobes are after a clock.
LEMMA StrobesMove ==
  ASSUME RegTypes, Strobes, BridgeClock, LongApart
  PROVE  /\ Writing' <=> Writing /\ apart < 6
         /\ Reading' <=> Reading /\ apart < 6
         /\ ~Writing' => NoWrite'
         /\ ~Reading' => NoRead'
         /\ Writing => apart \in 0 .. 6 /\ apart' = apart + 1 /\ (bridge.wEn <=> apart = 6)
         /\ Reading => apart \in 0 .. 6 /\ apart' = apart + 1 /\ (bridge.rEn <=> apart = 6)
         /\ ~Writing => ~bridge.wEn
         /\ ~Reading => ~bridge.rEn
<1>1. /\ strobes.write \in Bit01 /\ strobes.read \in Bit01
  BY DEF RegTypes
<1>2. Writing => apart \in 0 .. 6 /\ apart' = apart + 1 /\ (bridge.wEn <=> apart = 6)
  BY BridgeIs DEF Writing, StrobeAt
<1>3. Reading => apart \in 0 .. 6 /\ apart' = apart + 1 /\ (bridge.rEn <=> apart = 6)
  BY SMTT(20), BridgeIs DEF Reading, StrobeAt
<1>4. /\ ~Writing => ~bridge.wEn
      /\ ~Reading => ~bridge.rEn
  BY OneStrobe DEF NoWrite, NoRead, NoStrobe
<1>5. ~(StrobeAt(apart', 0, bridge'.wPast, bridge'.wEn) /\ NoStrobe(0, bridge'.wPast, bridge'.wEn))
  BY DEF StrobeAt, NoStrobe
<1>6. ~(StrobeAt(apart', 0, bridge'.rPast, bridge'.rEn) /\ NoStrobe(0, bridge'.rPast, bridge'.rEn))
  BY DEF StrobeAt, NoStrobe
<1>7. /\ strobes'.write = 0 /\ strobes'.read = 0
      /\ bridge'.wPast[1] = strobes.write /\ \A i \in 2 .. 6 : bridge'.wPast[i] = bridge.wPast[i - 1]
      /\ bridge'.rPast[1] = strobes.read /\ \A i \in 2 .. 6 : bridge'.rPast[i] = bridge.rPast[i - 1]
      /\ bridge'.wEn <=> RoseFiveAgo(bridge.wPast) /\ bridge.wRdy
      /\ bridge'.rEn <=> RoseFiveAgo(bridge.rPast)
  BY BridgeIs
<1>8. CASE Writing
  <2>1. StrobeAt(apart, strobes.write, bridge.wPast, bridge.wEn)
    BY <1>8 DEF Writing
  <2>2. bridge'.wEn <=> RoseFiveAgo(bridge.wPast)
    <3>1. CASE apart < 6
      BY <1>7, <1>8, <3>1 DEF Strobes
    <3>2. CASE apart = 6
      <4>1. bridge.wPast[6] = 1
        BY <2>1, <3>2 DEF StrobeAt
      <4>. QED
        BY <1>7, <4>1 DEF RoseFiveAgo
    <3>. QED
      BY <1>2, <1>8, <3>1, <3>2
  <2>3. /\ apart < 6 => StrobeAt(apart + 1, 0, bridge'.wPast, bridge'.wEn)
        /\ apart = 6 => NoStrobe(0, bridge'.wPast, bridge'.wEn)
    BY <1>1, <1>2, <1>7, <1>8, <2>1, <2>2, StrobeMoves
  <2>4. /\ Writing' <=> apart < 6
        /\ ~Writing' => NoWrite'
    BY <1>2, <1>5, <1>7, <1>8, <2>3 DEF Writing, NoWrite
  <2>5. ~Reading' /\ NoRead'
    <3>1. NoStrobe(strobes.read, bridge.rPast, bridge.rEn)
      BY <1>8, OneStrobe DEF NoRead
    <3>2. NoStrobe(0, bridge'.rPast, bridge'.rEn)
      BY <1>1, <1>7, <3>1, NoStrobeMoves
    <3>. QED
      BY <1>6, <1>7, <3>2 DEF Reading, NoRead
  <2>. QED
    BY <1>2, <1>3, <1>4, <1>8, <2>4, <2>5, OneStrobe
<1>9. CASE ~Writing
  <2>1. NoStrobe(strobes.write, bridge.wPast, bridge.wEn)
    BY <1>9, OneStrobe DEF NoWrite
  <2>2. NoStrobe(0, bridge'.wPast, bridge'.wEn)
    BY <1>1, <1>7, <2>1, NoStrobeMoves
  <2>3. ~Writing' /\ NoWrite'
    BY <1>5, <1>7, <2>2 DEF Writing, NoWrite
  <2>4. CASE Reading
    <3>1. StrobeAt(apart, strobes.read, bridge.rPast, bridge.rEn)
      BY <2>4 DEF Reading
    <3>2. /\ apart < 6 => StrobeAt(apart + 1, 0, bridge'.rPast, bridge'.rEn)
          /\ apart = 6 => NoStrobe(0, bridge'.rPast, bridge'.rEn)
      BY <1>1, <1>3, <1>7, <2>4, <3>1, StrobeMoves
    <3>3. /\ Reading' <=> apart < 6
          /\ ~Reading' => NoRead'
      BY <1>3, <1>6, <1>7, <2>4, <3>2 DEF Reading, NoRead
    <3>. QED
      BY <1>3, <1>4, <1>9, <2>3, <2>4, <3>3
  <2>5. CASE ~Reading
    <3>1. NoStrobe(strobes.read, bridge.rPast, bridge.rEn)
      BY <2>5, OneStrobe DEF NoRead
    <3>2. NoStrobe(0, bridge'.rPast, bridge'.rEn)
      BY <1>1, <1>7, <3>1, NoStrobeMoves
    <3>3. ~Reading' /\ NoRead'
      BY <1>6, <1>7, <3>2 DEF Reading, NoRead
    <3>. QED
      BY <1>4, <1>9, <2>3, <2>5, <3>3
  <2>. QED
    BY <2>4, <2>5
<1>. QED
  BY <1>8, <1>9

LEMMA BridgeHolds ==
  ASSUME RegInv, BridgeClock, LongApart
  PROVE  RegInv'
<1>0. RegTypes /\ Strobes /\ HeldInOrder /\ Arrival /\ TestStage
  BY DEF RegInv
<1>1. PICK in : in = Pushes(fifo0, bridge.wEn)
  OBVIOUS
<1>2. PICK out : out = Pops(fifo0, bridge.rEn)
  OBVIOUS
<1>3. /\ FifoTypes(fifo0') /\ in \in Bit01 /\ out \in Bit01
      /\ fifo0'.pushed[1] = in /\ fifo0'.pushed[2] = fifo0.pushed[1]
      /\ fifo0'.popped[1] = out /\ fifo0'.popped[2] = fifo0.popped[1]
      /\ fifo0'.rRdy <=> (fifo0.rRdy /\ ~bridge.rEn) \/ out = 1
      /\ fifo0'.rData = IF out = 1 THEN fifo0.store[1] ELSE fifo0.rData
      /\ Len(fifo0'.store) = Len(fifo0.store) - out + in
      /\ Len(fifo0.store) >= out
      /\ \A i \in 1 .. Len(fifo0.store) - out : fifo0'.store[i] = fifo0.store[i + out]
      /\ in = 1 => fifo0'.store[Len(fifo0'.store)] = bridge.wData
  BY <1>0, <1>1, <1>2, FifoClock
<1>4. /\ Len(fifo0.store) \in Nat /\ fifo0.pushed[1] \in Bit01 /\ fifo0.pushed[2] \in Bit01
      /\ fifo0.rRdy \in BOOLEAN /\ fifo0.rData \in Nat /\ put \in Nat /\ got \in Nat
      /\ bridge.wRdy \in BOOLEAN /\ bridge.rRdy \in BOOLEAN /\ bridge.cipo \in Nat
      /\ apart \in Nat /\ apart <= Apart
  BY <1>0, LenProperties DEF RegTypes, FifoTypes, FifoOf
<1>5. /\ apart' = (IF apart < Apart THEN apart + 1 ELSE apart) /\ apart' \in 0 .. Apart
      /\ Apart \in Nat /\ 12 <= Apart /\ tester' = tester /\ put' = put /\ got' = got
      /\ bridge'.copi = IF strobes.write = 1 THEN put ELSE bridge.copi
      /\ bridge'.wEn => bridge'.wData = bridge.copi
      /\ bridge'.wEn <=> RoseFiveAgo(bridge.wPast) /\ bridge.wRdy
      /\ bridge'.cipo = IF bridge.rRdy THEN fifo0.rData ELSE bridge.cipo
      /\ bridge'.wRdy <=> WRdy(fifo0, Places)
      /\ bridge'.rRdy <=> fifo0.rRdy
  BY <1>0, BridgeIs
<1>6. /\ Writing' <=> Writing /\ apart < 6
      /\ Reading' <=> Reading /\ apart < 6
      /\ ~Writing' => NoWrite'
      /\ ~Reading' => NoRead'
      /\ Writing => apart \in 0 .. 6 /\ apart' = apart + 1 /\ (bridge.wEn <=> apart = 6)
      /\ Reading => apart \in 0 .. 6 /\ apart' = apart + 1 /\ (bridge.rEn <=> apart = 6)
      /\ ~Writing => ~bridge.wEn
      /\ ~Reading => ~bridge.rEn
  BY <1>0, StrobesMove
<1>7. ~(Writing /\ Reading)
  BY <1>0, OneStrobe
\* A word is pushed at the end of a write.
<1>8. in = IF Writing /\ apart = 6 THEN 1 ELSE 0
  BY <1>0, <1>1, <1>6 DEF Pushes, Strobes
\* A word is given out at the end of a read, or when it has arrived.
<1>9. /\ Reading /\ apart = 6 => out = IF Len(fifo0.store) > 0 THEN 1 ELSE 0
      /\ ~(Reading /\ apart = 6) =>
           out = IF ~fifo0.rRdy /\ Len(fifo0.store) > 0 /\ apart = 9 THEN 1 ELSE 0
  <2>1. out = IF (bridge.rEn \/ ~fifo0.rRdy)
                 /\ Len(fifo0.store) - fifo0.pushed[1] - fifo0.pushed[2] > 0 THEN 1 ELSE 0
    BY <1>2 DEF Pops, Visible
  <2>2. /\ apart # 7 => fifo0.pushed[1] = 0
        /\ apart # 8 => fifo0.pushed[2] = 0
    BY <1>0, <1>4 DEF Arrival, Bit01
  <2>3. CASE Reading /\ apart = 6
    BY <1>4, <1>6, <2>1, <2>2, <2>3
  <2>4. CASE ~(Reading /\ apart = 6) /\ fifo0.rRdy
    <3>1. ~bridge.rEn
      BY <1>6, <2>4
    <3>. QED
      BY <2>1, <2>4, <3>1
  <2>5. CASE ~(Reading /\ apart = 6) /\ ~fifo0.rRdy /\ Len(fifo0.store) = 0
    <3>1. ~(Len(fifo0.store) - fifo0.pushed[1] - fifo0.pushed[2] > 0)
      BY <1>4, <2>5 DEF Bit01
    <3>. QED
      BY <2>1, <2>5, <3>1
  <2>6. CASE ~(Reading /\ apart = 6) /\ ~fifo0.rRdy /\ Len(fifo0.store) > 0
    <3>1. /\ Len(fifo0.store) = 1 /\ apart \in 7 .. 9
          /\ apart = 7 => fifo0.pushed[1] = 1
          /\ apart = 8 => fifo0.pushed[2] = 1
      BY <1>0, <2>6 DEF Arrival
    <3>2. CASE apart = 7
      BY <2>1, <2>2, <2>6, <3>1, <3>2
    <3>3. CASE apart = 8
      BY <2>1, <2>2, <2>6, <3>1, <3>3
    <3>4. CASE apart = 9
      BY <2>1, <2>2, <2>6, <3>1, <3>4
    <3>. QED
      BY <3>1, <3>2, <3>3, <3>4
  <2>. QED
    BY <1>4, <2>3, <2>4, <2>5, <2>6
<1>10. RegTypes'
  <2>1. bridge' \in [copi : Nat, cipo : Nat, wData : Nat, wEn : BOOLEAN, rEn : BOOLEAN,
                     wRdy : BOOLEAN, rRdy : BOOLEAN, rLevel : Int, wPast : Seq(Bit01), rPast : Seq(Bit01)]
        /\ Len(bridge'.wPast) = 6 /\ Len(bridge'.rPast) = 6
        /\ strobes'.write = 0 /\ strobes'.read = 0
    BY <1>0, BridgeIs
  <2>2. /\ tester' \in [pc : TesterStages, run : Nat, i : Nat, late : BOOLEAN, taken : Nat]
        /\ put' \in Nat /\ got' \in Nat /\ apart' \in 0 .. Apart
    BY <1>0, <1>5 DEF RegTypes
  <2>. QED
    BY <1>3, <2>1, <2>2 DEF RegTypes, Bit01
<1>11. WRdy(fifo0, Places) /\ in = 0 => WRdy(fifo0', Places)
  <2> SUFFICES ASSUME WRdy(fifo0, Places), in = 0 PROVE WRdy(fifo0', Places)
    OBVIOUS
  <2>1. Len(fifo0'.store) = Len(fifo0.store) - out
    BY <1>3, <1>4 DEF Bit01
  <2>. QED
    BY <1>0, <1>3, <2>1, RoomStays DEF RegTypes
<1>12. Strobes'
  <2>1. (Writing' /\ NoRead') \/ (NoWrite' /\ Reading') \/ (NoWrite' /\ NoRead')
    BY <1>6, <1>7
  <2>2. Writing' => /\ WRdy(fifo0', Places) /\ bridge'.copi = put'
                    /\ apart' < 6 => bridge'.wRdy
                    /\ apart' = 6 => bridge'.wData = put'
    <3> SUFFICES ASSUME Writing, apart < 6
                 PROVE  /\ WRdy(fifo0', Places) /\ bridge'.copi = put'
                        /\ apart' < 6 => bridge'.wRdy
                        /\ apart' = 6 => bridge'.wData = put'
      BY <1>6
    <3>1. WRdy(fifo0', Places) /\ bridge'.wRdy
      BY <1>0, <1>5, <1>8, <1>11 DEF Strobes
    <3>2. bridge'.copi = put'
      BY <1>0, <1>4, <1>5 DEF Strobes, Writing, StrobeAt
    <3>3. apart' = 6 => bridge'.wData = put'
      <4> SUFFICES ASSUME apart' = 6 PROVE bridge'.wData = put'
        OBVIOUS
      <4>1. apart = 5
        BY <1>6
      <4>2. RoseFiveAgo(bridge.wPast)
        BY <4>1 DEF Writing, StrobeAt, RoseFiveAgo
      <4>. QED
        BY <1>0, <1>5, <4>1, <4>2 DEF Strobes
    <3>. QED
      BY <3>1, <3>2, <3>3
  <2>3. Reading' => fifo0'.rRdy
    BY <1>0, <1>3, <1>6 DEF Strobes
  <2>4. apart' >= 8 /\ bridge'.wRdy => WRdy(fifo0', Places)
    <3>1. apart' >= 8 => in = 0
      BY <1>6, <1>8
    <3>. QED
      BY <1>5, <1>11, <3>1
  <2>. QED
    BY <2>1, <2>2, <2>3, <2>4 DEF Strobes
\* What is inside moves on by what goes out and what comes in.
<1>13. /\ NextOut' = NextOut + (IF Reading /\ apart = 6 THEN 1 ELSE 0)
       /\ LastIn' = LastIn + in
       /\ NextOut \in Nat /\ LastIn \in Int
  <2>1. LastIn' = LastIn + in /\ LastIn \in Int
    BY <1>4, <1>5, <1>6, <1>8 DEF LastIn
  <2>2. NextOut' = NextOut + (IF Reading /\ apart = 6 THEN 1 ELSE 0) /\ NextOut \in Nat
    BY <1>4, <1>5, <1>6 DEF NextOut
  <2>. QED
    BY <2>1, <2>2
<1>14. PICK s \in Bit01 : s = IF Reading /\ apart = 6 THEN 1 ELSE 0
  BY DEF Bit01
<1>15. /\ Flag(fifo0.rRdy) \in Bit01
       /\ Flag(fifo0'.rRdy) = Flag(fifo0.rRdy) + out - s
       /\ out = 1 => Flag(fifo0.rRdy) = s
       /\ out = 0 /\ fifo0'.rRdy => fifo0.rRdy /\ s = 0
  <2>1. CASE Reading /\ apart = 6
    BY <1>0, <1>3, <1>6, <1>14, <2>1 DEF Strobes, Flag, Bit01
  <2>2. CASE ~(Reading /\ apart = 6)
    <3>1. ~bridge.rEn /\ s = 0 /\ (out = 1 => ~fifo0.rRdy)
      BY <1>6, <1>9, <1>14, <2>2
    <3>. QED
      BY <1>3, <3>1 DEF Flag, Bit01
  <2>. QED
    BY <2>1, <2>2
<1>16. HeldInOrder'
  <2> DEFINE l == Len(fifo0.store)
             l2 == Len(fifo0'.store)
             b == Flag(fifo0.rRdy)
             b2 == Flag(fifo0'.rRdy)
  <2>1. /\ l \in Nat /\ l2 = l - out + in /\ l >= out /\ l + b + NextOut = LastIn + 1
        /\ b \in Bit01 /\ b2 = b + out - s
        /\ \A i \in 1 .. l : fifo0.store[i] = NextOut + b + i - 1
        /\ \A i \in 1 .. l - out : fifo0'.store[i] = fifo0.store[i + out]
        /\ in = 1 => fifo0'.store[l2] = bridge.wData
    BY <1>0, <1>3, <1>4, <1>15 DEF HeldInOrder
  <2>2. NextOut' = NextOut + s
    BY <1>13, <1>14
  <2>3. PICK n, e, n2, e2 : n = NextOut /\ e = LastIn /\ n2 = NextOut' /\ e2 = LastIn'
    OBVIOUS
  <2>4. n \in Nat /\ e \in Int /\ n2 = n + s /\ e2 = e + in
    BY <1>13, <2>2, <2>3
  <2>5. in = 1 => bridge.wData = e + 1
    <3>1. in = 1 => Writing /\ apart = 6
      BY <1>8
    <3>2. in = 1 => bridge.wData = put /\ LastIn = put - 1
      BY <1>0, <3>1 DEF Strobes, LastIn
    <3>. QED
      BY <1>4, <2>3, <3>2
  <2> HIDE DEF l, l2, b, b2
  <2>6. l2 + b2 + n2 = e2 + 1
    BY <1>3, <2>1, <2>3, <2>4 DEF Bit01
  <2>7. \A i \in 1 .. l2 : fifo0'.store[i] = n2 + b2 + i - 1
    <3> SUFFICES ASSUME NEW i \in 1 .. l2 PROVE fifo0'.store[i] = n2 + b2 + i - 1
      OBVIOUS
    <3>1. CASE i <= l - out
      <4>1. i \in 1 .. l - out /\ i + out \in 1 .. l /\ out \in Int
        BY <1>3, <2>1, <3>1 DEF Bit01
      <4>2. fifo0'.store[i] = n + b + (i + out) - 1
        BY <2>1, <2>3, <4>1
      <4>. QED
        BY <1>3, <1>14, <2>1, <2>4, <4>1, <4>2 DEF Bit01
    <3>2. CASE ~(i <= l - out)
      <4>1. in = 1 /\ i = l2
        BY <1>3, <2>1, <3>2 DEF Bit01
      <4>2. fifo0'.store[i] = e + 1
        BY <2>1, <2>5, <4>1
      <4>3. n2 + b2 + i = e2 + 1 /\ e2 = e + 1
        BY <1>3, <1>14, <2>1, <2>4, <2>6, <4>1 DEF Bit01
      <4>. QED
        BY <1>3, <1>14, <2>1, <2>4, <4>1, <4>2, <4>3 DEF Bit01
    <3>. QED
      BY <3>1, <3>2
  <2>8. fifo0'.rRdy => fifo0'.rData = n2
    <3>1. CASE out = 1
      <4>1. 1 \in 1 .. l
        BY <2>1, <3>1
      <4>2. fifo0'.rData = n + b + 1 - 1
        BY <1>3, <2>1, <2>3, <3>1, <4>1
      <4>3. b = s
        BY <1>15, <3>1 DEF b
      <4>. QED
        BY <1>14, <2>4, <4>2, <4>3 DEF Bit01
    <3>2. CASE out = 0
      <4>1. fifo0'.rRdy => fifo0'.rData = n /\ s = 0
        BY <1>0, <1>3, <1>15, <2>3, <3>2 DEF HeldInOrder
      <4>. QED
        BY <2>4, <4>1
    <3>. QED
      BY <1>3, <3>1, <3>2 DEF Bit01
  <2>. QED
    BY <2>3, <2>6, <2>7, <2>8 DEF HeldInOrder, l2, b2
<1>17. Arrival'
  <2>1. fifo0'.pushed[1] = 1 => apart' = 7
    BY <1>3, <1>6, <1>8
  <2>2. fifo0'.pushed[2] = 1 => apart' = 8
    BY <1>0, <1>3, <1>5 DEF Arrival
  <2>3. ~fifo0'.rRdy /\ Len(fifo0'.store) > 0 =>
          /\ Len(fifo0'.store) = 1 /\ apart' \in 7 .. 9
          /\ apart' = 7 => fifo0'.pushed[1] = 1
          /\ apart' = 8 => fifo0'.pushed[2] = 1
    <3> SUFFICES ASSUME ~fifo0'.rRdy, Len(fifo0'.store) > 0
                 PROVE  /\ Len(fifo0'.store) = 1 /\ apart' \in 7 .. 9
                        /\ apart' = 7 => fifo0'.pushed[1] = 1
                        /\ apart' = 8 => fifo0'.pushed[2] = 1
      OBVIOUS
    <3>1. out = 0 /\ Len(fifo0'.store) = Len(fifo0.store) + in
      BY <1>3, <1>4 DEF Bit01
    <3>2. ~(Reading /\ apart = 6)
      <4> SUFFICES ASSUME Reading, apart = 6 PROVE FALSE
        OBVIOUS
      <4>1. in = 0 /\ Len(fifo0.store) = 0
        BY <1>4, <1>7, <1>8, <1>9, <3>1
      <4>. QED
        BY <3>1, <4>1
    <3>3. ~fifo0.rRdy
      BY <1>3, <1>6, <3>2
    <3>4. CASE Len(fifo0.store) > 0
      <4>1. /\ Len(fifo0.store) = 1 /\ apart \in 7 .. 8
            /\ apart = 7 => fifo0.pushed[1] = 1
        BY <1>0, <1>9, <3>1, <3>2, <3>3, <3>4 DEF Arrival
      <4>2. in = 0 /\ apart' = apart + 1
        BY <1>5, <1>8, <4>1
      <4>. QED
        BY <1>3, <3>1, <4>1, <4>2
    <3>5. CASE Len(fifo0.store) = 0
      <4>1. in = 1 /\ Len(fifo0'.store) = 1
        BY <1>3, <3>1, <3>5 DEF Bit01
      <4>2. apart' = 7
        BY <1>6, <1>8, <4>1
      <4>. QED
        BY <1>3, <4>1, <4>2
    <3>. QED
      BY <1>4, <3>4, <3>5
  <2>4. bridge'.rRdy # fifo0'.rRdy =>
          (apart' = 7 /\ bridge'.rRdy) \/ (apart' = 10 /\ fifo0'.rRdy)
    <3>1. CASE Reading /\ apart = 6
      BY <1>0, <1>5, <1>6, <3>1 DEF Strobes
    <3>2. CASE ~(Reading /\ apart = 6)
      <4>1. out = 1 => apart' = 10 /\ fifo0'.rRdy
        BY <1>3, <1>5, <1>9, <3>2
      <4>2. out # 1 => (fifo0'.rRdy <=> fifo0.rRdy)
        BY <1>3, <1>6, <3>2
      <4>3. bridge'.rRdy \in BOOLEAN /\ fifo0'.rRdy \in BOOLEAN
        BY <1>10 DEF RegTypes, FifoTypes, FifoOf
      <4>. QED
        BY <1>5, <4>1, <4>2, <4>3
    <3>. QED
      BY <3>1, <3>2
  <2>5. fifo0'.rRdy /\ bridge'.cipo # fifo0'.rData => apart' \in {7, 10, 11}
    <3>1. CASE out = 1
      <4>1. (Reading /\ apart = 6) \/ apart = 9
        BY <1>9, <3>1
      <4>. QED
        BY <1>5, <4>1
    <3>2. CASE out = 0
      <4>1. fifo0'.rData = fifo0.rData /\ (fifo0'.rRdy => fifo0.rRdy)
        BY <1>3, <3>2
      <4>2. ~bridge.rRdy /\ fifo0.rRdy => apart = 10
        BY <1>0, <1>4 DEF Arrival
      <4>3. CASE bridge.rRdy
        BY <1>5, <4>1, <4>3
      <4>4. CASE ~bridge.rRdy
        BY <1>5, <4>1, <4>2, <4>4
      <4>. QED
        BY <4>3, <4>4
    <3>. QED
      BY <1>3, <3>1, <3>2 DEF Bit01
  <2>. QED
    BY <2>1, <2>2, <2>3, <2>4, <2>5 DEF Arrival
<1>18. TestStage'
  <2>1. tester.pc \in {"write", "read", "taken", "level"} =>
          NoWrite' /\ NoRead' /\ in = 0 /\ ~bridge.rEn
    BY <1>0, <1>6, <1>8, OneStrobe DEF TestStage
  <2>2. tester.pc = "write" => bridge'.wRdy /\ WRdy(fifo0', Places)
    BY <1>0, <1>5, <1>11, <2>1 DEF TestStage
  <2>3. tester.pc \in {"read", "taken"} => fifo0'.rRdy
    BY <1>0, <1>3, <2>1 DEF TestStage
  <2>4. tester.pc = "level" => Len(fifo0'.store) = 0 /\ ~fifo0'.rRdy
    <3> SUFFICES ASSUME tester.pc = "level" PROVE Len(fifo0'.store) = 0 /\ ~fifo0'.rRdy
      OBVIOUS
    <3>1. Len(fifo0.store) = 0 /\ ~fifo0.rRdy /\ in = 0
      BY <1>0, <2>1 DEF TestStage
    <3>2. out = 0
      BY <1>3, <3>1 DEF Bit01
    <3>. QED
      BY <1>3, <3>1, <3>2
  <2>5. /\ tester.pc = "taken" => tester.taken = got + 1
        /\ tester.pc = "ended" => got = put
    BY <1>0 DEF TestStage
  <2>. QED
    BY <1>5, <2>1, <2>2, <2>3, <2>4, <2>5 DEF TestStage
<1>. QED
  BY <1>10, <1>12, <1>16, <1>17, <1>18 DEF RegInv
-----------------------------------------------------------------------------
\* A step of the test.  By then the last strobe has done all it does.
LEMMA AllQuiet ==
  ASSUME RegInv, LongApart, apart = Apart
  PROVE  /\ NoWrite /\ NoRead /\ ~Writing /\ ~Reading
         /\ bridge.wRdy => WRdy(fifo0, Places)
         /\ bridge.rRdy <=> fifo0.rRdy
         /\ fifo0.rRdy => bridge.cipo = got + 1
         /\ ~fifo0.rRdy => Len(fifo0.store) = 0 /\ got = put
         /\ fifo0.pushed[1] # 1 /\ fifo0.pushed[2] # 1
<1>0. RegTypes /\ Strobes /\ HeldInOrder /\ Arrival /\ TestStage
  BY DEF RegInv
<1>1. Apart \in Nat /\ 12 <= Apart /\ put \in Nat /\ got \in Nat
      /\ bridge.rRdy \in BOOLEAN /\ fifo0.rRdy \in BOOLEAN
  BY <1>0, FifoTestAssumption DEF LongApart, RegTypes, FifoTypes, FifoOf
<1>2. ~Writing /\ ~Reading
  BY <1>1 DEF Writing, Reading, StrobeAt
<1>3. NoWrite /\ NoRead
  BY <1>0, <1>2 DEF Strobes
<1>4. NextOut = got + 1 /\ LastIn = put
  BY <1>2 DEF NextOut, LastIn
<1>5. /\ fifo0.pushed[1] # 1 /\ fifo0.pushed[2] # 1
      /\ bridge.rRdy <=> fifo0.rRdy
      /\ fifo0.rRdy => bridge.cipo = fifo0.rData
      /\ ~(~fifo0.rRdy /\ Len(fifo0.store) > 0)
  BY <1>0, <1>1 DEF Arrival
<1>6. Len(fifo0.store) \in Nat
  BY <1>0, LenProperties DEF RegTypes, FifoTypes, FifoOf
<1>7. fifo0.rRdy => bridge.cipo = got + 1
  BY <1>0, <1>4, <1>5 DEF HeldInOrder
<1>8. ~fifo0.rRdy => Len(fifo0.store) = 0 /\ got = put
  <2> SUFFICES ASSUME ~fifo0.rRdy PROVE Len(fifo0.store) = 0 /\ got = put
    OBVIOUS
  <2>1. Len(fifo0.store) = 0
    BY <1>5, <1>6
  <2>2. Len(fifo0.store) + 0 + (got + 1) = put + 1
    BY <1>0, <1>4 DEF HeldInOrder, Flag
  <2>. QED
    BY <1>1, <2>1, <2>2
<1>9. bridge.wRdy => WRdy(fifo0, Places)
  BY <1>0, <1>1 DEF Strobes
<1>. QED
  BY <1>2, <1>3, <1>5, <1>7, <1>8, <1>9

\* A transfer that only reads leaves everything but the test as it was.
LEMMA ReadsKeep ==
  ASSUME RegInv, LongApart, Reads
  PROVE  /\ Strobes' /\ HeldInOrder' /\ Arrival' /\ NoWrite' /\ NoRead'
         /\ fifo0' = fifo0 /\ bridge' = bridge /\ put' = put /\ got' = got
         /\ strobes' = strobes /\ apart' \in 0 .. Apart
<1>0. RegTypes /\ Strobes /\ HeldInOrder /\ Arrival /\ TestStage /\ Apart \in Nat /\ 12 <= Apart
  BY FifoTestAssumption DEF RegInv, LongApart
<1>1. /\ apart = Apart /\ apart' = 0 /\ fifo0' = fifo0 /\ bridge' = bridge /\ strobes' = strobes
      /\ put' = put /\ got' = got
  BY DEF Reads, Transfer
<1>2. /\ NoWrite /\ NoRead /\ ~Writing /\ ~Reading
      /\ bridge.rRdy <=> fifo0.rRdy
      /\ ~fifo0.rRdy => Len(fifo0.store) = 0
      /\ fifo0.pushed[1] # 1 /\ fifo0.pushed[2] # 1
  BY <1>1, AllQuiet
<1>3. NoWrite' /\ NoRead'
  BY <1>1, <1>2 DEF NoWrite, NoRead
<1>4. ~Writing' /\ ~Reading'
  BY <1>3 DEF NoWrite, NoRead, NoStrobe, Writing, Reading, StrobeAt
<1>5. Strobes'
  BY <1>0, <1>1, <1>3, <1>4 DEF Strobes
<1>6. NextOut' = NextOut /\ LastIn' = LastIn
  BY <1>1, <1>2, <1>4 DEF NextOut, LastIn
<1>7. HeldInOrder'
  BY <1>0, <1>1, <1>6 DEF HeldInOrder
<1>8. Arrival'
  <2>1. bridge.cipo = fifo0.rData \/ ~fifo0.rRdy
    BY <1>0, <1>1 DEF Arrival
  <2>2. bridge.rRdy = fifo0.rRdy
    BY <1>0, <1>2 DEF RegTypes, FifoTypes, FifoOf
  <2>. QED
    BY <1>1, <1>2, <2>1, <2>2 DEF Arrival
<1>. QED
  BY <1>0, <1>1, <1>3, <1>5, <1>7, <1>8

Testers == [pc : TesterStages, run : Nat, i : Nat, late : BOOLEAN, taken : Nat]

LEMMA AskRoomHolds ==
  ASSUME RegInv, LongApart, AskRoom
  PROVE  RegInv'
<1>0. RegTypes /\ TestStage /\ bridge.wRdy \in BOOLEAN /\ tester \in Testers
  BY DEF RegInv, RegTypes, Testers
<1>1. /\ Strobes' /\ HeldInOrder' /\ Arrival' /\ NoWrite' /\ NoRead'
      /\ fifo0' = fifo0 /\ bridge' = bridge /\ put' = put /\ got' = got
      /\ strobes' = strobes /\ apart' \in 0 .. Apart
  BY ReadsKeep DEF AskRoom
<1>2. bridge.wRdy => WRdy(fifo0, Places)
  BY AllQuiet DEF AskRoom, Reads, Transfer
<1>3. PICK pc : /\ pc = (CASE bridge.wRdy                  -> "write"
                           [] ~bridge.wRdy /\ tester.late -> "aborted"
                           [] OTHER                        -> "writeRdy")
                /\ tester' = [tester EXCEPT !.pc = pc]
  BY DEF AskRoom
<1>4. pc \in {"write", "aborted", "writeRdy"} /\ (pc = "write" => bridge.wRdy)
  BY <1>0, <1>3
<1>5. tester' \in Testers /\ tester'.pc = pc
  BY <1>0, <1>3, <1>4 DEF Testers, TesterStages
<1>6. TestStage'
  BY <1>1, <1>2, <1>4, <1>5 DEF TestStage
<1>7. RegTypes'
  BY <1>0, <1>1, <1>5 DEF RegTypes, Testers
<1>. QED
  BY <1>1, <1>6, <1>7 DEF RegInv

LEMMA AskReadyHolds ==
  ASSUME RegInv, LongApart, AskReady
  PROVE  RegInv'
<1>0. RegTypes /\ TestStage /\ bridge.rRdy \in BOOLEAN /\ tester \in Testers
  BY DEF RegInv, RegTypes, Testers
<1>1. /\ Strobes' /\ HeldInOrder' /\ Arrival' /\ NoWrite' /\ NoRead'
      /\ fifo0' = fifo0 /\ bridge' = bridge /\ put' = put /\ got' = got
      /\ strobes' = strobes /\ apart' \in 0 .. Apart
  BY ReadsKeep DEF AskReady
<1>2. /\ bridge.rRdy <=> fifo0.rRdy
      /\ ~fifo0.rRdy => Len(fifo0.store) = 0
  BY AllQuiet DEF AskReady, Reads, Transfer
<1>3. PICK pc : /\ pc = (CASE bridge.rRdy                  -> "read"
                           [] ~bridge.rRdy /\ tester.late -> "aborted"
                           [] OTHER                        -> "level")
                /\ tester' = [tester EXCEPT !.pc = pc]
  BY DEF AskReady
<1>4. /\ pc \in {"read", "aborted", "level"}
      /\ pc = "read" => fifo0.rRdy
      /\ pc = "level" => ~fifo0.rRdy
  BY <1>0, <1>2, <1>3
<1>5. tester' \in Testers /\ tester'.pc = pc
  BY <1>0, <1>3, <1>4 DEF Testers, TesterStages
<1>6. TestStage'
  BY <1>1, <1>2, <1>4, <1>5 DEF TestStage
<1>7. RegTypes'
  BY <1>0, <1>1, <1>5 DEF RegTypes, Testers
<1>. QED
  BY <1>1, <1>6, <1>7 DEF RegInv

LEMMA AskLevelHolds ==
  ASSUME RegInv, LongApart, AskLevel
  PROVE  RegInv'
<1>0. RegTypes /\ TestStage /\ tester \in Testers
  BY DEF RegInv, RegTypes, Testers
<1>1. /\ Strobes' /\ HeldInOrder' /\ Arrival' /\ NoWrite' /\ NoRead'
      /\ fifo0' = fifo0 /\ bridge' = bridge /\ put' = put /\ got' = got
      /\ strobes' = strobes /\ apart' \in 0 .. Apart
  BY ReadsKeep DEF AskLevel
<1>2. got = put
  <2>1. ~fifo0.rRdy
    BY <1>0 DEF AskLevel, TestStage
  <2>. QED
    BY <2>1, AllQuiet DEF AskLevel, Reads, Transfer
<1>3. PICK pc : /\ pc = (IF bridge.rLevel = 0 THEN "ended" ELSE "readRdy")
                /\ tester' = [tester EXCEPT !.pc = pc]
  BY DEF AskLevel
<1>4. pc \in {"ended", "readRdy"}
  BY <1>3
<1>5. tester' \in Testers /\ tester'.pc = pc
  BY <1>0, <1>3, <1>4 DEF Testers, TesterStages
<1>6. TestStage'
  BY <1>1, <1>2, <1>4, <1>5 DEF TestStage
<1>7. RegTypes'
  BY <1>0, <1>1, <1>5 DEF RegTypes, Testers
<1>. QED
  BY <1>1, <1>6, <1>7 DEF RegInv

LEMMA TakeWordHolds ==
  ASSUME RegInv, LongApart, TakeWord
  PROVE  RegInv'
<1>0. RegTypes /\ TestStage /\ tester \in Testers /\ bridge.cipo \in Nat
  BY DEF RegInv, RegTypes, Testers
<1>1. /\ Strobes' /\ HeldInOrder' /\ Arrival' /\ NoWrite' /\ NoRead'
      /\ fifo0' = fifo0 /\ bridge' = bridge /\ put' = put /\ got' = got
      /\ strobes' = strobes /\ apart' \in 0 .. Apart
  BY ReadsKeep DEF TakeWord
<1>2. fifo0.rRdy
  BY <1>0 DEF TakeWord, TestStage
<1>3. bridge.cipo = got + 1
  BY <1>2, AllQuiet DEF TakeWord, Reads, Transfer
<1>4. tester' = [tester EXCEPT !.pc = "taken", !.taken = bridge.cipo]
  BY DEF TakeWord
<1>5. tester' \in Testers /\ tester'.pc = "taken" /\ tester'.taken = bridge.cipo
  BY <1>0, <1>4 DEF Testers, TesterStages
<1>6. TestStage'
  BY <1>1, <1>2, <1>3, <1>5 DEF TestStage
<1>7. RegTypes'
  BY <1>0, <1>1, <1>5 DEF RegTypes, Testers
<1>. QED
  BY <1>1, <1>6, <1>7 DEF RegInv

\* The transfers that strobe.
LEMMA WriteWordHolds ==
  ASSUME RegInv, LongApart, WriteWord
  PROVE  RegInv'
<1>0. /\ RegTypes /\ Strobes /\ HeldInOrder /\ Arrival /\ TestStage /\ Apart \in Nat /\ 12 <= Apart
      /\ tester \in Testers /\ put \in Nat /\ got \in Nat
  BY FifoTestAssumption DEF RegInv, LongApart, RegTypes, Testers
<1>1. /\ apart = Apart /\ apart' = 0 /\ fifo0' = fifo0 /\ bridge' = bridge
      /\ strobes' = [write |-> 1, read |-> 0] /\ put' = put + 1 /\ got' = got
  BY DEF WriteWord, Transfer
<1>2. /\ NoWrite /\ NoRead /\ ~Writing /\ ~Reading
      /\ bridge.rRdy <=> fifo0.rRdy
      /\ ~fifo0.rRdy => Len(fifo0.store) = 0
      /\ fifo0.pushed[1] # 1 /\ fifo0.pushed[2] # 1
  BY <1>1, AllQuiet
<1>3. NoRead' /\ ~Reading'
  BY <1>1, <1>2 DEF NoRead, NoStrobe, Reading, StrobeAt
<1>4. Writing'
  BY <1>1, <1>2 DEF NoWrite, NoStrobe, Writing, StrobeAt
<1>5. bridge.wRdy /\ WRdy(fifo0, Places)
  BY <1>0 DEF WriteWord, TestStage
<1>6. Strobes'
  BY <1>1, <1>3, <1>4, <1>5 DEF Strobes
<1>7. NextOut' = NextOut /\ LastIn' = LastIn
  BY <1>0, <1>1, <1>2, <1>3, <1>4 DEF NextOut, LastIn
<1>8. HeldInOrder'
  BY <1>0, <1>1, <1>7 DEF HeldInOrder
<1>9. Arrival'
  <2>1. bridge.cipo = fifo0.rData \/ ~fifo0.rRdy
    BY <1>0, <1>1 DEF Arrival
  <2>2. bridge.rRdy = fifo0.rRdy
    BY <1>0, <1>2 DEF RegTypes, FifoTypes, FifoOf
  <2>. QED
    BY <1>1, <1>2, <2>1, <2>2 DEF Arrival
<1>10. PICK pc : pc = Written(tester.i + 1) /\ tester' = [tester EXCEPT !.pc = pc, !.i = @ + 1]
  BY DEF WriteWord
<1>11. pc \in {"readRdy", "writeRdy"}
  BY <1>10 DEF Written
<1>12. tester' \in Testers /\ tester'.pc = pc
  <2>1. PICK i \in Nat : i = tester.i + 1
    BY <1>0 DEF Testers
  <2>2. tester' = [tester EXCEPT !.pc = pc, !.i = i] /\ pc \in TesterStages
    BY <1>10, <1>11, <2>1 DEF TesterStages
  <2>. QED
    BY <1>0, <2>2 DEF Testers
<1>13. TestStage'
  BY <1>11, <1>12 DEF TestStage
<1>14. RegTypes'
  BY <1>0, <1>1, <1>12 DEF RegTypes, Testers, Bit01
<1>. QED
  BY <1>6, <1>8, <1>9, <1>13, <1>14 DEF RegInv

LEMMA StrobeReadHolds ==
  ASSUME RegInv, LongApart, StrobeRead
  PROVE  RegInv'
<1>0. /\ RegTypes /\ Strobes /\ HeldInOrder /\ Arrival /\ TestStage /\ Apart \in Nat /\ 12 <= Apart
      /\ tester \in Testers /\ put \in Nat /\ got \in Nat
  BY FifoTestAssumption DEF RegInv, LongApart, RegTypes, Testers
<1>1. /\ apart = Apart /\ apart' = 0 /\ fifo0' = fifo0 /\ bridge' = bridge
      /\ strobes' = [write |-> 0, read |-> 1] /\ put' = put /\ got' = got + 1
  BY DEF StrobeRead, Transfer
<1>2. /\ NoWrite /\ NoRead /\ ~Writing /\ ~Reading
      /\ bridge.wRdy => WRdy(fifo0, Places)
      /\ bridge.rRdy <=> fifo0.rRdy
      /\ ~fifo0.rRdy => Len(fifo0.store) = 0
      /\ fifo0.pushed[1] # 1 /\ fifo0.pushed[2] # 1
  BY <1>1, AllQuiet
<1>3. NoWrite' /\ ~Writing'
  BY <1>1, <1>2 DEF NoWrite, NoStrobe, Writing, StrobeAt
<1>4. Reading'
  BY <1>1, <1>2 DEF NoRead, NoStrobe, Reading, StrobeAt
<1>5. fifo0.rRdy
  BY <1>0 DEF StrobeRead, TestStage
<1>6. Strobes'
  BY <1>1, <1>3, <1>4, <1>5 DEF Strobes
<1>7. NextOut' = NextOut /\ LastIn' = LastIn
  BY <1>0, <1>1, <1>2, <1>3, <1>4 DEF NextOut, LastIn
<1>8. HeldInOrder'
  BY <1>0, <1>1, <1>7 DEF HeldInOrder
<1>9. Arrival'
  <2>1. bridge.cipo = fifo0.rData \/ ~fifo0.rRdy
    BY <1>0, <1>1 DEF Arrival
  <2>2. bridge.rRdy = fifo0.rRdy
    BY <1>0, <1>2 DEF RegTypes, FifoTypes, FifoOf
  <2>. QED
    BY <1>1, <1>2, <2>1, <2>2 DEF Arrival
<1>10. tester' \in Testers /\ tester'.pc = "readRdy"
  BY <1>0 DEF Testers, TesterStages, StrobeRead
<1>11. TestStage'
  BY <1>10 DEF TestStage
<1>12. RegTypes'
  BY <1>0, <1>1, <1>10 DEF RegTypes, Testers, Bit01
<1>. QED
  BY <1>6, <1>8, <1>9, <1>11, <1>12 DEF RegInv

\* A test starts, or its time passes, at any clock.
LEMMA TestMovesHold ==
  ASSUME RegInv, StartFifoTest \/ TimePasses
  PROVE  RegInv'
<1>0. RegTypes /\ Strobes /\ HeldInOrder /\ Arrival /\ TestStage /\ tester \in Testers
  BY DEF RegInv, RegTypes, Testers
<1>1. UNCHANGED <<fifo0, bridge, strobes, put, got, apart>>
  BY DEF StartFifoTest, TimePasses
<1>2. /\ Writing' <=> Writing
      /\ Reading' <=> Reading
      /\ NoWrite' <=> NoWrite
      /\ NoRead' <=> NoRead
  BY <1>1 DEF Writing, Reading, NoWrite, NoRead
<1>3. NextOut' = NextOut /\ LastIn' = LastIn
  BY <1>1, <1>2 DEF NextOut, LastIn
<1>4. Strobes'
  BY <1>0, <1>1, <1>2 DEF Strobes
<1>5. HeldInOrder'
  BY <1>0, <1>1, <1>3 DEF HeldInOrder
<1>6. Arrival'
  BY <1>0, <1>1 DEF Arrival
<1>7. tester' \in Testers /\ TestStage'
  <2>1. CASE StartFifoTest
    <3>1. PICK pc : /\ pc = (IF FifoTests[tester.run + 1] = 0 THEN "readRdy" ELSE "writeRdy")
                    /\ tester' = [tester EXCEPT !.pc = pc, !.run = @ + 1, !.i = 0, !.late = FALSE]
      BY <2>1 DEF StartFifoTest
    <3>2. pc \in {"readRdy", "writeRdy"}
      BY <3>1
    <3>3. PICK r \in Nat : r = tester.run + 1
      BY <1>0 DEF Testers
    <3>4. /\ tester' = [tester EXCEPT !.pc = pc, !.run = r, !.i = 0, !.late = FALSE]
          /\ pc \in TesterStages
      BY <3>1, <3>2, <3>3 DEF TesterStages
    <3>5. tester' \in Testers /\ tester'.pc = pc
      BY <1>0, <3>4 DEF Testers
    <3>. QED
      BY <3>2, <3>5 DEF TestStage
  <2>2. CASE TimePasses
    <3>1. tester' = [tester EXCEPT !.late = TRUE]
      BY <2>2 DEF TimePasses
    <3>2. tester' \in Testers /\ tester'.pc = tester.pc /\ tester'.taken = tester.taken
      BY <1>0, <3>1 DEF Testers
    <3>. QED
      BY <1>0, <1>1, <1>2, <3>2 DEF TestStage
  <2>. QED
    BY <2>1, <2>2
<1>8. RegTypes'
  BY <1>0, <1>1, <1>7 DEF RegTypes, Testers
<1>. QED
  BY <1>4, <1>5, <1>6, <1>7, <1>8 DEF RegInv

LEMMA FifoTestStep ==
  ASSUME RegInv, LongApart, [FifoTestNext]_fifoTestVars
  PROVE  RegInv'
<1>1. CASE BridgeClock
  BY <1>1, BridgeHolds
<1>2. CASE AskRoom
  BY <1>2, AskRoomHolds
<1>3. CASE WriteWord
  BY <1>3, WriteWordHolds
<1>4. CASE AskReady
  BY <1>4, AskReadyHolds
<1>5. CASE AskLevel
  BY <1>5, AskLevelHolds
<1>6. CASE TakeWord
  BY <1>6, TakeWordHolds
<1>7. CASE StrobeRead
  BY <1>7, StrobeReadHolds
<1>8. CASE StartFifoTest \/ TimePasses
  BY <1>8, TestMovesHold
<1>9. CASE UNCHANGED fifoTestVars
  BY <1>9 DEF fifoTestVars, RegInv, RegTypes, Strobes, HeldInOrder, Arrival, TestStage,
              Writing, Reading, NoWrite, NoRead, NextOut, LastIn
<1>. QED
  BY <1>1, <1>2, <1>3, <1>4, <1>5, <1>6, <1>7, <1>8, <1>9 DEF FifoTestNext, FifoTester

\* For every size of the FIFO and of the tests: a word that was read is the next
\* that was written, and a test that ends because nothing is left has read all,
\* those too that an earlier test left behind (fpga_io_sim.py:141, 164), as long as
\* the strobe of a transfer has done all it does before the next one.  It is the
\* part of FifoReadsBack that is safety.
THEOREM ReadsBackInOrder ==
  LongApart => (FifoTestSpec => []ReadsInOrder /\ []EndsWithAll)
<1> SUFFICES ASSUME LongApart PROVE FifoTestSpec => []ReadsInOrder /\ []EndsWithAll
  OBVIOUS
<1>1. FifoTestInit => RegInv
  BY RegInitHolds
<1>2. RegInv /\ [FifoTestNext]_fifoTestVars => RegInv'
  BY FifoTestStep
<1>3. RegInv => ReadsInOrder /\ EndsWithAll
  BY DEF RegInv, TestStage, ReadsInOrder, EndsWithAll
<1>. QED
  BY <1>1, <1>2, <1>3, PTL DEF FifoTestSpec

-----------------------------------------------------------------------------
(* A timer in a slow clock domain                                          *)

Stops == {"delayStart", "startHigh", "startLow", "waits", "delayEnd", "resetHigh", "resetLow", "ended"}
ProcTypes ==
  /\ proc \in [pc : Stops, left : 0 .. DelayClocks, repeat : Nat, start : {0, 1}, reset : {0, 1}]
  /\ lasted \in Nat /\ rst \in {0, 1}
  /\ proc.pc # "ended" => proc.repeat < Repeats

\* The process has set start, set reset, or neither.
Drives(start, reset) == proc.start = start /\ proc.reset = reset

\* The start and the done that are under way t slow clocks after the strobe, and
\* the timer then.
StartsAt(t) == starts = <<Flags(t = 0), Flags(t = 1), Flags(t = 2), Flags(t = 3)>>
DonesAt(t) ==
  dones = <<Flags(t = TimerLoad + 7), Flags(t = TimerLoad + 6), Flags(t = TimerLoad + 5), Flags(t = TimerLoad + 4)>>
TimerAt(t) ==
  /\ t < 4 => timer = [state |-> "IDLE", counter |-> TimerLoad]
  /\ 4 <= t /\ t < TimerLoad + 3 => timer = [state |-> "RUNNING", counter |-> (TimerLoad + 3) - t]
  /\ t = TimerLoad + 3 => timer = [state |-> "DONE", counter |-> 0]
  /\ t > TimerLoad + 3 => timer.state = "IDLE"
RoundAt(t) == lasted = t /\ StartsAt(t) /\ DonesAt(t) /\ TimerAt(t)

\* Where the domain is at each stop of the process.  After its reset nothing is
\* under way, and it resets the domain for one slow clock.
Clear == starts = NoneSet /\ dones = NoneSet /\ timer.state = "IDLE"
ProcStage ==
  \/ proc.pc = "delayStart" /\ Drives(0, 0) /\ rst = 0 /\ Clear
  \/ proc.pc = "startHigh" /\ Drives(1, 0) /\ rst = 0 /\ Clear
  \/ proc.pc = "startLow" /\ Drives(0, 0) /\ rst = 0 /\ RoundAt(0)
  \/ proc.pc = "waits" /\ Drives(0, 0) /\ rst = 0 /\ \E t \in 1 .. TimerLoad + 7 : RoundAt(t)
  \/ proc.pc = "delayEnd" /\ Drives(0, 0) /\ rst = 0 /\ lasted = TimerLoad + 8
  \/ proc.pc = "resetHigh" /\ Drives(0, 1) /\ rst = 0
  \/ proc.pc = "resetLow" /\ Drives(0, 0) /\ rst = 1
  \/ proc.pc = "ended"

RoundInv == ProcTypes /\ ProcStage

LEMMA TimesOfTest ==
  /\ Divisor \in Nat /\ TimerLoad \in Nat /\ TimerLoad > 1 /\ DelayClocks \in Nat
  /\ Repeats \in Nat /\ 0 < Repeats
BY TimerTestAssumption

LEMMA RoundInitHolds == TimerTestInit => RoundInv
<1> SUFFICES ASSUME TimerTestInit PROVE RoundInv
  OBVIOUS
<1>1. ProcTypes
  BY TimesOfTest DEF TimerTestInit, ProcTypes, Stops
<1>2. ProcStage
  BY DEF TimerTestInit, ProcStage, Drives, Clear
<1>. QED
  BY <1>1, <1>2 DEF RoundInv

\* One slow clock of a round: each register takes what is before it.
LEMMA RoundGoesOn ==
  ASSUME NEW t \in Nat, NEW u \in Nat, u = t + 1, t < TimerLoad + 7, RoundAt(t), lasted' = lasted + 1, rst = 0,
         proc.start = 0, SlowClock
  PROVE  RoundAt(u)'
<1>1. TimerLoad \in Nat /\ TimerLoad > 1
  BY TimesOfTest
<1>2. /\ starts' = <<proc.start, starts[1], starts[2], starts[3]>>
      /\ dones' = <<dones[2], dones[3], dones[4], Flags(timer.state = "DONE")>>
      /\ timer' = Timer
  BY DEF SlowClock
<1>3. StartsAt(u)'
  <2>1. starts[1] = Flags(t = 0) /\ starts[2] = Flags(t = 1) /\ starts[3] = Flags(t = 2)
    BY DEF RoundAt, StartsAt
  <2>2. /\ Flags(u = 0) = 0 /\ Flags(u = 1) = Flags(t = 0) /\ Flags(u = 2) = Flags(t = 1)
        /\ Flags(u = 3) = Flags(t = 2)
    BY DEF Flags
  <2>3. starts' = <<Flags(u = 0), Flags(u = 1), Flags(u = 2), Flags(u = 3)>>
    BY <1>2, <2>1, <2>2
  <2>. QED
    BY <2>3 DEF StartsAt
<1>4. timer.state = "DONE" <=> t = TimerLoad + 3
  BY <1>1 DEF RoundAt, TimerAt
<1>5. DonesAt(u)'
  <2>1. /\ dones[2] = Flags(t = TimerLoad + 6) /\ dones[3] = Flags(t = TimerLoad + 5)
        /\ dones[4] = Flags(t = TimerLoad + 4)
    BY DEF RoundAt, DonesAt
  <2>2. /\ Flags(u = TimerLoad + 7) = Flags(t = TimerLoad + 6)
        /\ Flags(u = TimerLoad + 6) = Flags(t = TimerLoad + 5)
        /\ Flags(u = TimerLoad + 5) = Flags(t = TimerLoad + 4)
        /\ Flags(u = TimerLoad + 4) = Flags(timer.state = "DONE")
    BY <1>1, <1>4 DEF Flags
  <2>3. dones' = <<Flags(u = TimerLoad + 7), Flags(u = TimerLoad + 6), Flags(u = TimerLoad + 5),
                   Flags(u = TimerLoad + 4)>>
    BY <1>2, <2>1, <2>2
  <2>. QED
    BY <2>3 DEF DonesAt
<1>6. TimerAt(u)'
  <2>1. CASE t < 3
    <3>1. timer = [state |-> "IDLE", counter |-> TimerLoad] /\ starts[4] = 0
      BY <1>1, <2>1 DEF RoundAt, StartsAt, TimerAt, Flags
    <3>2. timer' = [state |-> "IDLE", counter |-> TimerLoad]
      BY <1>2, <3>1 DEF Timer
    <3>. QED
      BY <1>1, <2>1, <3>2 DEF TimerAt
  <2>2. CASE t = 3
    <3>1. timer = [state |-> "IDLE", counter |-> TimerLoad] /\ starts[4] = 1
      BY <1>1, <2>2 DEF RoundAt, StartsAt, TimerAt, Flags
    <3>2. timer' = [state |-> "RUNNING", counter |-> TimerLoad - 1]
      BY <1>1, <1>2, <3>1 DEF Timer
    <3>3. u = 4 /\ (TimerLoad + 3) - u = TimerLoad - 1
      BY <1>1, <2>2
    <3>. QED
      BY <1>1, <3>2, <3>3 DEF TimerAt
  <2>3. CASE 4 <= t /\ t < TimerLoad + 3
    <3>1. PICK c \in Nat : c = (TimerLoad + 3) - t /\ 1 <= c
      BY <1>1, <2>3
    <3>2. timer = [state |-> "RUNNING", counter |-> c]
      BY <2>3, <3>1 DEF RoundAt, TimerAt
    <3>3. timer' = [state |-> IF c = 1 THEN "DONE" ELSE "RUNNING", counter |-> c - 1]
      BY <1>2, <3>2 DEF Timer
    <3>4. (c = 1 => u = TimerLoad + 3) /\ (c # 1 => u < TimerLoad + 3) /\ c - 1 = (TimerLoad + 3) - u /\ 4 <= u
      BY <1>1, <2>3, <3>1
    <3>5. CASE c = 1
      BY <1>1, <3>3, <3>4, <3>5 DEF TimerAt
    <3>6. CASE c # 1
      BY <1>1, <3>3, <3>4, <3>6 DEF TimerAt
    <3>. QED
      BY <3>5, <3>6
  <2>4. CASE t = TimerLoad + 3
    <3>1. timer = [state |-> "DONE", counter |-> 0]
      BY <2>4 DEF RoundAt, TimerAt
    <3>2. timer'.state = "IDLE"
      BY <1>2, <3>1 DEF Timer
    <3>. QED
      BY <1>1, <2>4, <3>2 DEF TimerAt
  <2>5. CASE t > TimerLoad + 3
    <3>1. timer.state = "IDLE" /\ starts[4] = 0
      BY <1>1, <2>5 DEF RoundAt, StartsAt, TimerAt, Flags
    <3>2. timer'.state = "IDLE"
      BY <1>2, <3>1 DEF Timer
    <3>. QED
      BY <1>1, <2>5, <3>2 DEF TimerAt
  <2>. QED
    BY <1>1, <2>1, <2>2, <2>3, <2>4, <2>5
<1>7. lasted' = u
  BY DEF RoundAt
<1>. QED
  BY <1>3, <1>5, <1>6, <1>7 DEF RoundAt

\* Nothing is under way and nothing is started: it stays so.  What the strobe starts
\* is the beginning of a round.
LEMMA ClearGoesOn ==
  ASSUME Clear, rst = 0, SlowClock
  PROVE  /\ proc.start = 0 => Clear'
         /\ proc.start = 1 => StartsAt(0)' /\ DonesAt(0)' /\ TimerAt(0)'
<1>1. TimerLoad \in Nat /\ TimerLoad > 1
  BY TimesOfTest
<1>2. /\ starts' = <<proc.start, 0, 0, 0>> /\ dones' = NoneSet
      /\ timer' = [state |-> "IDLE", counter |-> TimerLoad]
  BY DEF SlowClock, Clear, Timer, NoneSet, Flags
<1>3. ASSUME proc.start = 1 PROVE StartsAt(0)' /\ DonesAt(0)' /\ TimerAt(0)'
  <2>1. Flags(0 = 0) = 1 /\ Flags(0 = 1) = 0 /\ Flags(0 = 2) = 0 /\ Flags(0 = 3) = 0
    BY DEF Flags
  <2>2. /\ Flags(0 = TimerLoad + 7) = 0 /\ Flags(0 = TimerLoad + 6) = 0
        /\ Flags(0 = TimerLoad + 5) = 0 /\ Flags(0 = TimerLoad + 4) = 0
    BY <1>1 DEF Flags
  <2>3. StartsAt(0)'
    BY <1>2, <1>3, <2>1 DEF StartsAt
  <2>4. DonesAt(0)'
    BY <1>2, <2>2 DEF DonesAt, NoneSet
  <2>5. TimerAt(0)'
    BY <1>1, <1>2 DEF TimerAt
  <2>. QED
    BY <2>3, <2>4, <2>5
<1>. QED
  BY <1>2, <1>3 DEF Clear, NoneSet

LEMMA TickClockHolds == ASSUME RoundInv, TickClock PROVE RoundInv'
<1>1. ProcTypes /\ ProcStage /\ SlowClock /\ proc' = AtTick
  BY DEF RoundInv, TickClock
<1>2. ProcTypes'
  <2>1. proc' \in [pc : Stops, left : 0 .. DelayClocks, repeat : Nat, start : {0, 1}, reset : {0, 1}]
    <3>1. \/ proc' = proc
          \/ proc' = [proc EXCEPT !.pc = "startLow", !.start = 0]
          \/ proc' = [proc EXCEPT !.pc = "waits"]
          \/ proc' = [proc EXCEPT !.pc = "delayEnd", !.left = DelayClocks]
          \/ proc' = [proc EXCEPT !.pc = "resetLow", !.reset = 0]
          \/ proc' = [proc EXCEPT !.pc = "delayStart", !.left = DelayClocks, !.repeat = @ + 1]
          \/ proc' = [proc EXCEPT !.pc = "ended", !.repeat = @ + 1, !.reset = 1]
      BY <1>1 DEF AtTick
    <3>2. DelayClocks \in 0 .. DelayClocks
      BY TimesOfTest
    <3>3. PICK r \in Nat : r = proc.repeat + 1
      BY <1>1 DEF ProcTypes
    <3>. QED
      BY <1>1, <3>1, <3>2, <3>3 DEF ProcTypes, Stops
  <2>2. rst' \in {0, 1}
    BY <1>1 DEF SlowClock, NextRst, ProcTypes
  <2>3. lasted' \in Nat
    BY <1>1 DEF TickClock, ProcTypes
  <2>4. proc'.pc # "ended" => proc'.repeat < Repeats
    BY <1>1, TimesOfTest DEF AtTick, ProcTypes
  <2>. QED
    BY <2>1, <2>2, <2>3, <2>4 DEF ProcTypes
<1>3. rst' = NextRst
  BY <1>1 DEF SlowClock
<1>4. CASE proc.pc = "delayStart"
  <2>1. proc' = proc
    BY <1>1, <1>4 DEF AtTick
  <2>2. Drives(0, 0) /\ rst = 0 /\ Clear
    BY <1>1, <1>4 DEF ProcStage
  <2>3. Clear' /\ rst' = 0
    BY <1>1, <1>3, <2>2, ClearGoesOn DEF NextRst, Drives
  <2>. QED
    BY <1>2, <1>4, <2>1, <2>2, <2>3 DEF RoundInv, ProcStage, Drives
<1>5. CASE proc.pc = "startHigh"
  <2>1. proc'.pc = "startLow" /\ proc'.start = 0 /\ proc'.reset = proc.reset
    BY <1>1, <1>5 DEF AtTick, ProcTypes
  <2>2. Drives(1, 0) /\ rst = 0 /\ Clear
    BY <1>1, <1>5 DEF ProcStage
  <2>3. StartsAt(0)' /\ DonesAt(0)' /\ TimerAt(0)' /\ rst' = 0
    BY <1>1, <1>3, <2>2, ClearGoesOn DEF NextRst, Drives
  <2>4. lasted' = 0
    BY <1>5 DEF TickClock
  <2>5. RoundAt(0)'
    BY <2>3, <2>4 DEF RoundAt
  <2>. QED
    BY <1>2, <2>1, <2>2, <2>3, <2>5 DEF RoundInv, ProcStage, Drives
<1>6. CASE proc.pc \in {"startLow", "waits"}
  <2>1. PICK t \in 0 .. TimerLoad + 7 : RoundAt(t) /\ (proc.pc = "startLow" => t = 0)
    BY <1>1, <1>6, TimesOfTest DEF ProcStage
  <2>2. Drives(0, 0) /\ rst = 0
    BY <1>1, <1>6 DEF ProcStage
  <2>3. rst' = 0
    BY <1>3, <2>2 DEF NextRst, Drives
  <2>4. t \in Nat /\ TimerLoad \in Nat /\ lasted = t
    BY <2>1, TimesOfTest DEF RoundAt
  <2>5. lasted' = lasted + 1
    BY <1>6, <2>1, <2>4 DEF TickClock
  <2>6. dones[1] = 1 <=> t = TimerLoad + 7
    BY <2>1 DEF RoundAt, DonesAt, Flags
  <2>7. PICK u \in Nat : u = t + 1
    BY <2>4
  <2>8. CASE t < TimerLoad + 7
    <3>1. RoundAt(u)'
      BY <1>1, <2>1, <2>2, <2>4, <2>5, <2>7, <2>8, RoundGoesOn DEF Drives
    <3>2. proc'.pc = "waits" /\ proc'.start = proc.start /\ proc'.reset = proc.reset
      BY <1>1, <1>6, <2>4, <2>6, <2>8 DEF AtTick, ProcTypes
    <3>3. u \in 1 .. TimerLoad + 7
      BY <2>4, <2>7, <2>8
    <3>. QED
      BY <1>2, <2>2, <2>3, <3>1, <3>2, <3>3 DEF RoundInv, ProcStage, Drives
  <2>9. CASE t = TimerLoad + 7
    <3>1. proc.pc = "waits" /\ dones[1] = 1
      BY <1>6, <2>1, <2>4, <2>6, <2>9
    <3>2. proc'.pc = "delayEnd" /\ proc'.start = proc.start /\ proc'.reset = proc.reset
      BY <1>1, <3>1 DEF AtTick, ProcTypes
    <3>3. lasted' = TimerLoad + 8
      BY <2>4, <2>5, <2>9
    <3>. QED
      BY <1>2, <2>2, <2>3, <3>2, <3>3 DEF RoundInv, ProcStage, Drives
  <2>. QED
    BY <2>1, <2>4, <2>8, <2>9
<1>7. CASE proc.pc = "delayEnd"
  <2>1. proc' = proc /\ lasted' = lasted
    BY <1>1, <1>7 DEF AtTick, TickClock
  <2>2. Drives(0, 0) /\ rst = 0 /\ lasted = TimerLoad + 8
    BY <1>1, <1>7 DEF ProcStage
  <2>3. rst' = 0
    BY <1>3, <2>2 DEF NextRst, Drives
  <2>. QED
    BY <1>2, <1>7, <2>1, <2>2, <2>3 DEF RoundInv, ProcStage, Drives
<1>8. CASE proc.pc = "resetHigh"
  <2>1. proc'.pc = "resetLow" /\ proc'.start = proc.start /\ proc'.reset = 0
    BY <1>1, <1>8 DEF AtTick, ProcTypes
  <2>2. Drives(0, 1) /\ rst = 0
    BY <1>1, <1>8 DEF ProcStage
  <2>3. rst' = 1
    BY <1>3, <2>2 DEF NextRst, Drives
  <2>. QED
    BY <1>2, <2>1, <2>2, <2>3 DEF RoundInv, ProcStage, Drives
<1>9. CASE proc.pc = "resetLow"
  <2>1. Drives(0, 0) /\ rst = 1
    BY <1>1, <1>9 DEF ProcStage
  <2>2. Clear' /\ rst' = 0
    BY <1>1, <1>3, <2>1 DEF SlowClock, NextRst, Clear
  <2>3. CASE proc.repeat + 1 < Repeats
    <3>1. proc'.pc = "delayStart" /\ proc'.start = proc.start /\ proc'.reset = proc.reset
      BY <1>1, <1>9, <2>3 DEF AtTick, ProcTypes
    <3>. QED
      BY <1>2, <2>1, <2>2, <3>1 DEF RoundInv, ProcStage, Drives
  <2>4. CASE proc.repeat + 1 = Repeats
    <3>1. proc'.pc = "ended"
      <4>1. proc.pc = "resetLow" /\ ~(proc.repeat + 1 < Repeats)
        BY <1>1, <1>9, <2>4, TimesOfTest DEF ProcTypes
      <4>2. proc' = [proc EXCEPT !.pc = "ended", !.repeat = @ + 1, !.reset = 1]
        BY <1>1, <2>4, <4>1 DEF AtTick
      <4>. QED
        BY <1>1, <4>2 DEF ProcTypes
    <3>. QED
      BY <1>2, <3>1 DEF RoundInv, ProcStage
  <2>. QED
    BY <1>1, <1>9, <2>3, <2>4, TimesOfTest DEF ProcTypes
<1>10. CASE proc.pc = "ended"
  <2>1. proc'.pc = "ended"
    BY <1>1, <1>10 DEF AtTick
  <2>. QED
    BY <1>2, <2>1 DEF RoundInv, ProcStage
<1>. QED
  BY <1>1, <1>4, <1>5, <1>6, <1>7, <1>8, <1>9, <1>10 DEF ProcStage

\* Between two slow clocks only the delays go on.
LEMMA IdleClockHolds == ASSUME RoundInv, IdleClock PROVE RoundInv'
<1>1. ProcTypes /\ ProcStage /\ proc' = Delaying(proc)
  BY DEF RoundInv, IdleClock
<1>2. rst' = rst /\ starts' = starts /\ dones' = dones /\ timer' = timer /\ lasted' = lasted
  BY DEF IdleClock
<1>3. CASE proc' = proc
  BY <1>1, <1>2, <1>3 DEF RoundInv, ProcTypes, ProcStage, Drives, Clear, RoundAt, StartsAt, DonesAt, TimerAt
<1>4. CASE proc.pc \in {"delayStart", "delayEnd"} /\ proc.left > 0 /\ proc' = [proc EXCEPT !.left = @ - 1]
  <2>1. PICK n \in 0 .. DelayClocks : n = proc.left - 1
    BY <1>1, <1>4, TimesOfTest DEF ProcTypes
  <2>2. proc' = [proc EXCEPT !.left = n]
    BY <1>4, <2>1
  <2>3. ProcTypes'
    BY <1>1, <1>2, <2>2 DEF ProcTypes
  <2>4. proc'.pc = proc.pc /\ proc'.start = proc.start /\ proc'.reset = proc.reset
    BY <1>1, <2>2 DEF ProcTypes
  <2>5. ProcStage'
    BY <1>1, <1>2, <1>4, <2>4 DEF ProcStage, Drives, Clear
  <2>. QED
    BY <2>3, <2>5 DEF RoundInv
<1>5. CASE proc.pc = "delayStart" /\ proc' = [proc EXCEPT !.pc = "startHigh", !.start = 1]
  <2>1. ProcTypes'
    BY <1>1, <1>2, <1>5 DEF ProcTypes, Stops
  <2>2. proc'.pc = "startHigh" /\ proc'.start = 1 /\ proc'.reset = proc.reset
    BY <1>1, <1>5 DEF ProcTypes
  <2>3. Drives(0, 0) /\ rst = 0 /\ Clear
    BY <1>1, <1>5 DEF ProcStage
  <2>4. ProcStage'
    BY <1>2, <2>2, <2>3 DEF ProcStage, Drives, Clear
  <2>. QED
    BY <2>1, <2>4 DEF RoundInv
<1>6. CASE proc.pc = "delayEnd" /\ proc' = [proc EXCEPT !.pc = "resetHigh", !.reset = 1]
  <2>1. ProcTypes'
    BY <1>1, <1>2, <1>6 DEF ProcTypes, Stops
  <2>2. proc'.pc = "resetHigh" /\ proc'.start = proc.start /\ proc'.reset = 1
    BY <1>1, <1>6 DEF ProcTypes
  <2>3. Drives(0, 0) /\ rst = 0
    BY <1>1, <1>6 DEF ProcStage
  <2>4. ProcStage'
    BY <1>2, <2>2, <2>3 DEF ProcStage, Drives
  <2>. QED
    BY <2>1, <2>4 DEF RoundInv
<1>7. \/ proc' = proc
      \/ proc.pc \in {"delayStart", "delayEnd"} /\ proc.left > 0 /\ proc' = [proc EXCEPT !.left = @ - 1]
      \/ proc.pc = "delayStart" /\ proc' = [proc EXCEPT !.pc = "startHigh", !.start = 1]
      \/ proc.pc = "delayEnd" /\ proc' = [proc EXCEPT !.pc = "resetHigh", !.reset = 1]
  BY <1>1 DEF Delaying
<1>. QED
  BY <1>3, <1>4, <1>5, <1>6, <1>7

\* Each round of timer_test (test1_amlib_timers.py:207) takes as long as every other, the
\* clocks of its timer and of eight registers: the reset of the domain leaves nothing
\* of the round before, for every divisor, load, delay and number of rounds.
THEOREM RoundsAreAsLong == TimerTestSpec => []RoundsAsLong
<1>1. RoundInv /\ [TimerTestNext]_timerTestVars => RoundInv'
  <2> SUFFICES ASSUME RoundInv, [TimerTestNext]_timerTestVars PROVE RoundInv'
    OBVIOUS
  <2>1. CASE UNCHANGED timerTestVars
    BY <2>1 DEF timerTestVars, RoundInv, ProcTypes, ProcStage, Drives, Clear, RoundAt, StartsAt, DonesAt, TimerAt
  <2>. QED
    BY <2>1, TickClockHolds, IdleClockHolds DEF TimerTestNext
<1>2. RoundInv => RoundsAsLong
  BY DEF RoundInv, ProcStage, RoundsAsLong
<1>. QED
  BY <1>1, <1>2, RoundInitHolds, PTL DEF TimerTestSpec

-----------------------------------------------------------------------------
(* The parts together                                                      *)

\* A step is a step of one part, and the others stay as they are.
LEMMA PartsStep ==
  ASSUME [MCNext]_allVars
  PROVE  /\ [Next]_vars /\ [IlaNext]_ilaVars /\ [FifoBufferNext]_bufferVars
         /\ [MemoryNext]_memoryVars
BY DEF MCNext, allVars, OnDelayer, OnAnalyser, OnFifo, OnBuffer, OnTimers, OnTest, OnMemory

PartsInv == DelayerInv /\ IlaInv /\ FifoBufferTypeOK /\ MemoryInv
Slow == LongGap /\ LongCommand /\ ClearEdges

LEMMA PartsInvariant == Fits /\ WholeTests /\ Slow => (MCSpec => []PartsInv)
<1> SUFFICES ASSUME Fits, WholeTests, Slow PROVE MCSpec => []PartsInv
  OBVIOUS
<1>1. ASSUME MCInit PROVE PartsInv
  BY <1>1, InitHolds, IlaInitHolds, BufferInit, MemoryInitHolds DEF MCInit, PartsInv, Slow
<1>2. ASSUME PartsInv, [MCNext]_allVars PROVE PartsInv'
  <2>1. DelayerInv' /\ IlaInv' /\ FifoBufferTypeOK' /\ MemoryInv'
    BY <1>2, PartsStep, StepHolds, IlaStep, BufferStep, MemoryStep DEF PartsInv, Slow
  <2>. QED
    BY <2>1 DEF PartsInv
<1>. QED
  BY <1>1, <1>2, PTL DEF MCSpec

\* The words that are read from an analyser are its latest capture, whole and in
\* order, of the analyser with a FIFO and of the one with a memory, for all sizes.
THEOREM CapturesRead == Fits /\ WholeTests /\ Slow => (MCSpec => []CapturesAreRead)
<1> SUFFICES ASSUME Fits, WholeTests, Slow PROVE MCSpec => []CapturesAreRead
  OBVIOUS
<1>1. PartsInv => CapturesAreRead
  BY InOrderFollows, CaptureFollows DEF PartsInv, CapturesAreRead
<1>. QED
  BY <1>1, PartsInvariant, PTL

\* Every register of the analysers, of the timer of the delays and of the buffer stays
\* within its width, and the FIFO of the analyser never holds more than a capture and
\* a word.
THEOREM GatewareTypes ==
  Fits /\ WholeTests /\ Slow /\ TwoNumbers => (MCSpec => []GatewareTypeOK)
<1> SUFFICES ASSUME Fits, WholeTests, Slow, TwoNumbers PROVE MCSpec => []GatewareTypeOK
  OBVIOUS
<1>1. MCInit => MemoryRange
  BY MemoryAssumption DEF MCInit, MemoryInit, MemoryRange
<1>2. PartsInv /\ MemoryRange /\ [MCNext]_allVars => MemoryRange'
  BY PartsStep, RangeStep DEF PartsInv
<1>3. PartsInv /\ MemoryRange => GatewareTypeOK
  BY DelayerTypesFollow, TypesFollow, MemoryTypesFollow DEF PartsInv, GatewareTypeOK
<1>. QED
  BY <1>1, <1>2, <1>3, PartsInvariant, PTL DEF MCSpec
=============================================================================
