------------------------------- MODULE Timers -------------------------------
(***************************************************************************)
(* Three timers the formal tests are about; each is a part of its own.     *)
(*   Clocky (test4_formal_verification.py): counts to ClockyTop, can be    *)
(*     loaded and reset; the asserts of the test are operators here.       *)
(*   RefreshTimer (test5_formal_verification_2.py): a pulse each Trefi     *)
(*     clocks, as long as wait is set.                                     *)
(*   Delayer (test6_formal_verification_timer.py), with a Testbench that   *)
(*     waits twice in a row with the one counter: each call of             *)
(*     delay_for_time adds a delay_fsm of its own to the state that waits. *)
(*     It is elaborated for a test id that none of the file's tests has.   *)
(* A step is a clock.                                                      *)
(***************************************************************************)
EXTENDS Integers

CONSTANTS
  ClockyTop, ClockyWidth,   \* 100, 7
  Trefi,                    \* clocks of a period
  FirstWait, SecondWait     \* clocks that START and START2 ask for

ASSUME TimersAssumption ==
  /\ ClockyTop \in Nat /\ ClockyWidth \in Nat /\ ClockyTop < 2 ^ ClockyWidth
  /\ Trefi \in Nat /\ Trefi >= 2
  /\ {FirstWait, SecondWait} \subseteq Nat \ {0}

VARIABLES
  x, asked,           \* of Clocky; its inputs in the clock before
  count, pulse,       \* of RefreshTimer: its done is pulse here
  waited,             \* history: clocks of wait since the period began
  twice               \* Testbench and Delayer

timersVars == <<x, asked, count, pulse, waited, twice>>

ClockyInit  == x = 0 /\ asked = [rst |-> 0, load |-> 0, value |-> 0]
RefreshInit == count = Trefi - 1 /\ pulse = 0 /\ waited = 0
TwiceInit ==
  twice = [fsm |-> "INITIAL", delay1 |-> "INIT", delay2 |-> "INIT", load |-> 0, uiLoad |-> 0,
           countdown |-> 0, uiDone |-> 0, done |-> 0, elapsed |-> 0]
TimersInit == ClockyInit /\ RefreshInit /\ TwiceInit

-----------------------------------------------------------------------------
\* Faulty variant of Loaded: any value the register can hold.
LoadedAny(value) == value
Loaded(value) == IF value <= ClockyTop THEN value ELSE ClockyTop

ClockyReset == x' = 0 /\ asked' = [rst |-> 1, load |-> 0, value |-> 0]
ClockyLoad ==
  \E value \in 0 .. 2 ^ ClockyWidth - 1 :
    x' = Loaded(value) /\ asked' = [rst |-> 0, load |-> 1, value |-> value]
ClockyCount ==
  /\ x' = IF x = ClockyTop THEN 0 ELSE (x + 1) % 2 ^ ClockyWidth
  /\ asked' = [rst |-> 0, load |-> 0, value |-> 0]
ClockyNext ==
  (ClockyReset \/ ClockyLoad \/ ClockyCount) /\ UNCHANGED <<count, pulse, waited, twice>>

\* What test4 asserts in each clock of the one before, in which Past(x) was x.
that_clock_increments == x' > 0 /\ asked'.load = 0 => x' = (x + 1) % 2 ^ ClockyWidth
that_rollover_occurs == x' = 0 /\ asked'.rst = 0 /\ asked'.load = 0 => x = ClockyTop
that_load_works ==
  asked'.rst = 0 /\ asked'.load = 1
    => x' = IF asked'.value <= ClockyTop THEN asked'.value ELSE ClockyTop
expected_behavior ==
  /\ asked'.rst = 1 => x' = 0
  /\ asked'.rst = 0 /\ asked'.load = 0 /\ x < ClockyTop => x' = x + 1
  /\ asked'.rst = 0 /\ asked'.load = 0 /\ x = ClockyTop => x' = 0

-----------------------------------------------------------------------------
\* Faulty variant of Reload: done stays.
ReloadOnly == count' = Trefi - 1 /\ waited' = 0 /\ UNCHANGED pulse
Reload == count' = Trefi - 1 /\ waited' = 0 /\ pulse' = 0
CountDown ==
  /\ count # 0
  /\ count' = count - 1 /\ waited' = waited + 1
  /\ pulse' = IF count = 1 THEN 1 ELSE pulse

\* wait is set, or it is not.
RefreshTick == (IF count # 0 THEN CountDown ELSE Reload) /\ UNCHANGED <<x, asked, twice>>
RefreshIdle == Reload /\ UNCHANGED <<x, asked, twice>>
RefreshNext == RefreshTick \/ RefreshIdle

-----------------------------------------------------------------------------
DelayOf(state) == IF state = "START" THEN FirstWait ELSE SecondWait
Advance(fsm) == IF fsm = "INIT" THEN "LOADED" ELSE "DONE"

\* Faulty variant of SecondFsm: one delay_fsm for both calls.
SecondFsmShared == twice.delay1
SecondFsm == twice.delay2

\* What the state that waits loads, once.
LoadNow ==
  IF (twice.fsm = "START" /\ twice.delay1 = "INIT") \/ (twice.fsm = "START2" /\ SecondFsm = "INIT")
  THEN DelayOf(twice.fsm) ELSE 0

\* Faulty variant of AtOne: as long as it is at its end.
AtOneOrZero(n) == IF n <= 1 THEN 1 ELSE 0
AtOne(n) == IF n = 1 THEN 1 ELSE 0

Late == FirstWait + SecondWait + 5   \* where elapsed stops

NextState ==
  IF twice.fsm = "INITIAL" THEN "START"
  ELSE IF twice.fsm = "START" /\ twice.done = 1 THEN "START2"
  ELSE IF twice.fsm = "START2" /\ twice.done = 1 THEN "DONE" ELSE twice.fsm

TwiceNext ==
  /\ twice' =
       [fsm       |-> NextState,
        delay1    |-> IF twice.fsm = "START" THEN Advance(twice.delay1) ELSE twice.delay1,
        delay2    |-> IF twice.fsm = "START2" THEN Advance(twice.delay2) ELSE twice.delay2,
        load      |-> LoadNow,
        uiLoad    |-> twice.load,
        countdown |-> IF twice.uiLoad # 0 THEN twice.uiLoad
                      ELSE IF twice.countdown > 0 THEN twice.countdown - 1 ELSE 0,
        uiDone    |-> AtOne(twice.countdown),
        done      |-> twice.uiDone,
        elapsed   |-> IF NextState # twice.fsm THEN 0
                      ELSE IF twice.fsm \in {"START", "START2"} /\ twice.elapsed < Late
                      THEN twice.elapsed + 1 ELSE twice.elapsed]
  /\ UNCHANGED <<x, asked, count, pulse, waited>>

TimersNext == ClockyNext \/ RefreshNext \/ TwiceNext
TimersSpec == TimersInit /\ [][TimersNext]_timersVars /\ WF_timersVars(TwiceNext)

-----------------------------------------------------------------------------
\* Clocky never counts past its top, where it would run to the width of its
\* register, whatever it is loaded with (test4_formal_verification.py:38).
NeverPastTop == x \in 0 .. ClockyTop

\* The pulse is there just when the whole period has passed with wait set, also
\* when wait goes in the clock of the pulse (test5_formal_verification_2.py:65
\* asserts the first half).
PulseAtTheEnd == (pulse = 1 <=> count = 0) /\ (pulse = 1 <=> waited = Trefi - 1)

\* The asserts of test4 hold in every clock but the first, which has no past.
AssertsHold ==
  [][ that_clock_increments /\ that_rollover_occurs /\ that_load_works /\ expected_behavior ]_<<x, asked>>

\* The counters at their limits, what two of the formal tests are for.
AtTheirLimits == AssertsHold /\ [](NeverPastTop /\ PulseAtTheEnd)

\* Neither wait ends by the other's count, or early or late: what lies between the
\* state and the counter makes each last four clocks more, and the one in which
\* it ends (test6_formal_verification_timer.py:232, 236).
WaitsExact ==
  [][ twice.fsm \in {"START", "START2"} /\ twice'.fsm # twice.fsm
      => twice.elapsed = DelayOf(twice.fsm) + 4 ]_twice

\* And both do end: the counter is loaded again for the second (line 94).
WaitsInTurn == WaitsExact /\ (twice.fsm = "START" ~> twice.fsm = "DONE")
=============================================================================
