---------------------------- MODULE ToolsProofs ----------------------------
(***************************************************************************)
(* What surrounds the gateware: the tools that build it and write it, the  *)
(* search for the dividers of its PLL, the simulation of what it is to     *)
(* control, and the transfers over SPI that reach its registers.           *)
(***************************************************************************)
EXTENDS MCTools, LinkLayersProofs

-----------------------------------------------------------------------------
(* The monitor of refreshes, for every length of a refresh, every gain and *)
(* every limit of its counter.                                             *)


\* While it waits, the refresh it waits for is the last command that came, and the
\* helper has counted no more clocks than have passed.  Until the alarm there is
\* something left in the counter.
MonitorInv ==
  /\ MonitorTypeOK
  /\ ~alarm => counter > 0
  /\ ref > 0 => command.is = "REF" /\ command.clks + 1 >= ref

LEMMA LongerIsLater ==
  ASSUME NEW n \in 0 .. Limit
  PROVE  /\ Longer(n) \in 0 .. Limit
         /\ n < Limit => Longer(n) = n + 1
         /\ n >= Limit => Longer(n) = Limit
BY RefreshMonitorAssumption DEF Longer, Limit

LEMMA MonitorInitHolds == MonitorInit => MonitorInv
<1> SUFFICES ASSUME MonitorInit PROVE MonitorInv
  OBVIOUS
<1> USE RefreshMonitorAssumption
<1>1. Limit \in Nat /\ counter \in 0 .. CounterMax + PerRefresh /\ counter > 0
  BY DEF MonitorInit, Limit
<1>2. ref = 0 /\ ref \in 0 .. Limit /\ late \in 0 .. Limit
  BY <1>1 DEF MonitorInit
<1>3. command \in [is : {"NOP", "REF", "OTHER"}, clks : 0 .. Limit]
  BY <1>1 DEF MonitorInit
<1>4. alarm \in BOOLEAN
  BY DEF MonitorInit
<1>5. ~(ref > 0)
  BY <1>2
<1>. QED
  BY <1>1, <1>2, <1>3, <1>4, <1>5, Zenon DEF MonitorInv, MonitorTypeOK

\* What a clock leaves of the last command.
LEMMA CommandStep ==
  ASSUME MonitorInv, NEW c \in {"NOP", "REF", "OTHER"}, ChipClock(c)
  PROVE  /\ command' \in [is : {"NOP", "REF", "OTHER"}, clks : 0 .. Limit]
         /\ late' \in 0 .. Limit
         /\ c = "NOP" => command'.is = command.is /\ command'.clks = Longer(command.clks)
         /\ c # "NOP" => command'.is = c /\ command'.clks = 0
<1> USE RefreshMonitorAssumption
<1>1. Limit \in Nat
  BY DEF Limit
<1>2. command \in [is : {"NOP", "REF", "OTHER"}, clks : 0 .. Limit] /\ late \in 0 .. Limit
  BY DEF MonitorInv, MonitorTypeOK
<1>3. Longer(command.clks) \in 0 .. Limit /\ Longer(late) \in 0 .. Limit
  BY <1>2, LongerIsLater
<1>4. late' \in 0 .. Limit
  BY <1>1, <1>3 DEF ChipClock
<1>5. CASE c = "NOP"
  <2>1. command' = [command EXCEPT !.clks = Longer(command.clks)]
    BY <1>5 DEF ChipClock
  <2>. QED
    BY <1>2, <1>3, <1>4, <1>5, <2>1
<1>6. CASE c # "NOP"
  BY <1>1, <1>4, <1>6 DEF ChipClock
<1>. QED
  BY <1>5, <1>6

\* The monitor takes one from the counter, or adds to it for a whole refresh.
LEMMA LeaksStep ==
  ASSUME MonitorInv, NEW c \in {"NOP", "REF", "OTHER"}, ChipClock(c), Leaks(c)
  PROVE  /\ MonitorInv'
         /\ counter' > counter => command.is = "REF" /\ command'.clks = 0
                                    /\ command.clks + 1 >= RefreshTime
<1> USE RefreshMonitorAssumption
<1>1. counter \in 1 .. CounterMax + PerRefresh /\ Limit \in Nat
  BY DEF ChipClock, MonitorInv, MonitorTypeOK, Limit
<1>2. counter' \in 0 .. CounterMax + PerRefresh /\ (~alarm' => counter' > 0) /\ alarm' \in BOOLEAN
  <2>1. counter' = NextCounter(c) /\ NextCounter(c) \in 0 .. CounterMax + PerRefresh
    BY <1>1 DEF Leaks, NextCounter
  <2>2. alarm' \in BOOLEAN /\ (alarm' <=> counter' <= 0)
    BY <2>1 DEF Leaks
  <2>3. ~(counter' <= 0) => counter' > 0
    BY <2>1
  <2>. QED
    BY <2>1, <2>2, <2>3, Zenon
<1>3. MonitorInv'
  BY <1>1, <1>2, CommandStep DEF Leaks, MonitorInv, MonitorTypeOK, Limit
<1>4. ASSUME counter' > counter
      PROVE  command.is = "REF" /\ command'.clks = 0 /\ command.clks + 1 >= RefreshTime
  <2>1. ref > 0 /\ ref >= RefreshTime /\ c # "NOP"
    BY <1>1, <1>4 DEF Leaks, NextCounter, WholeRefresh, GoesOn
  <2>. QED
    BY <2>1, CommandStep DEF MonitorInv, MonitorTypeOK
<1>. QED
  BY <1>3, <1>4

\* It waits: from the clock of the refresh itself, and on with every NOP.
LEMMA WaitsStep ==
  ASSUME MonitorInv, NEW c \in {"NOP", "REF", "OTHER"}, ChipClock(c), WaitsForIdle(c)
  PROVE  MonitorInv' /\ counter' = counter
<1> USE RefreshMonitorAssumption
<1>1. ref \in 0 .. Limit /\ command.clks \in 0 .. Limit /\ Limit \in Nat \ {0}
  BY DEF MonitorInv, MonitorTypeOK, Limit
<1>2. ref' \in 0 .. Limit /\ counter' = counter /\ alarm' = alarm
  BY <1>1, LongerIsLater DEF WaitsForIdle
<1>3. ref' > 0 => command'.is = "REF" /\ command'.clks + 1 >= ref'
  <2>1. CASE ref > 0
    <3>1. c = "NOP" /\ command.is = "REF" /\ command.clks + 1 >= ref
      BY <2>1 DEF WaitsForIdle, GoesOn, MonitorInv
    <3>2. ref' = Longer(ref) /\ command'.clks = Longer(command.clks) /\ command'.is = "REF"
      BY <3>1, CommandStep DEF WaitsForIdle
    <3>3. Longer(command.clks) + 1 >= Longer(ref)
      BY <1>1, <3>1 DEF Longer
    <3>. QED
      BY <3>2, <3>3
  <2>2. CASE ref = 0
    <3>1. c = "REF" /\ ref' = 1
      BY <1>1, <2>2 DEF WaitsForIdle, GoesOn, Longer
    <3>. QED
      BY <3>1, CommandStep
  <2>. QED
    BY <1>1, <2>1, <2>2
<1>. QED
  BY <1>2, <1>3, CommandStep DEF MonitorInv, MonitorTypeOK, Limit

LEMMA MonitorStep ==
  ASSUME MonitorInv, [MonitorNext]_monitorVars
  PROVE  /\ MonitorInv'
         /\ \/ UNCHANGED monitorVars
            \/ counter' > counter => command.is = "REF" /\ command'.clks = 0
                                       /\ command.clks + 1 >= RefreshTime
<1>1. CASE UNCHANGED monitorVars
  BY <1>1 DEF monitorVars, MonitorInv, MonitorTypeOK, Limit
<1>2. ASSUME NEW c \in {"NOP", "REF", "OTHER"}, ChipClock(c), Leaks(c)
      PROVE  MonitorInv' /\ (counter' > counter
               => command.is = "REF" /\ command'.clks = 0 /\ command.clks + 1 >= RefreshTime)
  BY <1>2, LeaksStep
<1>3. ASSUME NEW c \in {"NOP", "REF", "OTHER"}, ChipClock(c), WaitsForIdle(c)
      PROVE  MonitorInv' /\ ~(counter' > counter)
  <2>1. MonitorInv' /\ counter' = counter
    BY <1>3, WaitsStep
  <2>2. counter \in Int
    BY DEF MonitorInv, MonitorTypeOK
  <2>. QED
    BY <2>1, <2>2
<1>4. CASE MonitorNext
  BY <1>2, <1>3, <1>4 DEF MonitorNext, ChipClock
<1>. QED
  BY <1>1, <1>4

\* The monitor's variables have their types, and its counter is used up only with
\* an alarm (test1_simulation.py:672).
THEOREM MonitorTypes == MonitorSpec => [](MonitorTypeOK /\ (counter = 0 => alarm))
<1>1. MonitorInv /\ [MonitorNext]_monitorVars => MonitorInv'
  BY MonitorStep
<1>2. MonitorInv => MonitorTypeOK /\ (counter = 0 => alarm)
  BY DEF MonitorInv, MonitorTypeOK
<1>. QED
  BY <1>1, <1>2, MonitorInitHolds, PTL DEF MonitorSpec

\* However long a refresh takes, no refresh that was cut short raises the counter
\* (test1_simulation.py:143).
THEOREM WholeRefreshesOnly == MonitorSpec => OnlyWholeRefreshes
<1>1. MonitorInv /\ [MonitorNext]_monitorVars => MonitorInv'
  BY MonitorStep
<1>2. MonitorInv /\ [MonitorNext]_monitorVars
        => [counter' > counter => command.is = "REF" /\ command'.clks = 0
                                    /\ command.clks + 1 >= RefreshTime]_monitorVars
  BY MonitorStep
<1>. QED
  BY <1>1, <1>2, MonitorInitHolds, PTL DEF MonitorSpec, OnlyWholeRefreshes

-----------------------------------------------------------------------------
(* The search for the dividers of the PLL, for all clocks and ranges       *)

\* A set of numbers up to some bound has a largest one.
LEMMA LargestIs ==
  ASSUME NEW b \in Nat, NEW S, S \subseteq 1 .. b, S # {}
  PROVE  Largest(S) \in S
<1> DEFINE T == {b - d : d \in S}
           R == {p \in Nat \X Nat : p[1] < p[2]}
<1>1. IsWellFoundedOn(R, Nat)
  BY NatLessThanWellFounded DEF OpToRel
<1>2. T \subseteq Nat
  OBVIOUS
<1>3. T # {}
  <2>1. PICK d \in S : TRUE
    OBVIOUS
  <2>2. b - d \in T
    OBVIOUS
  <2>. QED
    BY <2>2
<1>4. PICK m \in T : \A n \in T : ~(<<n, m>> \in R)
  <2> HIDE DEF R, T
  <2>. QED
    BY <1>1, <1>2, <1>3, WFMin
<1>5. PICK d \in S : m = b - d
  BY <1>4
<1>6. ASSUME NEW e \in S PROVE e <= d
  <2>1. ~(b - e < m)
    BY <1>2, <1>4
  <2>. QED
    BY <1>5, <2>1
<1>. QED
  BY <1>6 DEF Largest

\* What a divider in the margin makes of two frequencies is within 1 %.
LEMMA MarginIs ==
  ASSUME NEW made \in Nat, NEW sought \in Nat, 100 * Distance(made, sought) <= sought
  PROVE  99 * sought <= 100 * made /\ 100 * made <= 101 * sought
BY DEF Distance

\* The pair it is at, and what it has found: when the search is over, that is
\* what the last pair makes, for every output.
PllInv ==
  /\ clkin_freq \in ClkIns \cup {0} /\ clkouts \in Seq(Freqs) /\ Len(clkouts) <= MaxOuts
  /\ pll \in [at : {"clkin", "clkouts", "searching", "locked", "error"},
              clki : 1 .. DivMax, clkfb : 1 .. DivMax, div : Seq(0 .. DivMax)]
  /\ Len(pll.div) = Len(clkouts)
  /\ pll.at = "locked" =>
       /\ InVcoRange /\ found.clki = pll.clki /\ found.clkfb = pll.clkfb
       /\ \A n \in DOMAIN clkouts : found.div[n] \in Divs(n)

LEMMA PllInitHolds == PllInit => PllInv
<1> SUFFICES ASSUME PllInit PROVE PllInv
  OBVIOUS
<1>1. 1 \in 1 .. DivMax /\ Len(<<>>) <= MaxOuts
  BY PllConfigAssumption
<1>2. <<>> \in Seq(Freqs) /\ <<>> \in Seq(0 .. DivMax)
  BY EmptySeq
<1>. QED
  BY <1>1, <1>2 DEF PllInit, PllInv

LEMMA register_clkinHolds ==
  ASSUME PllInv, register_clkin
  PROVE  PllInv'
<1>1. pll.at = "clkin" /\ UNCHANGED <<clkouts, found>>
  BY DEF register_clkin
<1>2. clkin_freq' \in ClkIns \cup {0}
  BY DEF register_clkin, PllInv
<1>3. pll' = [pll EXCEPT !.at = "clkouts"] \/ pll' = [pll EXCEPT !.at = "error"]
  BY DEF register_clkin
<1>. QED
  BY <1>1, <1>2, <1>3 DEF PllInv

LEMMA create_clkoutHolds ==
  ASSUME PllInv, create_clkout
  PROVE  PllInv'
<1>1. /\ pll.at = "clkouts" /\ UNCHANGED <<clkin_freq, found>>
      /\ \E f \in Freqs :
           \/ /\ f \in ClkoMin .. ClkoMax /\ Len(clkouts) < MaxOuts
              /\ clkouts' = Append(clkouts, f)
              /\ pll' = [pll EXCEPT !.div = Append(@, 0)]
           \/ pll' = [pll EXCEPT !.at = "error"] /\ UNCHANGED clkouts
  BY DEF create_clkout
<1>2. ASSUME NEW f \in Freqs, Len(clkouts) < MaxOuts, clkouts' = Append(clkouts, f),
             pll' = [pll EXCEPT !.div = Append(@, 0)]
      PROVE  PllInv'
  <2> DEFINE d == Append(pll.div, 0)
  <2>1. /\ pll.div \in Seq(0 .. DivMax) /\ clkouts \in Seq(Freqs) /\ Len(pll.div) = Len(clkouts)
        /\ Len(clkouts) \in Nat /\ 0 \in 0 .. DivMax
    BY LenProperties, PllConfigAssumption DEF PllInv
  <2>2. d \in Seq(0 .. DivMax) /\ Len(d) = Len(pll.div) + 1
    BY <2>1, AppendProperties
  <2>3. clkouts' \in Seq(Freqs) /\ Len(clkouts') = Len(clkouts) + 1
    BY <1>2, <2>1, AppendProperties
  <2> HIDE DEF d
  <2>4. pll' = [pll EXCEPT !.div = d]
    BY <1>2 DEF d
  <2>5. /\ pll' \in [at : {"clkin", "clkouts", "searching", "locked", "error"},
                     clki : 1 .. DivMax, clkfb : 1 .. DivMax, div : Seq(0 .. DivMax)]
        /\ pll'.at = pll.at /\ pll'.div = d
    BY <2>2, <2>4 DEF PllInv
  <2>6. Len(clkouts') <= MaxOuts
    BY <1>2, <2>1, <2>3, PllConfigAssumption
  <2>7. Len(pll'.div) = Len(clkouts')
    BY <2>1, <2>2, <2>3, <2>5
  <2>8. clkin_freq' \in ClkIns \cup {0} /\ pll'.at # "locked"
    BY <1>1, <2>5 DEF PllInv
  <2>. QED
    BY <2>3, <2>5, <2>6, <2>7, <2>8 DEF PllInv
<1>3. CASE pll' = [pll EXCEPT !.at = "error"] /\ UNCHANGED clkouts
  BY <1>1, <1>3 DEF PllInv
<1>. QED
  BY <1>1, <1>2, <1>3

LEMMA elaborateHolds ==
  ASSUME PllInv, elaborate
  PROVE  PllInv'
BY DEF elaborate, PllInv

\* A pair, tried with every output.
LEMMA TryPairHolds ==
  ASSUME PllInv, TryPair
  PROVE  PllInv'
<1> DEFINE divs == [n \in DOMAIN clkouts |-> Found(n)]
<1>0. /\ pll.at = "searching" /\ UNCHANGED <<clkin_freq, clkouts>>
      /\ \/ /\ InVcoRange /\ AllValid
            /\ found' = [clki |-> pll.clki, clkfb |-> pll.clkfb, div |-> divs]
            /\ pll' = [pll EXCEPT !.at = "locked", !.div = divs]
         \/ /\ InVcoRange /\ ~AllValid
            /\ pll' = [NextPair EXCEPT !.div = divs] /\ UNCHANGED found
         \/ /\ ~InVcoRange
            /\ pll' = NextPair /\ UNCHANGED found
  BY DEF TryPair
<1>1. DivMax \in Nat \ {0} /\ MaxOuts \in Nat
  BY PllConfigAssumption
<1>2. DOMAIN clkouts = 1 .. Len(clkouts) /\ Len(clkouts) \in Nat /\ pll.div \in Seq(0 .. DivMax)
  BY LenProperties DEF PllInv
<1>3. \A n \in DOMAIN clkouts : Divs(n) # {} => Found(n) \in Divs(n)
  <2> TAKE n \in DOMAIN clkouts
  <2>1. Divs(n) \subseteq 1 .. DivMax
    BY DEF Divs
  <2>. QED
    BY <1>1, <2>1, LargestIs DEF Found
<1>4. \A n \in DOMAIN clkouts : Found(n) \in 0 .. DivMax
  <2> TAKE n \in DOMAIN clkouts
  <2>1. CASE Divs(n) # {}
    <3>1. Divs(n) \subseteq 1 .. DivMax
      BY DEF Divs
    <3>. QED
      BY <1>1, <1>3, <2>1, <3>1
  <2>2. CASE Divs(n) = {}
    <3>1. n \in 1 .. Len(pll.div)
      BY <1>2 DEF PllInv
    <3>. QED
      BY <1>2, <2>2, <3>1, ElementOfSeq DEF Found
  <2>. QED
    BY <2>1, <2>2
<1>5. divs \in Seq(0 .. DivMax) /\ Len(divs) = Len(clkouts)
  <2>1. divs \in [1 .. Len(clkouts) -> 0 .. DivMax]
    BY <1>2, <1>4
  <2> HIDE DEF divs
  <2>2. divs \in Seq(0 .. DivMax)
    BY <1>2, <2>1, SeqDef
  <2>3. DOMAIN divs = 1 .. Len(clkouts) /\ DOMAIN divs = 1 .. Len(divs) /\ Len(divs) \in Nat
    BY <2>1, <2>2, LenProperties
  <2>. QED
    BY <1>2, <2>2, <2>3
<1> DEFINE Pll == [at : {"clkin", "clkouts", "searching", "locked", "error"},
                   clki : 1 .. DivMax, clkfb : 1 .. DivMax, div : Seq(0 .. DivMax)]
<1>6. pll \in Pll
  BY DEF PllInv
<1>7. NextPair \in Pll /\ NextPair.div = pll.div /\ NextPair.at \in {"searching", "error"}
  <2> HIDE DEF divs
  <2>1. /\ pll.clki \in 1 .. DivMax /\ pll.clkfb \in 1 .. DivMax /\ pll.at = "searching"
        /\ pll.div \in Seq(0 .. DivMax)
    BY <1>0, <1>6
  <2>2. CASE pll.clkfb < DivMax
    <3>1. NextPair = [pll EXCEPT !.clkfb = @ + 1]
      BY <2>2 DEF NextPair
    <3>2. pll.clkfb + 1 \in 1 .. DivMax
      BY <1>1, <2>1, <2>2
    <3>. QED
      BY <1>6, <2>1, <3>1, <3>2
  <2>3. CASE ~(pll.clkfb < DivMax) /\ pll.clki < DivMax
    <3>1. NextPair = [pll EXCEPT !.clki = @ + 1, !.clkfb = 1]
      BY <2>3 DEF NextPair
    <3>2. pll.clki + 1 \in 1 .. DivMax /\ 1 \in 1 .. DivMax
      BY <1>1, <2>1, <2>3
    <3>. QED
      BY <1>6, <2>1, <3>1, <3>2
  <2>4. CASE ~(pll.clkfb < DivMax) /\ ~(pll.clki < DivMax)
    <3>1. NextPair = [pll EXCEPT !.at = "error"]
      BY <2>4 DEF NextPair
    <3>. QED
      BY <1>6, <2>1, <3>1
  <2>. QED
    BY <2>2, <2>3, <2>4
<1>8. /\ \A n \in DOMAIN clkouts : divs[n] = Found(n)
      /\ clkin_freq' \in ClkIns \cup {0} /\ clkouts' \in Seq(Freqs) /\ Len(clkouts') <= MaxOuts
      /\ Len(pll.div) = Len(clkouts)
  BY <1>0 DEF PllInv
<1> HIDE DEF divs
<1>9. CASE /\ InVcoRange /\ AllValid
           /\ found' = [clki |-> pll.clki, clkfb |-> pll.clkfb, div |-> divs]
           /\ pll' = [pll EXCEPT !.at = "locked", !.div = divs]
  <2>1. pll' \in Pll /\ pll'.div = divs /\ pll'.clki = pll.clki /\ pll'.clkfb = pll.clkfb
    BY <1>5, <1>6, <1>9
  <2>2. found'.clki = pll.clki /\ found'.clkfb = pll.clkfb /\ found'.div = divs
    BY <1>9
  <2>3. InVcoRange'
    BY <1>0, <1>9, <2>1 DEF InVcoRange
  <2>4. \A n \in DOMAIN clkouts : Divs(n) # {}
    BY <1>9 DEF AllValid
  <2>5. \A n : Divs(n)' = Divs(n)
    BY <1>0, <2>1 DEF Divs, InMargin
  <2>6. \A n \in DOMAIN clkouts : found'.div[n] \in Divs(n)'
    BY <1>3, <1>8, <2>2, <2>4, <2>5
  <2>7. Len(pll'.div) = Len(clkouts')
    BY <1>0, <1>5, <2>1
  <2> HIDE DEF Pll
  <2>. QED
    BY <1>0, <1>8, <2>1, <2>2, <2>3, <2>6, <2>7 DEF PllInv, Pll
<1>10. CASE /\ InVcoRange /\ ~AllValid
            /\ pll' = [NextPair EXCEPT !.div = divs] /\ UNCHANGED found
  <2>1. pll' \in Pll /\ pll'.div = divs /\ pll'.at # "locked"
    BY <1>5, <1>7, <1>10
  <2>2. Len(pll'.div) = Len(clkouts')
    BY <1>0, <1>5, <2>1
  <2>. QED
    BY <1>8, <2>1, <2>2 DEF PllInv
<1>11. CASE ~InVcoRange /\ pll' = NextPair /\ UNCHANGED found
  <2>1. Len(pll'.div) = Len(clkouts')
    BY <1>0, <1>7, <1>8, <1>11
  <2>. QED
    BY <1>7, <1>8, <1>11, <2>1 DEF PllInv
<1>. QED
  BY <1>0, <1>9, <1>10, <1>11

LEMMA PllInvariance == PllSpec => []PllInv
<1>1. PllInv /\ [PllNext]_pllVars => PllInv'
  <2> SUFFICES ASSUME PllInv, [PllNext]_pllVars PROVE PllInv'
    OBVIOUS
  <2>1. CASE UNCHANGED pllVars
    BY <2>1 DEF pllVars, PllInv, InVcoRange, Divs, InMargin
  <2>. QED
    BY <2>1, register_clkinHolds, create_clkoutHolds, elaborateHolds, TryPairHolds DEF PllNext
<1>. QED
  BY <1>1, PllInitHolds, PTL DEF PllSpec

\* The search stays within its ranges, and knows one divider for each output.
THEOREM PllTypes == PllSpec => []PllTypeOK
<1>1. PllInv => PllTypeOK
  BY DEF PllInv, PllTypeOK
<1>. QED
  BY <1>1, PllInvariance, PTL

\* Whatever is asked for, and however many pairs were tried before: the dividers
\* returned fit the pair returned, for every output (ECP5PLL.py:86-97).
THEOREM DividersFit == PllSpec => []LockFits
<1>1. PllInv => LockFits
  <2> SUFFICES ASSUME PllInv, pll.at = "locked"
               PROVE  /\ clkin_freq * found.clkfb \in VcoMin * found.clki .. VcoMax * found.clki
                      /\ \A n \in DOMAIN clkouts :
                           LET sought == clkouts[n] * found.div[n] * found.clki
                               made == clkin_freq * found.clkfb
                           IN 99 * sought <= 100 * made /\ 100 * made <= 101 * sought
    BY DEF LockFits
  <2>1. /\ found.clki = pll.clki /\ found.clkfb = pll.clkfb /\ InVcoRange
        /\ \A n \in DOMAIN clkouts : found.div[n] \in Divs(n)
    BY DEF PllInv
  <2>2. /\ clkin_freq \in Nat /\ found.clki \in Nat /\ found.clkfb \in Nat
        /\ VcoMin \in Nat /\ VcoMax \in Nat
    BY <2>1, PllConfigAssumption DEF PllInv
  <2> DEFINE made == clkin_freq * found.clkfb
  <2>3. made \in Nat /\ VcoMin * found.clki \in Nat /\ VcoMax * found.clki \in Nat
    BY <2>2
  <2>4. VcoMin * found.clki <= made /\ made <= VcoMax * found.clki
    BY <2>1 DEF InVcoRange
  <2>5. ASSUME NEW n \in DOMAIN clkouts
        PROVE  LET sought == clkouts[n] * found.div[n] * found.clki
               IN 99 * sought <= 100 * made /\ 100 * made <= 101 * sought
    <3> DEFINE sought == clkouts[n] * found.div[n] * found.clki
    <3>1. clkouts[n] \in Nat
      <4>1. clkouts \in Seq(Freqs) /\ n \in 1 .. Len(clkouts)
        BY LenProperties DEF PllInv
      <4>. QED
        BY <4>1, ElementOfSeq, PllConfigAssumption
    <3>2. found.div[n] \in Nat /\ InMargin(found.div[n], n)
      BY <2>1 DEF Divs
    <3>3. sought \in Nat
      BY <2>2, <3>1, <3>2
    <3>4. 100 * Distance(made, sought) <= sought
      BY <2>1, <3>2 DEF InMargin
    <3> HIDE DEF sought, made
    <3>5. 99 * sought <= 100 * made /\ 100 * made <= 101 * sought
      BY <2>3, <3>3, <3>4, MarginIs
    <3>. QED
      BY <3>5 DEF sought
  <2> HIDE DEF made
  <2>6. made \in VcoMin * found.clki .. VcoMax * found.clki
    BY <2>3, <2>4
  <2>. QED
    BY <2>5, <2>6 DEF made
<1>. QED
  BY <1>1, PllInvariance, PTL
-----------------------------------------------------------------------------
(* The tasks, whatever the user edits while they run, whichever command    *)
(* fails, and whatever failed before.                                      *)

\* A task stands before command number k: it has left that one and what follows.
ToRun(name, k) == SubSeq(Commands[name], k, Len(Commands[name]))
At(name, k) == task = [name |-> name, left |-> ToRun(name, k)]
Erased == [firmware |-> Missing, source |-> Missing, common |-> Missing]

\* What the commands before have made is there, and what a task sends does not
\* change while it runs: the container has its own copy of the sources.
MadeReady(name, k) ==
  /\ name = "upload" /\ k >= 4 => unnoticed \/ box.made["bitstream"] = box.sources
  /\ name = "upload" /\ k >= 5 => host.made = box.made
  /\ name = "simulate" /\ k >= 4 => unnoticed \/ box.made["waves"] = box.sources
  /\ name = "generate" /\ k >= 4 => unnoticed \/ box.made["generated"] = box.sources
  /\ name = "update" /\ k >= 4 => unnoticed \/ mcu.source = box.sources
  /\ name = "update" /\ k >= 5 => unnoticed \/ mcu.common = box.sources
  /\ name = "reflash" /\ k >= 6 => mcu = Erased

BuildInv ==
  /\ BuildTypeOK
  /\ \/ task = NoTask
     \/ \E name \in DOMAIN Commands : \E k \in 1 .. Len(Commands[name]) :
          At(name, k) /\ MadeReady(name, k)

Finished(name) == task.name = name /\ task' = NoTask /\ says' = "done"
DoneWell ==
  /\ Finished("upload") => fpga' # Missing /\ fpga' = host'.made["bitstream"]
  /\ Finished("upload") /\ ~unnoticed' => fpga' = box.sources
  /\ Finished("simulate") /\ ~unnoticed' => host'.made["waves"] = box.sources
  /\ Finished("generate") /\ ~unnoticed' => host'.made["generated"] = box.sources
  /\ Finished("update") /\ ~unnoticed' => mcu'.source = box.sources /\ mcu'.common = box.sources
  /\ Finished("reflash") => mcu' = [firmware |-> 0, source |-> Missing, common |-> Missing]

Words ==
  {"rsync_to", "venv", "build", "rsync_from", "write", "write_passthru", "simulate", "generate",
   "have_binary", "port", "communicate", "erase", "flash", "copy_source", "copy_common", "repl"}

LEMMA CommandsAre ==
  /\ \A name \in DOMAIN Commands :
       Commands[name] \in Seq(Words) /\ Len(Commands[name]) \in Nat \ {0} /\ name # "none"
  /\ Len(Commands["upload"]) = 5 /\ Len(Commands["simulate"]) = 4 /\ Len(Commands["reflash"]) = 6
  /\ Len(Commands["generate"]) = 4 /\ Len(Commands["update"]) = 5
  /\ \A k \in 1 .. 5 : /\ k >= 3 => Commands["upload"][k] \in {"build", "rsync_from", "write"}
                       /\ Commands["upload"][k] = "build" <=> k = 3
                       /\ Commands["upload"][k] = "rsync_from" <=> k = 4
                       /\ Commands["upload"][k] = "write" <=> k = 5
  /\ \A k \in 1 .. 4 : /\ k >= 3 => Commands["simulate"][k] \in {"simulate", "rsync_from"}
                       /\ Commands["simulate"][k] = "simulate" <=> k = 3
                       /\ Commands["simulate"][k] = "rsync_from" <=> k = 4
  /\ \A k \in 1 .. 6 : /\ k >= 5 => Commands["reflash"][k] \in {"erase", "flash"}
                       /\ Commands["reflash"][k] = "erase" <=> k = 5
                       /\ Commands["reflash"][k] = "flash" <=> k = 6
  /\ \A k \in 1 .. 4 : /\ k >= 3 => Commands["generate"][k] \in {"generate", "rsync_from"}
                       /\ Commands["generate"][k] = "generate" <=> k = 3
                       /\ Commands["generate"][k] = "rsync_from" <=> k = 4
  /\ \A k \in 1 .. 5 : /\ k >= 3 => Commands["update"][k] \in {"copy_source", "copy_common", "repl"}
                       /\ Commands["update"][k] = "copy_source" <=> k = 3
                       /\ Commands["update"][k] = "copy_common" <=> k = 4
                       /\ Commands["update"][k] = "repl" <=> k = 5
<1>1. \A name \in DOMAIN Commands : Commands[name] \in Seq(Words) /\ name # "none"
  <2>1. DOMAIN Commands =
          {"upload", "passthru", "simulate", "generate", "reflash", "update", "repl"}
    BY DEF Commands
  <2>2. Commands["upload"] \in Seq(Words)
    <3>1. Commands["upload"] = <<"rsync_to", "venv", "build", "rsync_from", "write">>
      BY DEF Commands
    <3>. QED
      BY <3>1 DEF Words
  <2>3. Commands["passthru"] \in Seq(Words)
    <3>1. Commands["passthru"] = <<"rsync_to", "write_passthru">>
      BY DEF Commands
    <3>. QED
      BY <3>1 DEF Words
  <2>4. Commands["simulate"] \in Seq(Words)
    <3>1. Commands["simulate"] = <<"rsync_to", "venv", "simulate", "rsync_from">>
      BY DEF Commands
    <3>. QED
      BY <3>1 DEF Words
  <2>5. Commands["generate"] \in Seq(Words)
    <3>1. Commands["generate"] = <<"rsync_to", "venv", "generate", "rsync_from">>
      BY DEF Commands
    <3>. QED
      BY <3>1 DEF Words
  <2>6. Commands["reflash"] \in Seq(Words)
    <3>1. Commands["reflash"] = <<"have_binary", "port", "communicate", "rsync_to", "erase", "flash">>
      BY DEF Commands
    <3>. QED
      BY <3>1 DEF Words
  <2>7. Commands["update"] \in Seq(Words)
    <3>1. Commands["update"] = <<"port", "rsync_to", "copy_source", "copy_common", "repl">>
      BY DEF Commands
    <3>. QED
      BY <3>1 DEF Words
  <2>8. Commands["repl"] \in Seq(Words)
    <3>1. Commands["repl"] = <<"port", "repl">>
      BY DEF Commands
    <3>. QED
      BY <3>1 DEF Words
  <2>. QED
    BY <2>1, <2>2, <2>3, <2>4, <2>5, <2>6, <2>7, <2>8
<1>2. \A name \in DOMAIN Commands : Len(Commands[name]) \in Nat \ {0}
  BY DEF Commands
<1>3. Commands["upload"] = <<"rsync_to", "venv", "build", "rsync_from", "write">>
  BY DEF Commands
<1>4. Commands["simulate"] = <<"rsync_to", "venv", "simulate", "rsync_from">>
  BY DEF Commands
<1>5. Commands["reflash"] = <<"have_binary", "port", "communicate", "rsync_to", "erase", "flash">>
  BY DEF Commands
<1>13. Commands["generate"] = <<"rsync_to", "venv", "generate", "rsync_from">>
  BY DEF Commands
<1>14. Commands["update"] = <<"port", "rsync_to", "copy_source", "copy_common", "repl">>
  BY DEF Commands
<1>6. \A k \in 1 .. 5 : k = 1 \/ k = 2 \/ k = 3 \/ k = 4 \/ k = 5
  OBVIOUS
<1>7. \A k \in 1 .. 4 : k = 1 \/ k = 2 \/ k = 3 \/ k = 4
  OBVIOUS
<1>8. \A k \in 1 .. 6 : k = 1 \/ k = 2 \/ k = 3 \/ k = 4 \/ k = 5 \/ k = 6
  OBVIOUS
<1>9. Len(Commands["upload"]) = 5 /\ Len(Commands["simulate"]) = 4 /\ Len(Commands["reflash"]) = 6
      /\ Len(Commands["generate"]) = 4 /\ Len(Commands["update"]) = 5
  BY <1>3, <1>4, <1>5, <1>13, <1>14
<1>10. \A k \in 1 .. 5 : /\ k >= 3 => Commands["upload"][k] \in {"build", "rsync_from", "write"}
                         /\ Commands["upload"][k] = "build" <=> k = 3
                         /\ Commands["upload"][k] = "rsync_from" <=> k = 4
                         /\ Commands["upload"][k] = "write" <=> k = 5
  BY <1>3, <1>6
<1>11. \A k \in 1 .. 4 : /\ k >= 3 => Commands["simulate"][k] \in {"simulate", "rsync_from"}
                         /\ Commands["simulate"][k] = "simulate" <=> k = 3
                         /\ Commands["simulate"][k] = "rsync_from" <=> k = 4
  BY <1>4, <1>7
<1>12. \A k \in 1 .. 6 : /\ k >= 5 => Commands["reflash"][k] \in {"erase", "flash"}
                         /\ Commands["reflash"][k] = "erase" <=> k = 5
                         /\ Commands["reflash"][k] = "flash" <=> k = 6
  BY <1>5, <1>8
<1>15. \A k \in 1 .. 4 : /\ k >= 3 => Commands["generate"][k] \in {"generate", "rsync_from"}
                         /\ Commands["generate"][k] = "generate" <=> k = 3
                         /\ Commands["generate"][k] = "rsync_from" <=> k = 4
  BY <1>7, <1>13
<1>16. \A k \in 1 .. 5 : /\ k >= 3 => Commands["update"][k] \in {"copy_source", "copy_common", "repl"}
                         /\ Commands["update"][k] = "copy_source" <=> k = 3
                         /\ Commands["update"][k] = "copy_common" <=> k = 4
                         /\ Commands["update"][k] = "repl" <=> k = 5
  BY <1>6, <1>14
<1>. QED
  BY <1>1, <1>2, <1>9, <1>10, <1>11, <1>12, <1>15, <1>16

\* A task that has not ended runs the command it stands before, and a command that
\* passed is behind it.
LEMMA CommandPasses ==
  ASSUME NEW name \in DOMAIN Commands, NEW k \in 1 .. Len(Commands[name]), At(name, k)
  PROVE  /\ task # NoTask /\ task.name = name
         /\ \A c : Runs(c) <=> c = Commands[name][k]
         /\ Continued => \/ k = Len(Commands[name]) /\ task' = NoTask /\ says' = "done"
                         \/ /\ k + 1 \in 1 .. Len(Commands[name])
                            /\ At(name, k + 1)' /\ says' = says
<1> DEFINE cs == Commands[name]
           left == ToRun(name, k)
<1>1. cs \in Seq(Words) /\ Len(cs) \in Nat \ {0} /\ name # "none"
  BY CommandsAre
<1>2. task.name = name /\ task.left = left /\ task = [name |-> name, left |-> left]
  BY DEF At
<1>3. /\ left \in Seq(Words) /\ Len(left) = Len(cs) - k + 1
      /\ \A i \in 1 .. Len(cs) - k + 1 : left[i] = cs[k + i - 1]
  <2>1. left = SubSeq(cs, k, Len(cs))
    BY DEF ToRun
  <2> HIDE DEF cs, left
  <2>2. k \in 1 .. Len(cs) + 1 /\ Len(cs) \in k - 1 .. Len(cs)
    BY <1>1 DEF cs
  <2>. QED
    BY <1>1, <2>1, <2>2, SubSeqProperties
<1>4. left # <<>> /\ Head(left) = cs[k] /\ Len(left) \in Nat \ {0}
  <2> HIDE DEF left, cs
  <2>1. k \in 1 .. Len(cs)
    BY DEF cs
  <2>2. Len(left) \in Nat \ {0} /\ 1 \in 1 .. Len(cs) - k + 1
    BY <1>1, <1>3, <2>1
  <2>3. left[1] = cs[k]
    BY <1>1, <1>3, <2>1, <2>2
  <2>. QED
    BY <1>3, <2>2, <2>3
<1>5. Len(cs) # k => Tail(left) = ToRun(name, k + 1) /\ k + 1 \in 1 .. Len(cs)
  <2> SUFFICES ASSUME Len(cs) # k PROVE Tail(left) = ToRun(name, k + 1) /\ k + 1 \in 1 .. Len(cs)
    OBVIOUS
  <2> DEFINE tail == ToRun(name, k + 1)
  <2>0. tail = SubSeq(cs, k + 1, Len(cs))
    BY DEF ToRun
  <2> HIDE DEF tail, left, cs
  <2>1. k \in 1 .. Len(cs) /\ k + 1 \in 1 .. Len(cs) + 1 /\ Len(cs) \in k + 1 - 1 .. Len(cs)
        /\ k + 1 \in 1 .. Len(cs)
    BY <1>1 DEF cs
  <2>2. /\ tail \in Seq(Words) /\ Len(tail) = Len(cs) - (k + 1) + 1
        /\ \A i \in 1 .. Len(cs) - (k + 1) + 1 : tail[i] = cs[k + 1 + i - 1]
    BY <1>1, <2>0, <2>1, SubSeqProperties
  <2>3. /\ Tail(left) \in Seq(Words) /\ Len(Tail(left)) = Len(left) - 1
        /\ \A i \in 1 .. Len(Tail(left)) : Tail(left)[i] = left[i + 1]
    BY <1>3, <1>4, HeadTailProperties
  <2>4. Len(Tail(left)) = Len(tail)
    <3> DEFINE m == Len(cs)
    <3>1. m \in Nat /\ k \in 1 .. m
      BY <1>1, <2>1
    <3> DEFINE a == Len(left)
               b == Len(tail)
    <3>2. a = m - k + 1 /\ b = m - (k + 1) + 1
      BY <1>3, <2>2
    <3>3. Len(Tail(left)) = a - 1
      BY <2>3
    <3> HIDE DEF m, a, b
    <3>4. b = a - 1
      BY <3>1, <3>2
    <3>. QED
      BY <3>3, <3>4 DEF b
  <2>5. \A i \in 1 .. Len(tail) : Tail(left)[i] = tail[i]
    <3> TAKE i \in 1 .. Len(tail)
    <3>1. i \in 1 .. Len(cs) - (k + 1) + 1 /\ i + 1 \in 1 .. Len(cs) - k + 1 /\ k + (i + 1) - 1 = k + 1 + i - 1
      BY <1>1, <2>1, <2>2
    <3>. QED
      BY <1>3, <2>2, <2>3, <2>4, <3>1
  <2>6. Tail(left) = tail
    BY <2>2, <2>3, <2>4, <2>5, SeqEqual
  <2>. QED
    BY <2>1, <2>6 DEF tail
<1> HIDE DEF left
<1>6. task # NoTask
  BY <1>1, <1>2 DEF NoTask
<1>7. \A c : Runs(c) <=> c = cs[k]
  BY <1>2, <1>4 DEF Runs
<1>8. ASSUME Continued, Len(cs) = k
      PROVE  task' = NoTask /\ says' = "done"
  <2>1. Len(task.left) = 1
    BY <1>1, <1>2, <1>3, <1>8
  <2>. QED
    BY <1>8, <2>1 DEF Continued
<1>9. ASSUME Continued, Len(cs) # k
      PROVE  k + 1 \in 1 .. Len(cs) /\ At(name, k + 1)' /\ says' = says
  <2>1. Len(task.left) # 1
    <3> HIDE DEF cs
    <3>. QED
      BY <1>1, <1>2, <1>3, <1>9
  <2>2. task' = [task EXCEPT !.left = Tail(@)] /\ says' = says
    BY <1>9, <2>1 DEF Continued
  <2>3. task' = [name |-> name, left |-> Tail(left)]
    BY <1>2, <2>2
  <2>. QED
    BY <1>5, <1>9, <2>2, <2>3 DEF At
<1>. QED
  BY <1>2, <1>6, <1>7, <1>8, <1>9

LEMMA BuildTypesStay ==
  ASSUME BuildTypeOK, BuildNext
  PROVE  /\ {host, box}' \subseteq Directories /\ fpga' \in Versions \cup {Missing, Passthru}
         /\ mcu' \in [firmware : {0, Missing}, source : Versions \cup {Missing},
                      common : Versions \cup {Missing}]
         /\ unnoticed' \in BOOLEAN
<1> DEFINE Mcu == [firmware : {0, Missing}, source : Versions \cup {Missing},
                   common : Versions \cup {Missing}]
<1>0. /\ host \in Directories /\ box \in Directories /\ mcu \in Mcu
      /\ fpga \in Versions \cup {Missing, Passthru} /\ MaxEdits \in Nat
  BY BuildTasksAssumption DEF BuildTypeOK
<1>1. /\ host.sources \in Versions /\ box.sources \in Versions
      /\ box.made \in [Outputs -> Versions \cup {Missing}]
      /\ box.made["bitstream"] \in Versions \cup {Missing}
  BY <1>0 DEF Directories, Outputs
<1>17. unnoticed' \in BOOLEAN
  BY DEF BuildTypeOK, BuildNext, Command, Edit, PowerCycle, do_task, Check, Fails,
    rsync_to_container, rsync_from_container, build_bitstream, simulate_file, generate_file,
    upload_binary, erase_flash_from_device, write_binary_to_device,
    rsync_micropython_files_between, Passed, PassedUnnoticed, Aborted, AfterFailure
<1>2. CASE Edit
  <2>1. host' = [host EXCEPT !.sources = @ + 1] /\ host.sources + 1 \in Versions
    BY <1>0, <1>1, <1>2 DEF Edit, Versions
  <2>2. host' \in Directories
    BY <1>0, <2>1 DEF Directories
  <2>. QED
    BY <1>0, <1>17, <1>2, <2>2 DEF Edit
<1>3. CASE /\ UNCHANGED <<host, box, mcu>>
           /\ fpga' = Missing \/ fpga' = Passthru \/ fpga' = fpga \/ fpga' = box.made["bitstream"]
  BY <1>0, <1>17, <1>1, <1>3
<1>4. CASE UNCHANGED <<host, fpga, mcu>> /\ \E o \in Outputs : box' = [box EXCEPT !.made[o] = box.sources]
  <2>1. PICK o \in Outputs : box' = [box EXCEPT !.made[o] = box.sources]
    BY <1>4
  <2>2. box' \in Directories
    BY <1>0, <1>1, <2>1 DEF Directories
  <2>. QED
    BY <1>0, <1>17, <1>4, <2>2
<1>5. CASE rsync_to_container
  BY <1>0, <1>17, <1>5 DEF rsync_to_container
<1>6. CASE rsync_from_container
  <2>1. host' \in Directories
    BY <1>0, <1>1, <1>6 DEF rsync_from_container, Directories
  <2>. QED
    BY <1>0, <1>17, <1>6, <2>1 DEF rsync_from_container
<1>7. CASE UNCHANGED <<host, box, fpga>>
           /\ (mcu' = mcu \/ mcu' = Erased \/ mcu' = [mcu EXCEPT !.firmware = 0]
               \/ \E v \in {box.sources, Missing} :
                    mcu' = [mcu EXCEPT !.source = v] \/ mcu' = [mcu EXCEPT !.common = v])
  <2>1. mcu' \in Mcu
    BY <1>0, <1>1, <1>7 DEF Erased
  <2>. QED
    BY <1>0, <1>17, <1>7, <2>1
<1>8. CASE PowerCycle
  BY <1>3, <1>8 DEF PowerCycle
<1>9. CASE do_task \/ Check \/ Fails
  BY <1>3, <1>9 DEF do_task, Check, Fails
<1>10. CASE build_bitstream
  BY <1>3, <1>4, <1>10 DEF build_bitstream, Make, KeepMade, Outputs
<1>11. CASE simulate_file
  BY <1>3, <1>4, <1>11 DEF simulate_file, Make, KeepMade, Outputs
<1>12. CASE generate_file
  BY <1>3, <1>4, <1>12 DEF generate_file, Make, KeepMade, Outputs
<1>13. CASE upload_binary
  BY <1>3, <1>13 DEF upload_binary
<1>14. CASE erase_flash_from_device
  BY <1>7, <1>14 DEF erase_flash_from_device, Erased
<1>15. CASE write_binary_to_device
  BY <1>7, <1>15 DEF write_binary_to_device
<1>16. CASE rsync_micropython_files_between
  BY <1>7, <1>16 DEF rsync_micropython_files_between, Copied
<1>. QED
  BY <1>2, <1>5, <1>6, <1>8, <1>9, <1>10, <1>11, <1>12, <1>13, <1>14, <1>15, <1>16
     DEF BuildNext, Command

\* A step of a task that goes on, and one that ends it.
LEMMA BuildStep ==
  ASSUME BuildInv, BuildNext
  PROVE  /\ says' \in {"done", "aborted"}
         /\ DoneWell
         /\ \/ task' = NoTask
            \/ \E name \in DOMAIN Commands : \E k \in 1 .. Len(Commands[name]) :
                 At(name, k)' /\ MadeReady(name, k)'
<1> DEFINE Goal == /\ says' \in {"done", "aborted"}
                   /\ DoneWell
                   /\ \/ task' = NoTask
                      \/ \E name \in DOMAIN Commands : \E k \in 1 .. Len(Commands[name]) :
                           At(name, k)' /\ MadeReady(name, k)'
<1>0. says \in {"done", "aborted"} /\ host \in Directories /\ box \in Directories
      /\ box.made \in [Outputs -> Versions \cup {Missing}] /\ Outputs = {"bitstream", "waves", "generated"}
  BY DEF BuildInv, BuildTypeOK, Directories, Outputs
<1>1. CASE task = NoTask
  <2>1. NoTask.name = "none" /\ NoTask.left = <<>>
    BY DEF NoTask
  <2>2. \A c : ~Runs(c)
    BY <1>1, <2>1 DEF Runs
  <2>3. (Edit \/ PowerCycle) \/ do_task
    BY <1>1, <2>2 DEF BuildNext, Command, Check, Fails, rsync_to_container, rsync_from_container,
      build_bitstream, simulate_file, generate_file, upload_binary, erase_flash_from_device,
      write_binary_to_device, rsync_micropython_files_between, Copied
  <2>4. DoneWell
    BY <1>1, <2>1 DEF DoneWell, Finished
  <2>5. CASE Edit \/ PowerCycle
    BY <1>0, <1>1, <2>4, <2>5 DEF Edit, PowerCycle
  <2>6. CASE do_task
    <3>1. PICK name \in DOMAIN Commands : task' = [name |-> name, left |-> Commands[name]]
      BY <2>6 DEF do_task
    <3> DEFINE cs == Commands[name]
    <3>2. cs \in Seq(Words) /\ Len(cs) \in Nat \ {0}
      BY CommandsAre
    <3>3. ToRun(name, 1) = cs
      <4>1. ToRun(name, 1) = SubSeq(cs, 1, Len(cs))
        BY DEF ToRun
      <4> DEFINE tail == SubSeq(cs, 1, Len(cs))
      <4> HIDE DEF cs
      <4>2. 1 \in 1 .. Len(cs) + 1 /\ Len(cs) \in 1 - 1 .. Len(cs) /\ Len(cs) - 1 + 1 = Len(cs)
        BY <3>2
      <4>3. tail \in Seq(Words) /\ Len(tail) = Len(cs) - 1 + 1
            /\ \A i \in 1 .. Len(cs) - 1 + 1 : tail[i] = cs[1 + i - 1]
        BY <3>2, <4>2, SubSeqProperties
      <4>4. \A i \in 1 .. Len(cs) : tail[i] = cs[i]
        BY <4>2, <4>3
      <4> HIDE DEF tail
      <4>5. tail = cs
        BY <3>2, <4>2, <4>3, <4>4, SeqEqual
      <4>. QED
        BY <4>1, <4>5 DEF tail
    <3>4. 1 \in 1 .. Len(cs) /\ ~(1 >= 4) /\ ~(1 >= 5) /\ ~(1 >= 6)
      <4> HIDE DEF cs
      <4>. QED
        BY <3>2
    <3>5. At(name, 1)' /\ MadeReady(name, 1)'
      BY <3>1, <3>3, <3>4 DEF At, MadeReady
    <3>. QED
      BY <1>0, <2>4, <2>6, <3>4, <3>5 DEF do_task
  <2>. QED
    BY <2>3, <2>5, <2>6
<1>2. CASE task # NoTask
  <2>1. PICK name \in DOMAIN Commands : \E k \in 1 .. Len(Commands[name]) : At(name, k) /\ MadeReady(name, k)
    BY <1>2 DEF BuildInv
  <2>2. PICK k \in 1 .. Len(Commands[name]) : At(name, k) /\ MadeReady(name, k)
    BY <2>1
  <2> DEFINE cmd == Commands[name][k]
             len == Len(Commands[name])
  <2>3. /\ task.name = name /\ \A c : Runs(c) <=> c = cmd
        /\ Continued => \/ k = len /\ task' = NoTask /\ says' = "done"
                        \/ k + 1 \in 1 .. len /\ At(name, k + 1)' /\ says' = says
    BY <2>2, CommandPasses
  <2>4. k \in Nat /\ len \in Nat /\ k >= 1 /\ k <= len
    BY CommandsAre
  <2>5. /\ name = "upload" => /\ len = 5 /\ (cmd = "build" <=> k = 3)
                              /\ (cmd = "rsync_from" <=> k = 4) /\ (cmd = "write" <=> k = 5)
                              /\ (k >= 3 => cmd \in {"build", "rsync_from", "write"})
        /\ name = "simulate" => /\ len = 4 /\ (cmd = "simulate" <=> k = 3)
                                /\ (cmd = "rsync_from" <=> k = 4)
                                /\ (k >= 3 => cmd \in {"simulate", "rsync_from"})
        /\ name = "reflash" => /\ len = 6 /\ (cmd = "erase" <=> k = 5)
                               /\ (cmd = "flash" <=> k = 6) /\ (k >= 5 => cmd \in {"erase", "flash"})
        /\ name = "generate" => /\ len = 4 /\ (cmd = "generate" <=> k = 3)
                                /\ (cmd = "rsync_from" <=> k = 4)
                                /\ (k >= 3 => cmd \in {"generate", "rsync_from"})
        /\ name = "update" => /\ len = 5 /\ (cmd = "copy_source" <=> k = 3)
                              /\ (cmd = "copy_common" <=> k = 4) /\ (cmd = "repl" <=> k = 5)
                              /\ (k >= 3 => cmd \in {"copy_source", "copy_common", "repl"})
    <3>1. CASE name = "upload"
      <4>1. len = 5 /\ k \in 1 .. 5
        BY <3>1, CommandsAre
      <4>. QED
        BY <3>1, <4>1, CommandsAre
    <3>2. CASE name = "simulate"
      <4>1. len = 4 /\ k \in 1 .. 4
        BY <3>2, CommandsAre
      <4>. QED
        BY <3>2, <4>1, CommandsAre
    <3>3. CASE name = "reflash"
      <4>1. len = 6 /\ k \in 1 .. 6
        BY <3>3, CommandsAre
      <4>. QED
        BY <3>3, <4>1, CommandsAre
    <3>4. CASE name = "generate"
      <4>1. len = 4 /\ k \in 1 .. 4
        BY <3>4, CommandsAre
      <4>. QED
        BY <3>4, <4>1, CommandsAre
    <3>5. CASE name = "update"
      <4>1. len = 5 /\ k \in 1 .. 5
        BY <3>5, CommandsAre
      <4>. QED
        BY <3>5, <4>1, CommandsAre
    <3>. QED
      BY <3>1, <3>2, <3>3, <3>4, <3>5
  <2> HIDE DEF cmd, len
  \* A step that goes on has prepared what comes next, or has ended the task well.
  <2>6. ASSUME Continued, k + 1 \in 1 .. len => MadeReady(name, k + 1)', k = len => DoneWell
        PROVE  Goal
    <3>1. CASE k = len /\ task' = NoTask /\ says' = "done"
      BY <2>6, <3>1
    <3>2. CASE k + 1 \in 1 .. len /\ At(name, k + 1)' /\ says' = says
      <4>1. task' # NoTask
        BY <3>2, CommandsAre DEF At, NoTask
      <4>2. DoneWell
        BY <4>1 DEF DoneWell, Finished
      <4>. QED
        BY <1>0, <2>6, <3>2, <4>2 DEF len
    <3>. QED
      BY <2>3, <2>6, <3>1, <3>2
  <2>7. ASSUME Aborted PROVE Goal
    BY <2>7 DEF Aborted, DoneWell, Finished
  <2>8. /\ name = "upload" /\ k + 1 >= 4 => cmd \in {"build", "rsync_from", "write"}
        /\ name = "simulate" /\ k + 1 >= 4 => cmd \in {"simulate", "rsync_from"}
        /\ name = "reflash" /\ k + 1 >= 6 => cmd \in {"erase", "flash"}
        /\ name = "generate" /\ k + 1 >= 4 => cmd \in {"generate", "rsync_from"}
        /\ name = "update" /\ k + 1 >= 4 => cmd \in {"copy_source", "copy_common", "repl"}
    BY <2>4, <2>5
  <2>9. k = len => /\ name = "upload" => cmd = "write"
                   /\ name = "simulate" => cmd = "rsync_from"
                   /\ name = "reflash" => cmd = "flash"
                   /\ name = "generate" => cmd = "rsync_from"
                   /\ name = "update" => cmd = "repl"
    BY <2>5
  <2>24. Passed => Continued /\ unnoticed' = unnoticed
    BY DEF Passed
  <2>25. PassedUnnoticed => Continued /\ unnoticed'
    BY DEF PassedUnnoticed
  <2>10. ASSUME Passed, cmd \notin {"build", "rsync_from", "write", "simulate", "generate", "erase", "flash",
                         "copy_source", "copy_common", "repl"}
         PROVE  Goal
    <3>1. MadeReady(name, k + 1)'
      BY <2>4, <2>5, <2>8, <2>10 DEF MadeReady
    <3>2. k = len => DoneWell
      BY <2>3, <2>9, <2>10 DEF DoneWell, Finished
    <3>. QED
      BY <2>6, <2>10, <2>24, <3>1, <3>2
  <2>11. CASE Edit \/ PowerCycle
    <3>1. UNCHANGED <<box, mcu, task, says, unnoticed>> /\ host'.made = host.made
      BY <1>0, <2>11 DEF Edit, PowerCycle, Directories
    <3>2. DoneWell
      BY <1>2, <3>1 DEF DoneWell, Finished
    <3>3. At(name, k)' /\ MadeReady(name, k)'
      BY <2>2, <3>1 DEF At, MadeReady
    <3>. QED
      BY <1>0, <3>1, <3>2, <3>3
  <2>12. CASE do_task
    BY <1>2, <2>12 DEF do_task
  <2>13. CASE Check
    <3>1. CASE cmd # "repl"
      BY <2>3, <2>10, <2>13, <3>1 DEF Check
    <3>2. CASE cmd = "repl"
      <4>1. Passed /\ UNCHANGED <<host, box, fpga, mcu>>
        BY <2>13 DEF Check
      <4>2. name \notin {"upload", "simulate", "generate", "reflash"}
            /\ (name = "update" => k = 5 /\ len = 5)
        <5>1. name # "upload"
          BY <2>4, <2>5, <3>2, CommandsAre DEF Commands, cmd
        <5>2. name # "simulate" /\ name # "generate" /\ name # "reflash"
          BY <2>4, <2>5, <3>2, CommandsAre DEF Commands, cmd
        <5>. QED
          BY <2>5, <3>2, <5>1, <5>2
      <4>3. k + 1 \in 1 .. len => MadeReady(name, k + 1)'
        BY <2>4, <4>2 DEF MadeReady
      <4>4. k = len => DoneWell
        BY <2>2, <2>3, <2>24, <4>1, <4>2 DEF DoneWell, Finished, MadeReady
      <4>. QED
        BY <2>6, <2>24, <4>1, <4>3, <4>4
    <3>. QED
      BY <3>1, <3>2
  <2>14. CASE Fails
    BY <2>7, <2>14 DEF Fails
  <2>15. CASE rsync_to_container
    BY <2>3, <2>10, <2>15 DEF rsync_to_container
  <2>16. CASE rsync_from_container
    <3>1. cmd = "rsync_from" /\ Passed /\ UNCHANGED <<box, fpga, mcu>> /\ host'.made = box.made
      BY <1>0, <2>3, <2>16 DEF rsync_from_container, Directories
    <3>2. name = "upload" \/ name = "simulate" \/ name = "generate" => k >= 4
      BY <2>4, <2>5, <3>1
    <3>3. MadeReady(name, k + 1)'
      BY <2>2, <2>8, <2>24, <3>1, <3>2 DEF MadeReady
    <3>4. k = len => DoneWell
      BY <2>2, <2>3, <2>9, <2>24, <3>1, <3>2 DEF DoneWell, Finished, MadeReady
    <3>. QED
      BY <2>6, <2>24, <3>1, <3>3, <3>4
  <2>17. CASE build_bitstream
    <3>1. CASE Make("bitstream") /\ Passed
      <4>1. cmd = "build" /\ box'.made["bitstream"] = box'.sources
        BY <1>0, <2>3, <2>17, <3>1 DEF build_bitstream, Make, Directories
      <4>2. k + 1 \in 1 .. len => MadeReady(name, k + 1)'
        BY <2>5, <2>8, <4>1 DEF MadeReady
      <4>3. k = len => DoneWell
        BY <2>3, <2>9, <4>1 DEF DoneWell, Finished
      <4>. QED
        BY <2>6, <2>24, <3>1, <4>2, <4>3
    <3>2. CASE AfterFailure
      BY <2>7, <3>2 DEF AfterFailure
    <3>3. CASE PassedUnnoticed
      <4>1. cmd = "build"
        BY <2>3, <2>17 DEF build_bitstream
      <4>2. k + 1 \in 1 .. len => MadeReady(name, k + 1)'
        BY <2>5, <2>8, <2>25, <3>3, <4>1 DEF MadeReady
      <4>3. k = len => DoneWell
        BY <2>3, <2>9, <4>1 DEF DoneWell, Finished
      <4>. QED
        BY <2>6, <2>25, <3>3, <4>2, <4>3
    <3>. QED
      BY <2>17, <3>1, <3>2, <3>3 DEF build_bitstream
  <2>18. CASE simulate_file
    <3>1. CASE Make("waves") /\ Passed
      <4>1. cmd = "simulate" /\ box'.made["waves"] = box'.sources
        BY <1>0, <2>3, <2>18, <3>1 DEF simulate_file, Make, Directories
      <4>2. k + 1 \in 1 .. len => MadeReady(name, k + 1)'
        BY <2>5, <2>8, <4>1 DEF MadeReady
      <4>3. k = len => DoneWell
        BY <2>3, <2>9, <4>1 DEF DoneWell, Finished
      <4>. QED
        BY <2>6, <2>24, <3>1, <4>2, <4>3
    <3>2. CASE AfterFailure
      BY <2>7, <3>2 DEF AfterFailure
    <3>3. CASE PassedUnnoticed
      <4>1. cmd = "simulate"
        BY <2>3, <2>18 DEF simulate_file
      <4>2. k + 1 \in 1 .. len => MadeReady(name, k + 1)'
        BY <2>5, <2>8, <2>25, <3>3, <4>1 DEF MadeReady
      <4>3. k = len => DoneWell
        BY <2>3, <2>9, <4>1 DEF DoneWell, Finished
      <4>. QED
        BY <2>6, <2>25, <3>3, <4>2, <4>3
    <3>. QED
      BY <2>18, <3>1, <3>2, <3>3 DEF simulate_file
  <2>19. CASE generate_file
    <3>1. cmd = "generate"
      BY <2>3, <2>19 DEF generate_file
    <3>2. k = len => DoneWell
      BY <2>3, <2>9, <3>1 DEF DoneWell, Finished
    <3>3. CASE Make("generated") /\ Passed
      <4>1. box'.made["generated"] = box'.sources
        BY <1>0, <3>3 DEF Make, Directories
      <4>2. k + 1 \in 1 .. len => MadeReady(name, k + 1)'
        BY <2>5, <2>8, <3>1, <4>1 DEF MadeReady
      <4>. QED
        BY <2>6, <2>24, <3>2, <3>3, <4>2
    <3>4. CASE PassedUnnoticed
      <4>1. k + 1 \in 1 .. len => MadeReady(name, k + 1)'
        BY <2>5, <2>8, <2>25, <3>1, <3>4 DEF MadeReady
      <4>. QED
        BY <2>6, <2>25, <3>2, <3>4, <4>1
    <3>. QED
      BY <2>19, <3>3, <3>4 DEF generate_file
  <2>20. CASE upload_binary
    <3>1. CASE Aborted
      BY <2>7, <3>1
    <3>2. CASE /\ Runs("write") /\ box.made["bitstream"] # Missing
             /\ fpga' = box.made["bitstream"] /\ Passed
             /\ UNCHANGED <<host, box, mcu>>
      <4>1. cmd = "write"
        BY <2>3, <3>2
      <4>2. name = "upload" => k = 5
        BY <2>5, <4>1
      <4>3. name = "upload" => /\ unnoticed \/ fpga' = box.sources
                               /\ fpga' # Missing /\ fpga' = host'.made["bitstream"]
        BY <2>2, <3>2, <4>2 DEF MadeReady
      <4>4. k + 1 \in 1 .. len => MadeReady(name, k + 1)'
        BY <2>4, <2>5, <2>8, <4>1, <4>2 DEF MadeReady
      <4>5. k = len => DoneWell
        BY <2>3, <2>9, <2>24, <3>2, <4>1, <4>3 DEF DoneWell, Finished
      <4>. QED
        BY <2>6, <2>24, <3>2, <4>4, <4>5
    <3>3. CASE Runs("write_passthru") /\ Passed
      BY <2>3, <2>10, <3>3
    <3>. QED
      BY <2>20, <3>1, <3>2, <3>3 DEF upload_binary
  <2>21. CASE erase_flash_from_device
    <3>1. CASE Aborted
      BY <2>7, <3>1
    <3>2. CASE Passed
      <4>1. cmd = "erase" /\ mcu' = Erased
        BY <2>3, <2>21 DEF erase_flash_from_device, Erased
      <4>2. MadeReady(name, k + 1)'
        BY <2>5, <2>8, <4>1 DEF MadeReady, Erased
      <4>3. k = len => DoneWell
        BY <2>3, <2>9, <4>1 DEF DoneWell, Finished
      <4>. QED
        BY <2>6, <2>24, <3>2, <4>2, <4>3
    <3>. QED
      BY <2>21, <3>1, <3>2 DEF erase_flash_from_device
  <2>22. CASE write_binary_to_device
    <3>1. cmd = "flash" /\ Passed /\ mcu' = [mcu EXCEPT !.firmware = 0]
      BY <2>3, <2>22 DEF write_binary_to_device
    <3>2. name = "reflash" => k = 6 /\ k = len
      BY <2>5, <3>1
    <3>3. name = "reflash" => mcu = Erased
      BY <2>2, <3>2 DEF MadeReady
    <3>4. name = "reflash" => mcu' = [firmware |-> 0, source |-> Missing, common |-> Missing]
      BY <3>1, <3>3 DEF Erased
    <3>5. k + 1 \in 1 .. len => MadeReady(name, k + 1)'
      BY <2>4, <2>8, <3>1, <3>2 DEF MadeReady
    <3>6. k = len => DoneWell
      BY <2>3, <2>9, <3>1, <3>4 DEF DoneWell, Finished
    <3>. QED
      BY <2>6, <2>24, <3>1, <3>5, <3>6
  <2>23. CASE rsync_micropython_files_between
    <3>1. cmd \in {"copy_source", "copy_common"} /\ box' = box
      BY <2>3, <2>23 DEF rsync_micropython_files_between, Copied
    <3>2. k = len => DoneWell
      BY <2>3, <2>9, <3>1 DEF DoneWell, Finished
    <3>3. name \notin {"upload", "simulate", "generate", "reflash"}
      BY <2>4, <2>5, <3>1, CommandsAre DEF Commands, cmd
    <3>4. CASE PassedUnnoticed
      <4>1. MadeReady(name, k + 1)'
        BY <2>25, <3>3, <3>4 DEF MadeReady
      <4>. QED
        BY <2>6, <2>25, <3>2, <3>4, <4>1
    <3>5. CASE Copied(box.sources) /\ Passed
      <4>1. mcu \in [firmware : {0, Missing}, source : Versions \cup {Missing},
                     common : Versions \cup {Missing}]
        BY DEF BuildInv, BuildTypeOK
      <4>2. \/ cmd = "copy_source" /\ mcu' = [mcu EXCEPT !.source = box.sources]
            \/ cmd = "copy_common" /\ mcu' = [mcu EXCEPT !.common = box.sources]
        BY <2>3, <3>5 DEF Copied
      <4>3. /\ cmd = "copy_source" => mcu'.source = box.sources
            /\ cmd = "copy_common" => mcu'.common = box.sources /\ mcu'.source = mcu.source
        BY <4>1, <4>2
      <4>4. CASE name = "update" /\ k = 3
        BY <2>5, <2>6, <2>24, <3>1, <3>2, <3>5, <4>3, <4>4 DEF MadeReady
      <4>5. CASE name = "update" /\ k = 4
        BY <2>2, <2>5, <2>6, <2>24, <3>1, <3>2, <3>5, <4>3, <4>5 DEF MadeReady
      <4>6. CASE name # "update"
        BY <2>6, <2>24, <3>2, <3>3, <3>5, <4>6 DEF MadeReady
      <4>. QED
        BY <2>5, <3>1, <4>4, <4>5, <4>6
    <3>. QED
      BY <2>23, <3>4, <3>5 DEF rsync_micropython_files_between
  <2>. QED
    BY <2>11, <2>12, <2>13, <2>14, <2>15, <2>16, <2>17, <2>18, <2>19, <2>20, <2>21, <2>22, <2>23
       DEF BuildNext, Command
<1>. QED
  BY <1>1, <1>2

LEMMA BuildInvariance == BuildSpec => []BuildInv
<1>1. BuildInit => BuildInv
  <2> SUFFICES ASSUME BuildInit PROVE BuildInv
    OBVIOUS
  <2>1. 0 \in Versions /\ Missing \in Versions \cup {Missing}
    BY BuildTasksAssumption DEF Versions
  <2>2. host \in Directories /\ box \in Directories
    BY <2>1 DEF BuildInit, Directories
  <2>. QED
    BY <2>1, <2>2 DEF BuildInit, BuildInv, BuildTypeOK
<1>2. BuildInv /\ [BuildNext]_buildVars => BuildInv'
  <2> SUFFICES ASSUME BuildInv, [BuildNext]_buildVars PROVE BuildInv'
    OBVIOUS
  <2>1. CASE UNCHANGED buildVars
    BY <2>1 DEF buildVars, BuildInv, BuildTypeOK, At, MadeReady
  <2>2. CASE BuildNext
    <3>1. BuildTypeOK
      BY DEF BuildInv
    <3>2. /\ {host, box}' \subseteq Directories /\ fpga' \in Versions \cup {Missing, Passthru}
          /\ mcu' \in [firmware : {0, Missing}, source : Versions \cup {Missing},
                       common : Versions \cup {Missing}]
          /\ unnoticed' \in BOOLEAN
      BY <2>2, <3>1, BuildTypesStay
    <3>3. /\ says' \in {"done", "aborted"}
          /\ \/ task' = NoTask
             \/ \E name \in DOMAIN Commands : \E k \in 1 .. Len(Commands[name]) :
                  At(name, k)' /\ MadeReady(name, k)'
      BY <2>2, BuildStep
    <3>4. task' = NoTask \/ task'.name \in DOMAIN Commands
      BY <3>3 DEF At
    <3>. QED
      BY <3>2, <3>3, <3>4 DEF BuildInv, BuildTypeOK
  <2>. QED
    BY <2>1, <2>2
<1>. QED
  BY <1>1, <1>2, PTL DEF BuildSpec

\* However often the sources are edited, the board switched off, and tasks fail: one
\* that says it is done (build.py:45) has done it, but for what its own commands let
\* pass; and then too the FPGA has the design whose bitstream the host has.
THEOREM DoneMeansDone == BuildSpec => DoneIsDone
<1> DEFINE Step == LET finished(name) == task.name = name /\ task' = NoTask /\ says' = "done"
                       done(name) == finished(name) /\ ~unnoticed'
                   IN
                   /\ finished("upload") => fpga' # Missing /\ fpga' = host'.made["bitstream"]
                   /\ done("upload")   => fpga' = box.sources
                   /\ done("simulate") => host'.made["waves"] = box.sources
                   /\ done("generate") => host'.made["generated"] = box.sources
                   /\ done("update")   => mcu'.source = box.sources /\ mcu'.common = box.sources
                   /\ finished("reflash") =>
                        mcu' = [firmware |-> 0, source |-> Missing, common |-> Missing]
<1>1. BuildInv /\ [BuildNext]_buildVars => [Step]_buildVars
  BY BuildStep DEF DoneWell, Finished
<1>. QED
  BY <1>1, BuildInvariance, PTL DEF BuildSpec, DoneIsDone
-----------------------------------------------------------------------------
(* The processes that write and read the FIFO in the simulation, for every *)
(* size of the FIFO, whenever the controller has a word ready.             *)

\* The counter ends before the reader starts (0x100 and 520 in
\* test1_simulation.py) and fits its twelve bits.
LongHeadStart == LastCount + 3 <= HeadStart /\ LastCount + 1 < 2^12

Words12 == 0 .. 2^12 - 1
Written == writer.count + (IF writer.w_en THEN 0 ELSE 1)
TakenOut == reader.i - (IF offered THEN 1 ELSE 0)

\* The FIFO holds the words that are written and not taken out.  A writer that is
\* still on has written one word in each of its clocks: this is what makes its
\* count, and with it the end of the writing, known by the clocks that the
\* reader waits.
FifoPart ==
  /\ size \in FifoSizes /\ stored \in Seq(Words12) /\ Len(stored) <= size
  /\ Len(stored) = Written - TakenOut
  /\ \A k \in 1 .. Len(stored) : stored[k] = TakenOut + k - 1
  /\ writer.w_en => Len(stored) < size
WriterPart ==
  /\ turn \in 0 .. 2
  /\ writer \in [on : BOOLEAN, count : -1 .. LastCount + 1, w_en : BOOLEAN]
  /\ writer.w_en => writer.on /\ writer.count >= 0
  /\ writer.on => (turn = 0 => writer.count + reader.wait = HeadStart - 1)
  /\ writer.on => (turn # 0 => writer.count + reader.wait = HeadStart)
  /\ reader.wait = 0 => ~writer.on
ReaderPart ==
  /\ offered \in BOOLEAN
  /\ reader \in [on : BOOLEAN, wait : 0 .. HeadStart, last : Int, i : Nat]
  /\ reader.wait > 0 => reader.on /\ reader.i = 0 /\ ~offered
  /\ offered => stored # <<>> /\ reader.i > 0
  /\ ~reader.on => stored = <<>> /\ ~offered
  /\ reader.i > 0 => reader.last = reader.i - 1
SimInv == FifoPart /\ WriterPart /\ ReaderPart

LEMMA SimInitHolds == LongHeadStart /\ FifoSimInit => SimInv
<1> SUFFICES ASSUME LongHeadStart, FifoSimInit PROVE SimInv
  OBVIOUS
<1>1. LastCount \in Nat /\ HeadStart \in Nat /\ FifoSizes \subseteq Nat \ {0} /\ HeadStart > 0
  BY FifoSimAssumption DEF LongHeadStart
<1>2. stored \in Seq(Words12) /\ Len(stored) = 0
  BY DEF FifoSimInit
<1>3. writer \in [on : BOOLEAN, count : -1 .. LastCount + 1, w_en : BOOLEAN]
      /\ writer.on = TRUE /\ writer.count = -1 /\ writer.w_en = FALSE
  BY <1>1 DEF FifoSimInit
<1>4. reader \in [on : BOOLEAN, wait : 0 .. HeadStart, last : Int, i : Nat]
      /\ reader.on = TRUE /\ reader.wait = HeadStart /\ reader.i = 0
  BY <1>1 DEF FifoSimInit
<1>5. Written = 0 /\ TakenOut = 0
  BY <1>3, <1>4 DEF FifoSimInit, Written, TakenOut
<1>6. turn = 0 /\ size \in FifoSizes /\ offered = FALSE
  BY DEF FifoSimInit
<1>7. FifoPart
  BY <1>1, <1>2, <1>3, <1>5, <1>6 DEF FifoPart
<1>8. WriterPart
  BY <1>1, <1>3, <1>4, <1>6 DEF WriterPart
<1>9. ReaderPart
  <2>1. offered \in BOOLEAN /\ ~offered
    BY <1>6
  <2>2. reader.on /\ reader \in [on : BOOLEAN, wait : 0 .. HeadStart, last : Int, i : Nat]
    BY <1>4
  <2>3. ~(reader.i > 0)
    BY <1>4
  <2>. QED
    BY <2>1, <2>2, <2>3 DEF ReaderPart
<1>. QED
  BY <1>7, <1>8, <1>9 DEF SimInv

LEMMA WriteEdgeHolds == ASSUME LongHeadStart, SimInv, WriteEdge PROVE SimInv'
<1> DEFINE w == writer.count % 2^12
           after == IF writer.w_en THEN Append(stored, w) ELSE stored
           goesOn == writer.on /\ Len(after) < size /\ WithinCount
<1>0. /\ turn = 0 /\ turn' = 1 /\ size' = size /\ offered' = offered /\ reader' = reader
      /\ stored' = after
      /\ writer' = IF goesOn
                     THEN [on |-> TRUE, count |-> writer.count + 1, w_en |-> TRUE]
                     ELSE [writer EXCEPT !.on = FALSE, !.w_en = FALSE]
  BY DEF WriteEdge
<1>1. LastCount \in Nat /\ HeadStart \in Nat /\ FifoSizes \subseteq Nat \ {0} /\ size \in Nat
      /\ 2^12 = 4096 /\ LastCount + 1 < 4096 /\ LastCount + 3 <= HeadStart
  BY FifoSimAssumption DEF LongHeadStart, SimInv, FifoPart, WriterPart, ReaderPart
<1>2. /\ stored \in Seq(Words12) /\ Len(stored) \in Nat /\ Len(stored) <= size
      /\ Len(stored) = Written - TakenOut
      /\ \A k \in 1 .. Len(stored) : stored[k] = TakenOut + k - 1
      /\ writer.w_en => writer.on /\ writer.count >= 0 /\ Len(stored) < size
  BY LenProperties DEF SimInv, FifoPart, WriterPart, ReaderPart
<1>3. /\ writer \in [on : BOOLEAN, count : -1 .. LastCount + 1, w_en : BOOLEAN]
      /\ writer.on \in BOOLEAN /\ writer.w_en \in BOOLEAN /\ writer.count \in -1 .. LastCount + 1
  BY DEF SimInv, FifoPart, WriterPart, ReaderPart
<1>4. TakenOut \in Int /\ Written \in Int /\ TakenOut' = TakenOut
  BY <1>0, <1>3 DEF SimInv, FifoPart, WriterPart, ReaderPart, TakenOut, Written
<1>5. writer.w_en => w = writer.count /\ w \in Words12
  <2> SUFFICES ASSUME writer.w_en PROVE w = writer.count /\ w \in Words12
    OBVIOUS
  <2> DEFINE c == writer.count
  <2>0. c >= 0 /\ c \in -1 .. LastCount + 1
    BY <1>2, <1>3
  <2>1. c \in 0 .. 4095
    <3> HIDE DEF c
    <3>. QED
      BY <1>1, <2>0
  <2> HIDE DEF c
  <2>2. c % 4096 = c
    BY <2>1
  <2>3. Words12 = 0 .. 4095
    BY <1>1 DEF Words12
  <2>4. w = c
    BY <1>1, <2>2 DEF w, c
  <2>5. c \in Words12
    BY <2>1, <2>3
  <2> HIDE DEF w
  <2>. QED
    BY <2>4, <2>5 DEF c
<1> HIDE DEF w
<1>6. /\ after \in Seq(Words12)
      /\ Len(after) = Len(stored) + (IF writer.w_en THEN 1 ELSE 0)
      /\ Len(after) <= size
      /\ \A k \in 1 .. Len(after) : after[k] = TakenOut + k - 1
  <2>1. CASE writer.w_en
    <3>1. after = Append(stored, w) /\ w \in Words12
      BY <1>5, <2>1
    <3>2. /\ after \in Seq(Words12) /\ Len(after) = Len(stored) + 1
          /\ \A k \in 1 .. Len(stored) : after[k] = stored[k]
          /\ after[Len(stored) + 1] = w
      BY <1>2, <3>1, AppendProperties
    <3>3. w = TakenOut + (Len(stored) + 1) - 1
      BY <1>2, <1>3, <1>4, <1>5, <2>1 DEF Written
    <3> HIDE DEF after
    <3>4. \A k \in 1 .. Len(after) : k \in 1 .. Len(stored) \/ k = Len(stored) + 1
      BY <1>2, <3>2
    <3>5. \A k \in 1 .. Len(after) : after[k] = TakenOut + k - 1
      BY <1>2, <3>2, <3>3, <3>4
    <3>. QED
      BY <1>1, <1>2, <2>1, <3>2, <3>5
  <2>2. CASE ~writer.w_en
    <3>1. after = stored
      BY <2>2
    <3>. QED
      BY <1>2, <2>2, <3>1
  <2>. QED
    BY <1>3, <2>1, <2>2
<1> HIDE DEF after
<1>7. Len(after) = writer.count + 1 - TakenOut
  BY <1>2, <1>3, <1>4, <1>6 DEF Written
<1>8. writer.on => writer.count + reader.wait = HeadStart - 1
  BY <1>0 DEF SimInv, FifoPart, WriterPart, ReaderPart
<1>9. CASE goesOn
  <2>1. writer' = [on |-> TRUE, count |-> writer.count + 1, w_en |-> TRUE]
    BY <1>0, <1>9
  <2>2. writer.count <= LastCount /\ writer.on /\ Len(after) < size
    BY <1>9 DEF WithinCount
  <2>3. /\ writer' \in [on : BOOLEAN, count : -1 .. LastCount + 1, w_en : BOOLEAN]
        /\ writer'.on = TRUE /\ writer'.w_en = TRUE /\ writer'.count = writer.count + 1
        /\ writer'.count >= 0
    BY <1>1, <1>3, <2>1, <2>2
  <2>4. Written' = writer.count + 1
    BY <1>3, <2>3 DEF Written
  <2>5. writer'.count + reader'.wait = HeadStart
    <3>1. reader.wait \in Int /\ reader'.wait = reader.wait
      BY <1>0 DEF SimInv, ReaderPart
    <3>. QED
      BY <1>1, <1>3, <1>8, <2>2, <2>3, <3>1
  <2>6. FifoPart'
    <3>1. /\ stored' \in Seq(Words12) /\ Len(stored') = Written' - TakenOut' /\ Len(stored') < size
          /\ \A k \in 1 .. Len(stored') : stored'[k] = TakenOut' + k - 1
      <4>1. Len(after) = Written' - TakenOut'
        BY <1>3, <1>4, <1>7, <2>4
      <4>2. \A k \in 1 .. Len(after) : after[k] = TakenOut' + k - 1
        BY <1>4, <1>6
      <4>. QED
        BY <1>0, <1>6, <2>2, <4>1, <4>2
    <3>. QED
      BY <1>0, <3>1, <1>6 DEF SimInv, FifoPart
  <2>7. WriterPart'
    <3>1. writer'.count <= HeadStart - 2 /\ reader'.wait # 0
      BY <1>1, <1>3, <2>2, <2>3, <2>5
    <3>. QED
      BY <1>0, <2>3, <2>5, <3>1 DEF WriterPart
  <2>8. ReaderPart'
    <3>1. reader.on
      BY <1>1, <2>2 DEF SimInv, WriterPart, ReaderPart
    <3>2. ~offered
      BY <1>1, <2>2 DEF SimInv, WriterPart, ReaderPart
    <3>. QED
      BY <1>0, <3>1, <3>2 DEF SimInv, ReaderPart
  <2>. QED
    BY <2>6, <2>7, <2>8 DEF SimInv
<1>10. CASE ~goesOn
  <2>1. writer' = [writer EXCEPT !.on = FALSE, !.w_en = FALSE]
    BY <1>0, <1>10
  <2>2. /\ writer' \in [on : BOOLEAN, count : -1 .. LastCount + 1, w_en : BOOLEAN]
        /\ writer'.on = FALSE /\ writer'.w_en = FALSE /\ writer'.count = writer.count
    BY <1>3, <2>1
  <2>3. Written' = writer.count + 1
    BY <2>2 DEF Written
  <2>. QED
    <3>1. /\ stored' \in Seq(Words12) /\ Len(stored') = Written' - TakenOut'
          /\ \A k \in 1 .. Len(stored') : stored'[k] = TakenOut' + k - 1
          /\ Len(stored') <= size
      <4>1. Len(after) = Written' - TakenOut'
        BY <1>3, <1>4, <1>7, <2>3
      <4>2. \A k \in 1 .. Len(after) : after[k] = TakenOut' + k - 1
        BY <1>4, <1>6
      <4>. QED
        BY <1>0, <1>6, <4>1, <4>2
    <3>2. FifoPart'
      BY <1>0, <2>2, <3>1 DEF SimInv, FifoPart
    <3>3. WriterPart'
      BY <1>0, <2>2 DEF WriterPart
    <3>4. ReaderPart'
      <4>1. offered => after # <<>>
        <5>1. offered => stored # <<>>
          BY DEF SimInv, ReaderPart
        <5>2. stored # <<>> => Len(stored) # 0
          BY <1>2, EmptySeq
        <5>3. stored # <<>> => Len(after) # 0
          BY <1>2, <1>6, <5>2
        <5>. QED
          BY <1>6, <5>1, <5>3, EmptySeq
      <4>2. ~reader.on => after = <<>>
        <5>1. ~reader.on => stored = <<>> /\ ~(reader.wait > 0) /\ reader.wait \in 0 .. HeadStart
          BY DEF SimInv, ReaderPart
        <5>2. ~reader.on => ~writer.on /\ ~writer.w_en
          BY <1>1, <1>2, <5>1 DEF SimInv, WriterPart
        <5>. QED
          BY <5>1, <5>2 DEF after
      <4>. QED
        BY <1>0, <4>1, <4>2 DEF SimInv, ReaderPart
    <3>. QED
      BY <3>2, <3>3, <3>4 DEF SimInv
<1>. QED
  BY <1>9, <1>10

LEMMA ReadEdgeHolds == ASSUME LongHeadStart, SimInv, ReadEdge PROVE SimInv'
<1>0. /\ turn > 0 /\ turn' = (turn + 1) % 3 /\ size' = size /\ writer' = writer
      /\ Delayed13us \/ ReadsWord
  BY DEF ReadEdge
<1>1. /\ LastCount \in Nat /\ HeadStart \in Nat /\ LastCount + 3 <= HeadStart /\ turn \in 0 .. 2
      /\ FifoSizes \subseteq Nat \ {0} /\ size \in FifoSizes
  BY FifoSimAssumption DEF LongHeadStart, SimInv, FifoPart, WriterPart, ReaderPart
<1>2. turn' \in 0 .. 2 /\ (turn = 1 => turn' = 2) /\ (turn = 2 => turn' = 0) /\ turn \in {1, 2}
  BY <1>0, <1>1
<1>3. /\ reader \in [on : BOOLEAN, wait : 0 .. HeadStart, last : Int, i : Nat]
      /\ reader.on \in BOOLEAN /\ reader.wait \in 0 .. HeadStart /\ reader.last \in Int /\ reader.i \in Nat
  BY DEF SimInv, FifoPart, WriterPart, ReaderPart
<1>4. /\ writer \in [on : BOOLEAN, count : -1 .. LastCount + 1, w_en : BOOLEAN]
      /\ writer.on \in BOOLEAN /\ writer.w_en \in BOOLEAN /\ writer.count \in -1 .. LastCount + 1
      /\ writer.w_en => writer.on /\ writer.count >= 0 /\ Len(stored) < size
      /\ writer.on => writer.count + reader.wait = HeadStart
  BY <1>2 DEF SimInv, FifoPart, WriterPart, ReaderPart
<1>5. /\ stored \in Seq(Words12) /\ Len(stored) \in Nat /\ Len(stored) <= size /\ offered \in BOOLEAN
      /\ Len(stored) = Written - TakenOut
      /\ \A k \in 1 .. Len(stored) : stored[k] = TakenOut + k - 1
  BY LenProperties DEF SimInv, FifoPart, WriterPart, ReaderPart
<1>6. Written' = Written /\ Written \in Int /\ TakenOut \in Int
  BY <1>0, <1>3, <1>4, <1>5 DEF Written, TakenOut
<1>7. CASE Delayed13us
  <2> DEFINE wait == IF turn = 2 THEN reader.wait - 1 ELSE reader.wait
  <2>1. reader.wait > 0 /\ reader' = [reader EXCEPT !.wait = wait] /\ stored' = stored /\ offered' = offered
    BY <1>7 DEF Delayed13us
  <2>2. wait \in 0 .. HeadStart
    BY <1>1, <1>3, <2>1
  <2>3. /\ reader' \in [on : BOOLEAN, wait : 0 .. HeadStart, last : Int, i : Nat]
        /\ reader'.on = reader.on /\ reader'.i = reader.i /\ reader'.last = reader.last
        /\ reader'.wait = wait
    BY <1>3, <2>1, <2>2
  <2>4. TakenOut' = TakenOut
    BY <2>1, <2>3 DEF TakenOut
  <2>5. reader.on /\ reader.i = 0 /\ ~offered
    BY <2>1 DEF SimInv, FifoPart, WriterPart, ReaderPart
  <2>6. /\ writer'.on => (turn' = 0 => writer'.count + reader'.wait = HeadStart - 1)
        /\ writer'.on => (turn' # 0 => writer'.count + reader'.wait = HeadStart)
    <3>1. CASE turn = 1
      <4>1. reader'.wait = reader.wait /\ turn' = 2
        BY <1>2, <2>3, <3>1
      <4>. QED
        BY <1>0, <1>4, <4>1
    <3>2. CASE turn = 2
      <4>1. reader'.wait = reader.wait - 1 /\ turn' = 0
        BY <1>2, <2>3, <3>2
      <4>2. writer.count \in Int /\ reader.wait \in Int /\ HeadStart \in Int
        BY <1>1, <1>3, <1>4
      <4>. QED
        BY <1>0, <1>4, <4>1, <4>2
    <3>. QED
      BY <1>2, <3>1, <3>2
  <2>7. reader'.wait = 0 => ~writer'.on
    BY <1>0, <1>1, <1>2, <1>4, <2>3, <2>6
  <2> HIDE DEF wait
  <2>. QED
    <3>1. FifoPart'
      BY <1>0, <1>1, <1>4, <1>5, <1>6, <2>1, <2>4 DEF FifoPart
    <3>2. WriterPart'
      BY <1>0, <1>2, <1>4, <2>6, <2>7 DEF WriterPart
    <3>3. ReaderPart'
      BY <1>5, <2>1, <2>3, <2>5 DEF ReaderPart
    <3>. QED
      BY <3>1, <3>2, <3>3 DEF SimInv
<1>8. CASE ReadsWord
  <2> DEFINE after == IF offered THEN Tail(stored) ELSE stored
             taken == IF offered THEN TakenOut + 1 ELSE TakenOut
             last == IF offered' THEN Head(after) ELSE reader.last
             i == IF offered' THEN reader.i + 1 ELSE reader.i
             more == after # <<>>
  <2>1. /\ reader.wait = 0 /\ reader.on /\ stored' = after /\ offered' \in {FALSE, more}
        /\ reader' = [reader EXCEPT !.on = more, !.last = last, !.i = i]
    BY <1>8 DEF ReadsWord
  <2>2. ~writer.on /\ ~writer.w_en
    BY <1>4, <2>1 DEF SimInv, FifoPart, WriterPart, ReaderPart
  <2>3. offered => stored # <<>> /\ reader.i > 0
    BY DEF SimInv, FifoPart, WriterPart, ReaderPart
  <2>4. taken \in Int /\ taken = reader.i
    BY <1>3, <1>5, <1>6 DEF TakenOut
  <2>5. /\ after \in Seq(Words12) /\ Len(after) \in Nat /\ Len(after) <= Len(stored)
        /\ Len(after) = Written - taken
        /\ \A k \in 1 .. Len(after) : after[k] = taken + k - 1
    <3>1. CASE offered
      <4>1. after = Tail(stored) /\ taken = TakenOut + 1
        BY <3>1
      <4>2. /\ after \in Seq(Words12) /\ Len(after) = Len(stored) - 1
            /\ \A k \in 1 .. Len(after) : after[k] = stored[k + 1]
        BY <1>5, <2>3, <3>1, <4>1, HeadTailProperties
      <4> HIDE DEF after, taken
      <4>3. Len(after) \in Nat /\ \A k \in 1 .. Len(after) : k + 1 \in 1 .. Len(stored)
        BY <1>5, <4>2, LenProperties
      <4>4. \A k \in 1 .. Len(after) : after[k] = taken + k - 1
        BY <1>5, <1>6, <4>1, <4>2, <4>3
      <4>. QED
        BY <1>5, <1>6, <4>1, <4>2, <4>3, <4>4
    <3>2. CASE ~offered
      <4>1. after = stored /\ taken = TakenOut
        BY <3>2
      <4> HIDE DEF after, taken
      <4>. QED
        BY <1>5, <4>1
    <3>. QED
      BY <1>5, <3>1, <3>2
  <2> HIDE DEF after, taken
  <2>6. more \in BOOLEAN /\ offered' \in BOOLEAN /\ (offered' => after # <<>>)
    BY <2>1
  <2>7. after # <<>> => Len(after) >= 1 /\ Head(after) = taken
    <3>1. after # <<>> => Len(after) # 0
      BY <2>5, EmptySeq
    <3>2. after # <<>> => 1 \in 1 .. Len(after) /\ taken + 1 - 1 = taken
      BY <2>4, <2>5, <3>1
    <3>3. after # <<>> => after[1] = taken
      BY <2>5, <3>2
    <3>. QED
      BY <2>5, <3>2, <3>3
  <2>8. last \in Int /\ i \in Nat /\ (i > 0 => last = i - 1) /\ (offered' => i > 0)
    <3>1. reader.i > 0 => reader.last = reader.i - 1
      BY DEF SimInv, FifoPart, WriterPart, ReaderPart
    <3>. QED
      BY <1>3, <2>4, <2>6, <2>7, <3>1
  <2>9. /\ reader' \in [on : BOOLEAN, wait : 0 .. HeadStart, last : Int, i : Nat]
        /\ reader'.on = more /\ reader'.wait = 0 /\ reader'.last = last /\ reader'.i = i
    <3> HIDE DEF last, i, more
    <3>. QED
      BY <1>3, <2>1, <2>6, <2>8
  <2>10. TakenOut' = taken
    BY <1>3, <2>4, <2>6, <2>9 DEF TakenOut
  <2> HIDE DEF last, i
  <2>11. Len(stored') <= size
    BY <1>1, <1>5, <2>1, <2>5
  <2>. QED
    <3>1. FifoPart'
      BY <1>0, <1>1, <1>6, <2>1, <2>2, <2>5, <2>10, <2>11 DEF FifoPart
    <3>2. WriterPart'
      BY <1>0, <1>2, <1>4, <2>2 DEF WriterPart
    <3>3. ReaderPart'
      <4>1. reader'.i > 0 => reader'.last = reader'.i - 1
        BY <2>8, <2>9
      <4>2. offered' => stored' # <<>> /\ reader'.i > 0
        BY <2>1, <2>6, <2>8, <2>9
      <4>3. ~reader'.on => stored' = <<>> /\ ~offered'
        BY <2>1, <2>6, <2>9
      <4>. QED
        BY <2>6, <2>9, <4>1, <4>2, <4>3 DEF ReaderPart
    <3>. QED
      BY <3>1, <3>2, <3>3 DEF SimInv
<1>. QED
  BY <1>0, <1>7, <1>8

LEMMA SimInvariance == LongHeadStart => (FifoSimSpec => []SimInv)
<1> SUFFICES ASSUME LongHeadStart PROVE FifoSimSpec => []SimInv
  OBVIOUS
<1>0. FifoSimInit => SimInv
  BY SimInitHolds
<1>1. SimInv /\ [FifoSimNext]_fifoSimVars => SimInv'
  <2> SUFFICES ASSUME SimInv, [FifoSimNext]_fifoSimVars PROVE SimInv'
    OBVIOUS
  <2>1. CASE UNCHANGED fifoSimVars
    BY <2>1 DEF fifoSimVars, SimInv, FifoPart, WriterPart, ReaderPart, Written, TakenOut
  <2>. QED
    BY <2>1, WriteEdgeHolds, ReadEdgeHolds DEF FifoSimNext
<1>. QED
  BY <1>0, <1>1, PTL DEF FifoSimSpec

\* The reader takes every word that was written, each once and in order, and
\* stops only when the writer has stopped for good (test1_simulation.py:283-334).
THEOREM EveryWordIsRead == LongHeadStart => (FifoSimSpec => []AllReadInOrder)
<1> SUFFICES ASSUME LongHeadStart PROVE FifoSimSpec => []AllReadInOrder
  OBVIOUS
<1>0. FifoSimSpec => []SimInv
  BY SimInvariance
<1>1. SimInv => AllReadInOrder
  <2> SUFFICES ASSUME SimInv PROVE AllReadInOrder
    OBVIOUS
  <2>1. /\ reader.i \in Nat /\ offered \in BOOLEAN /\ writer.count \in Int /\ reader.wait \in Nat
        /\ writer.w_en \in BOOLEAN
    BY FifoSimAssumption DEF SimInv, FifoPart, WriterPart, ReaderPart
  <2>2. ASSUME ~reader.on
        PROVE  ~writer.on /\ ~writer.w_en /\ stored = <<>> /\ reader.i = writer.count + 1
    <3>1. ~(reader.wait > 0) /\ stored = <<>> /\ ~offered
      BY <2>2 DEF SimInv, FifoPart, WriterPart, ReaderPart
    <3>2. ~writer.on /\ ~writer.w_en
      BY <2>1, <3>1 DEF SimInv, FifoPart, WriterPart, ReaderPart
    <3>3. Len(stored) = 0 /\ Len(stored) = Written - TakenOut
      BY <3>1 DEF SimInv, FifoPart, WriterPart, ReaderPart
    <3>. QED
      BY <2>1, <3>1, <3>2, <3>3 DEF Written, TakenOut
  <2>. QED
    BY <2>2 DEF AllReadInOrder, SimInv, FifoPart, WriterPart, ReaderPart
<1>. QED
  BY <1>0, <1>1, PTL

-----------------------------------------------------------------------------
(***************************************************************************)
(* Reset and boot mode of the MCU, for all times that meet                 *)
(* EspBootAssumption.  Where the lines stand, what the host has still to   *)
(* set and how long ago it set the last tell where the MCU is.             *)
(***************************************************************************)
EnNext == IF ResetNow \/ pwr = 1 THEN 0 ELSE 1
GpioNext == IF LoaderNow THEN 0 ELSE 1

BootTypes ==
  /\ dtr \in {0, 1} /\ rts \in {0, 1} /\ pwr \in {0, 1} /\ en \in {0, 1} /\ gpio0 \in {0, 1}
  /\ esp \in [mode : {"app", "loader", "off"}, low : 0 .. ResetClocks, high : 0 .. RiseClocks]
  /\ waits \in 0 .. LongWait /\ asked \in 0 .. 1 /\ starts \in 0 .. 2

\* The registers of the gateware have followed the lines a clock later.
Followed == waits >= 1 => en = EnNext /\ gpio0 = GpioNext

\* It runs, started as asked.  A line may just have come back from the side that
\* resets, but was not there for long enough.
Resting ==
  /\ dtr = rts /\ pwr = 0 /\ tool = <<>> /\ esp.mode = "app" /\ starts = asked
  /\ waits = 0 => esp.low <= ResetClocks - 2
  /\ waits = 1 => esp.low <= ResetClocks - 1
  /\ waits >= 2 => esp.low = 0

\* It is off, and en has risen or is about to.
Released ==
  /\ esp.mode = "off"
  /\ waits = 0 => en = 0 /\ esp.low = ResetClocks
  /\ waits >= 1 => esp.high = waits - 1 /\ esp.high < RiseClocks
Asked == asked = 1 /\ starts = 0
Rising == dtr = rts /\ pwr = 0 /\ tool = <<>> /\ Asked /\ Released

\* A tool has begun and has set no line yet.
Started ==
  /\ dtr = rts /\ pwr = 0 /\ waits = LongWait /\ esp.low = 0
  /\ starts = 0 /\ esp.mode = "app"
  /\ \/ dtr = 1 /\ tool = HardReset /\ asked = 1
     \/ dtr = 1 /\ tool = EnterLoader /\ asked = 1
     \/ /\ asked = 0
        /\ \E d, x \in {0, 1} : tool = <<Then(d, 1 - d), Both(x, x)>>

\* It is being reset, by the button or the lines.
Held ==
  /\ Asked
  /\ \/ pwr = 1 /\ dtr = rts /\ tool = <<>>
     \/ pwr = 0 /\ dtr = 1 /\ rts = 0 /\ tool = <<Then(1, 1)>>
     \/ /\ pwr = 0 /\ dtr = 1 /\ rts = 0
        /\ tool = <<Then(0, 0), Both(0, 1), Then(1, 1)>>
Falling ==
  /\ Held
  /\ waits = 0 => en = 1 /\ esp.low = 0 /\ esp.mode = "app"
  /\ waits >= 1 => esp.low = IF waits - 1 < ResetClocks THEN waits - 1 ELSE ResetClocks
  /\ esp.low = ResetClocks => esp.mode = "off"

\* esptool lets en go and asks for gpio0 low: one line has changed, then both have.
Between ==
  /\ dtr = 0 /\ rts = 0 /\ pwr = 0 /\ Asked
  /\ tool = <<Both(0, 1), Then(1, 1)>> /\ waits <= SkewClocks /\ Released
Loading ==
  /\ dtr = 0 /\ rts = 1 /\ pwr = 0 /\ asked = 1 /\ tool = <<Then(1, 1)>>
  /\ (esp.mode = "off" /\ starts = 0) \/ (esp.mode = "app" /\ starts = 1)
  /\ waits = 0 => /\ esp.mode = "off"
                  /\ \/ en = 0 /\ esp.low = ResetClocks
                     \/ en = 1 /\ esp.high < RiseClocks - 2
  /\ waits >= 1 /\ esp.mode = "off" => esp.high >= waits - 1 /\ esp.high < RiseClocks
  /\ waits >= 2 => esp.low = 0

\* The port is opened or closed: one of two lines has changed.
Blip ==
  /\ dtr # rts /\ pwr = 0 /\ esp.mode = "app" /\ asked = 0 /\ starts = 0
  /\ \E x \in {0, 1} : tool = <<Both(x, x)>>
  /\ waits <= SkewClocks /\ esp.low <= waits

BootInv ==
  /\ BootTypes /\ Followed
  /\ Resting \/ Rising \/ Started \/ Falling \/ Between \/ Loading \/ Blip

LEMMA BootTimes ==
  /\ ResetClocks \in Nat /\ RiseClocks \in Nat /\ SkewClocks \in Nat
  /\ SkewClocks + 2 <= ResetClocks /\ SkewClocks + 2 <= RiseClocks
  /\ LongWait = ResetClocks + RiseClocks + 2
BY EspBootAssumption DEF LongWait

LEMMA BootInitHolds == BootInit => BootInv
<1> SUFFICES ASSUME BootInit PROVE BootInv  OBVIOUS
<1>1. esp = [mode |-> "app", low |-> 0, high |-> RiseClocks]  BY DEF BootInit
<1>2. BootTypes  BY <1>1, BootTimes DEF BootInit, BootTypes
<1>3. Followed  BY DEF BootInit, Followed, EnNext, GpioNext, ResetNow, LoaderNow
<1>4. Resting  BY <1>1, BootTimes DEF BootInit, Resting
<1> QED BY <1>2, <1>3, <1>4 DEF BootInv

\* What the host has still to set: its lines, and whether the next comes at once.
LEMMA ToolLines ==
  /\ \A d, r \in {0, 1} :
       /\ Then(d, r).dtr = d /\ Then(d, r).rts = r /\ Then(d, r).together = FALSE
       /\ Both(d, r).dtr = d /\ Both(d, r).rts = r /\ Both(d, r).together = TRUE
  /\ \A a : <<a>> # <<>> /\ <<a>>[1] = a /\ Tail(<<a>>) = <<>>
  /\ \A a, b : <<a, b>> # <<>> /\ <<a, b>>[1] = a /\ Tail(<<a, b>>) = <<b>>
  /\ \A a, b, c : <<a, b, c>> # <<>> /\ <<a, b, c>>[1] = a /\ Tail(<<a, b, c>>) = <<b, c>>
  /\ \A a, b, c, d :
       /\ <<a, b, c, d>> # <<>> /\ <<a, b, c, d>>[1] = a
       /\ Tail(<<a, b, c, d>>) = <<b, c, d>>
<1>1. \A d, r \in {0, 1} :
        /\ Then(d, r).dtr = d /\ Then(d, r).rts = r /\ Then(d, r).together = FALSE
        /\ Both(d, r).dtr = d /\ Both(d, r).rts = r /\ Both(d, r).together = TRUE
  BY DEF Then, Both
<1>2. \A a : <<a>> # <<>> /\ <<a>>[1] = a /\ Tail(<<a>>) = <<>>  OBVIOUS
<1>3. \A a, b : <<a, b>> # <<>> /\ <<a, b>>[1] = a /\ Tail(<<a, b>>) = <<b>>  OBVIOUS
<1>4. \A a, b, c : <<a, b, c>> # <<>> /\ <<a, b, c>>[1] = a /\ Tail(<<a, b, c>>) = <<b, c>>
  OBVIOUS
<1>5. \A a, b, c, d :
        /\ <<a, b, c, d>> # <<>> /\ <<a, b, c, d>>[1] = a
        /\ Tail(<<a, b, c, d>>) = <<b, c, d>>
  OBVIOUS
<1> QED BY <1>1, <1>2, <1>3, <1>4, <1>5

\* A clock of the MCU.
LEMMA EspFollows ==
  ASSUME BootTypes, EspClock
  PROVE  /\ esp' \in [mode : {"app", "loader", "off"}, low : 0 .. ResetClocks,
                      high : 0 .. RiseClocks]
         /\ en = 0 => esp'.low = (IF esp.low < ResetClocks THEN esp.low + 1 ELSE ResetClocks)
                      /\ esp'.high = 0
         /\ en = 1 => esp'.high = (IF esp.high < RiseClocks THEN esp.high + 1 ELSE RiseClocks)
                      /\ esp'.low = 0
         /\ esp'.low = ResetClocks => esp'.mode = "off"
         /\ esp'.low # ResetClocks =>
              esp'.mode = IF esp.mode = "off" /\ esp'.high = RiseClocks THEN "app" ELSE esp.mode
         /\ starts' = IF esp.mode = "off" /\ esp'.high = RiseClocks /\ starts < 2
                      THEN starts + 1 ELSE starts
         /\ starts' \in 0 .. 2
<1> DEFINE low == IF en = 0
                  THEN (IF esp.low < ResetClocks THEN esp.low + 1 ELSE esp.low) ELSE 0
           high == IF en = 1
                   THEN (IF esp.high < RiseClocks THEN esp.high + 1 ELSE esp.high) ELSE 0
           mode == IF low = ResetClocks THEN "off"
                   ELSE IF esp.mode = "off" /\ high = RiseClocks THEN "app" ELSE esp.mode
<1>0. Gpio0Pin = 1  BY DEF Gpio0Pin, gpio0_oe
<1>1. /\ esp' = [low |-> low, high |-> high, mode |-> mode]
      /\ starts' = IF esp.mode = "off" /\ high = RiseClocks /\ starts < 2
                   THEN starts + 1 ELSE starts
  BY <1>0 DEF EspClock
<1>2. esp.low \in 0 .. ResetClocks /\ esp.high \in 0 .. RiseClocks /\ en \in {0, 1}
      /\ esp.mode \in {"app", "loader", "off"} /\ starts \in 0 .. 2
  BY DEF BootTypes
<1>3. low \in 0 .. ResetClocks /\ high \in 0 .. RiseClocks  BY <1>2, BootTimes
<1>4. mode \in {"app", "loader", "off"}
  <2> HIDE DEF low, high
  <2> QED BY <1>2
<1>5. en = 0 => high = 0
                /\ low = (IF esp.low < ResetClocks THEN esp.low + 1 ELSE ResetClocks)
  BY <1>2, BootTimes
<1>6. en = 1 => low = 0
                /\ high = (IF esp.high < RiseClocks THEN esp.high + 1 ELSE RiseClocks)
  BY <1>2, BootTimes
<1>7. low = ResetClocks => mode = "off"  OBVIOUS
<1>8. low # ResetClocks =>
        mode = IF esp.mode = "off" /\ high = RiseClocks THEN "app" ELSE esp.mode
  OBVIOUS
<1> HIDE DEF low, high, mode
<1>9. esp'.low = low /\ esp'.high = high /\ esp'.mode = mode
      /\ esp' \in [mode : {"app", "loader", "off"}, low : 0 .. ResetClocks,
                   high : 0 .. RiseClocks]
  BY <1>1, <1>3, <1>4
<1>10. starts' \in 0 .. 2  BY <1>1, <1>2
<1> QED BY <1>1, <1>5, <1>6, <1>7, <1>8, <1>9, <1>10

LEMMA ClockFollows ==
  ASSUME BootTypes, BootClock
  PROVE  /\ BootTypes' /\ Followed'
         /\ waits' = (IF waits < LongWait THEN waits + 1 ELSE LongWait) /\ waits' >= 1
         /\ UNCHANGED <<dtr, rts, pwr, tool, asked>> /\ EspClock
<1>1. UNCHANGED <<dtr, rts, pwr, tool, asked>> /\ EspClock /\ en' = EnNext
      /\ gpio0' = GpioNext
  BY DEF BootClock, EnNext, GpioNext
<1>2. waits \in 0 .. LongWait /\ LongWait \in Nat /\ LongWait >= 2
  BY BootTimes DEF BootTypes
<1>3. waits' = (IF waits < LongWait THEN waits + 1 ELSE LongWait)
  BY <1>2 DEF BootClock
<1>4. waits' \in 0 .. LongWait /\ waits' >= 1  BY <1>2, <1>3
<1>5. esp' \in [mode : {"app", "loader", "off"}, low : 0 .. ResetClocks,
                high : 0 .. RiseClocks] /\ starts' \in 0 .. 2
  BY <1>1, EspFollows
<1>6. en' \in {0, 1} /\ gpio0' \in {0, 1}  BY <1>1 DEF EnNext, GpioNext
<1>7. BootTypes'  BY <1>1, <1>4, <1>5, <1>6 DEF BootTypes
<1>8. Followed'  BY <1>1 DEF Followed, EnNext, GpioNext, ResetNow, LoaderNow
<1> QED BY <1>1, <1>3, <1>4, <1>7, <1>8

\* A clock while nothing is to happen, or while a line is back already.
LEMMA RestingClock == ASSUME BootTypes, Followed, Resting, BootClock PROVE Resting'
<1>1. /\ esp' \in [mode : {"app", "loader", "off"}, low : 0 .. ResetClocks,
                   high : 0 .. RiseClocks]
      /\ en = 0 => esp'.low = (IF esp.low < ResetClocks THEN esp.low + 1 ELSE ResetClocks)
      /\ en = 1 => esp'.low = 0
      /\ esp'.low # ResetClocks =>
           esp'.mode = IF esp.mode = "off" /\ esp'.high = RiseClocks THEN "app" ELSE esp.mode
      /\ starts' = IF esp.mode = "off" /\ esp'.high = RiseClocks /\ starts < 2
                   THEN starts + 1 ELSE starts
  BY ClockFollows, EspFollows
<1>2. waits >= 1 => en = 1
  BY DEF Resting, Followed, EnNext, ResetNow
<1>3. en \in {0, 1} /\ waits \in 0 .. LongWait
      /\ esp.low \in 0 .. ResetClocks /\ esp.mode = "app" /\ starts = asked
  BY DEF BootTypes, Resting
<1>4. waits' = (IF waits < LongWait THEN waits + 1 ELSE LongWait)
      /\ UNCHANGED <<dtr, rts, pwr, tool, asked>>
  BY ClockFollows
<1>5. waits = 0 => esp'.low <= ResetClocks - 1
  BY <1>1, <1>3, BootTimes DEF Resting
<1>6. waits >= 1 => esp'.low = 0  BY <1>1, <1>2
<1>7. esp'.low # ResetClocks  BY <1>3, <1>5, <1>6, BootTimes
<1>8. esp'.mode = "app" /\ starts' = asked'  BY <1>1, <1>3, <1>4, <1>7
<1>9. waits' # 0 /\ (waits' = 1 => waits = 0) /\ (waits' >= 2 => waits >= 1)
  BY <1>3, <1>4, BootTimes
<1>10. esp'.low \in 0 .. ResetClocks  BY <1>1
<1>11. /\ waits' = 0 => esp'.low <= ResetClocks - 2
       /\ waits' = 1 => esp'.low <= ResetClocks - 1
       /\ waits' >= 2 => esp'.low = 0
  BY <1>5, <1>6, <1>9
<1> QED BY <1>4, <1>8, <1>11 DEF Resting

\* A clock while en rises: off until RiseClocks have passed.
LEMMA ReleasedClock ==
  ASSUME BootTypes, BootClock, Released, waits >= 1 => en = 1, waits < LongWait \/ waits >= 1
  PROVE  /\ esp'.high = waits' - 1
         /\ esp'.high < RiseClocks => Released' /\ starts' = starts
         /\ ~(esp'.high < RiseClocks) =>
              /\ waits >= 1 /\ esp'.low = 0 /\ waits' >= 2
              /\ esp'.mode = "app" /\ (starts = 0 => starts' = 1)
<1>1. /\ esp' \in [mode : {"app", "loader", "off"}, low : 0 .. ResetClocks,
                   high : 0 .. RiseClocks]
      /\ en = 0 => esp'.low = (IF esp.low < ResetClocks THEN esp.low + 1 ELSE ResetClocks)
                   /\ esp'.high = 0
      /\ en = 1 => esp'.high = (IF esp.high < RiseClocks THEN esp.high + 1 ELSE RiseClocks)
                   /\ esp'.low = 0
      /\ esp'.low = ResetClocks => esp'.mode = "off"
      /\ esp'.low # ResetClocks =>
           esp'.mode = IF esp.mode = "off" /\ esp'.high = RiseClocks THEN "app" ELSE esp.mode
      /\ starts' = IF esp.mode = "off" /\ esp'.high = RiseClocks /\ starts < 2
                   THEN starts + 1 ELSE starts
  BY ClockFollows, EspFollows
<1>2. waits' = (IF waits < LongWait THEN waits + 1 ELSE LongWait) /\ waits' >= 1
  BY ClockFollows
<1>3. waits \in 0 .. LongWait /\ starts \in 0 .. 2 /\ esp.mode = "off"
  BY DEF BootTypes, Released
<1>9. esp'.high < RiseClocks => starts' = starts  BY <1>1, BootTimes
<1>10. esp'.high = RiseClocks /\ starts = 0 => starts' = 1  BY <1>1, <1>3
<1>4. CASE waits = 0
  <2>1. esp'.high = 0 /\ esp'.low = ResetClocks /\ waits' = 1
    BY <1>1, <1>2, <1>4, BootTimes DEF Released
  <2> QED BY <1>1, <1>9, <2>1, BootTimes DEF Released
<1>5. CASE waits >= 1
  <2>1. en = 1 /\ esp.high = waits - 1 /\ esp.high < RiseClocks /\ esp.mode = "off"
    BY <1>5 DEF Released
  <2>2. waits < LongWait  BY <1>3, <2>1, BootTimes
  <2>3. waits' = waits + 1 /\ esp'.high = waits /\ esp'.low = 0
    BY <1>1, <1>2, <1>3, <2>1, <2>2
  <2>4. esp'.high \in 0 .. RiseClocks /\ esp'.low # ResetClocks  BY <1>1, <2>3, BootTimes
  <2>5. esp'.high < RiseClocks => esp'.mode = "off"  BY <1>1, <2>1, <2>4
  <2>6. ~(esp'.high < RiseClocks) => esp'.high = RiseClocks  BY <2>4, BootTimes
  <2>7. ~(esp'.high < RiseClocks) => esp'.mode = "app"
    BY <1>1, <2>1, <2>4, <2>6
  <2>8. ~(esp'.high < RiseClocks) => (starts = 0 => starts' = 1)  BY <1>10, <2>6
  <2> QED BY <1>3, <1>5, <1>9, <2>3, <2>5, <2>7, <2>8 DEF Released
<1> QED BY <1>3, <1>4, <1>5

LEMMA RisingClock ==
  ASSUME BootTypes, Followed, Rising, BootClock PROVE Rising' \/ Resting'
<1>1. waits >= 1 => en = 1
  BY DEF Rising, Followed, EnNext, ResetNow
<1>2. waits \in 0 .. LongWait  BY DEF BootTypes
<1>3. UNCHANGED <<dtr, rts, pwr, tool, asked>>  BY ClockFollows
<1>4. waits < LongWait \/ waits >= 1  BY <1>2, BootTimes
<1>5. Released /\ Asked  BY DEF Rising
<1>6. CASE esp'.high < RiseClocks  BY <1>1, <1>3, <1>4, <1>5, <1>6, ReleasedClock DEF Rising, Asked
<1>7. CASE ~(esp'.high < RiseClocks)
  <2>1. waits >= 1 /\ esp'.low = 0 /\ waits' >= 2
        /\ esp'.mode = "app" /\ starts' = 1
    BY <1>1, <1>4, <1>5, <1>7, ReleasedClock DEF Asked
  <2> QED BY <1>1, <1>3, <1>5, <2>1 DEF Rising, Resting, Asked
<1> QED BY <1>6, <1>7

LEMMA BetweenClock == ASSUME BootTypes, Followed, Between, BootClock PROVE Between'
<1>1. waits >= 1 => en = 1  BY DEF Between, Followed, EnNext, ResetNow
<1>2. waits \in 0 .. LongWait  BY DEF BootTypes
<1>3. UNCHANGED <<dtr, rts, pwr, tool, asked>>
      /\ waits' = (IF waits < LongWait THEN waits + 1 ELSE LongWait)
  BY ClockFollows
<1>4. waits < LongWait \/ waits >= 1  BY <1>2, BootTimes
<1>5. tool # <<>> /\ tool[1].together
  BY ToolLines DEF Between
<1>6. waits < SkewClocks  BY <1>5 DEF BootClock
<1>7. waits' <= SkewClocks /\ waits' = waits + 1  BY <1>2, <1>3, <1>6, BootTimes
<1>8. esp'.high < RiseClocks
  <2>1. esp'.high = waits' - 1  BY <1>1, <1>4, ReleasedClock DEF Between
  <2> QED BY <1>2, <1>7, <2>1, BootTimes
<1> QED BY <1>1, <1>3, <1>4, <1>7, <1>8, ReleasedClock DEF Between, Asked

LEMMA StartedClock == ASSUME BootTypes, Followed, Started, BootClock PROVE Started'
<1>1. waits >= 1 /\ waits = LongWait /\ LongWait \in Nat  BY BootTimes DEF Started
<1>2. en = 1  BY <1>1 DEF Started, Followed, EnNext, ResetNow
<1>3. UNCHANGED <<dtr, rts, pwr, tool, asked>> /\ waits' = LongWait
  BY <1>1, ClockFollows
<1>4. esp'.low = 0
      /\ (esp'.low # ResetClocks =>
            esp'.mode = IF esp.mode = "off" /\ esp'.high = RiseClocks THEN "app" ELSE esp.mode)
      /\ starts' = IF esp.mode = "off" /\ esp'.high = RiseClocks /\ starts < 2
                   THEN starts + 1 ELSE starts
  BY <1>2, ClockFollows, EspFollows
<1>5. esp'.mode = "app" /\ starts' = 0
  BY <1>4, BootTimes DEF Started
<1> QED BY <1>3, <1>4, <1>5 DEF Started

LEMMA FallingClock == ASSUME BootTypes, Followed, Falling, BootClock PROVE Falling'
<1>1. waits >= 1 => en = 0  BY DEF Falling, Held, Followed, EnNext, ResetNow
<1>2. waits \in 0 .. LongWait /\ esp.low \in 0 .. ResetClocks  BY DEF BootTypes
<1>3. UNCHANGED <<dtr, rts, pwr, tool, asked>>
      /\ waits' = (IF waits < LongWait THEN waits + 1 ELSE LongWait)
  BY ClockFollows
<1>4. /\ en = 0 => esp'.low = (IF esp.low < ResetClocks THEN esp.low + 1 ELSE ResetClocks)
      /\ en = 1 => esp'.low = 0
      /\ esp'.low = ResetClocks => esp'.mode = "off"
      /\ en = 0 => esp'.high = 0
      /\ starts' = IF esp.mode = "off" /\ esp'.high = RiseClocks /\ starts < 2
                   THEN starts + 1 ELSE starts
  BY ClockFollows, EspFollows
<1>5. Held'
  <2>1. waits = 0 => esp.mode # "off"  BY DEF Falling
  <2>2. waits >= 1 => esp'.high # RiseClocks  BY <1>1, <1>4, BootTimes
  <2>3. starts' = starts  BY <1>2, <1>4, <2>1, <2>2
  <2> QED BY <1>3, <2>3 DEF Falling, Held, Asked
<1>6. waits' >= 1
      /\ esp'.low = IF waits' - 1 < ResetClocks THEN waits' - 1 ELSE ResetClocks
  <2>1. CASE waits = 0
    <3>1. en = 1  BY <2>1 DEF Falling
    <3>2. waits' = 1 /\ esp'.low = 0  BY <1>3, <1>4, <2>1, <3>1, BootTimes
    <3> QED BY <3>2, BootTimes
  <2>2. CASE waits >= 1
    <3>1. esp.low = IF waits - 1 < ResetClocks THEN waits - 1 ELSE ResetClocks
      BY <2>2 DEF Falling
    <3>2. esp'.low = (IF esp.low < ResetClocks THEN esp.low + 1 ELSE ResetClocks)
      BY <1>1, <1>4, <2>2
    <3> QED BY <1>2, <1>3, <2>2, <3>1, <3>2, BootTimes
  <2> QED BY <1>2, <2>1, <2>2
<1> QED BY <1>4, <1>5, <1>6 DEF Falling

LEMMA LoadingClock == ASSUME BootTypes, Followed, Loading, BootClock PROVE Loading'
<1>1. waits >= 1 => en = 1
  BY DEF Loading, Followed, EnNext, ResetNow
<1>2. waits \in 0 .. LongWait /\ esp.low \in 0 .. ResetClocks /\ esp.high \in 0 .. RiseClocks
      /\ en \in {0, 1}
  BY DEF BootTypes
<1>3. UNCHANGED <<dtr, rts, pwr, tool, asked>>
      /\ waits' = (IF waits < LongWait THEN waits + 1 ELSE LongWait)
  BY ClockFollows
<1>4. /\ esp' \in [mode : {"app", "loader", "off"}, low : 0 .. ResetClocks,
                   high : 0 .. RiseClocks]
      /\ en = 0 => esp'.low = (IF esp.low < ResetClocks THEN esp.low + 1 ELSE ResetClocks)
                   /\ esp'.high = 0
      /\ en = 1 => esp'.high = (IF esp.high < RiseClocks THEN esp.high + 1 ELSE RiseClocks)
                   /\ esp'.low = 0
      /\ esp'.low = ResetClocks => esp'.mode = "off"
      /\ esp'.low # ResetClocks =>
           esp'.mode = IF esp.mode = "off" /\ esp'.high = RiseClocks THEN "app" ELSE esp.mode
      /\ starts' = IF esp.mode = "off" /\ esp'.high = RiseClocks /\ starts < 2
                   THEN starts + 1 ELSE starts
  BY ClockFollows, EspFollows
<1>5. CASE waits = 0
  <2>1. waits' = 1 /\ esp.mode = "off" /\ starts = 0  BY <1>3, <1>5, BootTimes DEF Loading
  <2>2. CASE en = 0 /\ esp.low = ResetClocks
    <3>1. esp'.low = ResetClocks /\ esp'.high = 0 /\ esp'.mode = "off" /\ starts' = 0
      BY <1>4, <2>1, <2>2, BootTimes
    <3> QED BY <1>3, <2>1, <3>1, BootTimes DEF Loading
  <2>3. CASE en = 1 /\ esp.high < RiseClocks - 2
    <3>1. esp'.low = 0 /\ esp'.high = esp.high + 1 /\ esp'.high < RiseClocks
      BY <1>2, <1>4, <2>3, BootTimes
    <3>2. esp'.mode = "off" /\ esp'.high >= 0 /\ starts' = 0
      BY <1>2, <1>4, <2>1, <3>1, BootTimes
    <3> QED BY <1>3, <2>1, <3>1, <3>2, BootTimes DEF Loading
  <2> QED BY <1>5, <2>2, <2>3 DEF Loading
<1>6. CASE waits >= 1
  <2>1. esp'.low = 0 /\ esp'.low # ResetClocks
        /\ esp'.high = (IF esp.high < RiseClocks THEN esp.high + 1 ELSE RiseClocks)
        /\ esp'.high \in 0 .. RiseClocks /\ waits' >= 1
    BY <1>1, <1>2, <1>3, <1>4, <1>6, BootTimes
  <2>2. esp'.mode = IF esp.mode = "off" /\ esp'.high = RiseClocks THEN "app" ELSE esp.mode
    BY <1>4, <2>1
  <2>3. \/ esp'.mode = "off" /\ starts' = 0
        \/ esp'.mode = "app" /\ starts' = 1
    <3>1. CASE esp.mode = "off" /\ starts = 0  BY <1>4, <2>2, <3>1
    <3>2. CASE esp.mode = "app" /\ starts = 1  BY <1>4, <2>2, <3>2
    <3> QED BY <3>1, <3>2 DEF Loading
  <2>4. esp'.mode = "off" => esp.mode = "off" /\ esp'.high # RiseClocks  BY <2>2
  <2>5. esp.mode = "off" => esp.high >= waits - 1 /\ esp.high < RiseClocks
    BY <1>6 DEF Loading
  <2>6. esp'.mode = "off" => esp'.high >= waits' - 1 /\ esp'.high < RiseClocks
    BY <1>2, <1>3, <2>1, <2>4, <2>5, BootTimes
  <2> QED BY <1>3, <2>1, <2>3, <2>6 DEF Loading
<1> QED BY <1>2, <1>5, <1>6

LEMMA BlipClock == ASSUME BootTypes, Followed, Blip, BootClock PROVE Blip'
<1>1. waits \in 0 .. LongWait /\ esp.low \in 0 .. ResetClocks /\ en \in {0, 1}
  BY DEF BootTypes
<1>2. UNCHANGED <<dtr, rts, pwr, tool, asked>>
      /\ waits' = (IF waits < LongWait THEN waits + 1 ELSE LongWait)
  BY ClockFollows
<1>3. PICK x \in {0, 1} : tool = <<Both(x, x)>>  BY DEF Blip
<1>4. tool # <<>> /\ tool[1].together  BY <1>3, ToolLines
<1>5. waits < SkewClocks  BY <1>4 DEF BootClock
<1>6. waits' = waits + 1 /\ waits' <= SkewClocks  BY <1>1, <1>2, <1>5, BootTimes
<1>7. /\ en = 0 => esp'.low = (IF esp.low < ResetClocks THEN esp.low + 1 ELSE ResetClocks)
      /\ en = 1 => esp'.low = 0
      /\ esp'.low # ResetClocks =>
           esp'.mode = IF esp.mode = "off" /\ esp'.high = RiseClocks THEN "app" ELSE esp.mode
      /\ starts' = IF esp.mode = "off" /\ esp'.high = RiseClocks /\ starts < 2
                   THEN starts + 1 ELSE starts
  BY ClockFollows, EspFollows
<1>8. esp'.low <= waits'  BY <1>1, <1>6, <1>7, BootTimes DEF Blip
<1>9. esp'.low # ResetClocks  BY <1>1, <1>6, <1>7, <1>8, BootTimes
<1>10. esp'.mode = "app" /\ starts' = 0  BY <1>7, <1>9 DEF Blip
<1> QED BY <1>2, <1>6, <1>8, <1>10 DEF Blip

LEMMA BootClockHolds == ASSUME BootInv, BootClock PROVE BootInv'
<1>1. BootTypes /\ Followed /\ BootTypes' /\ Followed'  BY ClockFollows DEF BootInv
<1> QED BY <1>1, RestingClock, RisingClock, StartedClock, FallingClock, BetweenClock,
           LoadingClock, BlipClock
        DEF BootInv

\* A tool starts, or the button is pressed, only when the MCU is where it was left.
LEMMA AtRest ==
  ASSUME BootInv, Rested
  PROVE  Resting /\ waits = LongWait /\ waits >= 2 /\ dtr = rts /\ pwr = 0
         /\ en = 1 /\ gpio0 = 1 /\ esp.low = 0
<1>1. waits = LongWait /\ tool = <<>> /\ pwr = 0 /\ waits >= 2 /\ waits >= 1
      /\ LongWait > SkewClocks /\ waits \in Nat
  BY BootTimes DEF Rested
<1>2. ~Rising
  <2>1. Released => waits - 1 < RiseClocks  BY <1>1 DEF Released
  <2> QED BY <1>1, <2>1, BootTimes DEF Rising
<1>3. ~Started  BY <1>1, ToolLines DEF Started, HardReset, EnterLoader
<1>4. ~Falling  BY <1>1, ToolLines DEF Falling, Held
<1>5. ~Between /\ ~Loading /\ ~Blip  BY <1>1, ToolLines DEF Between, Loading, Blip
<1>6. Resting  BY <1>2, <1>3, <1>4, <1>5 DEF BootInv
<1>7. en = 1 /\ gpio0 = 1 /\ esp.low = 0
  BY <1>1, <1>6 DEF BootInv, Resting, Followed, EnNext, GpioNext, ResetNow, LoaderNow
<1> QED BY <1>1, <1>6, <1>7 DEF Resting

LEMMA StartToolHolds == ASSUME BootInv, StartTool PROVE BootInv'
<1>1. Rested /\ UNCHANGED <<dtr, rts, pwr, en, gpio0, esp, waits>> /\ starts' = 0  BY DEF StartTool
<1>2. Resting /\ waits = LongWait /\ dtr = rts /\ pwr = 0 /\ esp.low = 0
      /\ BootTypes /\ Followed
  BY <1>1, AtRest DEF BootInv
<1>3. asked' \in 0 .. 1  BY DEF StartTool
<1>4. BootTypes' /\ Followed'
  BY <1>1, <1>2, <1>3 DEF BootTypes, Followed, EnNext, GpioNext, ResetNow, LoaderNow
<1>5. \/ dtr = 1 /\ tool' = HardReset /\ asked' = 1
      \/ dtr = 1 /\ tool' = EnterLoader /\ asked' = 1
      \/ asked' = 0 /\ \E d, x \in {0, 1} : tool' = <<Then(d, 1 - d), Both(x, x)>>
  BY DEF StartTool, Opens, Closes
<1>6. Started'  BY <1>1, <1>2, <1>5 DEF Started, Resting
<1> QED BY <1>4, <1>6 DEF BootInv

LEMMA ButtonHolds == ASSUME BootInv, Button PROVE BootInv'
<1>1. UNCHANGED <<dtr, rts, en, gpio0, esp, tool>> /\ pwr' = 1 - pwr /\ waits' = 0
      /\ asked' = 1 /\ starts' = 0 /\ (Rested \/ (pwr = 1 /\ waits = LongWait))
      /\ BootTypes /\ Followed
  BY DEF Button, BootInv
<1>2. BootTypes'  BY <1>1, BootTimes DEF BootTypes
<1>3. Followed'  BY <1>1 DEF Followed
<1>4. CASE Rested
  <2>1. Resting /\ dtr = rts /\ pwr = 0 /\ en = 1 /\ esp.low = 0  BY <1>4, AtRest
  <2>2. Held'  BY <1>1, <2>1 DEF Held, Asked, Resting
  <2>3. Falling'  BY <1>1, <2>1, <2>2, BootTimes DEF Falling, Resting
  <2> QED BY <1>2, <1>3, <2>3 DEF BootInv
<1>5. CASE pwr = 1 /\ waits = LongWait
  <2>1. Falling
    BY <1>5 DEF BootInv, Resting, Rising, Started, Between, Loading, Blip
  <2>2. dtr = rts /\ tool = <<>>  BY <1>5, <2>1 DEF Falling, Held
  <2>3. esp.low = ResetClocks /\ esp.mode = "off"  BY <1>5, <2>1, BootTimes DEF Falling
  <2>4. en = 0  BY <1>1, <1>5, BootTimes DEF Followed, EnNext
  <2>5. Rising'  BY <1>1, <1>5, <2>2, <2>3, <2>4 DEF Rising, Released, Asked
  <2> QED BY <1>2, <1>3, <2>5 DEF BootInv
<1> QED BY <1>1, <1>4, <1>5

\* The next line is set, whose levels the tool names.
LEMMA SetLineHolds == ASSUME BootInv, SetLine PROVE BootInv'
<1>1. /\ tool # <<>> /\ (tool[1].together \/ waits = LongWait)
      /\ dtr' = tool[1].dtr /\ rts' = tool[1].rts /\ tool' = Tail(tool) /\ waits' = 0
      /\ UNCHANGED <<pwr, en, gpio0, esp, asked, starts>> /\ BootTypes /\ Followed
  BY DEF SetLine, BootInv
<1>2. Followed'  BY <1>1 DEF Followed
<1> SUFFICES /\ dtr' \in {0, 1} /\ rts' \in {0, 1}
             /\ \/ Resting' \/ Rising' \/ Started' \/ Falling' \/ Between'
                \/ Loading' \/ Blip'
  <2>1. ASSUME dtr' \in {0, 1} /\ rts' \in {0, 1} PROVE BootTypes'
    BY <1>1, <2>1, BootTimes DEF BootTypes
  <2> QED BY <1>2, <2>1 DEF BootInv
<1>3. ~Resting /\ ~Rising  BY <1>1 DEF Resting, Rising
<1>4. CASE Started
  <2>1. en = 1 /\ esp.low = 0 /\ waits >= 1
    BY <1>1, <1>4, BootTimes DEF Started, Followed, EnNext, ResetNow
  <2>2. CASE tool = HardReset \/ tool = EnterLoader
    <3>1. dtr' = 1 /\ rts' = 0
          /\ (tool = HardReset => tool' = <<Then(1, 1)>>)
          /\ (tool = EnterLoader => tool' = <<Then(0, 0), Both(0, 1), Then(1, 1)>>)
      <4>1. tool[1] = Then(1, 0)  BY <2>2, ToolLines DEF HardReset, EnterLoader
      <4>2. dtr' = 1 /\ rts' = 0  BY <1>1, <4>1, ToolLines
      <4>3. tool = HardReset => tool' = <<Then(1, 1)>>  BY <1>1, ToolLines DEF HardReset
      <4>4. tool = EnterLoader => tool' = <<Then(0, 0), Both(0, 1), Then(1, 1)>>
        BY <1>1, ToolLines DEF EnterLoader
      <4> QED BY <4>2, <4>3, <4>4
    <3>2. CASE tool = HardReset /\ asked = 1
      <4>1. Held'  BY <1>1, <1>4, <3>1, <3>2 DEF Started, Held, Asked
      <4> QED BY <1>1, <1>4, <2>1, <3>1, <4>1, BootTimes DEF Falling, Started
    <3>3. CASE tool = EnterLoader /\ asked = 1
      <4>1. Held'  BY <1>1, <1>4, <3>1, <3>3 DEF Started, Held, Asked
      <4> QED BY <1>1, <1>4, <2>1, <3>1, <4>1, BootTimes DEF Falling, Started
    <3>4. ~\E d, x \in {0, 1} : tool = <<Then(d, 1 - d), Both(x, x)>>
      <4> SUFFICES ASSUME NEW d \in {0, 1}, NEW x \in {0, 1},
                          tool = <<Then(d, 1 - d), Both(x, x)>>
                   PROVE FALSE
        OBVIOUS
      <4>1. tool' = <<Both(x, x)>>  BY <1>1, ToolLines
      <4>2. tool'[1] = Both(x, x)  BY <4>1, ToolLines
      <4>3. tool'[1].together  BY <4>2, ToolLines
      <4>4. tool'[1] = Then(1, 1) \/ tool'[1] = Then(0, 0)  BY <2>2, <3>1, ToolLines
      <4> QED BY <4>3, <4>4, ToolLines
    <3> QED BY <1>4, <3>1, <3>2, <3>3, <3>4 DEF Started
  <2>3. CASE asked = 0 /\ \E d, x \in {0, 1} : tool = <<Then(d, 1 - d), Both(x, x)>>
    <3>1. PICK d \in {0, 1}, x \in {0, 1} : tool = <<Then(d, 1 - d), Both(x, x)>>  BY <2>3
    <3>2. 1 - d \in {0, 1} /\ d # 1 - d  OBVIOUS
    <3>3. dtr' = d /\ rts' = 1 - d /\ tool' = <<Both(x, x)>>  BY <1>1, <3>1, <3>2, ToolLines
    <3> QED BY <1>1, <1>4, <2>1, <2>3, <3>2, <3>3, BootTimes DEF Started, Blip
  <2> QED BY <1>4, <2>2, <2>3 DEF Started
<1>5. CASE Falling
  <2>1. tool = <<Then(1, 1)>> \/ tool = <<Then(0, 0), Both(0, 1), Then(1, 1)>>
    BY <1>1, <1>5 DEF Falling, Held
  <2>2. ~tool[1].together /\ waits = LongWait  BY <1>1, <2>1, ToolLines
  <2>3. esp.low = ResetClocks /\ esp.mode = "off"  BY <1>5, <2>2, BootTimes DEF Falling
  <2>4. CASE pwr = 0 /\ dtr = 1 /\ rts = 0 /\ tool = <<Then(1, 1)>> /\ Asked
    <3>1. dtr' = 1 /\ rts' = 1 /\ tool' = <<>>  BY <1>1, <2>4, ToolLines
    <3>2. en = 0  BY <1>1, <2>2, <2>4, BootTimes DEF Followed, EnNext, ResetNow
    <3> QED BY <1>1, <2>3, <2>4, <3>1, <3>2 DEF Rising, Released, Asked
  <2>5. CASE /\ pwr = 0 /\ dtr = 1 /\ rts = 0 /\ Asked
             /\ tool = <<Then(0, 0), Both(0, 1), Then(1, 1)>>
    <3>1. dtr' = 0 /\ rts' = 0 /\ tool' = <<Both(0, 1), Then(1, 1)>>
      BY <1>1, <2>5, ToolLines
    <3>2. en = 0  BY <1>1, <2>2, <2>5, BootTimes DEF Followed, EnNext, ResetNow
    <3> QED BY <1>1, <2>3, <2>5, <3>1, <3>2, BootTimes DEF Between, Released, Asked
  <2> QED BY <1>1, <1>5, <2>4, <2>5 DEF Falling, Held
<1>6. CASE Between
  <2>1. dtr' = 0 /\ rts' = 1 /\ tool' = <<Then(1, 1)>>  BY <1>1, <1>6, ToolLines DEF Between
  <2>2. waits = 0 \/ en = 1  BY <1>1, <1>6 DEF Between, Followed, EnNext, ResetNow, BootTypes
  <2>3. \/ en = 0 /\ esp.low = ResetClocks
        \/ en = 1 /\ esp.high < RiseClocks - 2
    <3>1. CASE waits = 0  BY <1>6, <3>1 DEF Between, Released
    <3>2. CASE waits # 0
      <4>1. waits >= 1 /\ waits \in Nat /\ waits <= SkewClocks
        BY <1>1, <1>6, <3>2, BootTimes DEF BootTypes, Between
      <4> QED BY <1>6, <2>2, <3>2, <4>1, BootTimes DEF Between, Released
    <3> QED BY <3>1, <3>2
  <2> QED BY <1>1, <1>6, <2>1, <2>3 DEF Between, Released, Loading, Asked
<1>7. CASE Loading
  <2>1. dtr' = 1 /\ rts' = 1 /\ tool' = <<>> /\ ~tool[1].together
    BY <1>1, <1>7, ToolLines DEF Loading
  <2>2. waits = LongWait /\ waits >= 2 /\ waits >= 1 /\ waits \in Nat
    BY <1>1, <2>1, BootTimes
  <2>3. esp.mode = "app" /\ starts = 1 /\ esp.low = 0
    <3>1. esp.high \in Nat  BY <1>1, BootTimes DEF BootTypes
    <3>2. esp.mode # "off"  BY <1>7, <2>2, <3>1, BootTimes DEF Loading
    <3> QED BY <1>7, <2>2, <3>2 DEF Loading
  <2> QED BY <1>1, <1>7, <2>1, <2>3, BootTimes DEF Loading, Resting
<1>8. CASE Blip
  <2>1. PICK x \in {0, 1} : tool = <<Both(x, x)>>  BY <1>8 DEF Blip
  <2>2. dtr' = x /\ rts' = x /\ tool' = <<>>  BY <1>1, <2>1, ToolLines
  <2>3. esp.low <= ResetClocks - 2
    BY <1>1, <1>8, BootTimes DEF Blip, BootTypes
  <2> QED BY <1>1, <1>8, <2>2, <2>3 DEF Blip, Resting
<1> QED BY <1>3, <1>4, <1>5, <1>6, <1>7, <1>8 DEF BootInv

LEMMA BootInvariance == BootSpec => []BootInv
<1>1. BootInit => BootInv  BY BootInitHolds
<1>2. BootInv /\ [BootNext]_bootVars => BootInv'
  <2>1. ASSUME BootInv, BootNext PROVE BootInv'
    BY <2>1, BootClockHolds, StartToolHolds, SetLineHolds, ButtonHolds DEF BootNext
  <2>2. ASSUME BootInv, UNCHANGED bootVars PROVE BootInv'
    BY <2>2 DEF bootVars, BootInv, BootTypes, Followed, EnNext, GpioNext, ResetNow,
      LoaderNow, Resting, Rising, Released, Asked, Started, Falling, Held, Between, Loading, Blip
  <2> QED BY <2>1, <2>2
<1> QED BY <1>1, <1>2, PTL DEF BootSpec

\* Once the tools and the button are done the MCU runs the application, and a
\* reset they asked for has started it again once; opening or closing the port has
\* not (upload.py:122-133), for all times the MCU needs and all delays between two
\* lines that are shorter.
THEOREM ResetsAsAsked == BootSpec => []StartsAsAsked
<1>1. BootInv => StartsAsAsked  BY AtRest DEF StartsAsAsked, Resting
<1> QED BY <1>1, BootInvariance, PTL

-----------------------------------------------------------------------------
(* A transfer over SPI, for all numbers of bits, addresses and words, when *)
(* half a cycle of sclk is long enough for the pins to pass the            *)
(* synchronisers and the answer to be fetched: 5 clocks, of its 12.        *)

LongHalf == HalfClocks >= 5

\* Bits of the frame that the device has sampled: with the third clock after sclk
\* fell it has the next one.
Seen == IF io.at = "high" /\ rest >= 3 THEN io.bit + 1 ELSE io.bit
\* Clocks since sclk fell.
Since == IF io.at = "high" THEN rest ELSE HalfClocks + rest
Answered == Seen = FrameBits /\ ~(io.at = "high" /\ rest = 3)
FrameAddr == [i \in 1 .. CommandBits - 1 |-> io.frame[i + 1]]
FrameValue == [i \in 1 .. WordBits |-> io.frame[CommandBits + i]]

\* What the pins are, and what they were before they changed.
PinsAre ==
  /\ pins.csn = (IF io.at = "idle" THEN 1 ELSE 0) /\ pins.sck = (IF io.at = "high" THEN 0 ELSE 1)
  /\ io.at = "high" => io.bit < FrameBits /\ pins.sdi = io.frame[io.bit + 1]
OldCsn == IF io.at = "low" /\ io.bit = 0 THEN 1 ELSE 0
OldSck == IF io.at = "low" /\ io.bit > 0 THEN 0 ELSE 1
PinsPass ==
  /\ IF rest >= 1 THEN stage0 = pins ELSE stage0.csn = OldCsn /\ stage0.sck = OldSck
  /\ IF rest >= 2 THEN board_spi = pins ELSE board_spi.csn = OldCsn /\ board_spi.sck = OldSck
  /\ pastSck = IF rest >= 3 THEN pins.sck ELSE OldSck

\* Where the device is at each clock of a transfer.
DeviceIs(state, bits) == device.fsm = state /\ device.bits = bits
Unselected == device.fsm \in {"STALL", "IDLE"} /\ (rest < 3 => device.fsm = "STALL")
Selecting ==
  /\ rest = 0 => device.fsm \in {"STALL", "IDLE"}
  /\ rest \in 1 .. 2 => device.fsm = "IDLE"
  /\ rest >= 3 => DeviceIs("COMMAND", 0)
Turning ==
  /\ Since = 3 => DeviceIs("COMMAND", CommandBits)
  /\ Since = 4 => DeviceIs("PROCESSING", 0)
  /\ Since = 5 => DeviceIs("LATCH", 0)
  /\ Since >= 6 => DeviceIs("SHIFT", 0)
Shifting ==
  /\ Seen < CommandBits => DeviceIs("COMMAND", Seen)
  /\ Seen = CommandBits /\ ~(io.at = "high" /\ rest < 3) => Turning
  /\ Seen = CommandBits /\ io.at = "high" /\ rest < 3 => DeviceIs("SHIFT", 0)
  /\ CommandBits < Seen /\ ~Answered => DeviceIs("SHIFT", Seen - CommandBits)
  /\ Answered => device.fsm = "STALL"
DevicePhase ==
  /\ io.at = "idle" => Unselected
  /\ io.at = "low" /\ io.bit = 0 => Selecting
  /\ io.at = "high" \/ (io.at = "low" /\ io.bit > 0) => Shifting

\* What of the frame and of the answer is in each place on the way.
CommandHas ==
  io.at # "idle" =>
    \A i \in 1 .. CommandBits :
      CommandBits - Seen < i =>
        device.command[i] = io.frame[IF Seen < CommandBits THEN i - (CommandBits - Seen) ELSE i]
WordHas ==
  device.fsm = "SHIFT" =>
    \A i \in 1 .. WordBits :
      device.word[i] = IF i + (Seen - CommandBits) <= WordBits
                       THEN expects.got[i + (Seen - CommandBits)]
                       ELSE io.frame[i + Seen - WordBits]
SdoHas ==
  io.at # "idle" /\ Since >= 7 /\ CommandBits <= Seen /\ Seen < FrameBits =>
    device.sdo = expects.got[Seen - CommandBits + 1]
LastHas ==
  ((io.at = "low" /\ rest >= 3) \/ (io.at = "high" /\ rest < 3)) /\ CommandBits <= io.bit /\ io.bit < FrameBits =>
    last_sdo = expects.got[io.bit - CommandBits + 1]
CipoHas ==
  io.at = "high" /\ rest >= 3 /\ CommandBits <= io.bit => cipo = expects.got[io.bit - CommandBits + 1]
GotHas ==
  io.at # "idle" =>
    \A i \in 1 .. WordBits : i <= io.bit - CommandBits => io.got[i + (FrameBits - io.bit)] = expects.got[i]
RegistersHave ==
  /\ io.at = "idle" => registers = expects.regs /\ io.got = expects.got
  /\ io.at # "idle" =>
       /\ FrameAddr \in Addresses /\ FrameValue \in SpiWords
       /\ Answered => registers = expects.regs
       /\ ~Answered =>
            /\ expects.got = registers[FrameAddr]
            /\ expects.regs = IF io.frame[1] = 1 THEN [registers EXCEPT ![FrameAddr] = FrameValue] ELSE registers
ExpectsType ==
  expects \in [regs : [Addresses -> SpiWords \cup {Zeros(WordBits)}], got : [1 .. WordBits -> {0, 1}]]

SpiInv ==
  /\ SpiTypeOK /\ ExpectsType /\ PinsAre /\ PinsPass /\ DevicePhase
  /\ CommandHas /\ WordHas /\ SdoHas /\ LastHas /\ CipoHas /\ GotHas /\ RegistersHave

LEMMA SpiInitHolds == LongHalf /\ SpiInit => SpiInv
<1> SUFFICES ASSUME LongHalf, SpiInit PROVE SpiInv
  OBVIOUS
<1> USE SpiAssumption DEF LongHalf
<1>0. DEFINE zw == Zeros(WordBits)  zc == Zeros(CommandBits)  zf == Zeros(FrameBits)
<1>1. /\ zw \in [1 .. WordBits -> {0, 1}] /\ zc \in [1 .. CommandBits -> {0, 1}]
      /\ zf \in [1 .. FrameBits -> {0, 1}] /\ FrameBits \in Nat
  BY DEF Zeros, FrameBits
<1>2. registers \in [Addresses -> SpiWords \cup {zw}]
  BY DEF SpiInit
<1> HIDE DEF zw, zc, zf
<1>3. /\ io = [at |-> "idle", frame |-> zf, bit |-> 0, got |-> zw]
      /\ device = [fsm |-> "STALL", bits |-> 0, sdo |-> 0, command |-> zc, word |-> zw]
      /\ expects = [regs |-> registers, got |-> zw]
  BY DEF SpiInit, zw, zc, zf
<1>4. ExpectsType
  BY <1>1, <1>2, <1>3 DEF ExpectsType, zw
<1>5. /\ io \in [at : {"idle", "low", "high"}, frame : [1 .. FrameBits -> {0, 1}], bit : 0 .. FrameBits,
              got : [1 .. WordBits -> {0, 1}]]
      /\ device \in [fsm : {"STALL", "IDLE", "COMMAND", "PROCESSING", "LATCH", "SHIFT"}, bits : 0 .. FrameBits,
                  command : [1 .. CommandBits -> {0, 1}], word : [1 .. WordBits -> {0, 1}], sdo : {0, 1}]
  BY <1>1, <1>3
<1>6. SpiTypeOK
  BY <1>1, <1>2, <1>5 DEF SpiTypeOK, SpiInit, IdlePins, zw
<1>7. PinsAre /\ PinsPass
  BY <1>3 DEF PinsAre, PinsPass, SpiInit, IdlePins
<1>8. DevicePhase
  BY <1>3 DEF DevicePhase, Unselected, SpiInit
<1>9. CommandHas /\ WordHas /\ SdoHas /\ LastHas /\ CipoHas /\ GotHas /\ RegistersHave
  BY <1>3 DEF CommandHas, WordHas, SdoHas, LastHas, CipoHas, GotHas, RegistersHave
<1>. QED
  BY <1>4, <1>6, <1>7, <1>8, <1>9 DEF SpiInv

LEMMA SpiTypes ==
  ASSUME SpiInv
  PROVE  /\ CommandBits \in Nat \ {0} /\ WordBits \in Nat \ {0} /\ HalfClocks \in Nat \ {0}
         /\ FrameBits = CommandBits + WordBits /\ FrameBits \in Nat
         /\ rest \in 0 .. HalfClocks /\ io.bit \in 0 .. FrameBits /\ io.at \in {"idle", "low", "high"}
         /\ io.frame \in [1 .. FrameBits -> {0, 1}] /\ io.got \in [1 .. WordBits -> {0, 1}]
         /\ device.fsm \in {"STALL", "IDLE", "COMMAND", "PROCESSING", "LATCH", "SHIFT"}
         /\ device.bits \in 0 .. FrameBits /\ device.sdo \in {0, 1}
         /\ device.command \in [1 .. CommandBits -> {0, 1}] /\ device.word \in [1 .. WordBits -> {0, 1}]
         /\ expects.got \in [1 .. WordBits -> {0, 1}] /\ last_sdo \in {0, 1} /\ cipo \in {0, 1}
         /\ pins \in [csn : {0, 1}, sck : {0, 1}, sdi : {0, 1}]
         /\ stage0 \in [csn : {0, 1}, sck : {0, 1}, sdi : {0, 1}]
         /\ board_spi \in [csn : {0, 1}, sck : {0, 1}, sdi : {0, 1}]
<1>1. SpiTypeOK /\ ExpectsType
  BY DEF SpiInv
<1>2. FrameBits = CommandBits + WordBits /\ FrameBits \in Nat
  BY SpiAssumption DEF FrameBits
<1>. QED
  BY <1>1, <1>2, SpiAssumption DEF SpiTypeOK, ExpectsType

\* What the device sees of a pin, by how long ago it changed.
LEMMA Signals ==
  ASSUME SpiInv
  PROVE  /\ SckFell <=> (io.at = "high" /\ rest = 2)
         /\ SckRose <=> (io.at = "low" /\ io.bit > 0 /\ rest = 2)
         /\ Selected <=> ~((io.at = "idle" /\ rest >= 2) \/ (io.at = "low" /\ io.bit = 0 /\ rest < 2))
         /\ SckFell => board_spi.sdi = io.frame[io.bit + 1]
<1>1. PinsAre /\ PinsPass
  BY DEF SpiInv
<1>2. rest \in Nat /\ io.bit \in Nat /\ io.at \in {"idle", "low", "high"}
  BY SpiTypes
<1>3. /\ board_spi.sck = (IF rest >= 2 THEN pins.sck ELSE OldSck)
      /\ board_spi.csn = (IF rest >= 2 THEN pins.csn ELSE OldCsn)
  BY <1>1 DEF PinsPass
<1>4. pastSck = IF rest >= 3 THEN pins.sck ELSE OldSck
  BY <1>1 DEF PinsPass
<1>5. pins.csn = (IF io.at = "idle" THEN 1 ELSE 0) /\ pins.sck = (IF io.at = "high" THEN 0 ELSE 1)
  BY <1>1 DEF PinsAre
<1>6. SckFell <=> (io.at = "high" /\ rest = 2)
  BY <1>2, <1>3, <1>4, <1>5 DEF SckFell, OldSck
<1>7. SckRose <=> (io.at = "low" /\ io.bit > 0 /\ rest = 2)
  BY <1>2, <1>3, <1>4, <1>5 DEF SckRose, OldSck
<1>8. Selected <=> ~((io.at = "idle" /\ rest >= 2) \/ (io.at = "low" /\ io.bit = 0 /\ rest < 2))
  BY <1>2, <1>3, <1>5 DEF Selected, OldCsn
<1>9. SckFell => board_spi.sdi = io.frame[io.bit + 1]
  BY <1>1, <1>2, <1>6 DEF PinsPass, PinsAre
<1>. QED
  BY <1>6, <1>7, <1>8, <1>9

\* A clock of sync leaves the pins alone, which pass one synchroniser more.
LEMMA ClockPasses ==
  ASSUME LongHalf, SpiInv, SpiClock
  PROVE  /\ rest < HalfClocks /\ rest' = rest + 1 /\ io' = io /\ pins' = pins /\ expects' = expects
         /\ Seen' = IF SckFell THEN Seen + 1 ELSE Seen
         /\ Since' = Since + 1 /\ Since \in Nat
         /\ PinsAre' /\ PinsPass'
<1>1. PinsAre /\ PinsPass
  BY DEF SpiInv
<1>2. rest \in 0 .. HalfClocks /\ io.bit \in Nat /\ io.at \in {"idle", "low", "high"} /\ HalfClocks \in Nat
  BY SpiTypes
<1>3. rest < HalfClocks
  BY <1>1, <1>2 DEF SpiClock, PinsPass, LongHalf
<1>4. rest' = rest + 1 /\ io' = io /\ pins' = pins /\ expects' = expects
  BY <1>3 DEF SpiClock
<1>5. Seen' = IF SckFell THEN Seen + 1 ELSE Seen
  BY <1>2, <1>4, Signals DEF Seen
<1>6. PinsAre'
  BY <1>1, <1>4 DEF PinsAre
<1>7. stage0' = pins' /\ board_spi' = stage0 /\ pastSck' = board_spi.sck
  BY <1>4 DEF SpiClock
<1>8. PinsPass'
  <2>1. OldSck' = OldSck /\ OldCsn' = OldCsn
    BY <1>4 DEF OldSck, OldCsn
  <2>. QED
    BY <1>1, <1>2, <1>4, <1>7, <2>1 DEF PinsPass
<1>9. Since' = Since + 1 /\ Since \in Nat
  BY <1>2, <1>4 DEF Since
<1>. QED
  BY <1>3, <1>4, <1>5, <1>6, <1>8, <1>9

\* What a clock does to the device in each of its states.
LEMMA DeviceFields ==
  ASSUME SpiInv, DeviceClock
  PROVE  /\ device.fsm = "STALL" =>
              device'.fsm = (IF Selected THEN "STALL" ELSE "IDLE") /\ device'.bits = device.bits
         /\ device.fsm = "IDLE" =>
              device'.fsm = (IF Selected THEN "COMMAND" ELSE "IDLE") /\ device'.bits = 0
         /\ device.fsm = "COMMAND" /\ device.bits < CommandBits =>
              /\ device'.fsm = (IF Selected THEN "COMMAND" ELSE "IDLE")
              /\ device'.bits = (IF SckFell THEN device.bits + 1 ELSE device.bits)
              /\ device'.command =
                   (IF SckFell THEN Shifted(device.command, CommandBits, board_spi.sdi) ELSE device.command)
         /\ device.fsm = "COMMAND" /\ device.bits >= CommandBits => device'.fsm = "PROCESSING" /\ device'.bits = 0
         /\ device.fsm = "PROCESSING" => device'.fsm = "LATCH" /\ device'.bits = device.bits
         /\ device.fsm = "LATCH" =>
              device'.fsm = "SHIFT" /\ device'.bits = device.bits /\ device'.word = ReadOf(device.command)
         /\ device.fsm = "SHIFT" /\ device.bits < WordBits =>
              /\ device'.fsm = (IF Selected THEN "SHIFT" ELSE "IDLE")
              /\ device'.bits = (IF SckFell THEN device.bits + 1 ELSE device.bits)
              /\ device'.word = (IF SckFell THEN Shifted(device.word, WordBits, board_spi.sdi) ELSE device.word)
              /\ device'.sdo = device.word[1]
         /\ device.fsm = "SHIFT" /\ device.bits >= WordBits =>
              device'.fsm = "STALL" /\ device'.bits = 0 /\ device'.sdo = device.word[1]
         /\ ~(device.fsm = "COMMAND" /\ device.bits < CommandBits) => device'.command = device.command
         /\ device.fsm \notin {"LATCH", "SHIFT"} => device'.word = device.word
         /\ device.fsm = "SHIFT" /\ device.bits >= WordBits => device'.word = device.word
         /\ device.fsm # "SHIFT" => device'.sdo = device.sdo
         /\ device' = [fsm |-> device'.fsm, bits |-> device'.bits, command |-> device'.command,
                       word |-> device'.word, sdo |-> device'.sdo]
<1>1. device \in [fsm : {"STALL", "IDLE", "COMMAND", "PROCESSING", "LATCH", "SHIFT"}, bits : 0 .. FrameBits,
                  command : [1 .. CommandBits -> {0, 1}], word : [1 .. WordBits -> {0, 1}], sdo : {0, 1}]
  BY DEF SpiInv, SpiTypeOK
<1>2. device = [fsm |-> device.fsm, bits |-> device.bits, command |-> device.command,
                word |-> device.word, sdo |-> device.sdo]
  BY <1>1
<1>3. CommandBits \in Int /\ WordBits \in Int /\ device.bits \in Int
  BY SpiTypes
<1>4. device.fsm \in {"STALL", "IDLE", "COMMAND", "PROCESSING", "LATCH", "SHIFT"}
  BY SpiTypes
<1>5. /\ (device.bits < CommandBits) <=> ~(device.bits >= CommandBits)
      /\ (device.bits < WordBits) <=> ~(device.bits >= WordBits)
  BY <1>3
<1>c1. CASE device.fsm = "STALL"
  BY <1>2, <1>c1 DEF DeviceClock, To
<1>c2. CASE device.fsm = "IDLE"
  BY <1>2, <1>c2 DEF DeviceClock, To
<1>c3. CASE device.fsm = "COMMAND" /\ device.bits < CommandBits
  <2>1. device' = [device EXCEPT
          !.fsm = IF Selected THEN @ ELSE "IDLE",
          !.bits = IF SckFell THEN @ + 1 ELSE @,
          !.command = IF SckFell THEN Shifted(@, CommandBits, board_spi.sdi) ELSE @]
    BY <1>5, <1>c3, Zenon DEF DeviceClock, To
  <2>. QED
    BY <1>2, <2>1, <1>5, <1>c3
<1>c4. CASE device.fsm = "COMMAND" /\ device.bits >= CommandBits
  <2>1. device' = [device EXCEPT !.fsm = "PROCESSING", !.bits = 0]
    BY <1>5, <1>c4, Zenon DEF DeviceClock, To
  <2>. QED
    BY <1>2, <2>1, <1>5, <1>c4
<1>c5. CASE device.fsm = "PROCESSING"
  BY <1>2, <1>c5 DEF DeviceClock, To
<1>c6. CASE device.fsm = "LATCH"
  BY <1>2, <1>c6 DEF DeviceClock, To
<1>c7. CASE device.fsm = "SHIFT" /\ device.bits < WordBits
  <2>1. device' = [device EXCEPT
          !.fsm = IF Selected THEN @ ELSE "IDLE",
          !.sdo = device.word[1],
          !.bits = IF SckFell THEN @ + 1 ELSE @,
          !.word = IF SckFell THEN Shifted(@, WordBits, board_spi.sdi) ELSE @]
    BY <1>5, <1>c7, Zenon DEF DeviceClock, To, TopBit
  <2>. QED
    BY <1>2, <2>1, <1>5, <1>c7
<1>c8. CASE device.fsm = "SHIFT" /\ device.bits >= WordBits
  <2>1. device' = [device EXCEPT !.fsm = "STALL", !.sdo = device.word[1], !.bits = 0]
    BY <1>5, <1>c8, Zenon DEF DeviceClock, To, TopBit
  <2>. QED
    BY <1>2, <2>1, <1>5, <1>c8
<1>. QED
  BY <1>4, <1>5, <1>c1, <1>c2, <1>c3, <1>c4, <1>c5, <1>c6, <1>c7, <1>c8

\* Where the device is a clock later.
LEMMA PhaseStep ==
  ASSUME LongHalf, SpiInv, SpiClock
  PROVE  DevicePhase'
<1>1. DevicePhase /\ DeviceClock
  BY DEF SpiInv, SpiClock
<1>2. /\ rest \in Nat /\ io.bit \in Nat /\ io.bit <= FrameBits /\ io.at \in {"idle", "low", "high"}
      /\ device.bits \in Nat /\ CommandBits \in Nat \ {0} /\ WordBits \in Nat \ {0}
      /\ FrameBits = CommandBits + WordBits /\ HalfClocks \in Nat
  BY SpiTypes
<1>3. /\ rest' = rest + 1 /\ io' = io /\ Seen' = IF SckFell THEN Seen + 1 ELSE Seen
      /\ Since' = Since + 1 /\ Since \in Nat
  BY ClockPasses
<1>4. PinsAre
  BY DEF SpiInv
<1>5. CASE io.at = "idle"
  <2>1. Unselected
    BY <1>1, <1>5 DEF DevicePhase
  <2>2. Selected <=> rest < 2
    BY <1>2, <1>5, Signals
  <2>3. Unselected'
    BY <1>2, <1>3, <2>1, <2>2, DeviceFields, <1>1 DEF Unselected
  <2>. QED
    BY <1>3, <1>5, <2>3 DEF DevicePhase
<1>6. CASE io.at = "low" /\ io.bit = 0
  <2>1. Selecting
    BY <1>1, <1>6 DEF DevicePhase
  <2>2. (Selected <=> rest >= 2) /\ ~SckFell
    BY <1>2, <1>6, Signals
  <2>3. CASE rest = 0
    BY <1>2, <1>3, <2>1, <2>2, <2>3, DeviceFields, <1>1, <1>6 DEF Selecting, DeviceIs, DevicePhase
  <2>4. CASE rest \in 1 .. 2
    BY <1>2, <1>3, <2>1, <2>2, <2>4, DeviceFields, <1>1, <1>6 DEF Selecting, DeviceIs, DevicePhase
  <2>5. CASE rest >= 3
    BY <1>2, <1>3, <2>1, <2>2, <2>5, DeviceFields, <1>1, <1>6 DEF Selecting, DeviceIs, DevicePhase
  <2>. QED
    BY <1>2, <2>3, <2>4, <2>5
<1>7. CASE io.at = "high" \/ (io.at = "low" /\ io.bit > 0)
  <2>0. SUFFICES Shifting'
    BY <1>2, <1>3, <1>7 DEF DevicePhase
  <2>1. Shifting /\ Selected
    BY <1>1, <1>2, <1>7, Signals DEF DevicePhase
  <2>2. SckFell <=> (io.at = "high" /\ rest = 2)
    BY Signals
  <2>3. Seen \in Nat /\ (SckFell => Seen = io.bit /\ io.bit < FrameBits)
    BY <1>2, <1>4, <2>2 DEF Seen, PinsAre
  <2>4. CASE SckFell
    <3>1. Seen' = Seen + 1 /\ rest = 2 /\ rest' = 3 /\ io.at = "high" /\ io'.at = "high"
      BY <1>3, <2>2, <2>4
    <3>2. CASE Seen < CommandBits
      <4>1. DeviceIs("COMMAND", Seen)
        BY <2>1, <3>2 DEF Shifting
      <4>2. device'.fsm = "COMMAND" /\ device'.bits = Seen'
        BY <4>1, <3>1, <3>2, <2>1, <2>4, <1>1, DeviceFields DEF DeviceIs
      <4>3. ~(CommandBits < Seen') /\ Seen' # FrameBits
        BY <1>2, <2>3, <3>1, <3>2
      <4>4. Since' = 3
        BY <3>1 DEF Since
      <4>. QED
        BY <1>2, <2>3, <3>1, <3>2, <4>2, <4>3, <4>4 DEF Shifting, Turning, DeviceIs, Answered
    <3>3. CASE Seen >= CommandBits
      <4>1. DeviceIs("SHIFT", Seen - CommandBits)
        BY <1>2, <2>1, <2>3, <2>4, <3>1, <3>3 DEF Shifting, Answered, DeviceIs
      <4>2. device'.fsm = "SHIFT" /\ device'.bits = Seen' - CommandBits
        <5>1. device.bits < WordBits
          BY <1>2, <2>3, <2>4, <4>1 DEF DeviceIs
        <5>2. device'.fsm = "SHIFT" /\ device'.bits = device.bits + 1
          BY <4>1, <5>1, <2>1, <2>4, <1>1, DeviceFields DEF DeviceIs
        <5>. QED
          BY <1>2, <2>3, <3>1, <4>1, <5>2 DEF DeviceIs
      <4>3. CommandBits < Seen' /\ ~Answered'
        BY <1>2, <2>3, <3>1, <3>3 DEF Answered
      <4>. QED
        BY <1>2, <2>3, <3>1, <4>2, <4>3 DEF Shifting, DeviceIs
    <3>. QED
      BY <1>2, <2>3, <3>2, <3>3
  <2>5. CASE ~SckFell
    <3>1. Seen' = Seen
      BY <1>3, <2>5
    <3>2. CASE Seen < CommandBits
      <4>1. device'.fsm = "COMMAND" /\ device'.bits = Seen'
        BY <2>1, <3>1, <3>2, <2>5, <1>1, DeviceFields DEF DeviceIs, Shifting
      <4>. QED
        BY <1>2, <2>3, <3>1, <3>2, <4>1 DEF Shifting, DeviceIs, Answered
    <3>3. CASE Seen = CommandBits /\ ~(io.at = "high" /\ rest < 3)
      <4>1. Turning /\ Since >= 3
        BY <1>2, <2>1, <3>3 DEF Shifting, Since, LongHalf
      <4>2. Turning'
        <5>1. CASE Since = 3
          BY <1>2, <1>3, <4>1, <5>1, <1>1, DeviceFields DEF Turning, DeviceIs
        <5>2. CASE Since = 4
          BY <1>2, <1>3, <4>1, <5>2, <1>1, DeviceFields DEF Turning, DeviceIs
        <5>3. CASE Since = 5
          BY <1>2, <1>3, <4>1, <5>3, <1>1, DeviceFields DEF Turning, DeviceIs
        <5>4. CASE Since >= 6
          BY <1>2, <1>3, <4>1, <5>4, <2>1, <2>5, <1>1, DeviceFields DEF Turning, DeviceIs
        <5>. QED
          BY <1>3, <4>1, <5>1, <5>2, <5>3, <5>4
      <4>3. /\ ~(io'.at = "high" /\ rest' < 3) /\ Seen' = CommandBits
            /\ ~(CommandBits < Seen') /\ ~(Seen' < CommandBits) /\ ~Answered'
        BY <1>2, <1>3, <3>1, <3>3 DEF Answered
      <4>. QED
        BY <4>2, <4>3 DEF Shifting
    <3>4. CASE Seen = CommandBits /\ io.at = "high" /\ rest < 3
      <4>1. DeviceIs("SHIFT", 0)
        BY <2>1, <3>4 DEF Shifting
      <4>2. device'.fsm = "SHIFT" /\ device'.bits = 0
        BY <1>2, <4>1, <2>1, <2>5, <1>1, DeviceFields DEF DeviceIs
      <4>3. io'.at = "high" /\ rest' < 3
        BY <1>2, <1>3, <2>2, <2>5, <3>4
      <4>4. Seen' = CommandBits /\ ~(CommandBits < Seen') /\ ~Answered' /\ ~(Seen' < CommandBits)
        BY <1>2, <3>1, <3>4 DEF Answered
      <4>. QED
        BY <4>2, <4>3, <4>4 DEF Shifting, DeviceIs
    <3>5. CASE CommandBits < Seen /\ ~Answered /\ Seen < FrameBits
      <4>1. DeviceIs("SHIFT", Seen - CommandBits)
        BY <2>1, <3>5 DEF Shifting
      <4>2. device.bits < WordBits
        BY <1>2, <2>3, <3>5, <4>1 DEF DeviceIs
      <4>3. device'.fsm = "SHIFT" /\ device'.bits = Seen' - CommandBits
        BY <4>1, <4>2, <2>1, <2>5, <3>1, <1>1, DeviceFields DEF DeviceIs
      <4>4. ~(Seen' < CommandBits) /\ Seen' # CommandBits /\ ~Answered'
        BY <1>2, <2>3, <3>1, <3>5 DEF Answered
      <4>. QED
        BY <3>1, <4>3, <4>4 DEF Shifting, DeviceIs
    <3>6. CASE Seen >= FrameBits /\ ~Answered
      <4>1. DeviceIs("SHIFT", WordBits) /\ io.at = "high" /\ rest = 3 /\ Seen = FrameBits
        <5>1. Seen = FrameBits
          BY <1>2, <1>4, <2>3, <3>6 DEF Seen, PinsAre
        <5>. QED
          BY <1>2, <2>1, <3>6, <5>1 DEF Shifting, Answered
      <4>2. device'.fsm = "STALL"
        BY <1>2, <4>1, <1>1, DeviceFields DEF DeviceIs
      <4>3. Answered' /\ ~(Seen' < CommandBits) /\ Seen' # CommandBits
        BY <1>2, <1>3, <3>1, <4>1 DEF Answered
      <4>. QED
        BY <4>2, <4>3 DEF Shifting
    <3>7. CASE Answered
      <4>1. device.fsm = "STALL"
        BY <2>1, <3>7 DEF Shifting
      <4>2. device'.fsm = "STALL"
        BY <4>1, <2>1, <1>1, DeviceFields
      <4>3. ~(io.at = "high" /\ rest = 2) /\ ~(io'.at = "high" /\ rest' = 3)
        BY <1>2, <1>3, <2>2, <2>5
      <4>4. Answered' /\ ~(Seen' < CommandBits) /\ Seen' # CommandBits
        BY <1>2, <3>1, <3>7, <4>3 DEF Answered
      <4>. QED
        BY <4>2, <4>4 DEF Shifting
    <3>. QED
      BY <1>2, <2>3, <3>2, <3>3, <3>4, <3>5, <3>6, <3>7
  <2>. QED
    BY <2>4, <2>5
<1>. QED
  BY <1>2, <1>5, <1>6, <1>7

\* What a state of the device says of the transfer.
LEMMA StatesTell ==
  ASSUME LongHalf, SpiInv
  PROVE  /\ device.fsm = "LATCH" =>
              io.at # "idle" /\ (io.at = "high" => rest = 5) /\ Seen = CommandBits /\ Seen < FrameBits
         /\ device.fsm = "SHIFT" =>
              /\ io.at # "idle" /\ CommandBits <= Seen /\ Seen <= FrameBits
              /\ device.bits = Seen - CommandBits
              /\ Seen = FrameBits => io.at = "high" /\ rest = 3
         /\ device.fsm = "COMMAND" /\ device.bits < CommandBits => Seen = device.bits /\ io.at # "idle"
         /\ Seen \in 0 .. FrameBits
<1>1. DevicePhase /\ PinsAre
  BY DEF SpiInv
<1>2. /\ rest \in Nat /\ io.bit \in Nat /\ io.bit <= FrameBits /\ io.at \in {"idle", "low", "high"}
      /\ device.bits \in Nat /\ CommandBits \in Nat \ {0} /\ WordBits \in Nat \ {0}
      /\ FrameBits = CommandBits + WordBits /\ HalfClocks \in Nat
  BY SpiTypes
<1>3. Seen \in 0 .. FrameBits
  BY <1>1, <1>2 DEF Seen, PinsAre
<1>4. CASE io.at = "idle"
  BY <1>1, <1>3, <1>4 DEF DevicePhase, Unselected
<1>5. CASE io.at = "low" /\ io.bit = 0
  <2>1. Selecting
    BY <1>1, <1>5 DEF DevicePhase
  <2>2. Seen = 0
    BY <1>5 DEF Seen
  <2>. QED
    BY <1>2, <1>3, <1>5, <2>1, <2>2 DEF Selecting, DeviceIs
<1>6. CASE io.at = "high" \/ (io.at = "low" /\ io.bit > 0)
  <2>1. Shifting
    BY <1>1, <1>6 DEF DevicePhase
  <2>2. CASE Seen < CommandBits
    BY <1>2, <1>3, <1>6, <2>1, <2>2 DEF Shifting, DeviceIs
  <2>3. CASE Seen = CommandBits /\ ~(io.at = "high" /\ rest < 3)
    <3>1. Turning /\ Since \in Nat /\ Since >= 3
      BY <1>2, <2>1, <2>3 DEF Shifting, Since, LongHalf
    <3>2. io.at = "high" => Since = rest
      BY DEF Since
    <3>3. CASE Since = 3
      BY <1>2, <1>3, <1>6, <2>3, <3>1, <3>3 DEF Turning, DeviceIs
    <3>4. CASE Since = 4
      BY <1>2, <1>3, <1>6, <2>3, <3>1, <3>4 DEF Turning, DeviceIs
    <3>5. CASE Since = 5
      BY <1>2, <1>3, <1>6, <2>3, <3>1, <3>2, <3>5 DEF Turning, DeviceIs
    <3>6. CASE Since >= 6
      BY <1>2, <1>3, <1>6, <2>3, <3>1, <3>6 DEF Turning, DeviceIs
    <3>. QED
      BY <3>1, <3>3, <3>4, <3>5, <3>6
  <2>4. CASE Seen = CommandBits /\ io.at = "high" /\ rest < 3
    BY <1>2, <1>3, <1>6, <2>1, <2>4 DEF Shifting, DeviceIs
  <2>5. CASE CommandBits < Seen /\ ~Answered
    BY <1>2, <1>3, <1>6, <2>1, <2>5 DEF Shifting, DeviceIs, Answered
  <2>6. CASE Answered
    BY <1>2, <1>3, <1>6, <2>1, <2>6 DEF Shifting
  <2>. QED
    BY <1>2, <1>3, <2>2, <2>3, <2>4, <2>5, <2>6
<1>. QED
  BY <1>2, <1>4, <1>5, <1>6

\* A bit that comes in goes to the end and moves the others up.
LEMMA ShiftsIn ==
  ASSUME NEW n \in Nat, NEW word \in [1 .. n -> {0, 1}], NEW bit \in {0, 1}
  PROVE  /\ Shifted(word, n, bit) \in [1 .. n -> {0, 1}]
         /\ \A i \in 1 .. n : i < n => Shifted(word, n, bit)[i] = word[i + 1]
         /\ n > 0 => Shifted(word, n, bit)[n] = bit
BY DEF Shifted

LEMMA CommandFills ==
  ASSUME LongHalf, SpiInv, SpiClock
  PROVE  CommandHas'
<1>1. CommandHas /\ DeviceClock
  BY DEF SpiInv, SpiClock
<1>2. /\ CommandBits \in Nat \ {0} /\ io.bit \in Nat /\ Seen \in Nat /\ device.bits \in Nat
      /\ device.command \in [1 .. CommandBits -> {0, 1}]
  BY SpiTypes, StatesTell
<1>3. io' = io /\ Seen' = IF SckFell THEN Seen + 1 ELSE Seen
  BY ClockPasses
<1>4. SUFFICES ASSUME io.at # "idle", NEW i \in 1 .. CommandBits, CommandBits - Seen' < i
               PROVE  device'.command[i] =
                        io.frame[IF Seen' < CommandBits THEN i - (CommandBits - Seen') ELSE i]
  BY <1>3 DEF CommandHas
<1>5. CASE device.fsm = "COMMAND" /\ device.bits < CommandBits /\ SckFell
  <2>1. PICK n \in Nat : n = Seen
    BY <1>2
  <2>2. n < CommandBits /\ Seen' = n + 1 /\ io.bit = n
    <3>1. io.at = "high" /\ rest = 2
      BY <1>5, Signals
    <3>. QED
      BY <1>3, <1>5, <2>1, <3>1, StatesTell DEF Seen
  <2>3. board_spi.sdi = io.frame[n + 1] /\ board_spi.sdi \in {0, 1}
    BY <1>5, <2>2, Signals, SpiTypes
  <2>4. device'.command = Shifted(device.command, CommandBits, board_spi.sdi)
    BY <1>1, <1>5, DeviceFields
  <2>5. \A j \in 1 .. CommandBits : CommandBits - n < j => device.command[j] = io.frame[j - (CommandBits - n)]
    BY <1>1, <1>4, <2>1, <2>2 DEF CommandHas
  <2>6. CASE i < CommandBits
    <3>1. device'.command[i] = device.command[i + 1]
      BY <1>2, <2>3, <2>4, <2>6, ShiftsIn
    <3>2. i + 1 \in 1 .. CommandBits /\ CommandBits - n < i + 1
      BY <1>2, <1>4, <2>1, <2>2, <2>6
    <3>3. device.command[i + 1] = io.frame[(i + 1) - (CommandBits - n)]
      BY <2>5, <3>2
    <3>4. (i + 1) - (CommandBits - n) = IF Seen' < CommandBits THEN i - (CommandBits - Seen') ELSE i
      BY <1>2, <2>1, <2>2
    <3>. QED
      BY <3>1, <3>3, <3>4
  <2>7. CASE i = CommandBits
    <3>1. device'.command[i] = io.frame[n + 1]
      BY <1>2, <2>3, <2>4, <2>7, ShiftsIn
    <3>2. n + 1 = IF Seen' < CommandBits THEN i - (CommandBits - Seen') ELSE i
      BY <1>2, <2>1, <2>2, <2>7
    <3>. QED
      BY <3>1, <3>2
  <2>. QED
    BY <1>2, <2>6, <2>7
<1>6. CASE ~(device.fsm = "COMMAND" /\ device.bits < CommandBits /\ SckFell)
  <2>1. device'.command = device.command
    BY <1>1, <1>6, DeviceFields
  <2>2. Seen' = Seen \/ (Seen' >= CommandBits /\ Seen >= CommandBits)
    <3>1. CASE SckFell
      <4>1. io.at = "high" /\ rest = 2 /\ Seen = io.bit
        BY <3>1, Signals DEF Seen
      <4>2. ~(Seen < CommandBits)
        <5>1. DevicePhase
          BY DEF SpiInv
        <5>. QED
          BY <1>6, <3>1, <4>1, <5>1 DEF DevicePhase, Shifting, DeviceIs
      <4>. QED
        BY <1>2, <1>3, <4>2
    <3>. QED
      BY <1>3, <3>1
  <2>3. CommandBits - Seen < i
    BY <1>2, <1>4, <2>2
  <2>4. device.command[i] = io.frame[IF Seen < CommandBits THEN i - (CommandBits - Seen) ELSE i]
    BY <1>1, <1>4, <2>3 DEF CommandHas
  <2>5. (Seen' < CommandBits <=> Seen < CommandBits) /\ (Seen < CommandBits => Seen' = Seen)
    BY <1>2, <1>3, <2>2
  <2>6. CASE Seen < CommandBits
    BY <2>1, <2>4, <2>5, <2>6
  <2>7. CASE ~(Seen < CommandBits)
    BY <2>1, <2>4, <2>5, <2>7
  <2>. QED
    BY <2>6, <2>7
<1>. QED
  BY <1>5, <1>6

\* What is read for the command is what is to be answered.
LEMMA AnswerIsRead ==
  ASSUME LongHalf, SpiInv, io.at # "idle", CommandBits <= Seen
  PROVE  /\ AddressOf(device.command) = FrameAddr /\ device.command[1] = io.frame[1]
         /\ ~Answered => ReadOf(device.command) = expects.got
<1>1. CommandHas /\ RegistersHave
  BY DEF SpiInv
<1>2. CommandBits \in Nat \ {0} /\ Seen \in Nat
  BY SpiTypes, StatesTell
<1>3. \A i \in 1 .. CommandBits : device.command[i] = io.frame[i]
  BY <1>1, <1>2 DEF CommandHas
<1>4. AddressOf(device.command) = FrameAddr
  BY <1>2, <1>3 DEF AddressOf, FrameAddr
<1>5. device.command[1] = io.frame[1]
  BY <1>2, <1>3
<1>6. ~Answered => ReadOf(device.command) = expects.got
  BY <1>1, <1>4 DEF ReadOf, RegistersHave
<1>. QED
  BY <1>4, <1>5, <1>6

LEMMA WordTurns ==
  ASSUME LongHalf, SpiInv, SpiClock
  PROVE  WordHas'
<1>1. WordHas /\ DeviceClock
  BY DEF SpiInv, SpiClock
<1>2. /\ CommandBits \in Nat \ {0} /\ WordBits \in Nat \ {0} /\ FrameBits = CommandBits + WordBits
      /\ io.bit \in Nat /\ Seen \in Nat /\ device.bits \in Nat
      /\ device.word \in [1 .. WordBits -> {0, 1}]
  BY SpiTypes, StatesTell
<1>3. io' = io /\ expects' = expects /\ Seen' = IF SckFell THEN Seen + 1 ELSE Seen
  BY ClockPasses
<1>4. SUFFICES ASSUME device'.fsm = "SHIFT", NEW i \in 1 .. WordBits
               PROVE  device'.word[i] =
                        IF i + (Seen' - CommandBits) <= WordBits
                        THEN expects.got[i + (Seen' - CommandBits)] ELSE io.frame[i + Seen' - WordBits]
  BY <1>3 DEF WordHas
<1>5. CASE device.fsm = "LATCH"
  <2>1. io.at # "idle" /\ (io.at = "high" => rest = 5) /\ Seen = CommandBits /\ Seen < FrameBits
    BY <1>5, StatesTell
  <2>2. Seen' = CommandBits
    BY <1>3, <2>1, Signals
  <2>3. device'.word = expects.got
    BY <1>1, <1>2, <1>5, <2>1, DeviceFields, AnswerIsRead DEF Answered
  <2>. QED
    BY <1>2, <2>2, <2>3
<1>6. CASE device.fsm = "SHIFT"
  <2>1. PICK n \in Nat : n = Seen
    BY <1>2
  <2>2. CommandBits <= n /\ device.bits = n - CommandBits /\ io.at # "idle"
    BY <1>6, <2>1, StatesTell
  <2>3. device.bits < WordBits
    BY <1>1, <1>2, <1>4, <1>6, DeviceFields
  <2>4. \A j \in 1 .. WordBits : device.word[j] =
           IF j + (n - CommandBits) <= WordBits THEN expects.got[j + (n - CommandBits)]
           ELSE io.frame[j + n - WordBits]
    BY <1>1, <1>6, <2>1 DEF WordHas
  <2>5. CASE ~SckFell
    <3>1. device'.word = device.word /\ Seen' = n
      BY <1>1, <1>3, <1>6, <2>1, <2>3, <2>5, DeviceFields
    <3>. QED
      BY <2>4, <3>1
  <2>6. CASE SckFell
    <3>1. Seen' = n + 1 /\ io.bit = n
      <4>1. io.at = "high" /\ rest = 2
        BY <2>6, Signals
      <4>. QED
        BY <1>3, <2>1, <2>6, <4>1 DEF Seen
    <3>2. board_spi.sdi = io.frame[n + 1] /\ board_spi.sdi \in {0, 1}
      BY <2>6, <3>1, Signals, SpiTypes
    <3>3. device'.word = Shifted(device.word, WordBits, board_spi.sdi)
      BY <1>1, <1>6, <2>3, <2>6, DeviceFields
    <3>4. CASE i < WordBits
      <4>0. \A j \in 1 .. WordBits : j < WordBits => device'.word[j] = device.word[j + 1]
        BY <1>2, <3>2, <3>3, ShiftsIn
      <4>1. device'.word[i] = device.word[i + 1] /\ i + 1 \in 1 .. WordBits
        BY <1>2, <3>4, <4>0
      <4>2. device.word[i + 1] =
              IF (i + 1) + (n - CommandBits) <= WordBits
              THEN expects.got[(i + 1) + (n - CommandBits)] ELSE io.frame[(i + 1) + n - WordBits]
        BY <2>4, <4>1
      <4>3. /\ (i + 1) + (n - CommandBits) = i + (Seen' - CommandBits)
            /\ (i + 1) + n - WordBits = i + Seen' - WordBits
        BY <1>2, <3>1
      <4>. QED
        BY <4>1, <4>2, <4>3
    <3>5. CASE i = WordBits
      <4>1. device'.word[i] = io.frame[n + 1]
        BY <1>2, <3>2, <3>3, <3>5, ShiftsIn
      <4>2. ~(i + (Seen' - CommandBits) <= WordBits) /\ i + Seen' - WordBits = n + 1
        BY <1>2, <2>2, <3>1, <3>5
      <4>. QED
        BY <4>1, <4>2
    <3>. QED
      BY <1>2, <3>4, <3>5
  <2>. QED
    BY <2>5, <2>6
<1>7. device.fsm \in {"LATCH", "SHIFT"}
  <2>1. device.fsm \in {"STALL", "IDLE", "COMMAND", "PROCESSING", "LATCH", "SHIFT"}
    BY SpiTypes
  <2>. QED
    BY <1>1, <1>2, <1>4, <2>1, DeviceFields
<1>. QED
  BY <1>5, <1>6, <1>7

LEMMA OutputStep ==
  ASSUME LongHalf, SpiInv, SpiClock
  PROVE  SdoHas' /\ LastHas' /\ CipoHas' /\ GotHas'
<1>1. SdoHas /\ LastHas /\ CipoHas /\ GotHas /\ WordHas /\ DevicePhase /\ DeviceClock /\ PinsAre
  BY DEF SpiInv, SpiClock
<1>2. /\ CommandBits \in Nat \ {0} /\ WordBits \in Nat \ {0} /\ FrameBits = CommandBits + WordBits
      /\ rest \in Nat /\ io.bit \in Nat /\ Seen \in Nat /\ device.bits \in Nat /\ HalfClocks \in Nat
  BY SpiTypes, StatesTell
<1>3. /\ io' = io /\ expects' = expects /\ rest' = rest + 1
      /\ Seen' = IF SckFell THEN Seen + 1 ELSE Seen
  BY ClockPasses
<1>4. /\ last_sdo' = IF SckRose THEN device.sdo ELSE last_sdo
      /\ cipo' = IF SckFell THEN last_sdo ELSE cipo
  BY DEF SpiClock, NextCipo
<1>5. SckFell <=> (io.at = "high" /\ rest = 2)
  BY Signals
<1>6. SckRose <=> (io.at = "low" /\ io.bit > 0 /\ rest = 2)
  BY Signals
<1>7. SdoHas'
  <2>0. Since' = Since + 1 /\ Since \in Nat
    BY ClockPasses
  <2>1. SUFFICES ASSUME io.at # "idle", Since >= 6, CommandBits <= Seen', Seen' < FrameBits
                 PROVE  device'.sdo = expects.got[Seen' - CommandBits + 1]
    BY <1>3, <2>0 DEF SdoHas
  <2>2. Seen' = Seen /\ ~(io.at = "high" /\ rest < 3)
    BY <1>2, <1>3, <1>5, <2>1 DEF Since
  <2>3. Shifting
    <3>1. io.at = "high" \/ (io.at = "low" /\ io.bit > 0)
      BY <1>2, <2>1, <2>2, SpiTypes DEF Seen
    <3>. QED
      BY <1>1, <3>1 DEF DevicePhase
  <2>4. DeviceIs("SHIFT", Seen - CommandBits)
    BY <1>2, <2>0, <2>1, <2>2, <2>3 DEF Shifting, Turning, Answered, DeviceIs
  <2>5. device'.sdo = device.word[1]
    BY <1>1, <1>2, <2>1, <2>2, <2>4, DeviceFields DEF DeviceIs
  <2>6. device.word[1] = expects.got[1 + (Seen - CommandBits)]
    BY <1>1, <1>2, <2>1, <2>2, <2>4 DEF WordHas, DeviceIs
  <2>. QED
    BY <1>2, <2>1, <2>2, <2>5, <2>6
<1>8. LastHas'
  <2>1. SUFFICES ASSUME (io.at = "low" /\ rest >= 2) \/ (io.at = "high" /\ rest < 2),
                        CommandBits <= io.bit, io.bit < FrameBits
                 PROVE  last_sdo' = expects.got[io.bit - CommandBits + 1]
    BY <1>2, <1>3 DEF LastHas
  <2>2. CASE SckRose
    <3>1. io.at = "low" /\ Seen = io.bit /\ Since >= 7
      BY <1>2, <1>6, <2>2 DEF Seen, Since, LongHalf
    <3>. QED
      BY <1>1, <1>2, <1>4, <2>1, <2>2, <3>1 DEF SdoHas
  <2>3. CASE ~SckRose
    BY <1>1, <1>2, <1>4, <1>6, <2>1, <2>3 DEF LastHas
  <2>. QED
    BY <2>2, <2>3
<1>9. CipoHas'
  <2>1. SUFFICES ASSUME io.at = "high", rest >= 2, CommandBits <= io.bit
                 PROVE  cipo' = expects.got[io.bit - CommandBits + 1]
    BY <1>2, <1>3 DEF CipoHas
  <2>2. io.bit < FrameBits
    BY <1>1, <2>1 DEF PinsAre
  <2>3. CASE rest = 2
    BY <1>1, <1>2, <1>4, <1>5, <2>1, <2>2, <2>3 DEF LastHas
  <2>4. CASE rest >= 3
    BY <1>1, <1>2, <1>4, <1>5, <2>1, <2>4 DEF CipoHas
  <2>. QED
    BY <1>2, <2>1, <2>3, <2>4
<1>10. GotHas'
  BY <1>1, <1>3 DEF GotHas, FrameBits
<1>. QED
  BY <1>7, <1>8, <1>9, <1>10

LEMMA RegistersStep ==
  ASSUME LongHalf, SpiInv, SpiClock
  PROVE  RegistersHave' /\ registers' \in [Addresses -> SpiWords \cup {Zeros(WordBits)}]
<1>1. RegistersHave /\ WordHas /\ ExpectsType /\ RegistersClock
  BY DEF SpiInv, SpiClock
<1>2. /\ CommandBits \in Nat \ {0} /\ WordBits \in Nat \ {0} /\ FrameBits = CommandBits + WordBits
      /\ rest \in Nat /\ io.bit \in Nat /\ Seen \in 0 .. FrameBits /\ device.bits \in Nat
      /\ device.word \in [1 .. WordBits -> {0, 1}]
  BY SpiTypes, StatesTell
<1>3. /\ io' = io /\ expects' = expects /\ rest' = rest + 1
      /\ Seen' = IF SckFell THEN Seen + 1 ELSE Seen
  BY ClockPasses
<1>4. SckFell <=> (io.at = "high" /\ rest = 2)
  BY Signals
<1>5. FrameAddr' = FrameAddr /\ FrameValue' = FrameValue
  BY <1>3 DEF FrameAddr, FrameValue
<1>6. registers \in [Addresses -> SpiWords \cup {Zeros(WordBits)}]
  BY DEF SpiInv, SpiTypeOK
<1>7. CASE device.fsm = "SHIFT" /\ device.bits >= WordBits
  <2>1. io.at = "high" /\ rest = 3 /\ Seen = FrameBits
    BY <1>2, <1>7, StatesTell
  <2>2. ~Answered /\ Answered' /\ io'.at = "high"
    BY <1>2, <1>3, <1>4, <2>1 DEF Answered
  <2>3. /\ AddressOf(device.command) = FrameAddr /\ device.command[1] = io.frame[1]
        /\ FrameAddr \in Addresses /\ FrameValue \in SpiWords
        /\ expects.regs = IF io.frame[1] = 1 THEN [registers EXCEPT ![FrameAddr] = FrameValue] ELSE registers
    BY <1>1, <1>2, <2>1, <2>2, AnswerIsRead DEF RegistersHave
  <2>4. device.word = FrameValue
    <3>1. \A i \in 1 .. WordBits : device.word[i] = io.frame[CommandBits + i]
      <4>1. TAKE i \in 1 .. WordBits
      <4>2. device.word[i] = io.frame[i + Seen - WordBits]
        BY <1>1, <1>2, <1>7, <2>1 DEF WordHas
      <4>. QED
        BY <1>2, <2>1, <4>2
    <3>. QED
      BY <1>2, <3>1 DEF FrameValue
  <2>5. registers' = expects.regs
    BY <1>1, <1>7, <2>3, <2>4, Zenon DEF RegistersClock, Writes
  <2>6. registers' \in [Addresses -> SpiWords \cup {Zeros(WordBits)}]
    BY <1>1, <2>5 DEF ExpectsType
  <2>7. RegistersHave'
    BY <1>3, <1>5, <2>2, <2>3, <2>5 DEF RegistersHave
  <2>. QED
    BY <2>6, <2>7
<1>8. CASE ~(device.fsm = "SHIFT" /\ device.bits >= WordBits)
  <2>1. registers' = registers
    BY <1>1, <1>8 DEF RegistersClock
  <2>2. io.at # "idle" => (Answered' <=> Answered)
    <3>1. CASE SckFell
      <4>1. Seen = io.bit /\ io.bit < FrameBits
        <5>1. PinsAre
          BY DEF SpiInv
        <5>. QED
          BY <1>4, <3>1, <5>1 DEF Seen, PinsAre
      <4>. QED
        BY <1>2, <1>3, <1>4, <3>1, <4>1 DEF Answered
    <3>2. CASE ~SckFell
      <4>1. ~(io.at = "high" /\ rest = 3 /\ Seen = FrameBits)
        <5>1. SUFFICES ASSUME io.at = "high" /\ rest = 3 /\ Seen = FrameBits PROVE FALSE
          OBVIOUS
        <5>2. Shifting
          BY <5>1 DEF SpiInv, DevicePhase
        <5>3. DeviceIs("SHIFT", WordBits)
          BY <1>2, <5>1, <5>2 DEF Shifting, Answered, DeviceIs
        <5>. QED
          BY <1>2, <1>8, <5>3 DEF DeviceIs
      <4>2. ~(io.at = "high" /\ rest = 2) /\ Seen' = Seen
        BY <1>3, <1>4, <3>2
      <4>. QED
        BY <1>2, <1>3, <4>1, <4>2 DEF Answered
    <3>. QED
      BY <3>1, <3>2
  <2>3. RegistersHave'
    BY <1>1, <1>3, <1>5, <2>1, <2>2 DEF RegistersHave
  <2>. QED
    BY <1>6, <2>1, <2>3
<1>. QED
  BY <1>7, <1>8

LEMMA ClockTypes ==
  ASSUME LongHalf, SpiInv, SpiClock
  PROVE  SpiTypeOK' /\ ExpectsType'
<1>1. SpiTypeOK /\ ExpectsType /\ DeviceClock
  BY DEF SpiInv, SpiClock
<1>2. /\ io' = io /\ expects' = expects /\ rest' = rest + 1 /\ rest < HalfClocks /\ pins' = pins
      /\ stage0' = pins /\ board_spi' = stage0
  BY ClockPasses DEF SpiClock
<1>3. /\ CommandBits \in Nat \ {0} /\ WordBits \in Nat \ {0} /\ FrameBits = CommandBits + WordBits
      /\ HalfClocks \in Nat /\ rest \in 0 .. HalfClocks
      /\ device.fsm \in {"STALL", "IDLE", "COMMAND", "PROCESSING", "LATCH", "SHIFT"}
      /\ device.bits \in 0 .. FrameBits /\ device.sdo \in {0, 1}
      /\ device.command \in [1 .. CommandBits -> {0, 1}] /\ device.word \in [1 .. WordBits -> {0, 1}]
      /\ board_spi.sdi \in {0, 1}
  BY SpiTypes
<1>4. rest' \in 0 .. HalfClocks
  BY <1>2, <1>3
<1>5. ReadOf(device.command) \in [1 .. WordBits -> {0, 1}]
  <2>1. Zeros(WordBits) \in [1 .. WordBits -> {0, 1}]
    BY DEF Zeros
  <2>2. registers \in [Addresses -> [1 .. WordBits -> {0, 1}]]
    <3>1. SpiWords \cup {Zeros(WordBits)} \subseteq [1 .. WordBits -> {0, 1}]
      BY <2>1, SpiAssumption
    <3>. QED
      BY <1>1, <3>1 DEF SpiTypeOK
  <2>. QED
    BY <2>1, <2>2 DEF ReadOf
<1>6. /\ Shifted(device.command, CommandBits, board_spi.sdi) \in [1 .. CommandBits -> {0, 1}]
      /\ Shifted(device.word, WordBits, board_spi.sdi) \in [1 .. WordBits -> {0, 1}]
  BY <1>3, ShiftsIn
<1>7. device.word[1] \in {0, 1}
  BY <1>3
<1>8. /\ device'.fsm \in {"STALL", "IDLE", "COMMAND", "PROCESSING", "LATCH", "SHIFT"}
      /\ device'.bits \in 0 .. FrameBits
      /\ device'.command \in [1 .. CommandBits -> {0, 1}]
      /\ device'.word \in [1 .. WordBits -> {0, 1}]
      /\ device'.sdo \in {0, 1}
  <2>1. device'.fsm \in {"STALL", "IDLE", "COMMAND", "PROCESSING", "LATCH", "SHIFT"}
    BY <1>1, <1>3, DeviceFields
  <2>2. device'.bits \in 0 .. FrameBits
    BY <1>1, <1>3, DeviceFields
  <2>3. device'.command \in [1 .. CommandBits -> {0, 1}]
    BY <1>1, <1>3, <1>6, DeviceFields
  <2>4. device'.word \in [1 .. WordBits -> {0, 1}]
    BY <1>1, <1>3, <1>5, <1>6, DeviceFields
  <2>5. device'.sdo \in {0, 1}
    BY <1>1, <1>3, <1>7, DeviceFields
  <2>. QED
    BY <2>1, <2>2, <2>3, <2>4, <2>5
<1>9. device' \in [fsm : {"STALL", "IDLE", "COMMAND", "PROCESSING", "LATCH", "SHIFT"}, bits : 0 .. FrameBits,
                   command : [1 .. CommandBits -> {0, 1}], word : [1 .. WordBits -> {0, 1}], sdo : {0, 1}]
  BY <1>1, <1>8, DeviceFields
<1>10. last_sdo' \in {0, 1} /\ cipo' \in {0, 1}
  BY SpiTypes DEF SpiClock, NextCipo
<1>11. SpiTypeOK'
  BY <1>1, <1>2, <1>4, <1>9, <1>10, RegistersStep DEF SpiTypeOK
<1>. QED
  BY <1>1, <1>2, <1>11 DEF ExpectsType

LEMMA SpiClockHolds == ASSUME LongHalf, SpiInv, SpiClock PROVE SpiInv'
BY ClockPasses, PhaseStep, CommandFills, WordTurns, OutputStep, RegistersStep, ClockTypes DEF SpiInv

\* When the pins change, what was there before has passed the synchronisers.
LEMMA PinsHaveChanged ==
  ASSUME LongHalf, SpiInv, NEW new, Changes(new), new \in [csn : {0, 1}, sck : {0, 1}, sdi : {0, 1}],
         OldCsn' = pins.csn, OldSck' = pins.sck
  PROVE  /\ PinsPass' /\ rest = HalfClocks /\ rest' = 0 /\ rest >= 5 /\ pins' = new
         /\ device' = device /\ registers' = registers /\ last_sdo' = last_sdo /\ cipo' = cipo
<1>1. /\ rest = HalfClocks /\ rest' = 0 /\ pins' = new
      /\ UNCHANGED <<stage0, board_spi, pastSck, device, registers, last_sdo, cipo>>
  BY DEF Changes
<1>2. HalfClocks \in Nat /\ HalfClocks >= 5
  BY SpiTypes DEF LongHalf
<1>3. stage0 = pins /\ board_spi = pins /\ pastSck = pins.sck
  <2>1. PinsPass /\ rest >= 1 /\ rest >= 2 /\ rest >= 3
    BY <1>1, <1>2 DEF SpiInv
  <2>. QED
    BY <2>1 DEF PinsPass
<1>4. PinsPass'
  BY <1>1, <1>3 DEF PinsPass
<1>. QED
  BY <1>1, <1>2, <1>4

LEMMA SclkFallsHolds == ASSUME LongHalf, SpiInv, SclkFalls PROVE SpiInv'
<1>1. /\ SpiTypeOK /\ ExpectsType /\ PinsAre /\ DevicePhase
      /\ CommandHas /\ WordHas /\ SdoHas /\ LastHas /\ CipoHas /\ GotHas /\ RegistersHave
  BY DEF SpiInv
<1>2. /\ CommandBits \in Nat \ {0} /\ WordBits \in Nat \ {0} /\ FrameBits = CommandBits + WordBits
      /\ FrameBits \in Nat /\ io.bit \in Nat /\ io.frame \in [1 .. FrameBits -> {0, 1}]
      /\ pins \in [csn : {0, 1}, sck : {0, 1}, sdi : {0, 1}] /\ HalfClocks \in Nat
  BY SpiTypes
<1>3. io.at = "low" /\ io.bit < FrameBits /\ expects' = expects
  BY DEF SclkFalls
<1>4. /\ io' = [io EXCEPT !.at = "high"]
      /\ io \in [at : {"idle", "low", "high"}, frame : [1 .. FrameBits -> {0, 1}], bit : 0 .. FrameBits,
              got : [1 .. WordBits -> {0, 1}]]
  BY <1>1 DEF SclkFalls, SpiTypeOK
<1>5. /\ io'.at = "high" /\ io'.bit = io.bit /\ io'.frame = io.frame /\ io'.got = io.got
      /\ io' \in [at : {"idle", "low", "high"}, frame : [1 .. FrameBits -> {0, 1}], bit : 0 .. FrameBits,
              got : [1 .. WordBits -> {0, 1}]]
  BY <1>4
<1>6. PICK new : new = [pins EXCEPT !.sck = 0, !.sdi = io.frame[io.bit + 1]]
  OBVIOUS
<1>7. Changes(new) /\ new \in [csn : {0, 1}, sck : {0, 1}, sdi : {0, 1}]
  <2>1. io.frame[io.bit + 1] \in {0, 1}
    BY <1>2, <1>3
  <2>. QED
    BY <1>2, <1>6, <2>1 DEF SclkFalls
<1>8. new.csn = pins.csn /\ new.sck = 0 /\ new.sdi = io.frame[io.bit + 1]
  BY <1>2, <1>6
<1>9. OldCsn' = pins.csn /\ OldSck' = pins.sck
  BY <1>1, <1>3, <1>5 DEF OldCsn, OldSck, PinsAre
<1>10. /\ PinsPass' /\ rest = HalfClocks /\ rest' = 0 /\ rest >= 5 /\ pins' = new
       /\ device' = device /\ registers' = registers /\ last_sdo' = last_sdo /\ cipo' = cipo
  BY <1>7, <1>9, PinsHaveChanged
<1>11. Seen = io.bit /\ Seen' = io.bit
  BY <1>3, <1>5, <1>10 DEF Seen
<1>12. ~Answered /\ ~Answered'
  BY <1>2, <1>3, <1>11 DEF Answered
<1>13. PinsAre'
  BY <1>1, <1>3, <1>5, <1>8, <1>10 DEF PinsAre
<1>14. DevicePhase'
  <2>1. io.bit = 0 => DeviceIs("COMMAND", 0)
    BY <1>1, <1>2, <1>3, <1>10 DEF DevicePhase, Selecting
  <2>2. io.bit > 0 => Shifting
    BY <1>1, <1>3 DEF DevicePhase
  <2>3. io.bit < CommandBits => DeviceIs("COMMAND", io.bit)
    BY <1>2, <1>11, <2>1, <2>2 DEF Shifting, DeviceIs
  <2>4. io.bit = CommandBits => DeviceIs("SHIFT", 0)
    <3>1. Since \in Nat /\ Since >= 6
      BY <1>2, <1>3, <1>10 DEF Since
    <3>. QED
      BY <1>2, <1>3, <1>11, <2>2, <3>1 DEF Shifting, Turning
  <2>5. io.bit > CommandBits => DeviceIs("SHIFT", io.bit - CommandBits)
    BY <1>2, <1>11, <1>12, <2>2 DEF Shifting
  <2>6. Shifting'
    BY <1>2, <1>5, <1>10, <1>11, <1>12, <2>3, <2>4, <2>5 DEF Shifting, DeviceIs
  <2>. QED
    BY <1>5, <2>6 DEF DevicePhase
<1>15. SpiTypeOK' /\ ExpectsType'
  BY <1>1, <1>2, <1>3, <1>5, <1>7, <1>10 DEF SpiTypeOK, ExpectsType, Changes
<1>16. CommandHas'
  BY <1>1, <1>3, <1>5, <1>10, <1>11 DEF CommandHas
<1>17. WordHas'
  BY <1>1, <1>3, <1>5, <1>10, <1>11 DEF WordHas
<1>18. SdoHas' /\ LastHas' /\ CipoHas'
  <2>1. Since' = 0
    BY <1>5, <1>10 DEF Since
  <2>2. SdoHas'
    BY <2>1 DEF SdoHas
  <2>. QED
    BY <1>1, <1>2, <1>3, <1>5, <1>10, <2>2 DEF LastHas, CipoHas
<1>19. GotHas'
  BY <1>1, <1>3, <1>5 DEF GotHas, FrameBits
<1>20. RegistersHave'
  <2>1. FrameAddr' = FrameAddr /\ FrameValue' = FrameValue
    BY <1>5 DEF FrameAddr, FrameValue
  <2>. QED
    BY <1>1, <1>3, <1>5, <1>10, <1>12, <2>1 DEF RegistersHave
<1>. QED
  BY <1>10, <1>13, <1>14, <1>15, <1>16, <1>17, <1>18, <1>19, <1>20 DEF SpiInv

LEMMA SclkRisesHolds == ASSUME LongHalf, SpiInv, SclkRises PROVE SpiInv'
<1>1. /\ SpiTypeOK /\ ExpectsType /\ PinsAre /\ DevicePhase
      /\ CommandHas /\ WordHas /\ SdoHas /\ LastHas /\ CipoHas /\ GotHas /\ RegistersHave
  BY DEF SpiInv
<1>2. /\ CommandBits \in Nat \ {0} /\ WordBits \in Nat \ {0} /\ FrameBits = CommandBits + WordBits
      /\ FrameBits \in Nat /\ io.bit \in Nat /\ io.got \in [1 .. WordBits -> {0, 1}] /\ cipo \in {0, 1}
      /\ pins \in [csn : {0, 1}, sck : {0, 1}, sdi : {0, 1}] /\ HalfClocks \in Nat
  BY SpiTypes
<1>3. io.at = "high" /\ io.bit < FrameBits /\ expects' = expects
  BY <1>1 DEF SclkRises, PinsAre
<1>4. PICK now \in [1 .. WordBits -> {0, 1}] : now = Shifted(io.got, WordBits, cipo)
  BY <1>2, ShiftsIn
<1>g. (\A k \in 1 .. WordBits : k < WordBits => now[k] = io.got[k + 1]) /\ now[WordBits] = cipo
  BY <1>2, <1>4, ShiftsIn
<1>b. PICK b \in 0 .. FrameBits : b = io.bit + 1
  BY <1>2, <1>3
<1>5. /\ io' = [io EXCEPT !.at = "low", !.bit = b, !.got = now]
      /\ io \in [at : {"idle", "low", "high"}, frame : [1 .. FrameBits -> {0, 1}], bit : 0 .. FrameBits,
              got : [1 .. WordBits -> {0, 1}]]
  BY <1>1, <1>4, <1>b DEF SclkRises, SpiTypeOK
<1>6. /\ io'.at = "low" /\ io'.bit = io.bit + 1 /\ io'.frame = io.frame /\ io'.got = now
      /\ io' \in [at : {"idle", "low", "high"}, frame : [1 .. FrameBits -> {0, 1}], bit : 0 .. FrameBits,
              got : [1 .. WordBits -> {0, 1}]]
  BY <1>5, <1>b
<1>7. PICK new : new = [pins EXCEPT !.sck = 1]
  OBVIOUS
<1>8. /\ Changes(new) /\ new \in [csn : {0, 1}, sck : {0, 1}, sdi : {0, 1}]
      /\ new.csn = pins.csn /\ new.sck = 1
  BY <1>2, <1>7 DEF SclkRises
<1>9. OldCsn' = pins.csn /\ OldSck' = pins.sck
  BY <1>1, <1>2, <1>3, <1>6 DEF OldCsn, OldSck, PinsAre
<1>10. /\ PinsPass' /\ rest = HalfClocks /\ rest' = 0 /\ rest >= 5 /\ pins' = new
       /\ device' = device /\ registers' = registers /\ last_sdo' = last_sdo /\ cipo' = cipo
  BY <1>8, <1>9, PinsHaveChanged
<1>11. Seen = io.bit + 1 /\ Seen' = io.bit + 1
  BY <1>2, <1>3, <1>6, <1>10 DEF Seen
<1>12. Answered' <=> Answered
  BY <1>2, <1>3, <1>6, <1>10, <1>11 DEF Answered
<1>13. PinsAre'
  BY <1>1, <1>3, <1>6, <1>8, <1>10 DEF PinsAre
<1>14. DevicePhase'
  <2>1. Shifting
    BY <1>1, <1>3 DEF DevicePhase
  <2>2. Seen = CommandBits => Turning'
    <3>1. Since' = Since
      BY <1>2, <1>3, <1>6, <1>10 DEF Since
    <3>. QED
      BY <1>2, <1>3, <1>10, <2>1, <3>1 DEF Shifting, Turning, DeviceIs
  <2>3. Shifting'
    BY <1>2, <1>6, <1>10, <1>11, <1>12, <2>1, <2>2 DEF Shifting, DeviceIs
  <2>. QED
    BY <1>2, <1>6, <2>3 DEF DevicePhase
<1>15. SpiTypeOK' /\ ExpectsType'
  BY <1>1, <1>2, <1>3, <1>6, <1>8, <1>10 DEF SpiTypeOK, ExpectsType, Changes
<1>16. CommandHas'
  BY <1>1, <1>3, <1>6, <1>10, <1>11 DEF CommandHas
<1>17. WordHas'
  BY <1>1, <1>3, <1>6, <1>10, <1>11 DEF WordHas
<1>18. SdoHas' /\ LastHas' /\ CipoHas'
  <2>1. Since' = Since
    BY <1>2, <1>3, <1>6, <1>10 DEF Since
  <2>2. SdoHas'
    BY <1>1, <1>3, <1>10, <1>11, <2>1 DEF SdoHas
  <2>. QED
    BY <1>1, <1>2, <1>3, <1>6, <1>10, <2>2 DEF LastHas, CipoHas
<1>19. GotHas'
  <2>1. SUFFICES ASSUME NEW i \in 1 .. WordBits, i <= (io.bit + 1) - CommandBits
                 PROVE  now[i + (FrameBits - (io.bit + 1))] = expects.got[i]
    BY <1>3, <1>6 DEF GotHas, FrameBits
  <2>2. CASE i <= io.bit - CommandBits
    <3>1. i + (FrameBits - (io.bit + 1)) \in 1 .. WordBits /\ i + (FrameBits - (io.bit + 1)) < WordBits
      BY <1>2, <1>3, <2>2
    <3>a. PICK j \in 1 .. WordBits : j = i + (FrameBits - (io.bit + 1))
      BY <3>1
    <3>2. now[j] = io.got[j + 1]
      <4>1. j < WordBits
        BY <3>1, <3>a
      <4>. QED
        BY <1>g, <4>1
    <3>3. j + 1 = i + (FrameBits - io.bit)
      BY <1>2, <3>a
    <3>4. io.got[i + (FrameBits - io.bit)] = expects.got[i]
      BY <1>1, <1>3, <2>2 DEF GotHas
    <3>5. now[j] = expects.got[i]
      BY <3>2, <3>3, <3>4, Zenon
    <3>. QED
      BY <3>a, <3>5
  <2>3. CASE ~(i <= io.bit - CommandBits)
    <3>0. io.bit - CommandBits + 1 = i
      BY <1>2, <2>1, <2>3
    <3>1. i + (FrameBits - (io.bit + 1)) = WordBits /\ CommandBits <= io.bit
      <4>1. PICK n, c, w \in Nat : n = io.bit /\ c = CommandBits /\ w = WordBits
        BY <1>2
      <4>2. n - c + 1 = i /\ i \in 1 .. w
        BY <2>1, <3>0, <4>1
      <4>3. i + ((c + w) - (n + 1)) = w /\ c <= n
        BY <4>2
      <4>. QED
        BY <1>2, <4>1, <4>3
    <3>2. cipo = expects.got[i]
      <4>1. cipo = expects.got[io.bit - CommandBits + 1]
        BY <1>1, <1>2, <1>3, <1>10, <3>1 DEF CipoHas
      <4>. QED
        BY <3>0, <4>1
    <3>. QED
      BY <1>g, <3>1, <3>2
  <2>. QED
    BY <1>2, <2>1, <2>2, <2>3
<1>20. RegistersHave'
  <2>1. FrameAddr' = FrameAddr /\ FrameValue' = FrameValue
    BY <1>6 DEF FrameAddr, FrameValue
  <2>. QED
    BY <1>1, <1>3, <1>6, <1>10, <1>12, <2>1 DEF RegistersHave
<1>. QED
  BY <1>10, <1>13, <1>14, <1>15, <1>16, <1>17, <1>18, <1>19, <1>20 DEF SpiInv

LEMMA reg_io_endsHolds == ASSUME LongHalf, SpiInv, reg_io_ends PROVE SpiInv'
<1>1. /\ SpiTypeOK /\ ExpectsType /\ PinsAre /\ DevicePhase /\ GotHas /\ RegistersHave
  BY DEF SpiInv
<1>2. /\ CommandBits \in Nat \ {0} /\ WordBits \in Nat \ {0} /\ FrameBits = CommandBits + WordBits
      /\ FrameBits \in Nat /\ io.bit \in Nat /\ HalfClocks \in Nat
      /\ io.got \in [1 .. WordBits -> {0, 1}] /\ expects.got \in [1 .. WordBits -> {0, 1}]
      /\ pins \in [csn : {0, 1}, sck : {0, 1}, sdi : {0, 1}]
  BY SpiTypes
<1>3. io.at = "low" /\ io.bit = FrameBits /\ expects' = expects
  BY DEF reg_io_ends
<1>4. /\ io' = [io EXCEPT !.at = "idle"]
      /\ io \in [at : {"idle", "low", "high"}, frame : [1 .. FrameBits -> {0, 1}], bit : 0 .. FrameBits,
              got : [1 .. WordBits -> {0, 1}]]
  BY <1>1 DEF reg_io_ends, SpiTypeOK
<1>5. /\ io'.at = "idle" /\ io'.bit = io.bit /\ io'.frame = io.frame /\ io'.got = io.got
      /\ io' \in [at : {"idle", "low", "high"}, frame : [1 .. FrameBits -> {0, 1}], bit : 0 .. FrameBits,
              got : [1 .. WordBits -> {0, 1}]]
  BY <1>4
<1>6. PICK new : new = [pins EXCEPT !.csn = 1]
  OBVIOUS
<1>7. /\ Changes(new) /\ new \in [csn : {0, 1}, sck : {0, 1}, sdi : {0, 1}]
      /\ new.csn = 1 /\ new.sck = pins.sck
  BY <1>2, <1>6 DEF reg_io_ends
<1>8. OldCsn' = pins.csn /\ OldSck' = pins.sck
  <2>1. OldCsn' = 0 /\ OldSck' = 1
    BY <1>5 DEF OldCsn, OldSck
  <2>2. pins.csn = 0 /\ pins.sck = 1
    BY <1>1, <1>3 DEF PinsAre
  <2>. QED
    BY <2>1, <2>2
<1>9. /\ PinsPass' /\ rest = HalfClocks /\ rest' = 0 /\ rest >= 5 /\ pins' = new
      /\ device' = device /\ registers' = registers /\ last_sdo' = last_sdo /\ cipo' = cipo
  BY <1>7, <1>8, PinsHaveChanged
<1>10. Answered
  BY <1>3 DEF Answered, Seen
<1>11. device.fsm = "STALL"
  BY <1>1, <1>2, <1>3, <1>10 DEF DevicePhase, Shifting
<1>12. PinsAre'
  BY <1>1, <1>3, <1>5, <1>7, <1>9 DEF PinsAre
<1>13. DevicePhase'
  BY <1>5, <1>9, <1>11 DEF DevicePhase, Unselected
<1>14. SpiTypeOK' /\ ExpectsType'
  BY <1>1, <1>2, <1>3, <1>5, <1>7, <1>9 DEF SpiTypeOK, ExpectsType, Changes
<1>15. CommandHas' /\ WordHas' /\ SdoHas' /\ LastHas' /\ CipoHas' /\ GotHas'
  BY <1>5, <1>9, <1>11 DEF CommandHas, WordHas, SdoHas, LastHas, CipoHas, GotHas
<1>16. RegistersHave'
  <2>1. io.got = expects.got
    <3>1. \A i \in 1 .. WordBits : io.got[i] = expects.got[i]
      <4>1. TAKE i \in 1 .. WordBits
      <4>2. io.got[i + (FrameBits - io.bit)] = expects.got[i]
        BY <1>1, <1>2, <1>3 DEF GotHas
      <4>. QED
        BY <1>2, <1>3, <4>2
    <3>. QED
      BY <1>2, <3>1
  <2>2. registers = expects.regs
    BY <1>1, <1>3, <1>10 DEF RegistersHave
  <2>. QED
    BY <1>3, <1>5, <1>9, <2>1, <2>2 DEF RegistersHave
<1>. QED
  BY <1>9, <1>12, <1>13, <1>14, <1>15, <1>16 DEF SpiInv

\* A frame holds what it was made from.
LEMMA FrameHolds ==
  ASSUME NEW write \in BOOLEAN, NEW addr \in Addresses, NEW value \in SpiWords
  PROVE  /\ Frame(write, addr, value) \in [1 .. FrameBits -> {0, 1}]
         /\ Frame(write, addr, value)[1] = (IF write THEN 1 ELSE 0)
         /\ [i \in 1 .. CommandBits - 1 |-> Frame(write, addr, value)[i + 1]] = addr
         /\ [i \in 1 .. WordBits |-> Frame(write, addr, value)[CommandBits + i]] = value
<1>1. /\ CommandBits \in Nat \ {0} /\ WordBits \in Nat \ {0} /\ FrameBits = CommandBits + WordBits
      /\ addr \in [1 .. CommandBits - 1 -> {0, 1}] /\ value \in [1 .. WordBits -> {0, 1}]
  BY SpiAssumption DEF FrameBits
<1>2. PICK f : f = Frame(write, addr, value)
  OBVIOUS
<1>3. f = [i \in 1 .. FrameBits |-> IF i = 1 THEN IF write THEN 1 ELSE 0
                           ELSE IF i <= CommandBits THEN addr[i - 1] ELSE value[i - CommandBits]]
  BY <1>2 DEF Frame
<1>4. \A i \in 1 .. FrameBits : f[i] \in {0, 1}
  <2>1. TAKE i \in 1 .. FrameBits
  <2>2. CASE i = 1
    BY <1>3, <2>2
  <2>3. CASE i # 1 /\ i <= CommandBits
    <3>1. i - 1 \in 1 .. CommandBits - 1
      BY <1>1, <2>3
    <3>2. f[i] = addr[i - 1] /\ addr[i - 1] \in {0, 1}
      BY <1>1, <1>3, <2>3, <3>1
    <3>. QED
      BY <3>2
  <2>4. CASE i # 1 /\ ~(i <= CommandBits)
    <3>1. i - CommandBits \in 1 .. WordBits
      BY <1>1, <2>4
    <3>2. f[i] = value[i - CommandBits] /\ value[i - CommandBits] \in {0, 1}
      BY <1>1, <1>3, <2>4, <3>1
    <3>. QED
      BY <3>2
  <2>. QED
    BY <2>2, <2>3, <2>4
<1>5. f \in [1 .. FrameBits -> {0, 1}]
  BY <1>3, <1>4
<1>6. f[1] = IF write THEN 1 ELSE 0
  BY <1>1, <1>3
<1>7. [i \in 1 .. CommandBits - 1 |-> f[i + 1]] = addr
  <2>1. \A i \in 1 .. CommandBits - 1 : f[i + 1] = addr[i]
    <3>1. TAKE i \in 1 .. CommandBits - 1
    <3>2. PICK j \in 1 .. FrameBits : j = i + 1
      BY <1>1
    <3>3. j # 1 /\ j <= CommandBits /\ j - 1 = i
      BY <1>1, <3>2
    <3>. QED
      BY <1>3, <3>2, <3>3
  <2>. QED
    BY <1>1, <2>1
<1>8. [i \in 1 .. WordBits |-> f[CommandBits + i]] = value
  <2>1. \A i \in 1 .. WordBits : f[CommandBits + i] = value[i]
    <3>1. TAKE i \in 1 .. WordBits
    <3>2. PICK j \in 1 .. FrameBits : j = CommandBits + i
      BY <1>1
    <3>3. j # 1 /\ ~(j <= CommandBits) /\ j - CommandBits = i
      BY <1>1, <3>2
    <3>. QED
      BY <1>3, <3>2, <3>3
  <2>. QED
    BY <1>1, <2>1
<1>. QED
  BY <1>2, <1>5, <1>6, <1>7, <1>8

LEMMA reg_ioHolds == ASSUME LongHalf, SpiInv, reg_io PROVE SpiInv'
<1>1. SpiTypeOK /\ ExpectsType /\ PinsAre /\ DevicePhase
  BY DEF SpiInv
<1>2. /\ CommandBits \in Nat \ {0} /\ WordBits \in Nat \ {0} /\ FrameBits = CommandBits + WordBits
      /\ FrameBits \in Nat /\ HalfClocks \in Nat /\ pins \in [csn : {0, 1}, sck : {0, 1}, sdi : {0, 1}]
  BY SpiTypes
<1>3. io.at = "idle"
  BY DEF reg_io
<1>4. PICK addr \in Addresses, write \in BOOLEAN, value \in SpiWords :
        /\ io' = [at |-> "low", bit |-> 0, got |-> Zeros(WordBits), frame |-> Frame(write, addr, value)]
        /\ expects' = [regs |-> IF write THEN [registers EXCEPT ![addr] = value] ELSE registers,
                       got |-> registers[addr]]
  BY DEF reg_io
<1>5. PICK f \in [1 .. FrameBits -> {0, 1}] :
        /\ f = Frame(write, addr, value) /\ f[1] = (IF write THEN 1 ELSE 0)
        /\ [i \in 1 .. CommandBits - 1 |-> f[i + 1]] = addr
        /\ [i \in 1 .. WordBits |-> f[CommandBits + i]] = value
  BY FrameHolds
<1>6. Zeros(WordBits) \in [1 .. WordBits -> {0, 1}]
  BY DEF Zeros
<1>7. /\ io'.at = "low" /\ io'.bit = 0 /\ io'.frame = f
      /\ io' \in [at : {"idle", "low", "high"}, frame : [1 .. FrameBits -> {0, 1}], bit : 0 .. FrameBits,
              got : [1 .. WordBits -> {0, 1}]]
  BY <1>2, <1>4, <1>5, <1>6
<1>8. PICK new : new = [pins EXCEPT !.csn = 0]
  OBVIOUS
<1>9. /\ Changes(new) /\ new \in [csn : {0, 1}, sck : {0, 1}, sdi : {0, 1}]
      /\ new.csn = 0 /\ new.sck = pins.sck
  BY <1>2, <1>8 DEF reg_io
<1>10. OldCsn' = pins.csn /\ OldSck' = pins.sck
  <2>1. OldCsn' = 1 /\ OldSck' = 1
    BY <1>7 DEF OldCsn, OldSck
  <2>2. pins.csn = 1 /\ pins.sck = 1
    BY <1>1, <1>3 DEF PinsAre
  <2>. QED
    BY <2>1, <2>2
<1>11. /\ PinsPass' /\ rest = HalfClocks /\ rest' = 0 /\ rest >= 5 /\ pins' = new
       /\ device' = device /\ registers' = registers /\ last_sdo' = last_sdo /\ cipo' = cipo
  BY <1>9, <1>10, PinsHaveChanged
<1>12. Seen' = 0 /\ ~Answered'
  <2>1. Seen' = 0
    BY <1>7 DEF Seen
  <2>. QED
    BY <1>2, <2>1 DEF Answered
<1>13. device.fsm \in {"STALL", "IDLE"}
  BY <1>1, <1>3 DEF DevicePhase, Unselected
<1>14. PinsAre'
  BY <1>1, <1>3, <1>7, <1>9, <1>11 DEF PinsAre
<1>15. DevicePhase'
  BY <1>7, <1>11, <1>13 DEF DevicePhase, Selecting
<1>16. registers \in [Addresses -> SpiWords \cup {Zeros(WordBits)}]
  BY <1>1 DEF SpiTypeOK
<1>17. ExpectsType'
  <2>1. PICK regs : regs = IF write THEN [registers EXCEPT ![addr] = value] ELSE registers
    OBVIOUS
  <2>2. regs \in [Addresses -> SpiWords \cup {Zeros(WordBits)}]
    BY <1>16, <2>1
  <2>3. registers[addr] \in [1 .. WordBits -> {0, 1}]
    BY <1>6, <1>16, SpiAssumption
  <2>. QED
    BY <1>4, <2>1, <2>2, <2>3 DEF ExpectsType
<1>18. SpiTypeOK'
  BY <1>1, <1>2, <1>7, <1>9, <1>11 DEF SpiTypeOK, Changes
<1>19. CommandHas' /\ WordHas' /\ SdoHas' /\ LastHas' /\ CipoHas' /\ GotHas'
  <2>1. CommandHas' /\ GotHas'
    BY <1>2, <1>7, <1>12 DEF CommandHas, GotHas
  <2>2. WordHas' /\ SdoHas' /\ LastHas' /\ CipoHas'
    BY <1>2, <1>7, <1>11, <1>12, <1>13 DEF WordHas, SdoHas, LastHas, CipoHas
  <2>. QED
    BY <2>1, <2>2
<1>20. RegistersHave'
  <2>1. FrameAddr' = addr /\ FrameValue' = value
    BY <1>5, <1>7 DEF FrameAddr, FrameValue
  <2>2. expects'.got = registers'[addr]
    BY <1>4, <1>11
  <2>3. expects'.regs = IF f[1] = 1 THEN [registers' EXCEPT ![addr] = value] ELSE registers'
    BY <1>4, <1>5, <1>11
  <2>. QED
    BY <1>7, <1>12, <2>1, <2>2, <2>3 DEF RegistersHave
<1>. QED
  BY <1>11, <1>14, <1>15, <1>17, <1>18, <1>19, <1>20 DEF SpiInv

LEMMA SpiInvariance == LongHalf => (SpiSpec => []SpiInv)
<1> SUFFICES ASSUME LongHalf PROVE SpiSpec => []SpiInv
  OBVIOUS
<1>1. SpiInit => SpiInv
  BY SpiInitHolds
<1>2. SpiInv /\ [SpiNext]_spiVars => SpiInv'
  <2>1. SUFFICES ASSUME SpiInv, [SpiNext]_spiVars PROVE SpiInv'
    OBVIOUS
  <2>2. CASE SpiClock
    BY <2>1, <2>2, SpiClockHolds
  <2>3. CASE reg_io
    BY <2>1, <2>3, reg_ioHolds
  <2>4. CASE SclkFalls
    BY <2>1, <2>4, SclkFallsHolds
  <2>5. CASE SclkRises
    BY <2>1, <2>5, SclkRisesHolds
  <2>6. CASE reg_io_ends
    BY <2>1, <2>6, reg_io_endsHolds
  <2>7. CASE UNCHANGED spiVars
    BY <2>1, <2>7 DEF spiVars, SpiInv, SpiTypeOK, ExpectsType, PinsAre, PinsPass, OldCsn, OldSck, DevicePhase,
      Unselected, Selecting, Shifting, Turning, DeviceIs, Seen, Since, Answered, CommandHas, WordHas, SdoHas, LastHas,
      CipoHas, GotHas, RegistersHave, FrameAddr, FrameValue
  <2>. QED
    BY <2>1, <2>2, <2>3, <2>4, <2>5, <2>6, <2>7 DEF SpiNext
<1>. QED
  BY <1>1, <1>2, PTL DEF SpiSpec

\* SpiRegisters, TransfersWhole, for all numbers of bits, addresses and words: a read
\* returns the word that the register holds, and a write leaves its word there and
\* changes no other register, when half a cycle of sclk lasts at least 5 clocks.
THEOREM WholeTransfers == LongHalf => (SpiSpec => [](SpiTypeOK /\ TransfersWhole))
<1> SUFFICES ASSUME LongHalf PROVE SpiSpec => [](SpiTypeOK /\ TransfersWhole)
  OBVIOUS
<1>1. SpiInv => SpiTypeOK /\ TransfersWhole
  BY DEF SpiInv, RegistersHave, TransfersWhole
<1>. QED
  BY <1>1, SpiInvariance, PTL

-----------------------------------------------------------------------------
(* The parts together                                                      *)

\* No tool has more than four lines to set, wherever it stands.
LEMMA BootTypesFollow == BootInv => BootTypeOK
<1> SUFFICES ASSUME BootInv PROVE BootTypeOK
  OBVIOUS
<1>1. Len(tool) <= 4
  <2>1. CASE tool = <<>>
    BY <2>1
  <2>2. CASE tool = HardReset
    BY <2>2 DEF HardReset, Then
  <2>3. CASE tool = EnterLoader
    BY <2>3 DEF EnterLoader, Then, Both
  <2>4. CASE \E d, x \in {0, 1} : tool = <<Then(d, 1 - d), Both(x, x)>>
    BY <2>4 DEF Then, Both
  <2>5. CASE tool = <<Then(1, 1)>>
    BY <2>5 DEF Then
  <2>6. CASE tool = <<Then(0, 0), Both(0, 1), Then(1, 1)>>
    BY <2>6 DEF Then, Both
  <2>7. CASE tool = <<Both(0, 1), Then(1, 1)>>
    BY <2>7 DEF Then, Both
  <2>8. CASE \E x \in {0, 1} : tool = <<Both(x, x)>>
    BY <2>8 DEF Both
  <2>. QED
    BY <2>1, <2>2, <2>3, <2>4, <2>5, <2>6, <2>7, <2>8
       DEF BootInv, Resting, Rising, Started, Falling, Held, Between, Loading, Blip
<1>. QED
  BY <1>1 DEF BootInv, BootTypes, BootTypeOK

LEMMA SimTypesFollow == SimInv => FifoSimTypeOK
BY DEF SimInv, FifoPart, WriterPart, ReaderPart, Words12, FifoSimTypeOK

\* A behaviour of the parts together is one of each of them: a step is a step of
\* one part, and the others stay as they are.
LEMMA PartsInit ==
  ASSUME MCInit
  PROVE  /\ Init /\ SpiInit /\ BootInit /\ BuildInit /\ PllInit /\ MonitorInit
         /\ KaInit /\ FifoSimInit /\ LivesInit
BY DEF MCInit

LEMMA PartsStep ==
  ASSUME [MCNext]_allVars
  PROVE  /\ [Next]_vars /\ [SpiNext]_spiVars /\ [BootNext]_bootVars /\ [BuildNext]_buildVars
         /\ [PllNext]_pllVars /\ [MonitorNext]_monitorVars /\ [KaNext]_kaVars
         /\ [FifoSimNext]_fifoSimVars /\ [LivesNext]_livesVars
BY DEF MCNext, allVars, OnFraming, OnSpi, OnBoot, OnBuild, OnPll, OnMonitor, OnSim, OnClocks,
       OnPower

\* Every variable of the tools, the lines and the clocks stays within its range, for
\* all sizes and times: no task is begun that is not there (build.py), no counter of
\* the monitor or the simulation leaves its bits, no line is cut from a text that has
\* a newline left in it, and at most one message is ever pending.
THEOREM ToolsTypes == LongHalf /\ LongHeadStart /\ TimesFit => (MCSpec => []ToolsTypeOK)
<1> SUFFICES ASSUME LongHalf, LongHeadStart, TimesFit PROVE MCSpec => []ToolsTypeOK
  OBVIOUS
<1>1. MCSpec => Spec /\ SpiSpec /\ BootSpec /\ BuildSpec /\ PllSpec
  BY PartsInit, PartsStep, PTL DEF MCSpec, Spec, SpiSpec, BootSpec, BuildSpec, PllSpec
<1>2. MCSpec => MonitorSpec /\ FifoSimSpec /\ LivesSpec
  BY PartsInit, PartsStep, PTL DEF MCSpec, MonitorSpec, FifoSimSpec, LivesSpec
<1>3. MCSpec => []KaTypeOK
  <2>1. MCInit => KaInv
    BY PartsInit, KaInitHolds
  <2>2. KaInv /\ [MCNext]_allVars => KaInv'
    BY PartsStep, KaStepHolds
  <2>3. KaInv => KaTypeOK
    BY DEF KaInv
  <2>. QED
    BY <2>1, <2>2, <2>3, PTL DEF MCSpec
<1>4. MCSpec => [](BootTypeOK /\ BuildTypeOK /\ FifoSimTypeOK)
  <2>1. BuildInv => BuildTypeOK
    BY DEF BuildInv
  <2>2. FifoSimSpec => []SimInv
    BY SimInvariance
  <2>. QED
    BY <1>1, <1>2, <2>1, <2>2, BootTypesFollow, SimTypesFollow, BootInvariance, BuildInvariance, PTL
<1>5. SpiSpec => [](SpiTypeOK /\ TransfersWhole)
  BY WholeTransfers
<1>6. TypeOK /\ SpiTypeOK /\ BootTypeOK /\ BuildTypeOK /\ PllTypeOK /\ MonitorTypeOK
        /\ FifoSimTypeOK /\ KaTypeOK /\ LivesTypeOK => ToolsTypeOK
  BY DEF ToolsTypeOK
<1>. QED
  BY <1>1, <1>2, <1>3, <1>4, <1>5, <1>6, FramesTypes, PllTypes, MonitorTypes, LivesTypesHold, PTL
=============================================================================
