----------------------------- MODULE PllConfig -----------------------------
(***************************************************************************)
(* The search of ECP5PLL.compute_config (common/ECP5PLL.py) for dividers   *)
(* that make the clocks add_clock asks for (common/clks.py).  A step is    *)
(* one pair of the two loops: it writes what it finds for each output into *)
(* the one dictionary, and goes on when an output has no divider.          *)
(* Frequencies are in MHz, and quotients are compared by multiplying.      *)
(***************************************************************************)
EXTENDS Integers, Sequences

CONSTANTS
  ClkIns,          \* frequencies of the input
  Freqs, MaxOuts,  \* frequencies asked for, and how many of them
  DivMax,          \* of all three ranges (128)
  VcoMin, VcoMax,  \* 400, 800
  ClkiMin, ClkiMax, ClkoMin, ClkoMax   \* 8, 400; 3.125, 400

ASSUME PllConfigAssumption ==
  /\ {ClkIns, Freqs} \subseteq SUBSET (Nat \ {0})
  /\ {MaxOuts, DivMax, VcoMin, VcoMax, ClkiMin, ClkiMax, ClkoMin, ClkoMax} \subseteq Nat \ {0}

VARIABLES
  clkin_freq, clkouts,   \* what was registered
  pll,                   \* the pair tried next, config, and how far it is
  found                   \* clki_div, clkfb_div and the dividers, when it returned

pllVars == <<clkin_freq, clkouts, pll, found>>

NoLock == [clki |-> 0, clkfb |-> 0, div |-> <<>>]
PllInit ==
  /\ clkin_freq = 0 /\ clkouts = <<>>
  /\ pll = [at |-> "clkin", clki |-> 1, clkfb |-> 1, div |-> <<>>] /\ found = NoLock

-----------------------------------------------------------------------------
register_clkin ==
  /\ pll.at = "clkin"
  /\ \E f \in ClkIns :
       \/ /\ f \in ClkiMin .. ClkiMax
          /\ clkin_freq' = f /\ pll' = [pll EXCEPT !.at = "clkouts"]
       \/ /\ f \notin ClkiMin .. ClkiMax
          /\ pll' = [pll EXCEPT !.at = "error"] /\ UNCHANGED clkin_freq
  /\ UNCHANGED <<clkouts, found>>

create_clkout ==
  /\ pll.at = "clkouts"
  /\ \E f \in Freqs :
       \/ /\ f \in ClkoMin .. ClkoMax /\ Len(clkouts) < MaxOuts
          /\ clkouts' = Append(clkouts, f)
          /\ pll' = [pll EXCEPT !.div = Append(@, 0)]
       \/ /\ f \notin ClkoMin .. ClkoMax \/ Len(clkouts) >= MaxOuts
          /\ pll' = [pll EXCEPT !.at = "error"] /\ UNCHANGED clkouts
  /\ UNCHANGED <<clkin_freq, found>>

elaborate ==
  /\ pll.at = "clkouts" /\ clkouts # <<>>
  /\ pll' = [pll EXCEPT !.at = "searching"]
  /\ UNCHANGED <<clkin_freq, clkouts, found>>

\* vco / div is within the margin of 1 % of the frequency.
Distance(a, b) == IF a >= b THEN a - b ELSE b - a
InMargin(div, n) ==
  100 * Distance(clkin_freq * pll.clkfb, clkouts[n] * div * pll.clki)
    <= clkouts[n] * div * pll.clki
Divs(n) == {div \in 1 .. DivMax : InMargin(div, n)}

\* The largest divider that is in the margin is the one that stays.
Largest(S) == CHOOSE d \in S : \A e \in S : e <= d
Found(n) == IF Divs(n) # {} THEN Largest(Divs(n)) ELSE pll.div[n]

InVcoRange ==
  /\ VcoMin * pll.clki <= clkin_freq * pll.clkfb
  /\ clkin_freq * pll.clkfb <= VcoMax * pll.clki

\* Faulty variant of AllValid: only the last output's flag is looked at.
LastValid == Divs(Len(clkouts)) # {}
AllValid == \A n \in DOMAIN clkouts : Divs(n) # {}

NextPair ==
  IF pll.clkfb < DivMax THEN [pll EXCEPT !.clkfb = @ + 1]
  ELSE IF pll.clki < DivMax THEN [pll EXCEPT !.clki = @ + 1, !.clkfb = 1]
  ELSE [pll EXCEPT !.at = "error"]

TryPair ==
  /\ pll.at = "searching"
  /\ LET divs == [n \in DOMAIN clkouts |-> Found(n)] IN
     \/ /\ InVcoRange /\ AllValid
        /\ found' = [clki |-> pll.clki, clkfb |-> pll.clkfb, div |-> divs]
        /\ pll' = [pll EXCEPT !.at = "locked", !.div = divs]
     \/ /\ InVcoRange /\ ~AllValid
        /\ pll' = [NextPair EXCEPT !.div = divs] /\ UNCHANGED found
     \/ /\ ~InVcoRange
        /\ pll' = NextPair /\ UNCHANGED found
  /\ UNCHANGED <<clkin_freq, clkouts>>

PllNext == register_clkin \/ create_clkout \/ elaborate \/ TryPair
PllSpec == PllInit /\ [][PllNext]_pllVars

-----------------------------------------------------------------------------
PllTypeOK ==
  /\ clkin_freq \in ClkIns \cup {0} /\ clkouts \in Seq(Freqs) /\ Len(clkouts) <= MaxOuts
  /\ pll.at \in {"clkin", "clkouts", "searching", "locked", "error"}
  /\ {pll.clki, pll.clkfb} \subseteq 1 .. DivMax
  /\ Len(pll.div) = Len(clkouts)

\* The primitive gets dividers that fit each other: the dictionary that pairs
\* tried before have written to holds, when it is returned, the dividers of the
\* last pair for every output (ECP5PLL.py:86-97).  The clock that comes out is
\* within 1 % of what was asked, of two clocks at once.
LockFits ==
  pll.at = "locked" =>
    /\ clkin_freq * found.clkfb \in VcoMin * found.clki .. VcoMax * found.clki
    /\ \A n \in DOMAIN clkouts :
         LET asked == clkouts[n] * found.div[n] * found.clki
             made == clkin_freq * found.clkfb
         IN 99 * asked <= 100 * made /\ 100 * made <= 101 * asked
=============================================================================
