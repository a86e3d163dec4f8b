--------------------------- MODULE SdramModelProofs ---------------------------
(***************************************************************************)
(* What the monitors of SdramModel guarantee, proved for any number of     *)
(* banks, any times and any controller.                                    *)
(***************************************************************************)
EXTENDS SdramModel, TLAPS

BankType == [state : States, row : Int, column : Int, left : Int, auto : BOOLEAN,
             active : Int, written : Int]

Types ==
  /\ high \in BOOLEAN /\ failed \in BOOLEAN
  /\ pending \subseteq Banks /\ (~high => pending = {})
  /\ ini \in [k : 1 .. 6, clks : Int, a : Int]
  /\ in.a \in Int
  /\ bank \in [Banks -> BankType]
  /\ since \in [Banks -> [act : Clks, word : Clks]]

\* Until the mode is set, only the commands of the initialisation are given.
InitInv ==
  /\ mode # NotSet => mode.burst \in {2, 4, 8}
  /\ mode = NotSet <=> ini.k \in 1 .. 5
  /\ ini.k = 5 /\ ~failed => ini.a \in ModeWords
  /\ mode = NotSet /\ high /\ ~failed => in.cmd \in {"NOP", "PALL", "REF", "MRS"}

\* A monitor that has run at this edge is one clock ahead of the history.
Counts(b, n, clks, cap) == n = IF b \in pending THEN clks ELSE Up(clks, cap)

\* What the counters of a monitor know of the times that properties ask for.
BankInv(b) ==
  /\ bank[b].state # "IDLE" => mode # NotSet
  /\ bank[b].state \in {"ACTIVATING", "ROW_ACTIVATED", "READ"} => since[b].word = None
  /\ bank[b].state \in {"ACTIVATING", "ROW_ACTIVATED", "READ", "WRITE"} =>
       /\ since[b].act \in 0 .. LongestWait
       /\ Counts(b, bank[b].active, since[b].act, LongestWait)
  /\ bank[b].state = "ROW_ACTIVATED" => since[b].act >= tRCD
  /\ bank[b].state = "WRITE" =>
       /\ since[b].word \in 0 .. tDAL
       /\ bank[b].left = 0 => Counts(b, bank[b].written, since[b].word, tDAL)
  /\ bank[b].state = "IDLE" /\ since[b].word # None =>
       since[b].word >= tDAL /\ since[b].act >= tRAS

IInv == Types /\ InitInv /\ \A b \in Banks : BankInv(b)

-----------------------------------------------------------------------------
LEMMA Times ==
  /\ {tSTARTUP, tRP, tRC, tMRD, tRCD, tRAS, tDAL} \subseteq Nat \ {0}
  /\ LongestWait \in Nat \ {0} /\ LongestWait >= tRCD /\ LongestWait >= tRAS
BY TimesAssumption DEF LongestWait

LEMMA Words == \A w \in ModeWords : ModeOf(w) # NotSet /\ ModeOf(w).burst \in {2, 4, 8}
<1> SUFFICES ASSUME NEW w \in ModeWords PROVE ModeOf(w).burst \in {2, 4, 8}
  BY DEF NotSet, None
<1>1. PICK l \in {2, 3}, k \in {1, 2, 3} : w = 16 * l + k  BY ModesAssumption
<1>2. w % 8 = k  BY <1>1
<1> QED BY <1>2 DEF ModeOf, BurstLength

LEMMA CommandType == \A c \in Commands \cup {NOP} :
  c.a \in Int /\ (c.cmd = "MRS" => c.a \in ModeWords)
<1>1. Rows \subseteq Int /\ Starts \subseteq Int  BY InputsAssumption
<1>2. ModeWords \subseteq Int  BY ModesAssumption
<1> TAKE c \in Commands \cup {NOP}
<1>3. CASE c = NOP  BY <1>3 DEF NOP, None
<1>4. CASE c \in Commands
  <2>1. CASE c \in On({"ACT"}, Banks, Rows)  BY <2>1, <1>1 DEF On
  <2>2. CASE c \in On(Reads \cup Writes, Banks, Starts)
    BY <2>2, <1>1 DEF On, Reads, Writes
  <2>3. CASE c \in On({"BST", "PRE", "PALL", "REF", "SELF"}, Banks, {0})  BY <2>3 DEF On
  <2>4. CASE c \in On({"MRS"}, Banks, ModeWords)  BY <2>4, <1>2 DEF On
  <2> QED BY <1>4, <2>1, <2>2, <2>3, <2>4 DEF Commands
<1> QED BY <1>3, <1>4

LEMMA InitHolds == Init => IInv
<1> SUFFICES ASSUME Init PROVE IInv OBVIOUS
<1>1. Types
  <2>1. Rest("IDLE", None) \in BankType  BY DEF Rest, BankType, States, None
  <2>2. NOP.a \in Int  BY DEF NOP, None
  <2>3. since \in [Banks -> [act : Clks, word : Clks]]  BY DEF Init, Clks
  <2>4. ini \in [k : 1 .. 6, clks : Int, a : Int]  BY DEF Init, None
  <2> QED BY <2>1, <2>2, <2>3, <2>4 DEF Init, Types
<1>2. InitInv  BY DEF Init, InitInv, NotSet, NOP
<1>3. ASSUME NEW b \in Banks PROVE BankInv(b)  BY <1>3 DEF Init, BankInv, Rest, None
<1> QED BY <1>1, <1>2, <1>3 DEF IInv

\* The clock rises: the monitors are to run, the history has gone on.
LEMMA ClockHolds == ASSUME IInv, NEW c \in Commands \cup {NOP}, Clock(c) PROVE IInv'
<1> USE DEF IInv
<1>1. Types'
  <2>1. ini' \in [k : 1 .. 6, clks : Int, a : Int]
    <3>1. CASE InitOver  BY <3>1 DEF Clock, InitMonitor, Types
    <3>2. CASE ~InitOver /\ c.cmd = "NOP"
      BY <3>2 DEF Clock, InitMonitor, Types, Up
    <3>3. CASE ~InitOver /\ c.cmd # "NOP"
      <4>1. ini.k \in 1 .. 5  BY <3>3 DEF InitOver, Types, Expected
      <4> QED BY <3>3, <4>1, CommandType DEF Clock, InitMonitor, Types, None
    <3> QED BY <3>1, <3>2, <3>3
  <2>2. since' \in [Banks -> [act : Clks, word : Clks]]
    BY Times DEF Clock, Types, Up, Clks, None
  <2>3. failed' \in BOOLEAN  BY DEF Clock, InitFails
  <2> QED BY <2>1, <2>2, <2>3, CommandType DEF Clock, Types
<1>2. InitInv'
  <2>1. CASE InitOver
    <3>1. ini.k = 6  BY <2>1 DEF InitOver, Types, Expected
    <3> QED BY <2>1, <3>1 DEF Clock, InitMonitor, InitInv
  <2>2. CASE ~InitOver /\ c.cmd = "NOP"
    BY <2>2 DEF Clock, InitMonitor, InitFails, InitInv, Types
  <2>3. CASE ~InitOver /\ c.cmd # "NOP"
    <3>1. ini.k \in 1 .. 5  BY <2>3 DEF InitOver, Types, Expected
    <3>2. ini'.k = ini.k + 1 /\ ini'.a = (IF ini.k = 4 THEN c.a ELSE None)
          /\ mode' = (IF ini.k = 5 THEN ModeOf(ini.a) ELSE mode)
      BY <2>3 DEF Clock, InitMonitor
    <3>3. ini.k = 5 => ini.a \in ModeWords  BY DEF Clock, InitInv
    <3>4. ~failed' /\ ini.k < 5 => c.cmd = Expected[ini.k + 1]
      BY <2>3 DEF Clock, InitFails, InOrder, Expected
    <3>5. ~failed' /\ ini.k = 4 => c.a \in ModeWords  BY <3>4, CommandType DEF Expected
    <3>6. ~failed' /\ ini.k < 5 => c.cmd \in {"PALL", "REF", "MRS"}
      BY <3>1, <3>4 DEF Expected
    <3> QED BY <3>1, <3>2, <3>3, <3>5, <3>6, Words DEF InitInv, Clock
  <2> QED BY <2>1, <2>2, <2>3
<1>3. ASSUME NEW b \in Banks PROVE BankInv(b)'
  <2>1. mode # NotSet => mode' # NotSet
    BY <1>2 DEF InitInv, Types, Clock, InitMonitor, InitOver, Expected
  <2>2. b \notin pending  BY DEF Clock, Types
  <2>3. bank'[b] = bank[b] /\ since'[b] = [act  |-> Up(since[b].act, LongestWait),
                                          word |-> Up(since[b].word, tDAL)]
        /\ (b \in pending' <=> bank[b].state # "stopped")
    BY DEF Clock
  <2>4. /\ since'[b].act = Up(since[b].act, LongestWait)
        /\ since'[b].word = Up(since[b].word, tDAL)
    BY <2>3
  <2>5. since[b].act \in Clks /\ since[b].word \in Clks  BY DEF Types
  <2>6. \A n \in Clks, cap \in Nat :
          /\ Up(n, cap) = None <=> n = None
          /\ n \in 0 .. cap => Up(n, cap) \in 0 .. cap /\ Up(n, cap) >= n
          /\ n # None => Up(n, cap) >= n
    BY DEF Up, None, Clks
  <2>7. bank[b].state \in {"ACTIVATING", "ROW_ACTIVATED", "READ", "WRITE"} => b \in pending'
    BY <2>3
  <2> DEFINE st == bank[b].state
  <2>8. bank'[b].state = st /\ bank'[b].left = bank[b].left /\ bank'[b].active = bank[b].active
        /\ bank'[b].written = bank[b].written
    BY <2>3
  <2>9. BankInv(b)  OBVIOUS
  <2>10. st # "IDLE" => mode' # NotSet  BY <2>1, <2>9 DEF BankInv
  <2>11. st \in {"ACTIVATING", "ROW_ACTIVATED", "READ"} => since'[b].word = None
    BY <2>4, <2>9 DEF BankInv, Up
  <2>12. st \in {"ACTIVATING", "ROW_ACTIVATED", "READ", "WRITE"} =>
           /\ since'[b].act \in 0 .. LongestWait
           /\ bank[b].active = since'[b].act
    BY <2>2, <2>4, <2>5, <2>6, <2>9, Times DEF BankInv, Counts
  <2>13. st = "ROW_ACTIVATED" => since'[b].act >= tRCD
    BY <2>4, <2>5, <2>6, <2>9, Times DEF BankInv
  <2>14. st = "WRITE" => /\ since'[b].word \in 0 .. tDAL
                         /\ bank[b].left = 0 => bank[b].written = since'[b].word
    BY <2>2, <2>4, <2>5, <2>6, <2>9, Times DEF BankInv, Counts
  <2>15. st = "IDLE" /\ since'[b].word # None =>
           since'[b].word >= tDAL /\ since'[b].act >= tRAS
    <3> HAVE st = "IDLE" /\ since'[b].word # None
    <3>1. since[b].word >= tDAL /\ since[b].act >= tRAS
      BY <2>4, <2>9 DEF BankInv, Up
    <3>2. tDAL \in Nat \ {0} /\ tRAS \in Nat \ {0}  BY Times
    <3> QED BY <2>4, <2>5, <3>1, <3>2 DEF Up, Clks, None
  <2> QED BY <2>7, <2>8, <2>10, <2>11, <2>12, <2>13, <2>14, <2>15 DEF BankInv, Counts
<1> QED BY <1>1, <1>2, <1>3

-----------------------------------------------------------------------------
\* A turn of one bank's monitor leaves the other banks, and the initialisation,
\* alone.
TurnOf(b) ==
  /\ UNCHANGED <<high, in, ini, mode>>
  /\ ~failed /\ high /\ b \in pending
  /\ pending' \in {pending, pending \ {b}}
  /\ failed' \in BOOLEAN
  /\ bank' \in [Banks -> BankType]
  /\ since' \in [Banks -> [act : Clks, word : Clks]]
  /\ \A x \in Banks \ {b} : bank'[x] = bank[x] /\ since'[x] = since[x]

LEMMA TurnHolds == ASSUME IInv, NEW b \in Banks, TurnOf(b), BankInv(b)' PROVE IInv'
<1>1. Types'  BY DEF IInv, Types, TurnOf
<1>2. InitInv'  BY DEF IInv, InitInv, TurnOf
<1>3. ASSUME NEW x \in Banks, x # b PROVE BankInv(x)'
  BY <1>3 DEF IInv, TurnOf, BankInv, Counts
<1> QED BY <1>1, <1>2, <1>3 DEF IInv

\* What Ends does to the bank; r is its state before the clock is counted.
LEMMA EndsType ==
  ASSUME IInv, NEW b \in Banks, NEW r \in BankType, Ends(b, r)
  PROVE  /\ bank' \in [Banks -> BankType] /\ pending' = pending \ {b}
         /\ UNCHANGED <<high, in, ini, mode>>
         /\ \A x \in Banks \ {b} : bank'[x] = bank[x]
         /\ bank'[b] = [r EXCEPT !.active = Up(r.active, LongestWait),
                                 !.written = Up(r.written, tDAL)]
<1>1. bank \in [Banks -> BankType]  BY DEF IInv, Types
<1>2. [r EXCEPT !.active = Up(r.active, LongestWait), !.written = Up(r.written, tDAL)] \in BankType
  <2>1. r.active \in Int /\ r.written \in Int  BY DEF BankType
  <2>2. Up(r.active, LongestWait) \in Int /\ Up(r.written, tDAL) \in Int  BY <2>1 DEF Up
  <2> QED BY <2>2 DEF BankType
<1> QED BY <1>1, <1>2 DEF Ends

LEMMA RestType ==
  ASSUME NEW s \in States, NEW row \in Int PROVE Rest(s, row) \in BankType
BY DEF Rest, BankType, None

\* A turn that ends with the bank in state r, with nothing new in the history.
LEMMA QuietEnd ==
  ASSUME IInv, NEW b \in Banks, NEW r \in BankType, Ends(b, r),
         ~failed, high, b \in pending, failed' \in BOOLEAN, since' = since
  PROVE  /\ TurnOf(b) /\ pending' = pending \ {b}
         /\ since'[b] = since[b] /\ UNCHANGED mode
         /\ bank'[b].state = r.state /\ bank'[b].left = r.left
         /\ bank'[b].active = Up(r.active, LongestWait)
         /\ bank'[b].written = Up(r.written, tDAL)
<1>1. since' \in [Banks -> [act : Clks, word : Clks]]  BY DEF IInv, Types
<1>2. TurnOf(b)  BY <1>1, EndsType DEF TurnOf
<1>3. bank'[b] = [r EXCEPT !.active = Up(r.active, LongestWait),
                           !.written = Up(r.written, tDAL)]
  BY EndsType
<1> QED BY <1>2, <1>3, EndsType DEF BankType

\* Nothing but the initialisation is on the pins before the mode is set.
LEMMA ModeIsSet ==
  ASSUME IInv, NEW b \in Banks, high, ~failed,
         To(b) \in {"ACT", "BST"} \cup Reads \cup Writes
  PROVE  mode # NotSet
BY DEF IInv, InitInv, To, Reads, Writes

LEMMA IdleHolds ==
  ASSUME IInv, NEW b \in Banks, Activate(b) \/ StopIdle(b) \/ StayIdle(b)
  PROVE  IInv'
<1>1. bank[b] \in BankType /\ BankInv(b)  BY DEF IInv, Types
<1>2. CASE Activate(b)
  <2> DEFINE q == Rest("ACTIVATING", in.a)
  <2> DEFINE r == [q EXCEPT !.active = 0]
  <2>1. r \in BankType /\ r.state = "ACTIVATING" /\ r.active = 0
    <3>1. in.a \in Int  BY DEF IInv, Types
    <3>2. q \in BankType  BY <3>1, RestType DEF States
    <3>3. q.state = "ACTIVATING"  BY DEF Rest
    <3> HIDE DEF q
    <3> QED BY <3>2, <3>3 DEF BankType
  <2>2. Ends(b, r) /\ ~failed /\ high /\ b \in pending /\ failed' = failed
        /\ since' = [since EXCEPT ![b] = [act |-> 0, word |-> None]] /\ To(b) = "ACT"
    BY <1>2 DEF Activate, Runs
  <2>3. since' \in [Banks -> [act : Clks, word : Clks]]  BY <2>2 DEF IInv, Types, Clks
  <2>4. TurnOf(b)
    BY <2>1, <2>2, <2>3, EndsType DEF TurnOf, IInv, Types
  <2>5. /\ bank'[b].state = "ACTIVATING" /\ bank'[b].active = Up(0, LongestWait)
        /\ pending' = pending \ {b}
    <3> HIDE DEF r
    <3>1. bank'[b] = [r EXCEPT !.active = Up(r.active, LongestWait),
                               !.written = Up(r.written, tDAL)]
          /\ pending' = pending \ {b}
      BY <2>1, <2>2, EndsType
    <3> QED BY <2>1, <3>1 DEF BankType
  <2>6. since'[b].act = 0 /\ since'[b].word = None  BY <2>2 DEF IInv, Types
  <2>7. mode' # NotSet  BY <2>2, <2>4, ModeIsSet DEF TurnOf
  <2>8. BankInv(b)'  BY <2>5, <2>6, <2>7, Times DEF BankInv, Counts
  <2> QED BY <2>4, <2>8, TurnHolds
<1>3. CASE StopIdle(b)
  <2>1. Rest("stopped", None) \in BankType  BY RestType DEF States, None
  <2>2. Ends(b, Rest("stopped", None)) /\ ~failed /\ high /\ b \in pending
        /\ failed' = failed /\ since' = since /\ To(b) \in Reads \cup Writes \cup {"BST"}
    BY <1>3 DEF StopIdle, Runs, NoData
  <2>3. mode # NotSet  BY <2>2, ModeIsSet
  <2>4. TurnOf(b) /\ bank'[b].state = "stopped" /\ mode' = mode
    BY <2>1, <2>2, QuietEnd DEF Rest, IInv, Types
  <2>5. BankInv(b)'  BY <2>3, <2>4 DEF BankInv
  <2> QED BY <2>4, <2>5, TurnHolds
<1>4. CASE StayIdle(b)
  <2>1. Ends(b, bank[b]) /\ ~failed /\ high /\ b \in pending
        /\ failed' = failed /\ since' = since /\ bank[b].state = "IDLE"
    BY <1>4 DEF StayIdle, Runs, NoData
  <2>2. TurnOf(b) /\ bank'[b].state = "IDLE" /\ since'[b] = since[b]
    BY <1>1, <2>1, QuietEnd DEF IInv, Types
  <2>3. BankInv(b)'  BY <1>1, <2>1, <2>2 DEF BankInv
  <2> QED BY <2>2, <2>3, TurnHolds
<1> QED BY <1>2, <1>3, <1>4

LEMMA ActivatingHolds ==
  ASSUME IInv, NEW b \in Banks, WaitOn(b) \/ StopActivating(b) \/ RowActivated(b)
  PROVE  IInv'
<1>1. bank[b] \in BankType /\ BankInv(b)  BY DEF IInv, Types
<1>2. ~failed /\ high /\ b \in pending /\ bank[b].state = "ACTIVATING"
  BY DEF WaitOn, StopActivating, RowActivated, Runs
<1>3. mode # NotSet /\ since[b].word = None /\ since[b].act \in 0 .. LongestWait
      /\ bank[b].active = since[b].act
  BY <1>1, <1>2 DEF BankInv, Counts
<1>4. CASE WaitOn(b)
  <2>1. Ends(b, bank[b]) /\ failed' = failed /\ since' = since  BY <1>4 DEF WaitOn, NoData
  <2>2. TurnOf(b) /\ pending' = pending \ {b} /\ bank'[b].state = "ACTIVATING" /\ mode' = mode
        /\ since'[b] = since[b] /\ bank'[b].active = Up(bank[b].active, LongestWait)
    BY <1>1, <1>2, <2>1, QuietEnd DEF IInv, Types
  <2>3. BankInv(b)'  BY <1>3, <2>2 DEF BankInv, Counts
  <2> QED BY <2>2, <2>3, TurnHolds
<1>5. CASE StopActivating(b)
  <2>1. Rest("stopped", None) \in BankType  BY RestType DEF States, None
  <2>2. Ends(b, Rest("stopped", None)) /\ failed' = failed /\ since' = since
    BY <1>5 DEF StopActivating, NoData
  <2>3. TurnOf(b) /\ bank'[b].state = "stopped" /\ mode' = mode
    BY <1>2, <2>1, <2>2, QuietEnd DEF Rest, IInv, Types
  <2>4. BankInv(b)'  BY <1>3, <2>3 DEF BankInv
  <2> QED BY <2>3, <2>4, TurnHolds
<1>6. CASE RowActivated(b)
  <2> DEFINE r == [bank[b] EXCEPT !.state = "ROW_ACTIVATED"]
  <2>1. r \in BankType /\ r.state = "ROW_ACTIVATED" /\ r.active = bank[b].active
    BY <1>1 DEF BankType, States
  <2>2. since[b].act >= tRCD
    BY <1>3, <1>6 DEF RowActivated, Activated, LongEnough
  <2>3. CASE To(b) = "ACT"
    <3>1. Ends(b, r) /\ failed' = failed /\ since' = since
      BY <1>6, <2>3 DEF RowActivated, NoData
    <3>2. TurnOf(b) /\ pending' = pending \ {b} /\ bank'[b].state = "ROW_ACTIVATED"
          /\ mode' = mode /\ since'[b] = since[b]
          /\ bank'[b].active = Up(bank[b].active, LongestWait)
      BY <1>2, <2>1, <3>1, QuietEnd DEF IInv, Types
    <3>3. BankInv(b)'  BY <1>3, <2>2, <3>2 DEF BankInv, Counts
    <3> QED BY <3>2, <3>3, TurnHolds
  <2>4. CASE To(b) # "ACT"
    <3>1. bank' = [bank EXCEPT ![b] = r] /\ pending' = pending /\ since' = since
          /\ failed' = failed /\ UNCHANGED <<high, in, ini, mode>>
      BY <1>6, <2>4 DEF RowActivated, Continues
    <3>2. TurnOf(b) /\ bank'[b] = r /\ since'[b] = since[b]
      BY <1>2, <2>1, <3>1 DEF TurnOf, IInv, Types
    <3>3. BankInv(b)'  BY <1>2, <1>3, <2>1, <2>2, <3>1, <3>2 DEF BankInv, Counts
    <3> QED BY <3>2, <3>3, TurnHolds
  <2> QED BY <2>3, <2>4
<1> QED BY <1>4, <1>5, <1>6

\* The next word of a burst.
LEMMA WordType ==
  ASSUME NEW q \in BankType
  PROVE  LET r == [q EXCEPT !.column = q.column + 1, !.left = q.left - 1]
         IN  r \in BankType /\ r.state = q.state /\ r.active = q.active
<1>1. q.column \in Int /\ q.left \in Int  BY DEF BankType
<1>2. q.column + 1 \in Int /\ q.left - 1 \in Int  BY <1>1
<1> QED BY <1>2 DEF BankType

LEMMA LastWordType ==
  ASSUME NEW q \in BankType, NEW w \in Int
  PROVE  LET r == [q EXCEPT !.column = q.column + 1, !.left = q.left - 1, !.written = w]
         IN  /\ r \in BankType /\ r.state = q.state /\ r.active = q.active
             /\ r.left = q.left - 1 /\ r.written = w
<1>1. q.column \in Int /\ q.left \in Int  BY DEF BankType
<1>2. q.column + 1 \in Int /\ q.left - 1 \in Int  BY <1>1
<1> QED BY <1>2 DEF BankType

\* A word of a read: the bank goes on, or is idle with the last one.
LEMMA SchedulesHolds ==
  ASSUME IInv, NEW b \in Banks, NEW r \in BankType, NEW list, Schedules(b, r, list),
         r.state = "READ", r.active = since[b].act, ~failed, high, b \in pending,
         since' = since, mode # NotSet, since[b].word = None,
         since[b].act \in 0 .. LongestWait
  PROVE  IInv' /\ bank'[b].state # "ACTIVATING"
<1> DEFINE s == IF r.left = 1 THEN Rest("IDLE", None)
                ELSE [r EXCEPT !.column = @ + 1, !.left = @ - 1]
<1>1. Ends(b, s) /\ failed' \in BOOLEAN  BY DEF Schedules
<1>2. CASE r.left = 1
  <2>1. s = Rest("IDLE", None) /\ s \in BankType  BY <1>2, RestType DEF States, None
  <2>2. s.state = "IDLE"  BY <2>1 DEF Rest
  <2> HIDE DEF s
  <2>3. TurnOf(b) /\ bank'[b].state = "IDLE" /\ since'[b] = since[b]
    BY <1>1, <2>1, <2>2, QuietEnd
  <2>4. BankInv(b)'  BY <2>3 DEF BankInv
  <2> QED BY <2>3, <2>4, TurnHolds
<1>3. CASE r.left # 1
  <2>1. s \in BankType /\ s.state = "READ" /\ s.active = r.active
    <3>1. s = [r EXCEPT !.column = r.column + 1, !.left = r.left - 1]  BY <1>3
    <3> QED BY <3>1, WordType
  <2> HIDE DEF s
  <2>2. TurnOf(b) /\ bank'[b].state = "READ" /\ since'[b] = since[b] /\ mode' = mode
        /\ pending' = pending \ {b} /\ bank'[b].active = Up(s.active, LongestWait)
    BY <1>1, <2>1, QuietEnd
  <2>3. BankInv(b)'  BY <2>1, <2>2 DEF BankInv, Counts
  <2> QED BY <2>2, <2>3, TurnHolds
<1> QED BY <1>2, <1>3

LEMMA RowHolds ==
  ASSUME IInv, NEW b \in Banks, Write(b) \/ Read(b) \/ StayActivated(b)
  PROVE  IInv' /\ bank'[b].state # "ACTIVATING"
<1>1. bank[b] \in BankType /\ BankInv(b) /\ in.a \in Int  BY DEF IInv, Types
<1>2. ~failed /\ high /\ b \in pending /\ bank[b].state = "ROW_ACTIVATED"
  BY DEF Write, Read, StayActivated, Runs
<1>3. /\ mode # NotSet /\ mode.burst \in {2, 4, 8}
      /\ since[b].word = None /\ since[b].act \in 0 .. LongestWait
      /\ since[b].act >= tRCD /\ bank[b].active = since[b].act
  BY <1>1, <1>2 DEF BankInv, Counts, IInv, InitInv
<1>4. CASE Write(b)
  <2> DEFINE r == [bank[b] EXCEPT !.state = "WRITE", !.column = in.a,
                                  !.left = mode.burst - 1, !.auto = To(b) = "WRITE_AP"]
  <2>1. r \in BankType /\ r.state = "WRITE" /\ r.active = bank[b].active
        /\ r.left = mode.burst - 1
    <3> DEFINE q == bank[b]
    <3> DEFINE l == mode.burst - 1
    <3> DEFINE au == To(b) = "WRITE_AP"
    <3>1. l \in Int /\ au \in BOOLEAN /\ q \in BankType  BY <1>1, <1>3
    <3>2. r = [q EXCEPT !.state = "WRITE", !.column = in.a, !.left = l, !.auto = au]
      OBVIOUS
    <3> HIDE DEF r, q, l, au
    <3>3. r \in BankType /\ r.state = "WRITE" /\ r.active = q.active /\ r.left = l
      BY <3>1, <3>2, <1>1 DEF BankType, States
    <3> QED BY <3>3 DEF q, l
  <2>2. Ends(b, r) /\ failed' = failed /\ since' = [since EXCEPT ![b].word = 0]
    BY <1>4 DEF Write
  <2>3. since' \in [Banks -> [act : Clks, word : Clks]] /\ since'[b].word = 0
        /\ since'[b].act = since[b].act
    BY <2>2 DEF IInv, Types, Clks
  <2> HIDE DEF r
  <2>4. TurnOf(b)  BY <1>2, <2>1, <2>2, <2>3, EndsType DEF TurnOf, IInv, Types
  <2>5. /\ bank'[b].state = "WRITE" /\ bank'[b].left = r.left /\ pending' = pending \ {b}
        /\ bank'[b].active = Up(r.active, LongestWait) /\ mode' = mode
    <3>1. bank'[b] = [r EXCEPT !.active = Up(r.active, LongestWait),
                               !.written = Up(r.written, tDAL)]
          /\ pending' = pending \ {b} /\ mode' = mode
      BY <2>1, <2>2, EndsType
    <3> QED BY <2>1, <3>1 DEF BankType
  <2>6. BankInv(b)'
    BY <1>3, <2>1, <2>3, <2>5, Times DEF BankInv, Counts
  <2> QED BY <2>4, <2>5, <2>6, TurnHolds
<1>5. CASE Read(b)
  <2> DEFINE r == [bank[b] EXCEPT !.state = "READ", !.column = in.a,
                                  !.left = mode.burst, !.auto = To(b) = "READ_AP"]
  <2>1. r \in BankType /\ r.state = "READ" /\ r.active = since[b].act
    <3> DEFINE q == bank[b]
    <3> DEFINE l == mode.burst
    <3> DEFINE au == To(b) = "READ_AP"
    <3>1. l \in Int /\ au \in BOOLEAN /\ q \in BankType  BY <1>1, <1>3
    <3>2. r = [q EXCEPT !.state = "READ", !.column = in.a, !.left = l, !.auto = au]
      OBVIOUS
    <3> HIDE DEF r, q, l, au
    <3>3. r \in BankType /\ r.state = "READ" /\ r.active = q.active
      BY <3>1, <3>2, <1>1 DEF BankType, States
    <3> QED BY <3>3, <1>3 DEF q
  <2>2. Schedules(b, r, Before(reads_to_return, mode.latency - 1)) /\ since' = since
    BY <1>5 DEF Read
  <2> HIDE DEF r
  <2> QED BY <1>2, <1>3, <2>1, <2>2, SchedulesHolds
<1>6. CASE StayActivated(b)
  <2>1. Ends(b, bank[b]) /\ failed' = failed /\ since' = since
    BY <1>6 DEF StayActivated, NoData
  <2>2. TurnOf(b) /\ pending' = pending \ {b} /\ bank'[b].state = "ROW_ACTIVATED"
        /\ mode' = mode /\ since'[b] = since[b]
        /\ bank'[b].active = Up(bank[b].active, LongestWait)
    BY <1>1, <1>2, <2>1, QuietEnd DEF IInv, Types
  <2>3. BankInv(b)'  BY <1>3, <2>2 DEF BankInv, Counts
  <2> QED BY <2>2, <2>3, TurnHolds
<1> QED BY <1>4, <1>5, <1>6

LEMMA ReadHolds ==
  ASSUME IInv, NEW b \in Banks, ReadOn(b) \/ ReadLast(b)
  PROVE  IInv' /\ bank'[b].state # "ACTIVATING"
<1>1. bank[b] \in BankType /\ BankInv(b)  BY DEF IInv, Types
<1>2. ~failed /\ high /\ b \in pending /\ bank[b].state = "READ" /\ since' = since
  BY DEF ReadOn, ReadLast, Runs
<1>3. mode # NotSet /\ since[b].word = None /\ since[b].act \in 0 .. LongestWait
      /\ bank[b].active = since[b].act
  BY <1>1, <1>2 DEF BankInv, Counts
<1>4. CASE Schedules(b, bank[b], reads_to_return)
  BY <1>1, <1>2, <1>3, <1>4, SchedulesHolds
<1>5. CASE Ends(b, bank[b]) /\ failed' = TRUE
  <2>1. TurnOf(b) /\ pending' = pending \ {b} /\ bank'[b].state = "READ"
        /\ mode' = mode /\ since'[b] = since[b]
        /\ bank'[b].active = Up(bank[b].active, LongestWait)
    BY <1>1, <1>2, <1>5, QuietEnd
  <2>2. BankInv(b)'  BY <1>3, <2>1 DEF BankInv, Counts
  <2> QED BY <2>1, <2>2, TurnHolds
<1> QED BY <1>4, <1>5 DEF ReadOn, ReadLast

LEMMA WriteHolds ==
  ASSUME IInv, NEW b \in Banks, WriteOn(b) \/ Precharged(b) \/ WaitForPrecharge(b)
  PROVE  IInv' /\ bank'[b].state # "ACTIVATING"
<1>1. bank[b] \in BankType /\ BankInv(b)  BY DEF IInv, Types
<1>2. ~failed /\ high /\ b \in pending /\ bank[b].state = "WRITE"
  BY DEF WriteOn, Precharged, WaitForPrecharge, Runs
<1>3. /\ mode # NotSet /\ since[b].act \in 0 .. LongestWait
      /\ bank[b].active = since[b].act /\ since[b].word \in 0 .. tDAL
      /\ bank[b].left = 0 => bank[b].written = since[b].word
  BY <1>1, <1>2 DEF BankInv, Counts
<1>4. CASE WriteOn(b)
  <2> DEFINE r == [bank[b] EXCEPT !.column = @ + 1, !.left = @ - 1,
                                  !.written = IF bank[b].left = 1 THEN 0 ELSE None]
  <2>1. r \in BankType /\ r.state = "WRITE" /\ r.active = bank[b].active
        /\ (r.left = 0 => r.written = 0)
    <3> DEFINE w == IF bank[b].left = 1 THEN 0 ELSE None
    <3>1. w \in Int /\ bank[b].left \in Int  BY <1>1 DEF BankType, None
    <3>2. /\ r \in BankType /\ r.state = bank[b].state /\ r.active = bank[b].active
          /\ r.left = bank[b].left - 1 /\ r.written = w
      <4> DEFINE q == bank[b]
      <4>1. r = [q EXCEPT !.column = q.column + 1, !.left = q.left - 1, !.written = w]
        OBVIOUS
      <4>2. q \in BankType  BY <1>1
      <4> HIDE DEF r, w, q
      <4>3. /\ r \in BankType /\ r.state = q.state /\ r.active = q.active
            /\ r.left = q.left - 1 /\ r.written = w
        BY <4>1, <4>2, <3>1, LastWordType
      <4> QED BY <4>3 DEF q
    <3>3. bank[b].left - 1 = 0 => w = 0  BY <3>1
    <3> HIDE DEF r, w
    <3> QED BY <1>2, <3>2, <3>3
  <2>2. Ends(b, r) /\ failed' \in BOOLEAN /\ since' = [since EXCEPT ![b].word = 0]
    BY <1>4 DEF WriteOn
  <2>3. since' \in [Banks -> [act : Clks, word : Clks]] /\ since'[b].word = 0
        /\ since'[b].act = since[b].act
    BY <2>2 DEF IInv, Types, Clks
  <2> HIDE DEF r
  <2>4. TurnOf(b)  BY <1>2, <2>1, <2>2, <2>3, EndsType DEF TurnOf
  <2>5. /\ bank'[b].state = "WRITE" /\ bank'[b].left = r.left /\ pending' = pending \ {b}
        /\ bank'[b].active = Up(r.active, LongestWait) /\ mode' = mode
        /\ bank'[b].written = Up(r.written, tDAL)
    <3>1. bank'[b] = [r EXCEPT !.active = Up(r.active, LongestWait),
                               !.written = Up(r.written, tDAL)]
          /\ pending' = pending \ {b} /\ mode' = mode
      BY <2>1, <2>2, EndsType
    <3> QED BY <2>1, <3>1 DEF BankType
  <2>6. BankInv(b)'
    BY <1>3, <2>1, <2>3, <2>5, Times DEF BankInv, Counts
  <2> QED BY <2>4, <2>5, <2>6, TurnHolds
<1>5. CASE Precharged(b)
  <2>1. since[b].word >= tDAL /\ since[b].act >= tRAS
    BY <1>3, <1>5 DEF Precharged, TimingPassed
  <2>2. Rest("IDLE", None) \in BankType  BY RestType DEF States, None
  <2>3. bank' = [bank EXCEPT ![b] = Rest("IDLE", None)] /\ pending' = pending
        /\ since' = since /\ failed' = failed /\ UNCHANGED <<high, in, ini, mode>>
    BY <1>5 DEF Precharged, Continues
  <2>4. TurnOf(b) /\ bank'[b].state = "IDLE" /\ since'[b] = since[b]
    BY <1>2, <2>2, <2>3 DEF TurnOf, IInv, Types, Rest
  <2>5. BankInv(b)'  BY <2>1, <2>4 DEF BankInv
  <2> QED BY <2>4, <2>5, TurnHolds
<1>6. CASE WaitForPrecharge(b)
  <2>1. Ends(b, bank[b]) /\ failed' = failed /\ since' = since
    BY <1>6 DEF WaitForPrecharge, NoData
  <2>2. TurnOf(b) /\ pending' = pending \ {b} /\ bank'[b].state = "WRITE"
        /\ mode' = mode /\ since'[b] = since[b] /\ bank'[b].left = bank[b].left
        /\ bank'[b].active = Up(bank[b].active, LongestWait)
        /\ bank'[b].written = Up(bank[b].written, tDAL)
    BY <1>1, <1>2, <2>1, QuietEnd DEF IInv, Types
  <2>3. BankInv(b)'  BY <1>3, <2>2 DEF BankInv, Counts
  <2> QED BY <2>2, <2>3, TurnHolds
<1> QED BY <1>4, <1>5, <1>6

LEMMA FallHolds == ASSUME IInv, Fall PROVE IInv'
<1>1. UNCHANGED <<pending, failed, ini, mode, bank, since>> /\ pending = {}
      /\ high' = FALSE /\ in' = NOP
  BY DEF Fall
<1>2. Types'
  <2>1. in'.a \in Int  BY <1>1 DEF NOP, None
  <2> QED BY <1>1, <2>1 DEF IInv, Types
<1>3. InitInv'  BY <1>1 DEF IInv, InitInv
<1>4. ASSUME NEW b \in Banks PROVE BankInv(b)'  BY <1>1 DEF IInv, BankInv, Counts
<1> QED BY <1>2, <1>3, <1>4 DEF IInv

LEMMA StutterHolds == ASSUME IInv, UNCHANGED vars PROVE IInv'
BY DEF IInv, Types, InitInv, BankInv, Counts, vars

-----------------------------------------------------------------------------
LEMMA StepHolds == ASSUME IInv, Next PROVE IInv'
<1>1. CASE \E c \in Commands \cup {NOP} : Clock(c)  BY <1>1, ClockHolds
<1>2. ASSUME NEW b \in Banks, Bank(b) PROVE IInv'
  BY <1>2, IdleHolds, ActivatingHolds, RowHolds, ReadHolds, WriteHolds DEF Bank
<1>3. CASE Fall  BY <1>3, FallHolds
<1> QED BY <1>1, <1>2, <1>3 DEF Next

\* The monitors' counters agree with the times the properties speak of
\* (bank_monitor, test1_simulation.py:711-1003).
THEOREM InvariantHolds == Spec => []IInv
<1>1. IInv /\ [Next]_vars => IInv'  BY StepHolds, StutterHolds
<1> QED BY <1>1, InitHolds, PTL DEF Spec

\* No bank is used before the mode register is set (ram_initialisation_monitor
\* sets self.mode, test1_simulation.py:674-697, bank_monitor reads it).
THEOREM InitFirst == Spec => []NothingBeforeInit
<1>1. IInv => NothingBeforeInit  BY DEF IInv, BankInv, NothingBeforeInit
<1> QED BY <1>1, InvariantHolds, PTL

\* A bank leaves ROW_ACTIVATED for a burst only tRCD after its activation
\* (test1_simulation.py:814-832).
THEOREM ActivationDelay == Spec => RowIsActive
<1> DEFINE A == \A b \in Banks :
                  bank[b].state = "ROW_ACTIVATED" /\ bank[b]'.state \in {"READ", "WRITE"}
                  => since[b].act >= tRCD
<1>1. IInv => A  BY DEF IInv, BankInv
<1>2. IInv /\ [Next]_vars => [A]_vars  BY <1>1
<1> QED BY <1>2, InvariantHolds, PTL DEF Spec, RowIsActive

\* Only a monitor that is IDLE makes its bank ACTIVATING.
LEMMA OnlyIdleActivates ==
  ASSUME IInv, Next, NEW b \in Banks,
         bank[b].state # "ACTIVATING", bank'[b].state = "ACTIVATING"
  PROVE  bank[b].state = "IDLE"
<1>1. bank \in [Banks -> BankType]  BY DEF IInv, Types
<1>2. CASE UNCHANGED bank  BY <1>2
<1>3. ASSUME NEW x \in Banks, Bank(x), x # b PROVE FALSE
  <2>1. bank'[b] = bank[b]
    BY <1>1, <1>3 DEF Bank, Activate, StopIdle, StayIdle, WaitOn, StopActivating,
      RowActivated, Write, Read, StayActivated, ReadOn, ReadLast, WriteOn, Precharged,
      WaitForPrecharge, Schedules, Ends, Continues
  <2> QED BY <2>1
<1>4. CASE Bank(b)
  <2>1. CASE Activate(b) \/ StopIdle(b) \/ StayIdle(b)
    BY <2>1 DEF Activate, StopIdle, StayIdle, Runs
  <2>2. CASE WaitOn(b) \/ StopActivating(b) \/ RowActivated(b)
    BY <2>2 DEF WaitOn, StopActivating, RowActivated, Runs
  <2>3. CASE \/ Write(b) \/ Read(b) \/ StayActivated(b) \/ ReadOn(b) \/ ReadLast(b)
             \/ WriteOn(b) \/ Precharged(b) \/ WaitForPrecharge(b)
    BY <2>3, RowHolds, ReadHolds, WriteHolds
  <2> QED BY <1>4, <2>1, <2>2, <2>3 DEF Bank
<1> QED BY <1>2, <1>3, <1>4 DEF Next, Clock, Fall

\* A bank's row is activated after a write only tDAL after the write's last word,
\* and tRAS after the activation before (test1_simulation.py:963-989).
THEOREM WriteRecovery == Spec => WriteRecovers
<1> DEFINE A == \A b \in Banks :
                  bank[b].state # "ACTIVATING" /\ bank[b]'.state = "ACTIVATING"
                    /\ since[b].word # None
                  => since[b].word >= tDAL /\ since[b].act >= tRAS
<1>1. ASSUME IInv, Next PROVE A
  <2> SUFFICES ASSUME NEW b \in Banks, bank[b].state # "ACTIVATING",
                      bank[b]'.state = "ACTIVATING", since[b].word # None
               PROVE  since[b].word >= tDAL /\ since[b].act >= tRAS
    OBVIOUS
  <2>1. bank[b].state = "IDLE"  BY <1>1, OnlyIdleActivates
  <2> QED BY <1>1, <2>1 DEF IInv, BankInv
<1>2. IInv /\ [Next]_vars => [A]_vars  BY <1>1
<1> QED BY <1>2, InvariantHolds, PTL DEF Spec, WriteRecovers

-----------------------------------------------------------------------------
(***************************************************************************)
(* What the bus carries.  A read knows at once every word it is due; the   *)
(* monitors schedule them one by one.                                      *)
(***************************************************************************)
Places == [bank_src : Int, data : Int]
Fetched(b, m, column) == IF column \in m THEN Word(b, column) ELSE Blank

\* The list is the words due but for the left last ones, which bank b fetches
\* from column on, out of the columns m of its row that hold a word.
Owes(list, words, b, m, column, left) ==
  /\ Len(words) = Len(list) + left
  /\ \A i \in 1 .. Len(list) : words[i] = list[i]
  /\ \A i \in 1 .. left : words[Len(list) + i] = Fetched(b, m, column + (i - 1))

LEMMA PlaceTypes == ASSUME NEW b \in Int, NEW column \in Int, NEW m
  PROVE Word(b, column) \in Places /\ Blank \in Places /\ Fetched(b, m, column) \in Places
BY DEF Word, Blank, Places, Fetched, None

\* A burst goes on.
LEMMA NextWord ==
  ASSUME NEW list \in Seq(Places), NEW words \in Seq(Places), NEW b \in Int, NEW m,
         NEW column \in Int, NEW left \in Nat, left > 1,
         column \in m, Owes(list, words, b, m, column, left)
  PROVE  Owes(Append(list, Word(b, column)), words, b, m \ {column}, column + 1, left - 1)
<1> DEFINE w == Word(b, column)
           n == Len(list)
           new == Append(list, w)
<1>1. w \in Places  BY PlaceTypes
<1>2. n \in Nat  OBVIOUS
<1>3. new \in Seq(Places) /\ Len(new) = n + 1
      /\ (\A i \in 1 .. n : new[i] = list[i]) /\ new[n + 1] = w
  BY <1>1
<1>4. Len(words) = n + left /\ (\A i \in 1 .. n : words[i] = list[i])
      /\ \A i \in 1 .. left : words[n + i] = Fetched(b, m, column + (i - 1))
  BY DEF Owes
<1> HIDE DEF w, n, new
<1>5. words[n + 1] = w
  <2>1. 1 \in 1 .. left /\ column + (1 - 1) = column  OBVIOUS
  <2>2. words[n + 1] = Fetched(b, m, column + (1 - 1))  BY <1>4, <2>1
  <2> QED BY <2>1, <2>2 DEF Fetched, w
<1>6. Len(words) = Len(new) + (left - 1)  BY <1>2, <1>3, <1>4
<1>7. \A i \in 1 .. Len(new) : words[i] = new[i]
  <2> TAKE i \in 1 .. Len(new)
  <2>1. i \in 1 .. n \/ i = n + 1  BY <1>2, <1>3
  <2> QED BY <1>3, <1>4, <1>5, <2>1
<1>8. \A i \in 1 .. left - 1 :
        words[Len(new) + i] = Fetched(b, m \ {column}, column + 1 + (i - 1))
  <2> TAKE i \in 1 .. left - 1
  <2>1. i + 1 \in 1 .. left /\ Len(new) + i = n + (i + 1)
        /\ column + 1 + (i - 1) = column + ((i + 1) - 1) /\ column + ((i + 1) - 1) # column
    BY <1>2, <1>3
  <2>2. words[n + (i + 1)] = Fetched(b, m, column + ((i + 1) - 1))  BY <1>4, <2>1
  <2> QED BY <2>1, <2>2 DEF Fetched
<1> QED BY <1>6, <1>7, <1>8 DEF Owes, new, w

\* A burst ends.
LEMMA LastWord ==
  ASSUME NEW list \in Seq(Places), NEW words \in Seq(Places), NEW b \in Int, NEW m,
         NEW column \in Int, column \in m, Owes(list, words, b, m, column, 1)
  PROVE  Append(list, Word(b, column)) = words
<1> DEFINE w == Word(b, column)
           n == Len(list)
           new == Append(list, w)
<1>1. w \in Places  BY PlaceTypes
<1>2. n \in Nat  OBVIOUS
<1>3. new \in Seq(Places) /\ Len(new) = n + 1
      /\ (\A i \in 1 .. n : new[i] = list[i]) /\ new[n + 1] = w
  BY <1>1
<1>4. Len(words) = n + 1 /\ (\A i \in 1 .. n : words[i] = list[i])
      /\ \A i \in 1 .. 1 : words[n + i] = Fetched(b, m, column + (i - 1))
  BY DEF Owes
<1> HIDE DEF w, n, new
<1>5. words[n + 1] = w
  <2>1. 1 \in 1 .. 1 /\ column + (1 - 1) = column  OBVIOUS
  <2>2. words[n + 1] = Fetched(b, m, column + (1 - 1))  BY <1>4, <2>1
  <2> QED BY <2>1, <2>2 DEF Fetched, w
<1>7. \A i \in 1 .. n + 1 : words[i] = new[i]
  <2> TAKE i \in 1 .. n + 1
  <2>1. i \in 1 .. n \/ i = n + 1  BY <1>2
  <2> QED BY <1>3, <1>4, <1>5, <2>1
<1>8. new = words  BY <1>3, <1>4, <1>7
<1> QED BY <1>8 DEF new, w

\* The bus carries a word; nothing else changes.
LEMMA WordSent ==
  ASSUME NEW list \in Seq(Places), NEW words \in Seq(Places), list # <<>>,
         NEW b, NEW m, NEW column \in Int, NEW left \in Nat,
         Owes(list, words, b, m, column, left)
  PROVE  /\ Owes(Tail(list), Tail(words), b, m, column, left)
         /\ words # <<>> /\ Len(Tail(list)) = Len(list) - 1
<1> DEFINE n == Len(list)
           k == Len(words)
           l == Tail(list)
           ws == Tail(words)
<1>1. n \in Nat /\ n > 0  OBVIOUS
<1>2. l \in Seq(Places) /\ Len(l) = n - 1 /\ \A i \in 1 .. n - 1 : l[i] = list[i + 1]  BY <1>1
<1>3. k = n + left /\ (\A i \in 1 .. n : words[i] = list[i])
      /\ \A i \in 1 .. left : words[n + i] = Fetched(b, m, column + (i - 1))
  BY DEF Owes
<1>4. k \in Nat /\ k > 0 /\ words # <<>>  BY <1>1, <1>3
<1>5. ws \in Seq(Places) /\ Len(ws) = k - 1 /\ \A i \in 1 .. k - 1 : ws[i] = words[i + 1]
  BY <1>4
<1> HIDE DEF n, k, l, ws
<1>6. Len(ws) = Len(l) + left  BY <1>1, <1>2, <1>3, <1>4, <1>5
<1>7. \A i \in 1 .. Len(l) : ws[i] = l[i]
  <2> TAKE i \in 1 .. Len(l)
  <2>1. i \in 1 .. n - 1 /\ i \in 1 .. k - 1 /\ i + 1 \in 1 .. n  BY <1>1, <1>2, <1>3, <1>4
  <2> QED BY <2>1, <1>2, <1>3, <1>5
<1>8. \A i \in 1 .. left : ws[Len(l) + i] = Fetched(b, m, column + (i - 1))
  <2> TAKE i \in 1 .. left
  <2>1. Len(l) + i \in 1 .. k - 1 /\ Len(l) + i + 1 = n + i  BY <1>1, <1>2, <1>3, <1>4
  <2>2. ws[Len(l) + i] = words[n + i]  BY <2>1, <1>5
  <2> QED BY <2>2, <1>3
<1> QED BY <1>2, <1>4, <1>6, <1>7, <1>8 DEF Owes, n, l, ws

\* What a read promises at once, and its first word.
Promised(list, n, b, m, column, burst) ==
  [i \in 1 .. n |-> IF i <= Len(list) THEN list[i] ELSE Blank]
    \o [i \in 1 .. burst |->
          IF column + i - 1 \in m THEN Word(b, column + i - 1) ELSE Blank]

LEMMA BeforeType ==
  ASSUME NEW list \in Seq(Places), NEW n \in Nat
  PROVE  /\ Before(list, n) \in Seq(Places) /\ Len(Before(list, n)) = n
         /\ \A i \in 1 .. n : Before(list, n)[i] = IF i <= Len(list) THEN list[i] ELSE Blank
<1> DEFINE p == [i \in 1 .. n |-> IF i <= Len(list) THEN list[i] ELSE Blank]
<1>1. Blank \in Places  BY PlaceTypes DEF None
<1>2. \A i \in 1 .. n : p[i] \in Places
  <2> TAKE i \in 1 .. n
  <2>1. CASE i <= Len(list)
    <3>1. i \in 1 .. Len(list)  BY <2>1
    <3> QED BY <2>1, <3>1
  <2>2. CASE ~(i <= Len(list))  BY <2>2, <1>1
  <2> QED BY <2>1, <2>2
<1>3. p \in Seq(Places) /\ Len(p) = n  BY <1>2
<1> QED BY <1>3 DEF Before

LEMMA Joined ==
  ASSUME NEW p \in Seq(Places), NEW q \in Seq(Places), NEW n \in Nat, NEW k \in Nat,
         n = Len(p), k = Len(q)
  PROVE  /\ p \o q \in Seq(Places) /\ Len(p \o q) = n + k
         /\ \A i \in 1 .. n : (p \o q)[i] = p[i]
         /\ \A i \in 1 .. k : (p \o q)[n + i] = q[i]
<1>1. p \o q \in Seq(Places)  OBVIOUS
<1>2. Len(p \o q) = n + k  OBVIOUS
<1>3. \A i \in 1 .. n : (p \o q)[i] = p[i]  OBVIOUS
<1>4. \A i \in 1 .. k : (p \o q)[n + i] = q[i]  OBVIOUS
<1> QED BY <1>1, <1>2, <1>3, <1>4

LEMMA FirstWord ==
  ASSUME NEW list \in Seq(Places), NEW words, words = list, NEW n \in Nat,
         NEW b \in Int, NEW m, NEW column \in Int, column \in m, NEW burst \in Nat, burst > 1
  PROVE  LET new == Append(Before(list, n), Word(b, column))
             promised == Promised(words, n, b, m, column, burst)
         IN  /\ new \in Seq(Places) /\ promised \in Seq(Places) /\ Len(new) = n + 1
             /\ Owes(new, promised, b, m \ {column}, column + 1, burst - 1)
<1> DEFINE p == Before(list, n)
           w == Word(b, column)
           new == Append(p, w)
           q == [i \in 1 .. burst |-> Fetched(b, m, column + (i - 1))]
           promised == p \o q
<1>1. w \in Places  BY PlaceTypes
<1>2. p \in Seq(Places) /\ Len(p) = n  BY BeforeType
<1>3. q \in Seq(Places) /\ Len(q) = burst
      /\ \A i \in 1 .. burst : q[i] = Fetched(b, m, column + (i - 1))
  <2>1. \A i \in 1 .. burst : Fetched(b, m, column + (i - 1)) \in Places  BY PlaceTypes
  <2> QED BY <2>1
<1>4. promised = Promised(words, n, b, m, column, burst)
  <2>1. \A i \in 1 .. burst : column + (i - 1) = column + i - 1  OBVIOUS
  <2>2. q = [i \in 1 .. burst |->
               IF column + i - 1 \in m THEN Word(b, column + i - 1) ELSE Blank]
    BY <2>1 DEF Fetched
  <2> QED BY <2>2 DEF Promised, Before
<1> HIDE DEF p, w, q
<1>5. new \in Seq(Places) /\ Len(new) = n + 1
      /\ (\A i \in 1 .. n : new[i] = p[i]) /\ new[n + 1] = w
  BY <1>1, <1>2
<1>6. promised \in Seq(Places) /\ Len(promised) = n + burst
      /\ (\A i \in 1 .. n : promised[i] = p[i])
      /\ \A i \in 1 .. burst : promised[n + i] = q[i]
  <2>1. p \in Seq(Places) /\ q \in Seq(Places) /\ n = Len(p) /\ burst = Len(q)
    BY <1>2, <1>3
  <2>2. promised \in Seq(Places) /\ Len(promised) = n + burst  BY <2>1, Joined
  <2>3. \A i \in 1 .. n : promised[i] = p[i]  BY <2>1, Joined
  <2>4. \A i \in 1 .. burst : promised[n + i] = q[i]  BY <2>1, Joined
  <2> QED BY <2>2, <2>3, <2>4
<1> HIDE DEF new, promised
<1>7. promised[n + 1] = w
  <2>1. 1 \in 1 .. burst /\ column + (1 - 1) = column  OBVIOUS
  <2>2. promised[n + 1] = Fetched(b, m, column + (1 - 1))  BY <1>6, <1>3, <2>1
  <2> QED BY <2>1, <2>2 DEF Fetched, w
<1>8. Owes(p, promised, b, m, column, burst)
  BY <1>2, <1>3, <1>6 DEF Owes
<1>9. Owes(new, promised, b, m \ {column}, column + 1, burst - 1)
  BY <1>2, <1>6, <1>8, NextWord DEF new, w
<1> QED BY <1>4, <1>5, <1>6, <1>9 DEF new, p, w

\* Bank b fetches the words of a read; the bus is to carry so many before them.
Reading(b) == bank[b].state = "READ"
BankOwes(b) ==
  /\ Owes(reads_to_return, due, b, memory[b][bank[b].row], bank[b].column, bank[b].left)
  /\ Len(reads_to_return) >= mode.latency - 1
  /\ high /\ b \notin pending => Len(reads_to_return) >= mode.latency

Opened == {"ACTIVATING", "ROW_ACTIVATED", "READ", "WRITE"}
MemoryType == [Banks -> [Rows -> SUBSET Int]]

DataTypes ==
  /\ memory \in MemoryType
  /\ reads_to_return \in Seq(Places) /\ due \in Seq(Places) /\ overlap \in BOOLEAN
  /\ mode # NotSet => mode.latency \in Nat \ {0}
  /\ in.cmd = "ACT" => in.a \in Rows
  /\ \A b \in Banks : bank[b].state \in Opened => bank[b].row \in Rows

Fetches == \A b \in Banks : Reading(b) =>
  bank[b].left \in Nat \ {0} /\ (high /\ b \notin pending => reads_to_return # <<>>)

\* While no read has cut another's list, one bank at most is in a read.
OneReads ==
  /\ \A b, c \in Banks : Reading(b) /\ Reading(c) => b = c
  /\ (\A b \in Banks : ~Reading(b)) => reads_to_return = due
  /\ \A b \in Banks : Reading(b) => BankOwes(b)

DataInv == DataTypes /\ (~failed => Fetches /\ (~overlap => OneReads))

LEMMA Latencies == \A w \in ModeWords : ModeOf(w).latency \in Nat \ {0}
<1> SUFFICES ASSUME NEW w \in ModeWords PROVE ModeOf(w).latency \in Nat \ {0}
  OBVIOUS
<1>1. PICK l \in {2, 3}, k \in {1, 2, 3} : w = 16 * l + k  BY ModesAssumption
<1>2. w \div 16 = l /\ l % 8 = l  BY <1>1
<1> QED BY <1>2 DEF ModeOf

LEMMA ActivatesRow == \A c \in Commands \cup {NOP} : c.cmd = "ACT" => c.a \in Rows
<1> TAKE c \in Commands \cup {NOP}
<1>1. CASE c = NOP  BY <1>1 DEF NOP
<1>2. CASE c \in Commands
  <2>1. CASE c \in On({"ACT"}, Banks, Rows)  BY <2>1 DEF On
  <2>2. CASE c \in On(Reads \cup Writes, Banks, Starts)  BY <2>2 DEF On, Reads, Writes
  <2>3. CASE c \in On({"BST", "PRE", "PALL", "REF", "SELF"}, Banks, {0})  BY <2>3 DEF On
  <2>4. CASE c \in On({"MRS"}, Banks, ModeWords)  BY <2>4 DEF On
  <2> QED BY <1>2, <2>1, <2>2, <2>3, <2>4 DEF Commands
<1> QED BY <1>1, <1>2

LEMMA DataInit == Init => DataInv
<1> SUFFICES ASSUME Init PROVE DataInv OBVIOUS
<1>1. memory \in MemoryType  BY DEF Init, MemoryType
<1>2. reads_to_return \in Seq(Places) /\ due \in Seq(Places) /\ reads_to_return = due
  BY DEF Init
<1>3. \A b \in Banks : bank[b].state = "IDLE"  BY DEF Init, Rest
<1>4. mode = NotSet /\ in = NOP /\ overlap = FALSE  BY DEF Init
<1> QED BY <1>1, <1>2, <1>3, <1>4
        DEF DataInv, DataTypes, Fetches, OneReads, Reading, Opened, NOP

LEMMA DataClock ==
  ASSUME IInv, DataInv, NEW c \in Commands \cup {NOP}, Clock(c)
  PROVE  DataInv'
<1>1. UNCHANGED <<bank, memory, reads_to_return, due, overlap>> /\ ~failed /\ high'
      /\ in' = c /\ pending' = {b \in Banks : bank[b].state # "stopped"}
  BY DEF Clock
<1>2. mode' # mode => mode = NotSet
  BY DEF Clock, InitMonitor, InitOver, Expected, IInv, InitInv, Types
<1>3. mode' # NotSet => mode'.latency \in Nat \ {0}
  <2>1. mode' = mode \/ (ini.k = 5 /\ mode' = ModeOf(ini.a))  BY DEF Clock, InitMonitor
  <2>2. ini.k = 5 => ini.a \in ModeWords  BY <1>1 DEF IInv, InitInv
  <2> QED BY <2>1, <2>2, Latencies DEF DataInv, DataTypes
<1>4. DataTypes'  BY <1>1, <1>3, ActivatesRow DEF DataInv, DataTypes
<1>5. \A b \in Banks : Reading(b) => b \in pending' /\ mode' = mode
  BY <1>1, <1>2 DEF Reading, IInv, BankInv
<1>6. Fetches'  BY <1>1, <1>5 DEF DataInv, Fetches, Reading
<1>7. ~overlap => OneReads'
  <2> SUFFICES ASSUME OneReads PROVE OneReads'  BY <1>1 DEF DataInv
  <2>1. ASSUME NEW b \in Banks, Reading(b) PROVE BankOwes(b)'
    BY <1>1, <1>5, <2>1 DEF OneReads, BankOwes
  <2> QED BY <1>1, <2>1 DEF OneReads, Reading
<1> QED BY <1>1, <1>4, <1>6, <1>7 DEF DataInv

\* A turn of a bank that reads neither before nor after it.
QuietTurn(b) ==
  /\ UNCHANGED <<high, in, mode, reads_to_return, due, overlap>>
  /\ ~failed /\ pending \ {b} \subseteq pending'
  /\ memory' \in MemoryType
  /\ \A x \in Banks \ {b} : bank'[x] = bank[x] /\ memory'[x] = memory[x]
  /\ ~Reading(b) /\ bank'[b].state # "READ"
  /\ bank'[b].state \in Opened => bank'[b].row \in Rows

LEMMA QuietHolds ==
  ASSUME DataInv, NEW b \in Banks, QuietTurn(b) PROVE DataInv'
<1>1. DataTypes'  BY DEF DataInv, DataTypes, QuietTurn
<1>2. \A x \in Banks : Reading(x)' <=> Reading(x)  BY DEF QuietTurn, Reading
<1>3. \A x \in Banks : Reading(x) => x # b /\ bank'[x] = bank[x] /\ memory'[x] = memory[x]
                         /\ (x \notin pending' => x \notin pending)
  BY DEF QuietTurn
<1>4. Fetches'
  <2> SUFFICES ASSUME NEW x \in Banks, Reading(x)
               PROVE  bank'[x].left \in Nat \ {0}
                      /\ (high' /\ x \notin pending' => reads_to_return' # <<>>)
    BY <1>2 DEF Fetches
  <2> QED BY <1>3 DEF DataInv, Fetches, QuietTurn
<1>5. ~overlap => OneReads'
  <2> SUFFICES ASSUME OneReads PROVE OneReads'  BY DEF DataInv, QuietTurn
  <2>1. ASSUME NEW x \in Banks, Reading(x) PROVE BankOwes(x)'
    <3>1. bank'[x] = bank[x] /\ memory'[x] = memory[x] /\ BankOwes(x)
          /\ (x \notin pending' => x \notin pending)
      BY <1>3, <2>1 DEF OneReads
    <3> QED BY <3>1 DEF BankOwes, QuietTurn
  <2>2. \A x, y \in Banks : Reading(x)' /\ Reading(y)' => x = y  BY <1>2 DEF OneReads
  <2>3. (\A x \in Banks : ~Reading(x)') => reads_to_return' = due'
    BY <1>2 DEF OneReads, QuietTurn
  <2>4. \A x \in Banks : Reading(x)' => BankOwes(x)'  BY <1>2, <2>1
  <2> QED BY <2>2, <2>3, <2>4 DEF OneReads
<1> QED BY <1>1, <1>4, <1>5 DEF DataInv, QuietTurn

\* What a turn that ends keeps of the state r it found.
LEMMA EndsKeeps ==
  ASSUME IInv, NEW b \in Banks, NEW r \in BankType, Ends(b, r)
  PROVE  /\ bank'[b].state = r.state /\ bank'[b].row = r.row
         /\ bank'[b].column = r.column /\ bank'[b].left = r.left
         /\ pending' = pending \ {b} /\ UNCHANGED <<high, in, mode>>
         /\ \A x \in Banks \ {b} : bank'[x] = bank[x]
<1>1. bank'[b] = [r EXCEPT !.active = Up(r.active, LongestWait),
                           !.written = Up(r.written, tDAL)]
  BY EndsType
<1>2. bank'[b].state = r.state /\ bank'[b].row = r.row
      /\ bank'[b].column = r.column /\ bank'[b].left = r.left
  BY <1>1 DEF BankType
<1> QED BY <1>2, EndsType

LEMMA QuietEnds ==
  ASSUME IInv, DataInv, NEW b \in Banks, NEW r \in BankType, Ends(b, r),
         ~failed, ~Reading(b), r.state # "READ", r.state \in Opened => r.row \in Rows,
         memory' \in MemoryType, \A x \in Banks \ {b} : memory'[x] = memory[x],
         UNCHANGED <<reads_to_return, due, overlap>>
  PROVE  DataInv'
<1>1. QuietTurn(b)  BY EndsKeeps DEF QuietTurn
<1> QED BY <1>1, QuietHolds

LEMMA RestRow ==
  ASSUME NEW s, NEW row PROVE Rest(s, row).state = s /\ Rest(s, row).row = row
BY DEF Rest

LEMMA DataIdle ==
  ASSUME IInv, DataInv, NEW b \in Banks, Activate(b) \/ StopIdle(b) \/ StayIdle(b)
  PROVE  DataInv'
<1>1. bank[b] \in BankType /\ memory \in MemoryType  BY DEF IInv, Types, DataInv, DataTypes
<1>2. ~failed /\ ~Reading(b) /\ bank[b].state \notin Opened
  BY DEF Activate, StopIdle, StayIdle, Runs, Reading, Opened
<1>3. UNCHANGED <<memory, reads_to_return, due, overlap>>
  BY DEF Activate, StopIdle, StayIdle, NoData
<1>4. CASE Activate(b)
  <2> DEFINE q == Rest("ACTIVATING", in.a)
  <2> DEFINE r == [q EXCEPT !.active = 0]
  <2>1. r \in BankType /\ r.state = "ACTIVATING" /\ r.row = in.a
    <3>1. in.a \in Int  BY DEF IInv, Types
    <3>2. q \in BankType  BY <3>1, RestType DEF States
    <3>3. q.state = "ACTIVATING" /\ q.row = in.a  BY RestRow
    <3> HIDE DEF q
    <3> QED BY <3>2, <3>3 DEF BankType
  <2>2. Ends(b, r)  BY <1>4 DEF Activate
  <2>3. in.a \in Rows  BY <1>4 DEF Activate, To, DataInv, DataTypes
  <2> HIDE DEF r
  <2> QED BY <1>1, <1>2, <1>3, <2>1, <2>2, <2>3, QuietEnds DEF Opened
<1>5. CASE StopIdle(b)
  <2>1. Rest("stopped", None) \in BankType  BY RestType DEF States, None
  <2>2. Ends(b, Rest("stopped", None))  BY <1>5 DEF StopIdle
  <2>3. Rest("stopped", None).state = "stopped"  BY RestRow
  <2> QED BY <1>1, <1>2, <1>3, <2>1, <2>2, <2>3, QuietEnds DEF Opened
<1>6. CASE StayIdle(b)
  <2>1. Ends(b, bank[b])  BY <1>6 DEF StayIdle
  <2> QED BY <1>1, <1>2, <1>3, <2>1, QuietEnds DEF Reading
<1> QED BY <1>4, <1>5, <1>6

\* A bank that has waited long enough goes on with the same command.
LEMMA Resumed ==
  ASSUME NEW q \in BankType
  PROVE  LET r == [q EXCEPT !.state = "ROW_ACTIVATED"]
         IN  r \in BankType /\ r.state = "ROW_ACTIVATED" /\ r.row = q.row
BY DEF BankType, States

LEMMA DataActivating ==
  ASSUME IInv, DataInv, NEW b \in Banks, WaitOn(b) \/ StopActivating(b) \/ RowActivated(b)
  PROVE  DataInv'
<1>1. bank[b] \in BankType /\ memory \in MemoryType  BY DEF IInv, Types, DataInv, DataTypes
<1>2. ~failed /\ ~Reading(b) /\ bank[b].state = "ACTIVATING"
  BY DEF WaitOn, StopActivating, RowActivated, Runs, Reading
<1>3. UNCHANGED <<memory, reads_to_return, due, overlap>>
  BY DEF WaitOn, StopActivating, RowActivated, NoData, Continues
<1>4. bank[b].row \in Rows  BY <1>2 DEF DataInv, DataTypes, Opened
<1>5. CASE WaitOn(b)
  <2>1. Ends(b, bank[b])  BY <1>5 DEF WaitOn
  <2> QED BY <1>1, <1>2, <1>3, <1>4, <2>1, QuietEnds DEF Reading
<1>6. CASE StopActivating(b)
  <2>1. Rest("stopped", None) \in BankType  BY RestType DEF States, None
  <2>2. Ends(b, Rest("stopped", None))  BY <1>6 DEF StopActivating
  <2>3. Rest("stopped", None).state = "stopped"  BY RestRow
  <2> QED BY <1>1, <1>2, <1>3, <2>1, <2>2, <2>3, QuietEnds DEF Opened
<1>7. CASE RowActivated(b)
  <2> DEFINE r == [bank[b] EXCEPT !.state = "ROW_ACTIVATED"]
  <2>1. r \in BankType /\ r.state = "ROW_ACTIVATED" /\ r.row \in Rows
    BY <1>1, <1>4, Resumed
  <2>2. CASE Ends(b, r)
    <3> HIDE DEF r
    <3> QED BY <1>1, <1>2, <1>3, <2>1, <2>2, QuietEnds
  <2>3. CASE Continues(b, r)
    <3> HIDE DEF r
    <3>1. bank' = [bank EXCEPT ![b] = r] /\ UNCHANGED <<high, in, mode, pending>>
      BY <2>3 DEF Continues
    <3>2. bank'[b] = r /\ \A x \in Banks \ {b} : bank'[x] = bank[x]
      BY <3>1 DEF IInv, Types
    <3>3. QuietTurn(b)  BY <1>1, <1>2, <1>3, <2>1, <3>1, <3>2 DEF QuietTurn
    <3> QED BY <3>3, QuietHolds
  <2> QED BY <1>7, <2>2, <2>3 DEF RowActivated
<1> QED BY <1>5, <1>6, <1>7

\* A word that a write puts into the memory of its bank.
LEMMA StoresType ==
  ASSUME memory \in MemoryType, NEW b \in Banks, NEW column \in Int, Stores(b, column),
         bank[b].row \in Rows
  PROVE  memory' \in MemoryType /\ \A x \in Banks \ {b} : memory'[x] = memory[x]
<1> DEFINE m == memory[b]
           row == bank[b].row
           s == m[row] \cup {column}
           f == [m EXCEPT ![row] = s]
<1>1. m \in [Rows -> SUBSET Int]  BY DEF MemoryType
<1>2. s \in SUBSET Int  BY <1>1
<1>3. f \in [Rows -> SUBSET Int]
  <2> HIDE DEF m, row, s
  <2> QED BY <1>1, <1>2
<1>4. memory' = [memory EXCEPT ![b] = f]  BY DEF Stores
<1> HIDE DEF m, row, s, f
<1> QED BY <1>3, <1>4 DEF MemoryType

LEMMA DataWrites ==
  ASSUME IInv, DataInv, NEW b \in Banks,
         \/ Write(b) \/ StayActivated(b) \/ WriteOn(b) \/ Precharged(b) \/ WaitForPrecharge(b)
  PROVE  DataInv'
<1>1. bank[b] \in BankType /\ memory \in MemoryType /\ in.a \in Int /\ bank[b].column \in Int
      /\ bank[b].left \in Int
  BY DEF IInv, Types, DataInv, DataTypes, BankType
<1>2. ~failed /\ ~Reading(b) /\ bank[b].state \in Opened
  BY DEF Write, StayActivated, WriteOn, Precharged, WaitForPrecharge, Runs, Reading, Opened
<1>3. UNCHANGED <<reads_to_return, due, overlap>>
  BY DEF Write, StayActivated, WriteOn, Precharged, WaitForPrecharge, NoData, Continues
<1>4. bank[b].row \in Rows  BY <1>2 DEF DataInv, DataTypes
<1>5. CASE Write(b)
  <2> DEFINE q == bank[b]
             l == mode.burst - 1
             au == To(b) = "WRITE_AP"
             r == [q EXCEPT !.state = "WRITE", !.column = in.a, !.left = l, !.auto = au]
  <2>1. Stores(b, in.a) /\ Ends(b, r) /\ mode # NotSet
    BY <1>2, <1>5 DEF Write, IInv, BankInv, Runs
  <2>2. memory' \in MemoryType /\ \A x \in Banks \ {b} : memory'[x] = memory[x]
    BY <1>1, <1>4, <2>1, StoresType
  <2>3. r \in BankType /\ r.state = "WRITE" /\ r.row = q.row
    <3>1. l \in Int /\ au \in BOOLEAN /\ q \in BankType  BY <1>1, <2>1 DEF IInv, InitInv
    <3> HIDE DEF q, l, au
    <3> QED BY <1>1, <3>1 DEF BankType, States
  <2> HIDE DEF r
  <2> QED BY <1>2, <1>3, <1>4, <2>1, <2>2, <2>3, QuietEnds DEF Opened
<1>6. CASE WriteOn(b)
  <2> DEFINE q == bank[b]
             w == IF bank[b].left = 1 THEN 0 ELSE None
             r == [q EXCEPT !.column = q.column + 1, !.left = q.left - 1, !.written = w]
  <2>1. Stores(b, bank[b].column + 1) /\ Ends(b, r) /\ q.state = "WRITE"
    BY <1>6 DEF WriteOn, Runs
  <2>2. memory' \in MemoryType /\ \A x \in Banks \ {b} : memory'[x] = memory[x]
    BY <1>1, <1>4, <2>1, StoresType
  <2>3. r \in BankType /\ r.state = q.state /\ r.row = q.row
    <3>1. w \in Int /\ q \in BankType /\ q.column + 1 \in Int /\ q.left - 1 \in Int
      BY <1>1 DEF None
    <3> HIDE DEF q, w
    <3> QED BY <3>1 DEF BankType
  <2> HIDE DEF r
  <2> QED BY <1>2, <1>3, <1>4, <2>1, <2>2, <2>3, QuietEnds
<1>7. CASE Precharged(b)
  <2>1. bank' = [bank EXCEPT ![b] = Rest("IDLE", None)]
        /\ UNCHANGED <<high, in, mode, pending, memory>>
    BY <1>7 DEF Precharged, Continues
  <2>2. bank'[b].state = "IDLE" /\ \A x \in Banks \ {b} : bank'[x] = bank[x]
    BY <2>1, RestRow DEF IInv, Types
  <2>3. QuietTurn(b)  BY <1>1, <1>2, <1>3, <2>1, <2>2 DEF QuietTurn, Opened
  <2> QED BY <2>3, QuietHolds
<1>8. CASE StayActivated(b) \/ WaitForPrecharge(b)
  <2>1. Ends(b, bank[b]) /\ memory' = memory
    BY <1>8 DEF StayActivated, WaitForPrecharge, NoData
  <2> QED BY <1>1, <1>2, <1>3, <1>4, <2>1, QuietEnds DEF Reading
<1> QED BY <1>5, <1>6, <1>7, <1>8

\* A word that a read fetches leaves the memory of its bank.
LEMMA FetchType ==
  ASSUME memory \in MemoryType, NEW b \in Banks, NEW row \in Rows, NEW column \in Int,
         memory' = [memory EXCEPT ![b][row] = @ \ {column}]
  PROVE  /\ memory' \in MemoryType /\ memory'[b][row] = memory[b][row] \ {column}
         /\ \A x \in Banks \ {b} : memory'[x] = memory[x]
<1> DEFINE m == memory[b]
           s == m[row] \ {column}
           f == [m EXCEPT ![row] = s]
<1>1. m \in [Rows -> SUBSET Int]  BY DEF MemoryType
<1>2. s \in SUBSET Int  BY <1>1
<1>3. f \in [Rows -> SUBSET Int] /\ f[row] = s
  <2> HIDE DEF m, s
  <2> QED BY <1>1, <1>2
<1>4. memory' = [memory EXCEPT ![b] = f]  OBVIOUS
<1>5. memory' \in MemoryType /\ memory'[b] = f
      /\ \A x \in Banks \ {b} : memory'[x] = memory[x]
  <2> HIDE DEF m, s, f
  <2> QED BY <1>3, <1>4 DEF MemoryType
<1> QED BY <1>3, <1>5

\* One word of a read, behind list: the monitor has it in the memory or fails.
LEMMA SchedulesKeeps ==
  ASSUME IInv, DataInv, NEW b \in Banks, NEW r \in BankType, NEW list \in Seq(Places),
         Schedules(b, r, list), r.state = "READ", r.row \in Rows,
         b \in Int
  PROVE  LET m == memory[b][r.row] IN
         /\ failed' \in BOOLEAN
         /\ ~failed' => /\ r.column \in m
                        /\ reads_to_return' = Append(list, Word(b, r.column))
                        /\ memory'[b][r.row] = m \ {r.column}
         /\ reads_to_return' \in Seq(Places) /\ memory' \in MemoryType
         /\ \A x \in Banks \ {b} : bank'[x] = bank[x] /\ memory'[x] = memory[x]
         /\ pending' = pending \ {b} /\ UNCHANGED <<high, in, mode>>
         /\ r.left = 1 => ~Reading(b)' /\ bank'[b].state = "IDLE"
         /\ r.left # 1 => /\ Reading(b)' /\ bank'[b].row = r.row
                          /\ bank'[b].column = r.column + 1 /\ bank'[b].left = r.left - 1
<1> DEFINE w == Word(b, r.column)
           s == IF r.left = 1 THEN Rest("IDLE", None)
                ELSE [r EXCEPT !.column = @ + 1, !.left = @ - 1]
<1>1. Ends(b, s) /\ failed' = (r.column \notin memory[b][r.row])  BY DEF Schedules
<1>2. r.column \in Int /\ w \in Places  BY PlaceTypes DEF BankType
<1>3. memory \in MemoryType /\ reads_to_return \in Seq(Places)  BY DEF DataInv, DataTypes
<1>4. reads_to_return' \in Seq(Places) /\ memory' \in MemoryType
      /\ (\A x \in Banks \ {b} : memory'[x] = memory[x])
      /\ (~failed' => /\ r.column \in memory[b][r.row]
                      /\ reads_to_return' = Append(list, w)
                      /\ memory'[b][r.row] = memory[b][r.row] \ {r.column})
  <2>1. CASE r.column \notin memory[b][r.row]  BY <2>1, <1>1, <1>3 DEF Schedules
  <2>2. CASE r.column \in memory[b][r.row]
    <3>1. reads_to_return' = Append(list, w)
          /\ memory' = [memory EXCEPT ![b][r.row] = @ \ {r.column}]
      BY <2>2 DEF Schedules
    <3>2. /\ memory' \in MemoryType /\ memory'[b][r.row] = memory[b][r.row] \ {r.column}
          /\ \A x \in Banks \ {b} : memory'[x] = memory[x]
      BY <3>1, <1>2, <1>3, FetchType
    <3>3. reads_to_return' \in Seq(Places)
      <4> HIDE DEF w
      <4> QED BY <3>1, <1>2
    <3> QED BY <2>2, <3>1, <3>2, <3>3
  <2> QED BY <2>1, <2>2
<1>5. CASE r.left = 1
  <2>1. s = Rest("IDLE", None) /\ s \in BankType /\ s.state = "IDLE"
    BY <1>5, RestType, RestRow DEF States, None
  <2> HIDE DEF s
  <2>2. bank'[b].state = "IDLE" /\ pending' = pending \ {b} /\ UNCHANGED <<high, in, mode>>
        /\ \A x \in Banks \ {b} : bank'[x] = bank[x]
    BY <1>1, <2>1, EndsKeeps
  <2> HIDE DEF w
  <2> QED BY <1>1, <1>4, <1>5, <2>2 DEF Reading, w
<1>6. CASE r.left # 1
  <2>1. s \in BankType /\ s.state = "READ" /\ s.row = r.row /\ s.column = r.column + 1
        /\ s.left = r.left - 1
    <3>1. s = [r EXCEPT !.column = r.column + 1, !.left = r.left - 1]  BY <1>6
    <3>2. r.column + 1 \in Int /\ r.left - 1 \in Int  BY DEF BankType
    <3> HIDE DEF s
    <3> QED BY <3>1, <3>2 DEF BankType
  <2> HIDE DEF s
  <2>2. bank'[b].state = "READ" /\ bank'[b].row = r.row /\ bank'[b].column = r.column + 1
        /\ bank'[b].left = r.left - 1
        /\ pending' = pending \ {b} /\ UNCHANGED <<high, in, mode>>
        /\ \A x \in Banks \ {b} : bank'[x] = bank[x]
    BY <1>1, <2>1, EndsKeeps
  <2> QED BY <1>1, <1>4, <1>6, <2>2 DEF Reading, w
<1> QED BY <1>5, <1>6

LEMMA PromisedType ==
  ASSUME NEW words \in Seq(Places), NEW n \in Nat, NEW b \in Int, NEW m,
         NEW column \in Int, NEW burst \in Nat
  PROVE  Promised(words, n, b, m, column, burst) \in Seq(Places)
<1> DEFINE p == Before(words, n)
           q == [i \in 1 .. burst |-> Fetched(b, m, column + i - 1)]
<1>1. p \in Seq(Places)  BY BeforeType
<1>2. q \in Seq(Places)
  <2>1. \A i \in 1 .. burst : Fetched(b, m, column + i - 1) \in Places  BY PlaceTypes
  <2> QED BY <2>1
<1>3. Promised(words, n, b, m, column, burst) = p \o q  BY DEF Promised, Before, Fetched
<1> HIDE DEF p, q
<1> QED BY <1>1, <1>2, <1>3

LEMMA DataRead == ASSUME IInv, DataInv, NEW b \in Banks, Read(b) PROVE DataInv'
<1> DEFINE n == mode.latency - 1
           q == bank[b]
           l == mode.burst
           au == To(b) = "READ_AP"
           r == [q EXCEPT !.state = "READ", !.column = in.a, !.left = l, !.auto = au]
           m == memory[b][q.row]
           list == Before(reads_to_return, n)
           w == Word(b, in.a)
<1>1. ~failed /\ high /\ b \in pending /\ q.state = "ROW_ACTIVATED" /\ ~Reading(b)
  BY DEF Read, Runs, Reading
<1>2. q \in BankType /\ in.a \in Int /\ mode # NotSet /\ l \in {2, 4, 8} /\ b \in Int
  BY <1>1, InputsAssumption DEF IInv, Types, InitInv, BankInv
<1>3. n \in Nat /\ q.row \in Rows /\ reads_to_return \in Seq(Places) /\ due \in Seq(Places)
      /\ mode.latency = n + 1 /\ mode.latency \in Int
  <2>1. mode.latency \in Nat \ {0}  BY <1>2 DEF DataInv, DataTypes
  <2>2. n \in Nat /\ mode.latency = n + 1 /\ mode.latency \in Int  BY <2>1
  <2> QED BY <1>1, <2>2 DEF DataInv, DataTypes, Opened
<1>4. r \in BankType /\ r.state = "READ" /\ r.row = q.row /\ r.column = in.a /\ r.left = l
  <2>1. l \in Int /\ au \in BOOLEAN  BY <1>2
  <2> HIDE DEF q, l, au
  <2> QED BY <1>2, <2>1 DEF BankType, States
<1>5. Schedules(b, r, list) /\ overlap' = (overlap \/ Len(due) > n)
  BY DEF Read
<1>6. due' = Promised(due, n, b, m, in.a, l)
  <2>1. r.row = q.row  BY <1>4
  <2> QED BY <2>1 DEF Read, Promised
<1>7. list \in Seq(Places) /\ Len(list) = n  BY <1>3, BeforeType
<1> HIDE DEF n, r, list
<1>8. /\ failed' \in BOOLEAN
      /\ ~failed' => /\ in.a \in m /\ reads_to_return' = Append(list, w)
                     /\ memory'[b][q.row] = m \ {in.a}
      /\ reads_to_return' \in Seq(Places) /\ memory' \in MemoryType
      /\ \A x \in Banks \ {b} : bank'[x] = bank[x] /\ memory'[x] = memory[x]
      /\ pending' = pending \ {b} /\ UNCHANGED <<high, in, mode>>
      /\ Reading(b)' /\ bank'[b].row = q.row
      /\ bank'[b].column = in.a + 1 /\ bank'[b].left = l - 1
  BY <1>2, <1>3, <1>4, <1>5, <1>7, SchedulesKeeps
<1>9. due' \in Seq(Places)  BY <1>2, <1>3, <1>6, PromisedType
<1>10. DataTypes'
  <2>1. \A x \in Banks : bank'[x].state \in Opened => bank'[x].row \in Rows
    BY <1>3, <1>8 DEF DataInv, DataTypes
  <2>2. overlap' \in BOOLEAN  BY <1>5 DEF DataInv, DataTypes
  <2> QED BY <1>8, <1>9, <2>1, <2>2 DEF DataInv, DataTypes
<1> SUFFICES ASSUME ~failed' PROVE Fetches' /\ (~overlap' => OneReads')
  BY <1>10 DEF DataInv
<1>11. w \in Places /\ in.a \in m /\ reads_to_return' = Append(list, w)
       /\ memory'[b][q.row] = m \ {in.a} /\ l - 1 \in Nat \ {0}
  BY <1>2, <1>8, PlaceTypes
<1>12. reads_to_return' # <<>> /\ Len(reads_to_return') = n + 1
  <2> HIDE DEF w
  <2> QED BY <1>7, <1>11
<1>13. \A x \in Banks \ {b} : Reading(x)' => Reading(x) /\ bank'[x].left = bank[x].left
  BY <1>8 DEF Reading
<1>14. Fetches'
  BY <1>1, <1>8, <1>11, <1>12, <1>13 DEF Fetches, DataInv
<1>15. ASSUME ~overlap' PROVE OneReads'
  <2>1. ~overlap /\ ~(Len(due) > n)  BY <1>5, <1>15 DEF DataInv, DataTypes
  <2>2. OneReads /\ Fetches  BY <1>1, <2>1 DEF DataInv
  <2>3. \A x \in Banks : ~Reading(x)
    <3> SUFFICES ASSUME NEW x \in Banks, Reading(x) PROVE FALSE  OBVIOUS
    <3>1. BankOwes(x) /\ bank[x].left \in Nat \ {0}  BY <2>2 DEF OneReads, Fetches
    <3>2. Len(due) = Len(reads_to_return) + bank[x].left /\ Len(reads_to_return) >= n
      BY <3>1 DEF BankOwes, Owes, n
    <3> QED BY <1>3, <2>1, <3>1, <3>2
  <2>4. due = reads_to_return  BY <2>2, <2>3 DEF OneReads
  <2>5. Owes(reads_to_return', due', b, m \ {in.a}, in.a + 1, l - 1)
    <3>1. l \in Nat /\ l > 1  BY <1>2
    <3> HIDE DEF m, l
    <3> QED BY <1>2, <1>3, <1>6, <1>11, <2>4, <3>1, FirstWord DEF list, w
  <2>6. BankOwes(b)'
    <3>1. mode'.latency = n + 1 /\ Len(reads_to_return') = n + 1
      BY <1>3, <1>8, <1>12
    <3>2. /\ memory'[b][bank'[b].row] = m \ {in.a}
          /\ bank'[b].column = in.a + 1 /\ bank'[b].left = l - 1
      BY <1>8, <1>11
    <3>3. Owes(reads_to_return', due', b, memory'[b][bank'[b].row], bank'[b].column,
               bank'[b].left)
      BY <2>5, <3>2
    <3> QED BY <1>3, <3>1, <3>3 DEF BankOwes
  <2>7. \A x \in Banks : Reading(x)' => x = b  BY <1>13, <2>3
  <2> QED BY <1>8, <2>6, <2>7 DEF OneReads
<1> QED BY <1>14, <1>15

LEMMA DataReadOn ==
  ASSUME IInv, DataInv, NEW b \in Banks, ReadOn(b) \/ ReadLast(b) PROVE DataInv'
<1> DEFINE r == bank[b]
           m == memory[b][r.row]
           w == Word(b, r.column)
           l == r.left
<1>1. ~failed /\ high /\ b \in pending /\ Reading(b) /\ r.state = "READ"
      /\ UNCHANGED <<due, overlap>>
  BY DEF ReadOn, ReadLast, Runs, Reading
<1>2. r \in BankType /\ b \in Int /\ r.row \in Rows /\ l \in Nat \ {0} /\ mode # NotSet
      /\ reads_to_return \in Seq(Places) /\ due \in Seq(Places) /\ r.column \in Int
      /\ memory \in MemoryType
  <2>1. r \in BankType /\ b \in Int /\ r.column \in Int /\ mode # NotSet
    BY <1>1, InputsAssumption DEF IInv, Types, BankType, BankInv
  <2>2. r.row \in Rows  BY <1>1 DEF DataInv, DataTypes, Opened
  <2>3. l \in Nat \ {0}  BY <1>1 DEF DataInv, Fetches
  <2> QED BY <2>1, <2>2, <2>3 DEF DataInv, DataTypes
<1>3. CASE failed' = TRUE /\ Ends(b, r) /\ UNCHANGED <<memory, reads_to_return>>
  <2>1. /\ bank'[b].state = r.state /\ bank'[b].row = r.row /\ UNCHANGED <<in, mode>>
        /\ \A x \in Banks \ {b} : bank'[x] = bank[x]
    BY <1>2, <1>3, EndsKeeps
  <2>2. \A x \in Banks : bank'[x].state \in Opened => bank'[x].row \in Rows
    BY <1>2, <2>1 DEF DataInv, DataTypes
  <2>3. DataTypes'  BY <1>1, <1>3, <2>1, <2>2 DEF DataInv, DataTypes
  <2> QED BY <1>3, <2>3 DEF DataInv
<1>4. CASE Schedules(b, r, reads_to_return)
  <2>1. /\ failed' \in BOOLEAN
        /\ ~failed' => /\ r.column \in m /\ reads_to_return' = Append(reads_to_return, w)
                       /\ memory'[b][r.row] = m \ {r.column}
        /\ reads_to_return' \in Seq(Places) /\ memory' \in MemoryType
        /\ \A x \in Banks \ {b} : bank'[x] = bank[x] /\ memory'[x] = memory[x]
        /\ pending' = pending \ {b} /\ UNCHANGED <<high, in, mode>>
        /\ l = 1 => ~Reading(b)' /\ bank'[b].state = "IDLE"
        /\ l # 1 => /\ Reading(b)' /\ bank'[b].row = r.row
                    /\ bank'[b].column = r.column + 1 /\ bank'[b].left = l - 1
    <3> HIDE DEF r
    <3> QED BY ZenonT(30), <1>1, <1>2, <1>4, SchedulesKeeps
  <2>2. DataTypes'
    <3>1. \A x \in Banks : bank'[x].state \in Opened => bank'[x].row \in Rows
      BY <1>2, <2>1 DEF DataInv, DataTypes, Opened
    <3> QED BY <1>1, <2>1, <3>1 DEF DataInv, DataTypes
  <2> SUFFICES ASSUME ~failed' PROVE Fetches' /\ (~overlap' => OneReads')
    BY <2>2 DEF DataInv
  <2>3. w \in Places /\ r.column \in m /\ reads_to_return' = Append(reads_to_return, w)
        /\ memory'[b][r.row] = m \ {r.column}
    BY <1>2, <2>1, PlaceTypes
  <2>4. reads_to_return' # <<>> /\ Len(reads_to_return') = Len(reads_to_return) + 1
    <3> HIDE DEF w
    <3> QED BY <1>2, <2>3
  <2>5. \A x \in Banks \ {b} : Reading(x)' => Reading(x) /\ bank'[x].left = bank[x].left
    BY <2>1 DEF Reading
  <2>6. Reading(b)' => l # 1 /\ bank'[b].left \in Nat \ {0}  BY <1>2, <2>1
  <2>7. Fetches'  BY <1>1, <2>4, <2>5, <2>6 DEF Fetches, DataInv
  <2>8. ASSUME ~overlap' PROVE OneReads'
    <3>1. OneReads  BY <1>1, <2>8 DEF DataInv
    <3>2. BankOwes(b) /\ \A x \in Banks : Reading(x) => x = b  BY <1>1, <3>1 DEF OneReads
    <3>3. \A x \in Banks : Reading(x)' => x = b  BY <2>5, <3>2
    <3>4. CASE l = 1
      <4>1. \A x \in Banks : ~Reading(x)'  BY <2>1, <3>3, <3>4
      <4>2. Owes(reads_to_return, due, b, m, r.column, 1)  BY <3>2, <3>4 DEF BankOwes
      <4>3. reads_to_return' = due'
        <5> HIDE DEF m, r
        <5> QED BY <1>1, <1>2, <2>3, <4>2, LastWord DEF w
      <4> QED BY <4>1, <4>3 DEF OneReads
    <3>5. CASE l # 1
      <4>1. Owes(reads_to_return', due', b, m \ {r.column}, r.column + 1, l - 1)
        <5>1. Owes(reads_to_return, due, b, m, r.column, l)  BY <3>2 DEF BankOwes
        <5>2. l \in Nat /\ l > 1  BY <1>2, <3>5
        <5> HIDE DEF m, r, l
        <5> QED BY <1>1, <1>2, <2>3, <5>1, <5>2, NextWord DEF w
      <4>2. Owes(reads_to_return', due', b, memory'[b][bank'[b].row], bank'[b].column,
                 bank'[b].left)
        BY <2>1, <2>3, <3>5, <4>1
      <4>3. Len(reads_to_return') >= mode'.latency
        <5>1. mode.latency \in Nat \ {0}  BY <1>2 DEF DataInv, DataTypes
        <5>2. Len(reads_to_return) >= mode.latency - 1 /\ Len(reads_to_return) \in Nat
          BY <1>2, <3>2 DEF BankOwes
        <5>3. mode'.latency = mode.latency  BY <2>1
        <5> QED BY <2>4, <5>1, <5>2, <5>3
      <4>4. BankOwes(b)'
        <5>1. mode'.latency \in Nat \ {0}  BY <1>2, <2>1 DEF DataInv, DataTypes
        <5>2. Len(reads_to_return') \in Nat  BY <2>1
        <5> QED BY <4>2, <4>3, <5>1, <5>2 DEF BankOwes
      <4> QED BY <2>1, <3>3, <3>5, <4>4 DEF OneReads
    <3> QED BY <3>4, <3>5
  <2> QED BY <2>7, <2>8
<1> QED BY <1>3, <1>4 DEF ReadOn, ReadLast

LEMMA DataFall == ASSUME IInv, DataInv, Fall PROVE DataInv'
<1>1. high /\ ~failed /\ pending = {} /\ high' = FALSE /\ in' = NOP
      /\ UNCHANGED <<pending, failed, mode, bank, memory>>
  BY DEF Fall
<1>2. reads_to_return \in Seq(Places) /\ due \in Seq(Places) /\ overlap \in BOOLEAN
      /\ Fetches
  BY <1>1 DEF DataInv, DataTypes
<1>3. reads_to_return' = IF reads_to_return = <<>> THEN <<>> ELSE Tail(reads_to_return)
  BY DEF Fall
<1>4. due' = IF due = <<>> THEN <<>> ELSE Tail(due)  BY DEF Fall
<1>5. overlap' = (overlap /\ reads_to_return \o due # <<>>)  BY DEF Fall
<1>6. DataTypes'
  <2>1. reads_to_return' \in Seq(Places)  BY <1>2, <1>3
  <2>2. due' \in Seq(Places)  BY <1>2, <1>4
  <2> QED BY <1>1, <1>2, <1>5, <2>1, <2>2 DEF DataInv, DataTypes, NOP
<1>7. \A x \in Banks : Reading(x)' <=> Reading(x)  BY <1>1 DEF Reading
<1>8. Fetches'  BY <1>1, <1>2, <1>7 DEF Fetches
<1>9. \A x \in Banks : Reading(x) => reads_to_return # <<>>  BY <1>1, <1>2 DEF Fetches
<1>10. ASSUME overlap, ~overlap' PROVE OneReads'
  <2>1. reads_to_return \o due = <<>>  BY <1>5, <1>10
  <2>2. reads_to_return = <<>> /\ due = <<>>  BY <1>2, <2>1
  <2> QED BY <1>3, <1>4, <1>7, <1>9, <2>2 DEF OneReads
<1>11. ASSUME ~overlap PROVE OneReads'
  <2>1. OneReads  BY <1>1, <1>11 DEF DataInv
  <2>2. ASSUME NEW x \in Banks, Reading(x) PROVE BankOwes(x)'
    <3> DEFINE m == memory[x][bank[x].row]
               n == Len(reads_to_return)
    <3>1. BankOwes(x) /\ reads_to_return # <<>> /\ bank[x] \in BankType
          /\ bank[x].left \in Nat /\ mode.latency \in Nat \ {0}
      BY <1>2, <1>9, <2>1, <2>2 DEF OneReads, Fetches, IInv, Types, BankInv, Reading,
        DataInv, DataTypes
    <3>2. bank[x].column \in Int  BY <3>1 DEF BankType
    <3>3. Owes(reads_to_return, due, x, m, bank[x].column, bank[x].left)
          /\ n >= mode.latency
      BY <1>1, <3>1 DEF BankOwes
    <3> HIDE DEF m
    <3>4. Owes(Tail(reads_to_return), Tail(due), x, m, bank[x].column, bank[x].left)
          /\ due # <<>> /\ Len(Tail(reads_to_return)) = n - 1
      BY <1>2, <3>1, <3>2, <3>3, WordSent
    <3>5. reads_to_return' = Tail(reads_to_return) /\ due' = Tail(due)
      BY <1>3, <1>4, <3>1, <3>4
    <3>6. Len(reads_to_return') = n - 1 /\ n \in Nat  BY <1>2, <3>4, <3>5
    <3>7. Len(reads_to_return') >= mode.latency - 1
      <4> HIDE DEF n
      <4> QED BY <3>1, <3>3, <3>6
    <3> QED BY <1>1, <3>4, <3>5, <3>7 DEF BankOwes, m
  <2>3. (\A x \in Banks : ~Reading(x)) => reads_to_return' = due'
    BY <1>3, <1>4, <2>1 DEF OneReads
  <2>4. \A x, y \in Banks : Reading(x) /\ Reading(y) => x = y  BY <2>1 DEF OneReads
  <2> QED BY <1>7, <2>2, <2>3, <2>4 DEF OneReads
<1> QED BY <1>1, <1>2, <1>6, <1>8, <1>10, <1>11 DEF DataInv

LEMMA DataStep == ASSUME IInv, DataInv, [Next]_vars PROVE DataInv'
<1>1. CASE \E c \in Commands \cup {NOP} : Clock(c)  BY <1>1, DataClock
<1>2. ASSUME NEW b \in Banks, Bank(b) PROVE DataInv'
  BY <1>2, DataIdle, DataActivating, DataWrites, DataRead, DataReadOn DEF Bank
<1>3. CASE Fall  BY <1>3, DataFall
<1>4. CASE UNCHANGED vars
  BY <1>4 DEF DataInv, DataTypes, Fetches, OneReads, Reading, BankOwes, vars
<1> QED BY <1>1, <1>2, <1>3, <1>4 DEF Next

\* What is scheduled is what was due to the reads, as far as they have come.
LEMMA ScheduledAsDue == DataInv => ReadsAreReturned
<1> SUFFICES ASSUME DataInv, ~failed, ~overlap, pending = {}
             PROVE  /\ IsPrefix(reads_to_return, due)
                    /\ (\A b \in Banks : ~Reading(b)) => reads_to_return = due
  BY DEF ReadsAreReturned, Reading
<1>1. OneReads /\ Fetches /\ reads_to_return \in Seq(Places) /\ due \in Seq(Places)
  BY DEF DataInv, DataTypes
<1>2. CASE \A b \in Banks : ~Reading(b)
  <2>1. reads_to_return = due  BY <1>1, <1>2 DEF OneReads
  <2> QED BY <1>1, <1>2, <2>1 DEF IsPrefix
<1>3. ASSUME NEW b \in Banks, Reading(b) PROVE IsPrefix(reads_to_return, due)
  <2>1. /\ Len(due) = Len(reads_to_return) + bank[b].left /\ bank[b].left \in Nat
        /\ \A i \in 1 .. Len(reads_to_return) : due[i] = reads_to_return[i]
    BY <1>1, <1>3 DEF OneReads, BankOwes, Owes, Fetches
  <2> DEFINE n == Len(reads_to_return)
             s == SubSeq(reads_to_return, 1, n)
             t == SubSeq(due, 1, n)
  <2>2. n \in Nat /\ n <= Len(due)  BY <1>1, <2>1
  <2>3. s \in Seq(Places) /\ Len(s) = n /\ \A i \in 1 .. n : s[i] = reads_to_return[i]
    BY <1>1, <2>2
  <2>4. t \in Seq(Places) /\ Len(t) = n /\ \A i \in 1 .. n : t[i] = due[i]
    BY <1>1, <2>2
  <2>5. s = t
    <3> HIDE DEF s, t, n
    <3>1. \A i \in 1 .. n : s[i] = t[i]  BY <2>1, <2>3, <2>4 DEF n
    <3> QED BY <2>3, <2>4, <3>1
  <2> QED BY <2>2, <2>5 DEF IsPrefix
<1> QED BY <1>2, <1>3 DEF IsPrefix

\* The data bus carries the words a read asked for, the first of them the latency
\* after the command, whatever it was to carry before (bank_monitor and
\* propagate_i_dq_reads, test1_simulation.py:569-587, 845-935).
THEOREM BusCarriesReads == Spec => []ReadsAreReturned
<1>1. Init => DataInv  BY DataInit
<1>2. IInv /\ DataInv /\ [Next]_vars => DataInv'  BY DataStep
<1>3. DataInv => ReadsAreReturned  BY ScheduledAsDue
<1> QED BY <1>1, <1>2, <1>3, InvariantHolds, PTL DEF Spec
=============================================================================
