----------------------------- MODULE SdramModel -----------------------------
(***************************************************************************)
(* The simulation model of the SDRAM chip IS42S16160G (test1_simulation.py *)
(* of test_sdram_n_fifo_interface_IS42S16160G) that a controller is tested *)
(* with: Python processes that the simulator runs on the edges of the      *)
(* chip's clock.  ram_initialisation_monitor and one bank_monitor per bank *)
(* run on the rising edge, propagate_i_dq_reads on the falling edge.  The  *)
(* simulator runs the processes of an edge in any order; the bank monitors *)
(* share the list of the reads to return.                                  *)
(*                                                                         *)
(* The controller is the environment and gives any command at each clock.  *)
(* Times are numbers of clocks, what num_clk_cycles makes of dram_ic_timing.*)
(***************************************************************************)
EXTENDS Integers, SequencesExt

CONSTANTS
  Banks, Rows,
  Starts,                     \* columns that bursts start at
  ModeWords,                  \* what the mode register is set to
  tSTARTUP, tRP, tRC, tMRD,   \* dram_ic_timing
  tRCD, tRAS, tDAL

ASSUME TimesAssumption ==
  \A t \in {tSTARTUP, tRP, tRC, tMRD, tRCD, tRAS, tDAL} : t \in Nat \ {0}
ASSUME ModesAssumption == \* bursts of 2, 4, 8 words, latency 2 or 3
  ModeWords \subseteq {16 * l + k : l \in {2, 3}, k \in {1, 2, 3}}
ASSUME InputsAssumption ==
  Banks \subseteq Nat /\ Rows \subseteq Nat /\ Starts \subseteq Nat

VARIABLES
  high,             \* level of the chip's clock
  in,               \* command, bank, address and data on the chip's pins
  pending,          \* bank monitors still to run at this edge
  failed,           \* an exception has ended the simulation
  ini, mode,        \* state of ram_initialisation_monitor, self.mode
  bank,             \* the other variables of each bank_monitor
  memory,           \* bank_memory of each bank_monitor: the columns of each row
                    \* that hold a word, which is known by its place
  reads_to_return,
  due, overlap,     \* history: what reads ask for, see ReadsAreReturned
  since             \* history: clocks since a bank's row was activated, and
                    \* since its last word was written

vars == <<high, in, pending, failed, ini, mode, bank, memory,
          reads_to_return, due, overlap, since>>

None    == -1
Word(b, column) == [bank_src |-> b, data |-> column]
Blank   == Word(None, None)
NOP     == [cmd |-> "NOP", ba |-> None, a |-> None]
NotSet  == [burst |-> None, latency |-> None]

\* n clocks and one more; nothing asks for more than cap.
Up(n, cap) == IF n \in {None, cap} THEN n ELSE n + 1

\* What a controller can put on the pins.
Reads  == {"READ", "READ_AP"}
Writes == {"WRITE", "WRITE_AP"}
On(cs, bs, as) == [cmd : cs, ba : bs, a : as]
Commands ==
  On({"ACT"}, Banks, Rows) \cup On(Reads \cup Writes, Banks, Starts)
    \cup On({"BST", "PRE", "PALL", "REF", "SELF"}, Banks, {0})
    \cup On({"MRS"}, Banks, ModeWords)

\* The mode register: the burst length is 2^(a & 7), the latency (a >> 4) & 7.
BurstLength == <<2, 4, 8>>
ModeOf(a) == [burst |-> BurstLength[a % 8], latency |-> (a \div 16) % 8]

\* A bank that is not in a burst: what its monitor keeps.  (The variables of the
\* last burst are set again before they are read.)
Rest(state, row) ==
  [state |-> state, row |-> row, column |-> None, left |-> None,
   auto |-> FALSE, active |-> None, written |-> None]

Init ==
  /\ high = FALSE /\ in = NOP /\ pending = {} /\ failed = FALSE
  /\ ini = [k |-> 1, clks |-> 0, a |-> None] /\ mode = NotSet
  /\ bank = [b \in Banks |-> Rest("IDLE", None)]
  /\ memory = [b \in Banks |-> [r \in Rows |-> {}]]
  /\ reads_to_return = <<>> /\ due = <<>> /\ overlap = FALSE
  /\ since = [b \in Banks |-> [act |-> None, word |-> None]]

-----------------------------------------------------------------------------
LongestWait == IF tRCD > tRAS THEN tRCD ELSE tRAS

\* assert_idle_cmd_for has waited clks clocks when a command comes.
LongEnough(clks, min_duration) == clks >= min_duration

\* ram_initialisation_monitor waits for the k-th of these to be over, and then
\* asserts the next.  After the last it sets the mode, and ends.
Expected == <<"NOP", "PALL", "REF", "REF", "MRS">>
Waits    == <<tSTARTUP, tRP, tRC, tRC, tMRD>>
InitOver == ini.k > Len(Expected)

\* Faulty variant of InOrder: the commands may come in any order.
InAnyOrder(c) == LongEnough(ini.clks, Waits[ini.k])
InOrder(c) ==
  /\ LongEnough(ini.clks, Waits[ini.k])
  /\ ini.k < Len(Expected) => c.cmd = Expected[ini.k + 1]

InitFails(c) == ~InitOver /\ c.cmd # "NOP" /\ (ini.clks = 0 \/ ~InOrder(c))
InitMonitor(c) ==
  IF InitOver THEN UNCHANGED <<ini, mode>>
  ELSE IF c.cmd = "NOP"
  THEN ini' = [ini EXCEPT !.clks = Up(@, Waits[ini.k])] /\ UNCHANGED mode
  ELSE /\ ini' = [k |-> ini.k + 1, clks |-> 1, a |-> IF ini.k = 4 THEN c.a ELSE None]
       /\ mode' = IF ini.k = 5 THEN ModeOf(ini.a) ELSE mode

\* The clock rises with a command on the pins.
Clock(c) ==
  /\ ~failed /\ ~high
  /\ high' = TRUE /\ in' = c
  /\ pending' = {b \in Banks : bank[b].state # "stopped"}
  /\ InitMonitor(c) /\ failed' = InitFails(c)
  /\ since' = [b \in Banks |-> [act  |-> Up(since[b].act, LongestWait),
                                word |-> Up(since[b].word, tDAL)]]
  /\ UNCHANGED <<bank, memory, reads_to_return, due, overlap>>

-----------------------------------------------------------------------------
\* bank_monitor: one turn of its loop at each rising edge.
To(b) == IF in.ba = b THEN in.cmd ELSE "NOP"   \* cmd, in the code
Runs(b, state) == ~failed /\ high /\ b \in pending /\ bank[b].state = state

\* The end of a turn; "continue" is a turn that does not end.
Ends(b, r) ==
  /\ bank' = [bank EXCEPT ![b] = [r EXCEPT !.active = Up(@, LongestWait), !.written = Up(@, tDAL)]]
  /\ pending' = pending \ {b}
  /\ UNCHANGED <<high, in, ini, mode>>
Continues(b, r) ==
  /\ bank' = [bank EXCEPT ![b] = r]
  /\ UNCHANGED <<high, in, pending, failed, ini, mode, memory,
                 reads_to_return, due, overlap, since>>
NoData == UNCHANGED <<failed, memory, reads_to_return, due, overlap, since>>

\* IDLE: a row is activated; the monitor waits for the next command to the bank.
Activate(b) ==
  /\ Runs(b, "IDLE") /\ To(b) = "ACT"
  /\ Ends(b, [Rest("ACTIVATING", in.a) EXCEPT !.active = 0])
  /\ since' = [since EXCEPT ![b] = [act |-> 0, word |-> None]]
  /\ UNCHANGED <<failed, memory, reads_to_return, due, overlap>>

\* IDLE: a command that needs a row: flagA, and the monitor returns.
StopIdle(b) ==
  /\ Runs(b, "IDLE") /\ To(b) \in Reads \cup Writes \cup {"BST"}
  /\ Ends(b, Rest("stopped", None))
  /\ NoData

StayIdle(b) ==
  /\ Runs(b, "IDLE") /\ To(b) \in {"NOP", "PRE", "PALL", "REF", "SELF", "MRS"}
  /\ Ends(b, bank[b])
  /\ NoData

\* Faulty variant of Activated: off by one.
ActivatedEarly(b) == LongEnough(bank[b].active, tRCD - 1)
Activated(b) == LongEnough(bank[b].active, tRCD)

\* assert_idle_cmd_for in bank_monitor.
WaitOn(b) ==
  /\ Runs(b, "ACTIVATING") /\ To(b) = "NOP"
  /\ Ends(b, bank[b])
  /\ NoData
StopActivating(b) ==
  /\ Runs(b, "ACTIVATING") /\ To(b) # "NOP" /\ ~Activated(b)
  /\ Ends(b, Rest("stopped", None))
  /\ NoData
RowActivated(b) ==
  /\ Runs(b, "ACTIVATING") /\ To(b) # "NOP" /\ Activated(b)
  /\ LET r == [bank[b] EXCEPT !.state = "ROW_ACTIVATED"] IN
     IF To(b) = "ACT" THEN Ends(b, r) /\ NoData ELSE Continues(b, r)

\* A word of the data bus goes to the memory.
Stores(b, column) == memory' = [memory EXCEPT ![b][bank[b].row] = @ \cup {column}]

\* ROW_ACTIVATED: first word of a write.
Write(b) ==
  /\ Runs(b, "ROW_ACTIVATED") /\ To(b) \in Writes
  /\ Stores(b, in.a)
  /\ Ends(b, [bank[b] EXCEPT !.state = "WRITE", !.column = in.a,
                             !.left = mode.burst - 1, !.auto = To(b) = "WRITE_AP"])
  /\ since' = [since EXCEPT ![b].word = 0]
  /\ UNCHANGED <<failed, reads_to_return, due, overlap>>

\* The next word of a read is scheduled, behind list, and taken out of the
\* memory; an exception if it is not there.  (dqm has no say: the code tests ~ of
\* a Python int, which is never false.)
Schedules(b, r, list) ==
  /\ failed' = (r.column \notin memory[b][r.row])
  /\ IF r.column \in memory[b][r.row]
     THEN /\ reads_to_return' = Append(list, Word(b, r.column))
          /\ memory' = [memory EXCEPT ![b][r.row] = @ \ {r.column}]
     ELSE UNCHANGED <<memory, reads_to_return>>
  /\ Ends(b, IF r.left = 1 THEN Rest("IDLE", None)
             ELSE [r EXCEPT !.column = @ + 1, !.left = @ - 1])

\* The n words the bus will carry before those of a read.
\* Faulty variant of Before: shorter lists are not padded.
BeforeNotPadded(list, n) == SubSeq(list, 1, Min({n, Len(list)}))
Before(list, n) == [i \in 1 .. n |-> IF i <= Len(list) THEN list[i] ELSE Blank]

\* ROW_ACTIVATED: a read takes over the data bus, latency clocks from now.
Read(b) ==
  /\ Runs(b, "ROW_ACTIVATED") /\ To(b) \in Reads
  /\ LET n == mode.latency - 1
         r == [bank[b] EXCEPT !.state = "READ", !.column = in.a,
                              !.left = mode.burst, !.auto = To(b) = "READ_AP"]
         m == memory[b][r.row] IN
     /\ Schedules(b, r, Before(reads_to_return, n))
     /\ due' = [i \in 1 .. n |-> IF i <= Len(due) THEN due[i] ELSE Blank]
               \o [i \in 1 .. mode.burst |->
                     IF in.a + i - 1 \in m THEN Word(b, in.a + i - 1) ELSE Blank]
     /\ overlap' = (overlap \/ Len(due) > n)
  /\ UNCHANGED since

StayActivated(b) ==
  /\ Runs(b, "ROW_ACTIVATED") /\ To(b) \notin Reads \cup Writes
  /\ Ends(b, bank[b])
  /\ NoData

\* READ: whatever the command is.  With the last word the bank is idle; without
\* auto precharge "not implemented yet".
ReadOn(b) ==
  /\ Runs(b, "READ") /\ bank[b].left > 1
  /\ Schedules(b, bank[b], reads_to_return)
  /\ UNCHANGED <<due, overlap, since>>
ReadLast(b) ==
  /\ Runs(b, "READ") /\ bank[b].left = 1
  /\ IF bank[b].auto
     THEN Schedules(b, bank[b], reads_to_return)
     ELSE failed' = TRUE /\ Ends(b, bank[b]) /\ UNCHANGED <<memory, reads_to_return>>
  /\ UNCHANGED <<due, overlap, since>>

\* WRITE: the next words.
WriteOn(b) ==
  /\ Runs(b, "WRITE") /\ bank[b].left > 0 /\ To(b) = "NOP"
  /\ Stores(b, bank[b].column + 1)
  /\ Ends(b, [bank[b] EXCEPT !.column = @ + 1, !.left = @ - 1,
                             !.written = IF bank[b].left = 1 THEN 0 ELSE None])
  /\ since' = [since EXCEPT ![b].word = 0]
  /\ failed' = (bank[b].left = 1 /\ ~bank[b].auto)
  /\ UNCHANGED <<reads_to_return, due, overlap>>

\* Faulty variant of TimingPassed: only the time since activation counts.
TimingPassedOfRow(b) == bank[b].active >= tRAS
TimingPassed(b) == bank[b].active >= tRAS /\ bank[b].written >= tDAL

\* WRITE: nothing left to write; the bank precharges.
Precharged(b) ==
  /\ Runs(b, "WRITE") /\ bank[b].left = 0 /\ To(b) \in {"NOP", "ACT"} /\ TimingPassed(b)
  /\ Continues(b, Rest("IDLE", None))
WaitForPrecharge(b) ==
  /\ Runs(b, "WRITE")
  /\ IF bank[b].left = 0 THEN To(b) \notin {"NOP", "ACT"} \/ ~TimingPassed(b) ELSE To(b) # "NOP"
  /\ Ends(b, bank[b])
  /\ NoData

\* propagate_i_dq_reads, on the falling edge.
Fall ==
  /\ ~failed /\ high /\ pending = {}
  /\ high' = FALSE /\ in' = NOP
  /\ reads_to_return' = IF reads_to_return = <<>> THEN <<>> ELSE Tail(reads_to_return)
  /\ due' = IF due = <<>> THEN <<>> ELSE Tail(due)
  /\ overlap' = (overlap /\ reads_to_return \o due # <<>>)
  /\ UNCHANGED <<pending, failed, ini, mode, bank, memory, since>>

Bank(b) ==
  \/ Activate(b) \/ StopIdle(b) \/ StayIdle(b)
  \/ WaitOn(b) \/ StopActivating(b) \/ RowActivated(b)
  \/ Write(b) \/ Read(b) \/ StayActivated(b)
  \/ ReadOn(b) \/ ReadLast(b) \/ WriteOn(b) \/ Precharged(b) \/ WaitForPrecharge(b)

Next ==
  \/ Clock(NOP)
  \/ \E c \in Commands : Clock(c)
  \/ \E b \in Banks : Bank(b)
  \/ Fall

Spec == Init /\ [][Next]_vars

-----------------------------------------------------------------------------
States == {"IDLE", "ACTIVATING", "ROW_ACTIVATED", "READ", "WRITE", "stopped"}
Clks == Nat \cup {None}

TypeOK ==
  /\ high \in BOOLEAN /\ failed \in BOOLEAN /\ overlap \in BOOLEAN
  /\ pending \subseteq Banks
  /\ ini.k \in 1 .. 6
  /\ mode = NotSet \/ \E w \in ModeWords : mode = ModeOf(w)
  /\ \A b \in Banks :
       /\ bank[b].state \in States /\ bank[b].row \in Rows \cup {None}
       /\ {bank[b].column, bank[b].left, bank[b].active, bank[b].written} \subseteq Clks
       /\ \A r \in Rows : memory[b][r] \subseteq Nat
  /\ \A w \in Range(reads_to_return) : w.bank_src \in Banks \/ w = Blank

\* A read makes the words of its burst appear on the data bus, the first one
\* the latency after the command, whatever the bus is to carry before: so says
\* due.  What the bank monitors have scheduled together is as much of that as
\* they have read; unless a read has begun in the middle of another's burst,
\* which goes on scheduling its words (test1_simulation.py:876, 916).
ReadsAreReturned ==
  ~failed /\ ~overlap /\ pending = {} =>
    /\ IsPrefix(reads_to_return, due)
    /\ (\A b \in Banks : bank[b].state # "READ") => reads_to_return = due

\* No bank leaves IDLE, and no monitor returns, before the mode register has
\* been set: an access would fail for want of a burst length (line 860).
NothingBeforeInit == (\E b \in Banks : bank[b].state # "IDLE") => mode # NotSet

\* A row is activated again only tDAL after the last word of a write, and tRAS
\* after its activation (lines 967-974).
WriteRecovers ==
  [][\A b \in Banks :
       bank[b].state # "ACTIVATING" /\ bank[b]'.state = "ACTIVATING"
         /\ since[b].word # None
       => since[b].word >= tDAL /\ since[b].act >= tRAS]_vars

\* A row is read and written only tRCD after its activation (line 815).
RowIsActive ==
  [][\A b \in Banks :
       bank[b].state = "ROW_ACTIVATED" /\ bank[b]'.state \in {"READ", "WRITE"}
       => since[b].act >= tRCD]_vars
=============================================================================
