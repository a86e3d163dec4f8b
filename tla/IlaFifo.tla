------------------------------ MODULE IlaFifo ------------------------------
(***************************************************************************)
(* The logic analyser of the gateware and the test the MCU runs with it.   *)
(* IntegratedLogicAnalyzer_with_FIFO (tests2_feb2022/test3_fast_fifo_ila_  *)
(* gui.py) writes a sample per clock into a FIFO from its trigger on, and  *)
(* gives them out one by one as the serial interface counts words.  The    *)
(* MCU (mcu_firmware/source/main.py and fpga_io.py) writes the register    *)
(* that triggers it, polls the same register until the capture is complete *)
(* and clocks the words out.                                               *)
(*                                                                         *)
(* Both share a chip select: the registers are selected while csn is 0,    *)
(* the analyser while it is 1.  So each end of a register transfer selects *)
(* the analyser anew, which counts as its first word.                      *)
(*                                                                         *)
(* A step of the gateware is a clock, in which each register takes what    *)
(* the others held before it.  A step of the MCU is an edge on its lines,  *)
(* at least Gap clocks after the one before: bits of SPI take longer than  *)
(* the registers of the gateware.                                          *)
(***************************************************************************)
EXTENDS Integers, Sequences, AsyncFifo

CONSTANTS
  Depth,      \* samples of a capture, sample_depth (100 in the code)
  Size,       \* words of the FIFO, the next power of 2 (128)
  Numbers,    \* values of a sample number, the next power of 2 (128)
  TestSizes,  \* sizes of a test the GUI may ask for
  MaxTests,   \* bound: tests
  Gap         \* least number of clocks between two steps of the MCU

ASSUME AnalyserAssumption ==
  /\ Depth \in Nat \ {0} /\ Size \in Nat /\ Numbers \in Nat
  /\ Depth <= Size + 1 /\ Depth <= Numbers
  /\ TestSizes \subseteq Nat /\ MaxTests \in Nat /\ Gap \in Nat

VARIABLES
  ila,     \* registers of the analyser
  fifo,    \* the FIFO, by what its interface shows
  serial,  \* registers of SyncSerialILA
  lines,   \* what the gateware sees of the MCU in the next clock
  mcu,     \* the handler of test_fifo
  tests,   \* triggers so far
  age,     \* history: clocks since the latest of them
  gap      \* clocks since the last step of the MCU

ilaVars == <<ila, fifo, serial, lines, mcu, tests, age, gap>>

\* A sample is known by its trigger and by how many clocks came between.
Sample(n) == [of |-> tests, at |-> n]
NoSample == [of |-> 0, at |-> 0]
Beee == [of |-> 0, at |-> 1]   \* 0xBEEEBEEE
Dead == [of |-> 0, at |-> 2]   \* 0xDEADBEEF
Span == Depth + 4   \* longer than a capture

IlaInit ==
  /\ ila = [fsm |-> "IDLE", complete |-> FALSE, rEn |-> FALSE, wEn |-> FALSE,
            wData |-> NoSample, captured |-> NoSample]
  /\ fifo = EmptyFifo(NoSample)
  /\ serial = [selected |-> TRUE, current |-> 0, number |-> 0, past |-> 0, tx |-> NoSample]
  /\ lines = [csn |-> 1, trigger |-> FALSE, wordEnd |-> FALSE]
  /\ mcu = [pc |-> "idle", size |-> 0, answer |-> FALSE, words |-> <<>>]
  /\ tests = 0 /\ age = Span /\ gap = Gap

-----------------------------------------------------------------------------
(* The state machine of the analyser.                                      *)

Triggered == lines.trigger

\* Faulty variant of Room: without the delay of the level.
RoomAtOnce == WRdy(fifo, Size) /\ WLevel(fifo) <= Depth
Room == WRdy(fifo, Size) /\ WLevel(fifo) + 2 <= Depth

\* A word ended or the analyser was selected: the number went up by one.
\* Faulty variant of NextNumber: any new number counts.
AnyNumber == serial.number # serial.past
NextNumber == serial.past + 1 = serial.number

Idle ==
  /\ ila.fsm = "IDLE"
  /\ ila' = [ila EXCEPT
       !.rEn      = ila.rEn \/ fifo.rRdy,
       !.complete = ila.complete /\ ~Triggered,
       !.fsm      = IF Triggered /\ WRdy(fifo, Size) THEN "CAPTURE" ELSE "IDLE"]

Capture ==
  /\ ila.fsm = "CAPTURE"
  /\ \/ /\ Room
        /\ ila' = [ila EXCEPT !.wEn = TRUE, !.wData = Sample(age)]
     \/ /\ ~Room /\ fifo.rRdy
        /\ ila' = [ila EXCEPT !.wEn = FALSE, !.captured = fifo.rData,
                              !.complete = TRUE, !.fsm = "READABLE"]
     \/ /\ ~Room /\ ~fifo.rRdy
        /\ ila' = [ila EXCEPT !.captured = Beee, !.fsm = "IDLE"]

Readable ==
  /\ ila.fsm = "READABLE"
  /\ \/ /\ fifo.rRdy /\ NextNumber
        /\ ila' = [ila EXCEPT !.rEn = TRUE, !.captured = fifo.rData]
     \/ /\ fifo.rRdy /\ ~NextNumber
        /\ ila' = [ila EXCEPT !.rEn = FALSE]
     \/ /\ ~fifo.rRdy
        /\ ila' = [ila EXCEPT !.captured = Dead, !.fsm = "IDLE"]

\* SyncSerialILA: words are numbered from 1 while the analyser is selected; the
\* word to send is taken over when one ends, and all the time before the first.
SerialClock ==
  LET on == lines.csn = 1
  IN serial' = [selected |-> on,
                current  |-> CASE ~on              -> 0
                               [] on /\ ~serial.selected -> 1
                               [] OTHER -> (serial.current + Flag(lines.wordEnd)) % Numbers,
                number   |-> serial.current,
                past     |-> serial.number,
                tx       |-> IF ~on \/ lines.wordEnd THEN ila.captured ELSE serial.tx]

Clock ==
  /\ Idle \/ Capture \/ Readable
  /\ fifo' = AfterClock(fifo, Size, ila.wEn, ila.wData, ila.rEn)
  /\ SerialClock
  /\ lines' = [lines EXCEPT !.trigger = FALSE, !.wordEnd = FALSE]
  /\ age' = CASE Triggered -> 0 [] ~Triggered /\ age < Span -> age + 1 [] OTHER -> age
  /\ gap' = IF gap < Gap THEN gap + 1 ELSE gap
  /\ UNCHANGED <<mcu, tests>>

-----------------------------------------------------------------------------
(* The handler of test_fifo, one transfer after the other, and what else   *)
(* the MCU does with the registers when it is not in the handler.          *)

\* Each step is an edge the gateware sees.
Edge(csn, trigger, wordEnd) ==
  /\ gap = Gap /\ gap' = 0
  /\ lines' = [csn |-> csn, trigger |-> trigger, wordEnd |-> wordEnd]
  /\ UNCHANGED <<ila, fifo, serial, age>>

StartWrite ==
  /\ mcu.pc = "idle" /\ tests < MaxTests
  /\ \E n \in TestSizes :
       mcu' = [mcu EXCEPT !.pc = "write", !.size = n, !.words = <<>>]
  /\ Edge(0, FALSE, FALSE) /\ UNCHANGED tests

\* The last bit of the write; the register's strobe is the trigger.
Trigger ==
  /\ mcu.pc = "write"
  /\ mcu' = [mcu EXCEPT !.pc = "written"]
  /\ tests' = tests + 1
  /\ Edge(0, TRUE, FALSE)

EndWrite ==
  /\ mcu.pc = "written"
  /\ mcu' = [mcu EXCEPT !.pc = "poll"]
  /\ Edge(1, FALSE, FALSE) /\ UNCHANGED tests

StartPoll ==
  /\ mcu.pc = "poll"
  /\ mcu' = [mcu EXCEPT !.pc = "polling"]
  /\ Edge(0, FALSE, FALSE) /\ UNCHANGED tests

\* The address is in, the register is read.
Poll ==
  /\ mcu.pc = "polling"
  /\ mcu' = [mcu EXCEPT !.pc = "polled", !.answer = ila.complete]
  /\ Edge(0, FALSE, FALSE) /\ UNCHANGED tests

\* Faulty variant of Answered: the wrong way round.
AnsweredNot == ~mcu.answer
Answered == mcu.answer

EndPoll ==
  /\ mcu.pc = "polled"
  /\ mcu' = [mcu EXCEPT !.pc = IF Answered THEN "read" ELSE "poll"]
  /\ Edge(1, FALSE, FALSE) /\ UNCHANGED tests

\* read_fifo: a word of 32 bits.
ReadWord ==
  /\ mcu.pc = "read" /\ Len(mcu.words) < mcu.size
  /\ mcu' = [mcu EXCEPT !.words = Append(@, serial.tx)]
  /\ Edge(1, FALSE, TRUE) /\ UNCHANGED tests

\* The registers are left selected.
EndRead ==
  /\ mcu.pc = "read" /\ Len(mcu.words) = mcu.size
  /\ mcu' = [mcu EXCEPT !.pc = "idle"]
  /\ Edge(0, FALSE, FALSE) /\ UNCHANGED tests

\* A request to read or write another register.
StartRegister ==
  /\ mcu.pc = "idle" /\ mcu' = [mcu EXCEPT !.pc = "register"]
  /\ Edge(0, FALSE, FALSE) /\ UNCHANGED tests
EndRegister ==
  /\ mcu.pc = "register" /\ mcu' = [mcu EXCEPT !.pc = "idle"]
  /\ Edge(1, FALSE, FALSE) /\ UNCHANGED tests

Test ==
  \/ Trigger \/ EndWrite \/ StartPoll \/ Poll \/ EndPoll \/ ReadWord \/ EndRead
  \/ EndRegister

IlaNext == Clock \/ Test \/ StartWrite \/ StartRegister

IlaSpec == IlaInit /\ [][IlaNext]_ilaVars

\* The clock runs, and a handler that was started goes on.
IlaFairSpec == IlaSpec /\ WF_ilaVars(Clock) /\ WF_ilaVars(Test)

-----------------------------------------------------------------------------
Samples == [of : 0 .. MaxTests, at : 0 .. Span]

IlaTypeOK ==
  /\ ila \in [fsm : {"IDLE", "CAPTURE", "READABLE"}, complete : BOOLEAN, rEn : BOOLEAN,
              wEn : BOOLEAN, wData : Samples, captured : Samples]
  /\ fifo.store \in Seq(Samples) /\ fifo.rData \in Samples
  /\ Len(Inside(fifo)) <= Depth + 1   \* a capture writes one too many
  /\ Visible(fifo) >= 0
  /\ serial.current \in 0 .. Numbers - 1 /\ serial.tx \in Samples
  /\ mcu.words \in Seq(Samples) /\ Len(mcu.words) <= mcu.size
  /\ tests \in 0 .. MaxTests /\ age \in 0 .. Span /\ gap \in 0 .. Gap

\* The words of a test are the samples of its own capture, from the one of the
\* trigger on, none missing and none out of order; only the first comes twice,
\* when the capture was still on as the registers were let go (test3:254-265).
InOrder ==
  LET words == mcu.words IN
  \/ \A k \in 1 .. Len(words) : words[k] = Sample(k - 1)
  \/ \A k \in 1 .. Len(words) : words[k] = Sample(IF k = 1 THEN 0 ELSE k - 2)

\* The trigger determines when sampling starts: it is never ignored (test3:209).
TriggerStarts == [][Clock /\ Triggered => ila'.fsm = "CAPTURE"]_ilaVars

\* The handler, which polls without awaiting (main.py:86), and without a limit,
\* comes to its end.
TestEnds == mcu.pc = "written" ~> mcu.pc = "idle"
=============================================================================
