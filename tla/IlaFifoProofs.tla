--------------------------- MODULE IlaFifoProofs ---------------------------
(***************************************************************************)
(* The words a test reads from the analyser with a FIFO are the samples of *)
(* its own capture, in order and none missing: for every depth, size of    *)
(* the FIFO, number of tests and of clocks between two edges that is large *)
(* enough, when the test asks for as many words as a capture has.          *)
(***************************************************************************)
EXTENDS IlaFifo, SequenceTheorems, TLAPS

-----------------------------------------------------------------------------
(* What a clock makes of the FIFO                                          *)

Bit01 == {0, 1}

\* A register that shifts takes in one bit and gives out the oldest.
LEMMA ShiftIn ==
  ASSUME NEW n \in Nat, NEW p \in Seq(Bit01), NEW m \in Nat, m = n + 1, Len(p) = m, NEW v \in Bit01, NEW q,
         q = <<v>> \o SubSeq(p, 1, n)
  PROVE  /\ q \in Seq(Bit01) /\ Len(q) = m /\ q[1] = v
         /\ \A i \in 2 .. m : q[i] = p[i - 1]
<1> DEFINE s == SubSeq(p, 1, n)
<1>1. s \in Seq(Bit01) /\ Len(s) = n /\ \A i \in 1 .. n : s[i] = p[i]
  <2>1. \A i \in 1 .. n : p[i] \in Bit01
    BY ElementOfSeq
  <2>. QED
    BY <2>1, SubSeqProperties
<1> HIDE DEF s
<1>2. <<v>> \in Seq(Bit01) /\ Len(<<v>>) = 1 /\ <<v>>[1] = v
  OBVIOUS
<1>3. q = <<v>> \o s
  BY DEF s
<1>4. q \in Seq(Bit01) /\ Len(q) = n + 1
  BY <1>1, <1>2, <1>3, ConcatProperties
<1>5. q[1] = v
  BY <1>1, <1>2, <1>3, ConcatProperties
<1>6. \A i \in 2 .. n + 1 : q[i] = s[i - 1]
  BY <1>1, <1>2, <1>3, ConcatProperties
<1>. QED
  BY <1>1, <1>4, <1>5, <1>6

\* A FIFO of words of W, and what comes in and goes out in a clock.
FifoOf(W, f) ==
  /\ f.store \in Seq(W) /\ f.rRdy \in BOOLEAN /\ f.rData \in W
  /\ f.pushed \in [1 .. 2 -> Bit01]
  /\ f.popped \in Seq(Bit01) /\ Len(f.popped) = 4
  /\ f.held \in Seq(Bit01) /\ Len(f.held) = 4
Push(f, size, wEn) == wEn /\ WRdy(f, size)
Pop(f, rEn) == (rEn \/ ~f.rRdy) /\ Visible(f) > 0

LEMMA AfterClockIs ==
  ASSUME NEW W, NEW f, FifoOf(W, f), NEW size, NEW wEn \in BOOLEAN, NEW word \in W, NEW rEn \in BOOLEAN,
         NEW g, g = AfterClock(f, size, wEn, word, rEn),
         NEW in \in Bit01, in = 1 <=> Push(f, size, wEn), NEW out \in Bit01, out = 1 <=> Pop(f, rEn)
  PROVE  /\ FifoOf(W, g)
         /\ g.pushed[1] = in /\ g.pushed[2] = f.pushed[1]
         /\ g.popped[1] = out /\ \A i \in 2 .. 4 : g.popped[i] = f.popped[i - 1]
         /\ g.held[1] = Flag(f.rRdy /\ ~rEn) /\ \A i \in 2 .. 4 : g.held[i] = f.held[i - 1]
         /\ g.rRdy <=> ((f.rRdy /\ ~rEn) \/ out = 1)
         /\ out = 1 => g.rData = f.store[1]
         /\ out = 0 => g.rData = f.rData
         /\ Len(f.store) >= out /\ Len(g.store) = Len(f.store) - out + in
         /\ \A i \in 1 .. Len(f.store) - out : g.store[i] = f.store[i + out]
         /\ in = 1 => g.store[Len(f.store) - out + 1] = word
<1> DEFINE left == IF out = 1 THEN Tail(f.store) ELSE f.store
           push == Push(f, size, wEn)
           pop  == Pop(f, rEn)
           kept == Flag(f.rRdy /\ ~rEn)
           pops == <<out>> \o SubSeq(f.popped, 1, 3)
           holds == <<kept>> \o SubSeq(f.held, 1, 3)
<1>1. Flag(push) = in /\ Flag(pop) = out /\ kept \in Bit01
  BY DEF Flag, Bit01
<1>2. /\ g.store = (IF in = 1 THEN Append(left, word) ELSE left)
      /\ g.pushed = <<in, f.pushed[1]>> /\ g.popped = pops /\ g.held = holds
      /\ g.rRdy = (IF rEn \/ ~f.rRdy THEN pop ELSE TRUE)
      /\ g.rData = IF out = 1 THEN Head(f.store) ELSE f.rData
  BY <1>1 DEF AfterClock, Push, Pop
<1>3. f.store \in Seq(W) /\ Len(f.store) \in Nat /\ f.pushed[1] \in Bit01 /\ f.pushed[2] \in Bit01
  BY LenProperties DEF FifoOf
<1>4. out = 1 => f.store # <<>> /\ Len(f.store) > 0
  <2>1. out = 1 => Len(f.store) - f.pushed[1] - f.pushed[2] > 0
    BY DEF Visible, Pop
  <2>2. out = 1 => Len(f.store) > 0
    BY <1>3, <2>1 DEF Bit01
  <2>. QED
    BY <1>3, <2>2, EmptySeq
<1>5. /\ left \in Seq(W) /\ Len(left) = Len(f.store) - out /\ Len(f.store) >= out
      /\ \A i \in 1 .. Len(f.store) - out : left[i] = f.store[i + out]
  <2>1. CASE out = 1
    <3>2. left = Tail(f.store) /\ f.store # <<>> /\ Len(f.store) > 0
      BY <1>4, <2>1
    <3> HIDE DEF left
    <3>3. /\ left \in Seq(W) /\ Len(left) = Len(f.store) - 1
          /\ \A i \in 1 .. Len(left) : left[i] = f.store[i + 1]
      BY <1>3, <3>2, HeadTailProperties
    <3>. QED
      BY <1>3, <2>1, <3>2, <3>3
  <2>2. CASE out = 0
    BY <1>3, <2>2
  <2>. QED
    BY <2>1, <2>2 DEF Bit01
<1>6. out = 1 => Head(f.store) = f.store[1] /\ f.store[1] \in W
  BY <1>3, <1>4, HeadTailProperties
<1> HIDE DEF left, push, pop, kept
<1>7. /\ pops \in Seq(Bit01) /\ Len(pops) = 4 /\ pops[1] = out
      /\ \A i \in 2 .. 4 : pops[i] = f.popped[i - 1]
  BY ShiftIn, f.popped \in Seq(Bit01), Len(f.popped) = 4 DEF FifoOf
<1>8. /\ holds \in Seq(Bit01) /\ Len(holds) = 4 /\ holds[1] = kept
      /\ \A i \in 2 .. 4 : holds[i] = f.held[i - 1]
  BY <1>1, ShiftIn, f.held \in Seq(Bit01), Len(f.held) = 4 DEF FifoOf
<1> HIDE DEF pops, holds
<1>9. /\ g.store \in Seq(W) /\ Len(g.store) = Len(f.store) - out + in
      /\ \A i \in 1 .. Len(f.store) - out : g.store[i] = left[i]
      /\ in = 1 => g.store[Len(f.store) - out + 1] = word
  <2>1. CASE in = 1
    <3>2. g.store = Append(left, word)
      BY <1>2, <2>1
    <3>3. /\ g.store \in Seq(W) /\ Len(g.store) = Len(left) + 1
          /\ \A i \in 1 .. Len(left) : g.store[i] = left[i]
          /\ g.store[Len(left) + 1] = word
      BY <1>5, <3>2, AppendProperties
    <3>. QED
      BY <1>3, <1>5, <2>1, <3>3 DEF Bit01
  <2>2. CASE in = 0
    <3>2. g.store = left
      BY <1>2, <2>2
    <3>. QED
      BY <1>3, <1>5, <2>2, <3>2 DEF Bit01
  <2>. QED
    BY <2>1, <2>2 DEF Bit01
<1>10. g.pushed \in [1 .. 2 -> Bit01] /\ g.pushed[1] = in /\ g.pushed[2] = f.pushed[1]
  BY <1>2, <1>3
<1>11. g.rRdy \in BOOLEAN /\ (g.rRdy <=> ((f.rRdy /\ ~rEn) \/ out = 1))
  <2>1. pop \in BOOLEAN /\ (pop <=> out = 1) /\ (pop => rEn \/ ~f.rRdy)
    BY DEF pop, Pop
  <2>. QED
    BY <1>2, <2>1 DEF FifoOf
<1>12. /\ g.rData \in W
       /\ out = 1 => g.rData = f.store[1]
       /\ out = 0 => g.rData = f.rData
  BY <1>2, <1>6 DEF FifoOf
<1>13. FifoOf(W, g)
  BY <1>2, <1>7, <1>8, <1>9, <1>10, <1>11, <1>12 DEF FifoOf
<1>14. \A i \in 1 .. Len(f.store) - out : g.store[i] = f.store[i + out]
  BY <1>5, <1>9
<1>15. g.held[1] = Flag(f.rRdy /\ ~rEn)
  BY <1>2, <1>8 DEF kept
<1>16. /\ g.popped[1] = out /\ \A i \in 2 .. 4 : g.popped[i] = f.popped[i - 1]
       /\ \A i \in 2 .. 4 : g.held[i] = f.held[i - 1]
  BY <1>2, <1>7, <1>8
<1>. QED
  BY <1>5, <1>9, <1>10, <1>11, <1>12, <1>13, <1>14, <1>15, <1>16

-----------------------------------------------------------------------------
(* The inductive invariant                                                 *)

\* The FIFO takes a capture, which is longer than the way through it; the numbers of
\* the words do not wrap; a test reads a whole capture; and an edge comes when the
\* one before it has gone through (100, 128, 128 and 12 in the code).
Fits == 6 <= Depth /\ Depth <= Size /\ Depth + 2 <= Numbers
WholeTests == TestSizes \subseteq {Depth}
LongGap == 7 <= Gap

TestStages == {"idle", "register", "write", "written", "poll", "polling", "polled", "read"}
WordNumbers == 0 .. Numbers - 1
IlaTypes ==
  /\ ila \in [fsm : {"IDLE", "CAPTURE", "READABLE"}, complete : BOOLEAN, rEn : BOOLEAN,
              wEn : BOOLEAN, wData : Samples, captured : Samples]
  /\ FifoOf(Samples, fifo)
  /\ serial \in [selected : BOOLEAN, current : WordNumbers, number : WordNumbers,
                 past : WordNumbers, tx : Samples]
  /\ lines \in [csn : {0, 1}, trigger : BOOLEAN, wordEnd : BOOLEAN]
  /\ mcu \in [pc : TestStages, size : Nat, answer : BOOLEAN, words : Seq(Samples)]
  /\ tests \in 0 .. MaxTests /\ age \in 0 .. Span /\ gap \in 0 .. Gap
  /\ Len(mcu.words) <= mcu.size
  /\ mcu.pc \notin {"idle", "register"} => mcu.size = Depth
  /\ mcu.pc = "write" => tests < MaxTests

\* The FIFO stores the samples from p to before n.
Stored(p, n) ==
  /\ Len(fifo.store) = n - p
  /\ \A i \in 1 .. n - p : fifo.store[i] = Sample(p + i - 1)

\* Nothing is left of the test before, since z clocks.
Drained(z) ==
  /\ ila.fsm = (IF z = 1 THEN "READABLE" ELSE "IDLE") /\ ~ila.rEn /\ ~ila.wEn
  /\ ~fifo.rRdy /\ Len(fifo.store) = 0 /\ fifo.pushed[1] = 0 /\ fifo.pushed[2] = 0
  /\ \A i \in 1 .. z : fifo.popped[i] = 0 /\ fifo.held[i] = 0
Quiet == Drained(4)

\* A capture: a sample a clock, and what is known of them on both sides of the FIFO.
SamplesIn(a) == IF a = 0 THEN 0 ELSE a - 1
FillingAt(a) ==
  /\ a <= Depth + 1
  /\ ila.fsm = "CAPTURE" /\ ~ila.complete /\ ~ila.rEn
  /\ ila.wEn <=> (1 <= a)
  /\ 1 <= a => ila.wData = Sample(a - 1)
  /\ fifo.rRdy <=> (5 <= a)
  /\ 5 <= a => fifo.rData = Sample(0)
  /\ Stored(Flag(5 <= a), SamplesIn(a))
  /\ fifo.pushed[1] = Flag(2 <= a) /\ fifo.pushed[2] = Flag(3 <= a)
  /\ \A i \in 1 .. 4 : fifo.popped[i] = Flag(a = 4 + i) /\ fifo.held[i] = Flag(5 + i <= a)
Filling == FillingAt(age)

\* It is complete: q samples were given out, or the one before q is being taken.
Full ==
  /\ Depth + 2 <= age
  /\ ila.fsm = "READABLE" /\ ila.complete /\ ~ila.wEn /\ fifo.rRdy
  /\ Depth + 3 <= age => fifo.pushed[1] = 0
  /\ Depth + 4 <= age => fifo.pushed[2] = 0
Still(q) ==
  /\ Full /\ ~ila.rEn
  /\ fifo.rData = Sample(q) /\ Stored(q + 1, Depth + 1)
  /\ ila.captured = Sample(IF q = 0 THEN 0 ELSE q - 1)
Taking(q) ==
  /\ Full /\ ila.rEn
  /\ fifo.rData = Sample(q - 1) /\ Stored(q, Depth + 1)
  /\ ila.captured = Sample(q - 1)

\* The clocks after an edge that numbers a word, when q samples had been given out.
AfterEdge(q) ==
  /\ q <= Depth /\ gap <= 2 => Still(q)
  /\ q <= Depth /\ gap = 3  => Taking(q + 1)
  /\ q < Depth /\ 4 <= gap  => Still(q + 1)
  /\ q = Depth /\ 4 <= gap  => Drained(IF 7 <= gap THEN 4 ELSE gap - 3)
  /\ q = Depth + 1 => Quiet

\* While the MCU polls: the analyser is selected again and again, so the first
\* sample may be given out.
Asking ==
  \/ Filling \/ Still(0)
  \/ mcu.pc = "poll" /\ gap = 3 /\ Taking(1)
  \/ Still(1) /\ \/ mcu.pc = "polling"
                 \/ mcu.pc = "polled" /\ mcu.answer
                 \/ mcu.pc = "poll" /\ 4 <= gap
Answer ==
  mcu.pc = "polled" /\ mcu.answer =>
    /\ ila.fsm = "READABLE"
    /\ 1 <= gap => Depth + 3 <= age /\ serial.tx = Sample(0)
    /\ 2 <= gap => age = Span

\* The words so far, e of the samples having been given out before.
WordOf(j, e) == Sample(IF j = 1 THEN 0 ELSE j + e - 2)
WordsFrom(e) == \A j \in 1 .. Len(mcu.words) : mcu.words[j] = WordOf(j, e)
ReadSince(e) ==
  /\ age = Span /\ AfterEdge(Len(mcu.words) + e) /\ WordsFrom(e)
  /\ Len(mcu.words) < Depth /\ (Len(mcu.words) = 0 \/ 1 <= gap) =>
       serial.tx = WordOf(Len(mcu.words) + 1, e)

IlaStage ==
  /\ mcu.pc \in {"idle", "register", "write"} => Quiet
  /\ mcu.pc = "written" => IF gap = 0 THEN Quiet ELSE Filling \/ Still(0)
  /\ mcu.pc \in {"poll", "polling", "polled"} => Asking /\ Answer
  /\ mcu.pc \in {"write", "written", "poll", "polling", "polled"} => Len(mcu.words) = 0
  /\ mcu.pc = "read" => \E e \in {0, 1} : ReadSince(e)
  /\ mcu.pc \in {"idle", "register"} => \E e \in {0, 1} : WordsFrom(e)

Edges ==
  /\ lines.trigger <=> (mcu.pc = "written" /\ gap = 0)
  /\ lines.wordEnd <=> (mcu.pc = "read" /\ gap = 0 /\ 1 <= Len(mcu.words))
  /\ mcu.pc \in {"register", "write", "written", "polling", "polled"} => lines.csn = 0
  /\ mcu.pc \in {"poll", "read"} => lines.csn = 1

\* A number goes from one register to the next in a clock.
Numbered ==
  /\ gap = 0 => serial.current = serial.past
  /\ gap <= 1 => serial.number = serial.past
  /\ 2 <= gap => serial.number = serial.current
  /\ 3 <= gap => serial.past = serial.current
  /\ lines.csn = 0 => /\ 1 <= gap => serial.current = 0 /\ ~serial.selected
                      /\ 2 <= gap => serial.number = 0
                      /\ 3 <= gap => serial.past = 0
  /\ lines.csn = 1 /\ 1 <= gap => serial.selected
  /\ mcu.pc \in {"poll", "read"} =>
       /\ gap = 0 => (serial.selected <=> 1 <= Len(mcu.words))
       /\ serial.current = Len(mcu.words) + Flag(1 <= gap)
       /\ serial.number  = Len(mcu.words) + Flag(2 <= gap)
       /\ serial.past    = Len(mcu.words) + Flag(3 <= gap)

IlaInv == IlaTypes /\ Edges /\ Numbered /\ IlaStage

-----------------------------------------------------------------------------
\* A clock.
LEMMA SampleIs == ASSUME IlaTypes, NEW n \in 0 .. Span PROVE Sample(n) \in Samples
BY DEF IlaTypes, Sample, Samples

LEMMA ConstantsAre ==
  /\ Depth \in Nat /\ 0 < Depth /\ Size \in Nat /\ Numbers \in Nat /\ Gap \in Nat /\ MaxTests \in Nat
  /\ Span \in Nat /\ Span = Depth + 4
BY AnalyserAssumption DEF Span

LEMMA TimesAre ==
  ASSUME IlaTypes, Clock
  PROVE  /\ lines' \in [csn : {0, 1}, trigger : BOOLEAN, wordEnd : BOOLEAN]
         /\ lines'.csn = lines.csn /\ ~lines'.trigger /\ ~lines'.wordEnd
         /\ age' \in 0 .. Span /\ gap' \in 0 .. Gap
         /\ lines.trigger => age' = 0
         /\ ~lines.trigger /\ age < Span => age' = age + 1
         /\ ~lines.trigger /\ ~(age < Span) => age' = Span
         /\ gap < Gap => gap' = gap + 1
         /\ ~(gap < Gap) => gap' = Gap
         /\ mcu' = mcu /\ tests' = tests
<1>1. lines' = [lines EXCEPT !.trigger = FALSE, !.wordEnd = FALSE]
  BY DEF Clock
<1>2. /\ lines' \in [csn : {0, 1}, trigger : BOOLEAN, wordEnd : BOOLEAN]
      /\ lines'.csn = lines.csn /\ ~lines'.trigger /\ ~lines'.wordEnd
  BY <1>1 DEF IlaTypes
<1>3. age \in 0 .. Span /\ gap \in 0 .. Gap /\ lines.trigger \in BOOLEAN
  BY DEF IlaTypes
<1>4. /\ lines.trigger => age' = 0
      /\ ~lines.trigger /\ age < Span => age' = age + 1
      /\ ~lines.trigger /\ ~(age < Span) => age' = age
  <2>1. CASE lines.trigger
    BY <2>1 DEF Clock, Triggered
  <2>2. CASE ~lines.trigger /\ age < Span
    BY <2>2 DEF Clock, Triggered
  <2>3. CASE ~lines.trigger /\ ~(age < Span)
    BY <2>3 DEF Clock, Triggered
  <2>. QED
    BY <2>1, <2>2, <2>3
<1>5. age' \in 0 .. Span /\ (~lines.trigger /\ ~(age < Span) => age' = Span)
  BY <1>3, <1>4, ConstantsAre
<1>6. gap' = IF gap < Gap THEN gap + 1 ELSE gap
  BY DEF Clock
<1>7. /\ gap' \in 0 .. Gap
      /\ gap < Gap => gap' = gap + 1
      /\ ~(gap < Gap) => gap' = Gap
  BY <1>3, <1>6, ConstantsAre
<1>8. mcu' = mcu /\ tests' = tests
  BY DEF Clock
<1>. QED
  BY <1>2, <1>4, <1>5, <1>7, <1>8

LEMMA FifoIs ==
  ASSUME IlaTypes, Clock,
         NEW in \in Bit01, in = 1 <=> Push(fifo, Size, ila.wEn), NEW out \in Bit01, out = 1 <=> Pop(fifo, ila.rEn)
  PROVE  /\ FifoOf(Samples, fifo')
         /\ fifo'.pushed[1] = in /\ fifo'.pushed[2] = fifo.pushed[1]
         /\ fifo'.popped[1] = out /\ \A i \in 2 .. 4 : fifo'.popped[i] = fifo.popped[i - 1]
         /\ fifo'.held[1] = Flag(fifo.rRdy /\ ~ila.rEn) /\ \A i \in 2 .. 4 : fifo'.held[i] = fifo.held[i - 1]
         /\ fifo'.rRdy <=> ((fifo.rRdy /\ ~ila.rEn) \/ out = 1)
         /\ out = 1 => fifo'.rData = fifo.store[1]
         /\ out = 0 => fifo'.rData = fifo.rData
         /\ Len(fifo.store) >= out /\ Len(fifo'.store) = Len(fifo.store) - out + in
         /\ \A i \in 1 .. Len(fifo.store) - out : fifo'.store[i] = fifo.store[i + out]
         /\ in = 1 => fifo'.store[Len(fifo.store) - out + 1] = ila.wData
<1>1. FifoOf(Samples, fifo) /\ ila.wEn \in BOOLEAN /\ ila.rEn \in BOOLEAN /\ ila.wData \in Samples
  BY DEF IlaTypes
<1>2. fifo' = AfterClock(fifo, Size, ila.wEn, ila.wData, ila.rEn)
  BY DEF Clock
<1>. QED
  BY <1>1, <1>2, AfterClockIs

\* The samples in the FIFO move on.
LEMMA StoreMoves ==
  ASSUME IlaTypes, Clock, NEW p \in Nat, NEW n \in Nat, p <= n, Stored(p, n),
         NEW in \in Bit01, in = 1 <=> Push(fifo, Size, ila.wEn), NEW out \in Bit01, out = 1 <=> Pop(fifo, ila.rEn),
         in = 1 => ila.wData = Sample(n),
         NEW q \in Nat, q = p + out, NEW m \in Nat, m = n + in
  PROVE  /\ Stored(q, m)' /\ q <= n
         /\ out = 1 => fifo'.rData = Sample(p)
<1>1. /\ Len(fifo.store) >= out /\ Len(fifo'.store) = Len(fifo.store) - out + in
      /\ \A i \in 1 .. Len(fifo.store) - out : fifo'.store[i] = fifo.store[i + out]
      /\ in = 1 => fifo'.store[Len(fifo.store) - out + 1] = ila.wData
      /\ out = 1 => fifo'.rData = fifo.store[1]
  BY FifoIs
<1>2. Len(fifo.store) = n - p /\ \A i \in 1 .. n - p : fifo.store[i] = Sample(p + i - 1)
  BY DEF Stored
<1>3. q <= n /\ Len(fifo'.store) = m - q
  BY <1>1, <1>2 DEF Bit01
<1>4. tests' = tests
  BY TimesAre
<1>5. \A i \in 1 .. m - q : fifo'.store[i] = Sample(q + i - 1)
  <2> SUFFICES ASSUME NEW i \in 1 .. m - q PROVE fifo'.store[i] = Sample(q + i - 1)
    OBVIOUS
  <2>1. CASE i <= n - q
    <3>1. i \in 1 .. Len(fifo.store) - out /\ i + out \in 1 .. n - p
      BY <1>2, <1>3, <2>1 DEF Bit01
    <3>2. fifo'.store[i] = Sample(p + (i + out) - 1)
      BY <1>1, <1>2, <3>1
    <3>3. p + (i + out) - 1 = q + i - 1
      BY DEF Bit01
    <3>. QED
      BY <3>2, <3>3
  <2>2. CASE ~(i <= n - q)
    <3>1. in = 1 /\ i = Len(fifo.store) - out + 1 /\ q + i - 1 = n
      BY <1>2, <1>3, <2>2 DEF Bit01
    <3>. QED
      BY <1>1, <3>1
  <2>. QED
    BY <2>1, <2>2
<1>6. Stored(q, m)'
  BY <1>3, <1>4, <1>5 DEF Stored, Sample
<1>7. out = 1 => fifo'.rData = Sample(p)
  <2>1. out = 1 => 1 \in 1 .. n - p /\ p + 1 - 1 = p
    BY <1>1, <1>2
  <2>. QED
    BY <1>1, <1>2, <2>1
<1>. QED
  BY <1>3, <1>6, <1>7

\* Nothing comes in or goes out when neither side asks.
LEMMA NothingMoves ==
  ASSUME IlaTypes, Clock, ~ila.wEn, ~Pop(fifo, ila.rEn)
  PROVE  /\ fifo'.pushed[1] = 0 /\ fifo'.pushed[2] = fifo.pushed[1]
         /\ fifo'.popped[1] = 0 /\ \A i \in 2 .. 4 : fifo'.popped[i] = fifo.popped[i - 1]
         /\ fifo'.held[1] = Flag(fifo.rRdy /\ ~ila.rEn) /\ \A i \in 2 .. 4 : fifo'.held[i] = fifo.held[i - 1]
         /\ fifo'.rRdy <=> (fifo.rRdy /\ ~ila.rEn)
         /\ fifo'.rData = fifo.rData /\ Len(fifo'.store) = Len(fifo.store)
<1>1. PICK b \in Bit01 : b = 0
  BY DEF Bit01
<1>2. (b = 1 <=> Push(fifo, Size, ila.wEn)) /\ (b = 1 <=> Pop(fifo, ila.rEn))
  BY <1>1 DEF Push
<1>3. Len(fifo.store) \in Nat
  BY LenProperties DEF IlaTypes, FifoOf
<1>. QED
  BY <1>1, <1>2, <1>3, FifoIs

\* What a clock makes of the registers of the analyser, in each state.
LEMMA IdleIs ==
  ASSUME IlaTypes, Clock, ila.fsm = "IDLE"
  PROVE  /\ ila'.rEn = (ila.rEn \/ fifo.rRdy) /\ ila'.wEn = ila.wEn
         /\ ila'.complete = (ila.complete /\ ~Triggered)
         /\ ila'.fsm = IF Triggered /\ WRdy(fifo, Size) THEN "CAPTURE" ELSE "IDLE"
<1>1. Idle
  BY DEF Clock, Capture, Readable
<1>. QED
  BY <1>1 DEF Idle, IlaTypes

LEMMA CaptureIs ==
  ASSUME IlaTypes, Clock, ila.fsm = "CAPTURE"
  PROVE  /\ Room => /\ ila'.wEn /\ ila'.wData = Sample(age)
                    /\ ila'.fsm = "CAPTURE" /\ ila'.complete = ila.complete /\ ila'.rEn = ila.rEn
         /\ ~Room /\ fifo.rRdy =>
              /\ ila'.fsm = "READABLE" /\ ila'.complete /\ ~ila'.wEn
              /\ ila'.captured = fifo.rData /\ ila'.rEn = ila.rEn
<1>1. Capture
  BY DEF Clock, Idle, Readable
<1>. QED
  BY <1>1 DEF Capture, IlaTypes

LEMMA ReadableIs ==
  ASSUME IlaTypes, Clock, ila.fsm = "READABLE"
  PROVE  /\ ila'.complete = ila.complete /\ ila'.wEn = ila.wEn
         /\ fifo.rRdy => /\ ila'.fsm = "READABLE" /\ ila'.rEn = NextNumber
                         /\ ila'.captured = IF NextNumber THEN fifo.rData ELSE ila.captured
         /\ ~fifo.rRdy => ila'.fsm = "IDLE" /\ ila'.rEn = ila.rEn
<1>1. Readable
  BY DEF Clock, Idle, Capture
<1>2. NextNumber \in BOOLEAN
  BY DEF NextNumber
<1>. QED
  BY <1>1, <1>2 DEF Readable, IlaTypes

LEMMA AnalyserTypes ==
  ASSUME IlaTypes, Clock
  PROVE  ila' \in [fsm : {"IDLE", "CAPTURE", "READABLE"}, complete : BOOLEAN, rEn : BOOLEAN,
                   wEn : BOOLEAN, wData : Samples, captured : Samples]
<1>1. Beee \in Samples /\ Dead \in Samples /\ Sample(age) \in Samples
  <2>1. Sample(age) \in Samples
    BY SampleIs DEF IlaTypes
  <2>2. Beee \in Samples /\ Dead \in Samples
    BY ConstantsAre DEF Beee, Dead, Samples
  <2>. QED
    BY <2>1, <2>2
<1>2. fifo.rData \in Samples /\ fifo.rRdy \in BOOLEAN /\ Triggered \in BOOLEAN
  BY DEF IlaTypes, FifoOf, Triggered
<1>3. CASE Idle
  BY <1>2, <1>3 DEF Idle, IlaTypes
<1>4. CASE Capture
  <2> DEFINE word == Sample(age)
  <2>1. word \in Samples
    BY <1>1
  <2> HIDE DEF word
  <2>2. CASE Room /\ ila' = [ila EXCEPT !.wEn = TRUE, !.wData = word]
    BY <2>1, <2>2 DEF IlaTypes
  <2>3. CASE ila' = [ila EXCEPT !.wEn = FALSE, !.captured = fifo.rData,
                                !.complete = TRUE, !.fsm = "READABLE"]
    BY <1>2, <2>3 DEF IlaTypes
  <2>4. CASE ila' = [ila EXCEPT !.captured = Beee, !.fsm = "IDLE"]
    BY <1>1, <2>4 DEF IlaTypes
  <2>. QED
    BY <1>4, <2>2, <2>3, <2>4 DEF Capture, word
<1>5. CASE Readable
  <2>1. CASE ila' = [ila EXCEPT !.rEn = TRUE, !.captured = fifo.rData]
    BY <1>2, <2>1 DEF IlaTypes
  <2>2. CASE ila' = [ila EXCEPT !.rEn = FALSE]
    BY <2>2 DEF IlaTypes
  <2>3. CASE ila' = [ila EXCEPT !.captured = Dead, !.fsm = "IDLE"]
    BY <1>1, <2>3 DEF IlaTypes
  <2>. QED
    BY <1>5, <2>1, <2>2, <2>3 DEF Readable
<1>. QED
  BY <1>3, <1>4, <1>5 DEF Clock

\* A trigger starts a capture.
LEMMA TriggerFills ==
  ASSUME IlaTypes, Fits, Clock, Quiet, lines.trigger
  PROVE  Filling'
<1>1. /\ ila.fsm = "IDLE" /\ ~ila.rEn /\ ~ila.wEn /\ ~fifo.rRdy /\ Len(fifo.store) = 0
      /\ fifo.pushed[1] = 0 /\ fifo.pushed[2] = 0
      /\ fifo.popped[1] = 0 /\ fifo.popped[2] = 0 /\ fifo.popped[3] = 0 /\ fifo.popped[4] = 0
      /\ fifo.held[1] = 0 /\ fifo.held[2] = 0 /\ fifo.held[3] = 0 /\ fifo.held[4] = 0
  BY DEF Quiet, Drained
<1>2. WRdy(fifo, Size) /\ ~Pop(fifo, ila.rEn)
  <2>1. 0 + 0 + 0 < Size /\ ~(0 - 0 - 0 > 0)
    BY ConstantsAre DEF Fits
  <2>. QED
    BY <1>1, <2>1 DEF WRdy, Pop, Visible
<1>3. /\ ila'.fsm = "CAPTURE" /\ ~ila'.complete /\ ~ila'.rEn /\ ~ila'.wEn
  BY <1>1, <1>2, IdleIs DEF Triggered
<1>4. /\ fifo'.pushed[1] = 0 /\ fifo'.pushed[2] = 0 /\ ~fifo'.rRdy /\ Len(fifo'.store) = 0
      /\ \A i \in 1 .. 4 : fifo'.popped[i] = 0 /\ fifo'.held[i] = 0
  <2>1. /\ fifo'.popped[1] = 0 /\ fifo'.popped[2] = 0 /\ fifo'.popped[3] = 0 /\ fifo'.popped[4] = 0
        /\ fifo'.held[1] = 0 /\ fifo'.held[2] = 0 /\ fifo'.held[3] = 0 /\ fifo'.held[4] = 0
    BY <1>1, <1>2, NothingMoves DEF Flag
  <2>2. \A i \in 1 .. 4 : i = 1 \/ i = 2 \/ i = 3 \/ i = 4
    OBVIOUS
  <2>3. \A i \in 1 .. 4 : fifo'.popped[i] = 0 /\ fifo'.held[i] = 0
    BY <2>1, <2>2
  <2>. QED
    BY <1>1, <1>2, <2>3, NothingMoves
<1>5. age' = 0
  BY TimesAre
<1>6. FillingAt(0)'
  <2>1. Stored(Flag(5 <= 0), SamplesIn(0))'
    BY <1>4 DEF Stored, SamplesIn, Flag
  <2>2. \A i \in 1 .. 4 : Flag(0 = 4 + i) = 0 /\ Flag(5 + i <= 0) = 0
    BY DEF Flag
  <2>. QED
    BY <1>3, <1>4, <2>1, <2>2, ConstantsAre DEF FillingAt, Flag
<1>. QED
  BY <1>5, <1>6 DEF Filling, FillingAt, Stored, Sample

\* What is known of the FIFO while it fills.
LEMMA LevelIs ==
  ASSUME IlaTypes, Fits, NEW a \in Nat, FillingAt(a)
  PROVE  /\ WRdy(fifo, Size)
         /\ Room <=> a <= Depth
         /\ Pop(fifo, ila.rEn) <=> a = 4
<1>1. /\ Len(fifo.store) = SamplesIn(a) - Flag(5 <= a)
      /\ fifo.pushed[1] = Flag(2 <= a) /\ fifo.pushed[2] = Flag(3 <= a)
      /\ fifo.popped[1] = Flag(a = 5) /\ fifo.popped[2] = Flag(a = 6)
      /\ fifo.popped[3] = Flag(a = 7) /\ fifo.popped[4] = Flag(a = 8)
      /\ fifo.held[4] = Flag(9 <= a)
      /\ a <= Depth + 1 /\ ~ila.rEn /\ (fifo.rRdy <=> 5 <= a)
  <2>1. \A i \in 1 .. 4 : fifo.popped[i] = Flag(a = 4 + i) /\ fifo.held[i] = Flag(5 + i <= a)
    BY DEF FillingAt
  <2>2. /\ 1 \in 1 .. 4 /\ 2 \in 1 .. 4 /\ 3 \in 1 .. 4 /\ 4 \in 1 .. 4
        /\ 4 + 1 = 5 /\ 4 + 2 = 6 /\ 4 + 3 = 7 /\ 4 + 4 = 8 /\ 5 + 4 = 9
    OBVIOUS
  <2>3. /\ fifo.popped[1] = Flag(a = 5) /\ fifo.popped[2] = Flag(a = 6)
        /\ fifo.popped[3] = Flag(a = 7) /\ fifo.popped[4] = Flag(a = 8)
        /\ fifo.held[4] = Flag(9 <= a)
    BY <2>1, <2>2
  <2>. QED
    BY <2>3 DEF FillingAt, Stored
<1>2. 6 <= Depth /\ Depth <= Size /\ Depth \in Nat /\ Size \in Nat
  BY ConstantsAre DEF Fits
<1>3. SamplesIn(a) - Flag(5 <= a) + Flag(a = 5) + Flag(a = 6) < Size
  BY <1>1, <1>2 DEF SamplesIn, Flag
<1>4. SamplesIn(a) - Flag(5 <= a) - Flag(2 <= a) + Flag(a = 5) + Flag(a = 6) + Flag(a = 7) + Flag(a = 8)
        + Flag(9 <= a) = IF a < 2 THEN 0 ELSE a - 2
  BY DEF SamplesIn, Flag
<1>5. (~(5 <= a) /\ SamplesIn(a) - Flag(5 <= a) - Flag(2 <= a) - Flag(3 <= a) > 0) <=> a = 4
  BY DEF SamplesIn, Flag
<1>6. WRdy(fifo, Size)
  BY <1>1, <1>3 DEF WRdy
<1>7. WLevel(fifo) = IF a < 2 THEN 0 ELSE a - 2
  BY <1>1, <1>4 DEF WLevel
<1>8. Room <=> a <= Depth
  BY <1>1, <1>2, <1>6, <1>7 DEF Room
<1>9. Pop(fifo, ila.rEn) <=> a = 4
  BY <1>1, <1>5 DEF Pop, Visible
<1>. QED
  BY <1>6, <1>8, <1>9

\* The FIFO of a capture in the next clock.
LEMMA FifoFills ==
  ASSUME IlaTypes, Fits, Clock, ~lines.trigger, NEW a \in Nat, FillingAt(a), NEW b \in Nat, b = a + 1
  PROVE  /\ Stored(Flag(5 <= b), SamplesIn(b))'
         /\ 5 <= b => fifo'.rData = Sample(0)
         /\ fifo'.rRdy <=> 5 <= b
         /\ fifo'.pushed[1] = Flag(2 <= b) /\ fifo'.pushed[2] = Flag(3 <= b)
         /\ \A i \in 1 .. 4 : fifo'.popped[i] = Flag(b = 4 + i) /\ fifo'.held[i] = Flag(5 + i <= b)
<1>1. PICK in \in Bit01 : in = Flag(1 <= a)
  BY DEF Bit01, Flag
<1>2. PICK out \in Bit01 : out = Flag(a = 4)
  BY DEF Bit01, Flag
<1>3. PICK p \in Nat : p = Flag(5 <= a)
  BY DEF Flag
<1>4. PICK n \in Nat : n = SamplesIn(a)
  BY DEF SamplesIn
<1>5. PICK q \in Nat : q = Flag(5 <= b)
  BY DEF Flag
<1>6. PICK m \in Nat : m = SamplesIn(b)
  BY DEF SamplesIn
<1>7. /\ (ila.wEn <=> 1 <= a) /\ (1 <= a => ila.wData = Sample(a - 1))
      /\ (fifo.rRdy <=> 5 <= a) /\ (5 <= a => fifo.rData = Sample(0)) /\ ~ila.rEn
      /\ fifo.pushed[1] = Flag(2 <= a) /\ Stored(Flag(5 <= a), SamplesIn(a))
      /\ \A i \in 1 .. 4 : fifo.popped[i] = Flag(a = 4 + i) /\ fifo.held[i] = Flag(5 + i <= a)
  BY DEF FillingAt
<1>8. (in = 1 <=> Push(fifo, Size, ila.wEn)) /\ (out = 1 <=> Pop(fifo, ila.rEn))
  BY <1>1, <1>2, <1>7, LevelIs DEF Push, Flag
<1>9. p <= n /\ q = p + out /\ m = n + in /\ Stored(p, n)
  <2>1. p <= n /\ q = p + out /\ m = n + in
    BY <1>1, <1>2, <1>3, <1>4, <1>5, <1>6 DEF Flag, SamplesIn
  <2>. QED
    BY <1>3, <1>4, <1>7, <2>1
<1>10. in = 1 => ila.wData = Sample(n)
  BY <1>1, <1>4, <1>7 DEF Flag, SamplesIn
<1>11. Stored(q, m)' /\ (out = 1 => fifo'.rData = Sample(p))
  BY <1>8, <1>9, <1>10, StoreMoves
<1>12. Stored(Flag(5 <= b), SamplesIn(b))'
  BY <1>5, <1>6, <1>11
<1>13. /\ fifo'.pushed[1] = in /\ fifo'.pushed[2] = fifo.pushed[1]
       /\ fifo'.popped[1] = out /\ \A i \in 2 .. 4 : fifo'.popped[i] = fifo.popped[i - 1]
       /\ fifo'.held[1] = Flag(fifo.rRdy /\ ~ila.rEn) /\ \A i \in 2 .. 4 : fifo'.held[i] = fifo.held[i - 1]
       /\ fifo'.rRdy <=> ((fifo.rRdy /\ ~ila.rEn) \/ out = 1)
       /\ out = 0 => fifo'.rData = fifo.rData
  BY <1>8, FifoIs
<1>14. (fifo'.rRdy <=> 5 <= b) /\ (5 <= b => fifo'.rData = Sample(0))
  <2>1. (out = 1 <=> a = 4) /\ (out = 1 => p = 0) /\ (out = 1 \/ out = 0)
    BY <1>2, <1>3 DEF Flag, Bit01
  <2>2. 5 <= b <=> (5 <= a \/ a = 4)
    OBVIOUS
  <2>. QED
    BY <1>7, <1>11, <1>13, <2>1, <2>2
<1>15. fifo'.pushed[1] = Flag(2 <= b) /\ fifo'.pushed[2] = Flag(3 <= b)
  BY <1>1, <1>7, <1>13 DEF Flag
<1>16. \A i \in 1 .. 4 : fifo'.popped[i] = Flag(b = 4 + i) /\ fifo'.held[i] = Flag(5 + i <= b)
  <2> SUFFICES ASSUME NEW i \in 1 .. 4
               PROVE  fifo'.popped[i] = Flag(b = 4 + i) /\ fifo'.held[i] = Flag(5 + i <= b)
    OBVIOUS
  <2>1. CASE i <= 1
    <3>1. i = 1 /\ (b = 4 + 1 <=> a = 4) /\ (5 + 1 <= b <=> 5 <= a)
      BY <2>1
    <3>. QED
      BY <1>2, <1>7, <1>13, <3>1 DEF Flag
  <2>2. CASE ~(i <= 1)
    <3>1. i - 1 \in 1 .. 4 /\ i \in 2 .. 4 /\ (b = 4 + i <=> a = 4 + (i - 1)) /\ (5 + i <= b <=> 5 + (i - 1) <= a)
      BY <2>2
    <3>2. fifo'.popped[i] = Flag(a = 4 + (i - 1)) /\ fifo'.held[i] = Flag(5 + (i - 1) <= a)
      BY <1>7, <1>13, <3>1
    <3>. QED
      BY <3>1, <3>2 DEF Flag
  <2>. QED
    BY <2>1, <2>2
<1>. QED
  BY <1>12, <1>14, <1>15, <1>16

\* A sample more, or the capture is complete.
LEMMA FillingMoves ==
  ASSUME IlaTypes, Fits, Clock, ~lines.trigger, Filling
  PROVE  Filling' \/ Still(0)'
<1>1. PICK a \in Nat : a = age
  BY DEF IlaTypes
<1>2. PICK b \in Nat : b = a + 1
  OBVIOUS
<1>3. FillingAt(a) /\ a <= Depth + 1 /\ ila.fsm = "CAPTURE" /\ ~ila.complete /\ ~ila.rEn
  BY <1>1 DEF Filling, FillingAt
<1>4. age' = b /\ tests' = tests /\ 6 <= Depth /\ Depth \in Nat
  BY <1>1, <1>2, <1>3, TimesAre, ConstantsAre DEF Fits
<1>5. /\ Stored(Flag(5 <= b), SamplesIn(b))'
      /\ 5 <= b => fifo'.rData = Sample(0)
      /\ fifo'.rRdy <=> 5 <= b
      /\ fifo'.pushed[1] = Flag(2 <= b) /\ fifo'.pushed[2] = Flag(3 <= b)
      /\ \A i \in 1 .. 4 : fifo'.popped[i] = Flag(b = 4 + i) /\ fifo'.held[i] = Flag(5 + i <= b)
  BY <1>2, <1>3, FifoFills
<1>6. CASE a <= Depth
  <2>1. Room
    BY <1>3, <1>6, LevelIs
  <2>2. /\ ila'.wEn /\ ila'.wData = Sample(a) /\ ila'.fsm = "CAPTURE" /\ ~ila'.complete /\ ~ila'.rEn
    BY <1>1, <1>3, <2>1, CaptureIs
  <2>3. b <= Depth + 1 /\ 1 <= b /\ b - 1 = a
    BY <1>2, <1>4, <1>6
  <2>4. FillingAt(b)'
    BY <1>4, <1>5, <2>2, <2>3 DEF FillingAt, Sample
  <2>. QED
    BY <1>4, <2>4 DEF Filling, FillingAt, Stored, Sample
<1>7. CASE ~(a <= Depth)
  <2>1. ~Room /\ fifo.rRdy /\ fifo.rData = Sample(0)
    BY <1>3, <1>4, <1>7, LevelIs DEF FillingAt
  <2>2. ila'.fsm = "READABLE" /\ ila'.complete /\ ~ila'.wEn /\ ila'.captured = Sample(0) /\ ~ila'.rEn
    BY <1>3, <2>1, CaptureIs
  <2>3. b = Depth + 2 /\ Flag(5 <= b) = 1 /\ SamplesIn(b) = Depth + 1 /\ 5 <= b
    BY <1>2, <1>3, <1>4, <1>7 DEF Flag, SamplesIn
  <2>4. Full'
    BY <1>4, <1>5, <2>2, <2>3 DEF Full
  <2>5. Stored(0 + 1, Depth + 1)'
    BY <1>5, <2>3 DEF Stored, Sample
  <2>. QED
    BY <1>4, <1>5, <2>2, <2>3, <2>4, <2>5 DEF Still, Sample
<1>. QED
  BY <1>6, <1>7

\* A capture that is complete stays so, and how old it is.
LEMMA StaysFull ==
  ASSUME IlaTypes, Clock, ~lines.trigger, Full,
         ila'.fsm = "READABLE", fifo'.rRdy, fifo'.pushed[1] = 0, fifo'.pushed[2] = fifo.pushed[1]
  PROVE  Full'
<1>1. PICK a \in Nat : a = age
  BY DEF IlaTypes
<1>2. PICK b \in Nat : b = age'
  BY TimesAre, ConstantsAre
<1>3. /\ a <= Depth + 4 /\ Depth \in Nat
      /\ a < Depth + 4 => b = a + 1
      /\ ~(a < Depth + 4) => b = Depth + 4
  BY <1>1, <1>2, TimesAre, ConstantsAre DEF IlaTypes
<1>4. ila.fsm = "READABLE" /\ ila.complete /\ ~ila.wEn /\ Depth + 2 <= a /\ (Depth + 3 <= a => fifo.pushed[1] = 0)
  BY <1>1 DEF Full
<1>5. Depth + 2 <= b /\ (Depth + 4 <= b => Depth + 3 <= a)
  BY <1>3, <1>4
<1>6. ila'.complete /\ ~ila'.wEn
  BY <1>4, ReadableIs
<1>. QED
  BY <1>2, <1>4, <1>5, <1>6 DEF Full

\* A sample waits, and is taken when a word is numbered.
LEMMA StillMoves ==
  ASSUME IlaTypes, Fits, Clock, ~lines.trigger, NEW q \in 0 .. Depth, Still(q),
         NEW next \in Nat, next = q + 1
  PROVE  /\ NextNumber => Taking(next)'
         /\ ~NextNumber => Still(q)'
<1>1. /\ Full /\ ila.fsm = "READABLE" /\ ~ila.wEn /\ ~ila.rEn /\ fifo.rRdy
      /\ fifo.rData = Sample(q) /\ Stored(q + 1, Depth + 1)
      /\ ila.captured = Sample(IF q = 0 THEN 0 ELSE q - 1)
  BY DEF Still, Full
<1>2. ~Pop(fifo, ila.rEn)
  BY <1>1 DEF Pop
<1>3. tests' = tests /\ Depth \in Nat
  BY TimesAre, ConstantsAre
<1>4. /\ fifo'.pushed[1] = 0 /\ fifo'.pushed[2] = fifo.pushed[1] /\ fifo'.rRdy /\ fifo'.rData = fifo.rData
  BY <1>1, <1>2, NothingMoves
<1>5. Stored(next, Depth + 1)'
  <2>1. PICK b \in Bit01 : b = 0
    BY DEF Bit01
  <2>2. (b = 1 <=> Push(fifo, Size, ila.wEn)) /\ (b = 1 <=> Pop(fifo, ila.rEn))
    BY <1>1, <1>2, <2>1 DEF Push
  <2>3. PICK n \in Nat : n = Depth + 1
    BY <1>3
  <2>4. next <= n /\ Stored(next, n) /\ next = next + b /\ n = n + b /\ ~(b = 1)
    BY <1>1, <1>3, <2>1, <2>3
  <2>5. Stored(next, n)'
    BY <2>2, <2>4, StoreMoves
  <2>. QED
    BY <2>3, <2>5
<1>6. /\ ila'.fsm = "READABLE" /\ ila'.rEn = NextNumber
      /\ ila'.captured = IF NextNumber THEN fifo.rData ELSE ila.captured
  BY <1>1, ReadableIs
<1>7. Full'
  BY <1>1, <1>4, <1>6, StaysFull
<1>8. next - 1 = q
  OBVIOUS
<1>9. NextNumber => Taking(next)'
  BY <1>1, <1>3, <1>4, <1>5, <1>6, <1>7, <1>8 DEF Taking, Sample
<1>10. ~NextNumber => Still(q)'
  BY <1>1, <1>3, <1>4, <1>5, <1>6, <1>7 DEF Still, Sample
<1>. QED
  BY <1>9, <1>10

\* The next one takes its place, unless there is none.
LEMMA TakingMoves ==
  ASSUME IlaTypes, Fits, Clock, ~lines.trigger, ~NextNumber, NEW q \in 1 .. Depth + 1, Taking(q),
         q <= 1 \/ age = Span
  PROVE  /\ q <= Depth => Still(q)'
         /\ ~(q <= Depth) => Drained(1)'
<1>1. /\ Full /\ ila.fsm = "READABLE" /\ ~ila.wEn /\ ila.rEn /\ fifo.rRdy
      /\ Stored(q, Depth + 1) /\ ila.captured = Sample(q - 1)
      /\ Depth + 3 <= age => fifo.pushed[1] = 0
      /\ Depth + 4 <= age => fifo.pushed[2] = 0
  BY DEF Taking, Full
<1>2. tests' = tests /\ Depth \in Nat /\ 6 <= Depth /\ Span = Depth + 4 /\ q \in Nat
  BY TimesAre, ConstantsAre DEF Fits
<1>3. Len(fifo.store) = (Depth + 1) - q /\ fifo.pushed[1] \in Bit01 /\ fifo.pushed[2] \in Bit01
  <2>1. fifo.pushed[1] \in Bit01 /\ fifo.pushed[2] \in Bit01
    BY DEF IlaTypes, FifoOf
  <2>. QED
    BY <1>1, <2>1 DEF Stored
<1>4. Pop(fifo, ila.rEn) <=> q <= Depth
  <2>1. age = Span => fifo.pushed[1] = 0 /\ fifo.pushed[2] = 0
    BY <1>1, <1>2
  <2>2. (Len(fifo.store) - fifo.pushed[1] - fifo.pushed[2] > 0) <=> q <= Depth
    BY <1>2, <1>3, <2>1 DEF Bit01
  <2>. QED
    BY <1>1, <2>2 DEF Pop, Visible
<1>5. /\ ila'.fsm = "READABLE" /\ ~ila'.rEn /\ ~ila'.wEn /\ ila'.captured = ila.captured
  BY <1>1, ReadableIs
<1>6. CASE q <= Depth
  <2>1. PICK in \in Bit01 : in = 0
    BY DEF Bit01
  <2>2. PICK out \in Bit01 : out = 1
    BY DEF Bit01
  <2>3. PICK n \in Nat : n = Depth + 1
    BY <1>2
  <2>4. PICK r \in Nat : r = q + 1
    BY <1>2
  <2>5. (in = 1 <=> Push(fifo, Size, ila.wEn)) /\ (out = 1 <=> Pop(fifo, ila.rEn))
    <3>1. ~Push(fifo, Size, ila.wEn) /\ Pop(fifo, ila.rEn)
      BY <1>1, <1>4, <1>6 DEF Push
    <3>. QED
      BY <2>1, <2>2, <3>1
  <2>6. q <= n /\ Stored(q, n) /\ r = q + out /\ n = n + in /\ ~(in = 1)
    BY <1>1, <1>2, <1>6, <2>1, <2>2, <2>3, <2>4
  <2>7. Stored(r, n)' /\ fifo'.rData = Sample(q)
    BY <1>2, <2>2, <2>5, <2>6, StoreMoves
  <2>8. fifo'.pushed[1] = 0 /\ fifo'.pushed[2] = fifo.pushed[1] /\ fifo'.rRdy
    BY <2>1, <2>2, <2>5, FifoIs
  <2>9. Full'
    BY <1>1, <1>5, <2>8, StaysFull
  <2>10. ~(q = 0)
    OBVIOUS
  <2>. QED
    BY <1>1, <1>2, <1>5, <1>6, <2>3, <2>4, <2>7, <2>9, <2>10 DEF Still, Sample
<1>7. CASE ~(q <= Depth)
  <2>1. ~Pop(fifo, ila.rEn) /\ fifo.pushed[1] = 0 /\ Len(fifo.store) = 0
    <3>1. age = Span /\ (Depth + 1) - q = 0
      BY <1>2, <1>7
    <3>2. Len(fifo.store) = 0
      BY <1>3, <3>1
    <3>3. fifo.pushed[1] = 0
      BY <1>1, <1>2, <3>1
    <3>. QED
      BY <1>4, <1>7, <3>2, <3>3
  <2>2. /\ fifo'.pushed[1] = 0 /\ fifo'.pushed[2] = 0 /\ fifo'.popped[1] = 0 /\ fifo'.held[1] = 0
        /\ ~fifo'.rRdy /\ Len(fifo'.store) = 0
    BY <1>1, <2>1, NothingMoves DEF Flag
  <2>3. \A i \in 1 .. 1 : i = 1
    OBVIOUS
  <2>. QED
    BY <1>5, <1>7, <2>2, <2>3 DEF Drained
<1>. QED
  BY <1>6, <1>7

\* What is empty stays empty.
LEMMA DrainedMoves ==
  ASSUME IlaTypes, Clock, ~lines.trigger, NEW z \in 1 .. 4, Drained(z),
         NEW y \in 1 .. 4, y = IF z < 4 THEN z + 1 ELSE 4
  PROVE  Drained(y)'
<1>1. /\ ila.fsm = (IF z = 1 THEN "READABLE" ELSE "IDLE") /\ ~ila.rEn /\ ~ila.wEn
      /\ ~fifo.rRdy /\ Len(fifo.store) = 0 /\ fifo.pushed[1] = 0 /\ fifo.pushed[2] = 0
      /\ \A i \in 1 .. z : fifo.popped[i] = 0 /\ fifo.held[i] = 0
  BY DEF Drained
<1>2. ~Pop(fifo, ila.rEn)
  <2>1. ~(0 - 0 - 0 > 0)
    OBVIOUS
  <2>. QED
    BY <1>1, <2>1 DEF Pop, Visible
<1>3. ila'.fsm = "IDLE" /\ ~ila'.rEn /\ ~ila'.wEn
  BY <1>1, IdleIs, ReadableIs DEF Triggered
<1>4. /\ fifo'.pushed[1] = 0 /\ fifo'.pushed[2] = 0 /\ ~fifo'.rRdy /\ Len(fifo'.store) = 0
      /\ fifo'.popped[1] = 0 /\ \A i \in 2 .. 4 : fifo'.popped[i] = fifo.popped[i - 1]
      /\ fifo'.held[1] = 0 /\ \A i \in 2 .. 4 : fifo'.held[i] = fifo.held[i - 1]
  BY <1>1, <1>2, NothingMoves DEF Flag
<1>5. \A i \in 1 .. y : fifo'.popped[i] = 0 /\ fifo'.held[i] = 0
  <2> SUFFICES ASSUME NEW i \in 1 .. y PROVE fifo'.popped[i] = 0 /\ fifo'.held[i] = 0
    OBVIOUS
  <2>1. CASE i <= 1
    BY <1>4, <2>1
  <2>2. CASE ~(i <= 1)
    <3>1. i \in 2 .. 4 /\ i - 1 \in 1 .. z
      BY <2>2
    <3>. QED
      BY <1>1, <1>4, <3>1
  <2>. QED
    BY <2>1, <2>2
<1>6. ~(y = 1)
  OBVIOUS
<1>. QED
  BY <1>3, <1>4, <1>5, <1>6 DEF Drained

-----------------------------------------------------------------------------
\* The numbers of the words.

LEMMA SerialIs ==
  ASSUME IlaTypes, Fits, Clock
  PROVE  /\ serial' \in [selected : BOOLEAN, current : WordNumbers, number : WordNumbers,
                         past : WordNumbers, tx : Samples]
         /\ serial'.selected <=> lines.csn = 1
         /\ serial'.number = serial.current /\ serial'.past = serial.number
         /\ lines.csn = 0 \/ lines.wordEnd => serial'.tx = ila.captured
         /\ lines.csn = 1 /\ ~lines.wordEnd => serial'.tx = serial.tx
         /\ lines.csn = 0 => serial'.current = 0
         /\ lines.csn = 1 /\ ~serial.selected => serial'.current = 1
         /\ lines.csn = 1 /\ serial.selected /\ ~lines.wordEnd => serial'.current = serial.current
         /\ lines.csn = 1 /\ serial.selected /\ lines.wordEnd /\ serial.current + 1 < Numbers =>
              serial'.current = serial.current + 1
<1> DEFINE step == serial.current + Flag(lines.wordEnd)
           c == CASE ~(lines.csn = 1)                        -> 0
                  [] lines.csn = 1 /\ ~serial.selected       -> 1
                  [] OTHER -> step % Numbers
           t == IF ~(lines.csn = 1) \/ lines.wordEnd THEN ila.captured ELSE serial.tx
<1>1. serial' = [selected |-> lines.csn = 1, current |-> c, number |-> serial.current,
                 past |-> serial.number, tx |-> t]
  BY DEF Clock, SerialClock
<1>2. /\ Numbers \in Nat /\ 2 <= Numbers /\ serial.current \in 0 .. Numbers - 1
      /\ lines.csn \in {0, 1} /\ lines.wordEnd \in BOOLEAN /\ serial.selected \in BOOLEAN
      /\ serial.number \in WordNumbers /\ t \in Samples
  BY ConstantsAre DEF Fits, IlaTypes, WordNumbers
<1>3. step \in Nat /\ (~lines.wordEnd => step = serial.current) /\ (lines.wordEnd => step = serial.current + 1)
  BY <1>2 DEF Flag
<1> HIDE DEF step, t
<1>4. /\ step % Numbers \in 0 .. Numbers - 1
      /\ step < Numbers => step % Numbers = step
  BY <1>2, <1>3
<1>5. /\ c \in 0 .. Numbers - 1
      /\ lines.csn = 0 => c = 0
      /\ lines.csn = 1 /\ ~serial.selected => c = 1
      /\ lines.csn = 1 /\ serial.selected => c = step % Numbers
  <2>1. CASE lines.csn = 0
    BY <1>2, <2>1
  <2>2. CASE lines.csn = 1 /\ ~serial.selected
    BY <1>2, <2>2
  <2>3. CASE lines.csn = 1 /\ serial.selected
    BY <1>4, <2>3
  <2>. QED
    BY <1>2, <2>1, <2>2, <2>3
<1> HIDE DEF c
<1>6. serial' \in [selected : BOOLEAN, current : WordNumbers, number : WordNumbers,
                   past : WordNumbers, tx : Samples]
  BY <1>1, <1>2, <1>5 DEF WordNumbers
<1>7. /\ serial'.selected = (lines.csn = 1) /\ serial'.current = c /\ serial'.tx = t
      /\ serial'.number = serial.current /\ serial'.past = serial.number
  BY <1>1
<1>8. /\ lines.csn = 0 \/ lines.wordEnd => t = ila.captured
      /\ lines.csn = 1 /\ ~lines.wordEnd => t = serial.tx
  BY <1>2 DEF t
<1>9. lines.csn = 1 /\ serial.selected /\ ~lines.wordEnd => c = serial.current
  <2>1. serial.current < Numbers
    BY <1>2
  <2>. QED
    BY <1>3, <1>4, <1>5, <2>1
<1>10. lines.csn = 1 /\ serial.selected /\ lines.wordEnd /\ serial.current + 1 < Numbers =>
         c = serial.current + 1
  BY <1>3, <1>4, <1>5
<1>. QED
  BY <1>5, <1>6, <1>7, <1>8, <1>9, <1>10

\* A new number shows two clocks after the edge that makes it.
LEMMA NumberShows ==
  ASSUME IlaTypes, Edges, Numbered
  PROVE  /\ NextNumber /\ mcu.pc # "idle" => lines.csn = 1
         /\ mcu.pc \in {"poll", "read"} => (NextNumber <=> gap = 2)
<1>1. /\ serial.current \in Int /\ serial.number \in Int /\ serial.past \in Int /\ gap \in Int /\ 0 <= gap
      /\ 0 <= serial.past /\ lines.csn \in {0, 1} /\ Len(mcu.words) \in Nat
  <2>1. gap \in 0 .. Gap /\ Gap \in Nat /\ Numbers \in Nat
    BY ConstantsAre DEF IlaTypes
  <2>2. serial.current \in 0 .. Numbers - 1 /\ serial.number \in 0 .. Numbers - 1 /\ serial.past \in 0 .. Numbers - 1
    BY DEF IlaTypes, WordNumbers
  <2>3. Len(mcu.words) \in Nat
    BY LenProperties DEF IlaTypes
  <2>. QED
    BY <2>1, <2>2, <2>3 DEF IlaTypes
<1>2. /\ gap <= 1 => serial.number = serial.past
      /\ lines.csn = 0 /\ 2 <= gap => serial.number = 0
  BY DEF Numbered
<1>3. lines.csn = 0 => ~NextNumber
  BY <1>1, <1>2 DEF NextNumber
<1>4. mcu.pc \in {"poll", "read"} => (NextNumber <=> gap = 2)
  <2> SUFFICES ASSUME mcu.pc \in {"poll", "read"} PROVE NextNumber <=> gap = 2
    OBVIOUS
  <2>1. /\ serial.number  = Len(mcu.words) + Flag(2 <= gap)
        /\ serial.past    = Len(mcu.words) + Flag(3 <= gap)
    BY DEF Numbered
  <2>2. PICK k \in Nat : k = Len(mcu.words)
    BY <1>1
  <2>3. (k + Flag(3 <= gap)) + 1 = k + Flag(2 <= gap) <=> gap = 2
    BY <1>1 DEF Flag
  <2>. QED
    BY <2>1, <2>2, <2>3 DEF NextNumber
<1>. QED
  BY <1>1, <1>3, <1>4

LEMMA NumbersMove ==
  ASSUME IlaTypes, Fits, LongGap, Edges, Numbered, Clock,
         mcu.pc = "poll" => Len(mcu.words) = 0
  PROVE  Numbered'
<1>1. PICK g \in Nat : g = gap
  BY ConstantsAre DEF IlaTypes
<1>2. PICK h \in Nat : h = gap'
  BY TimesAre, ConstantsAre
<1>3. PICK k \in Nat : k = Len(mcu.words)
  BY LenProperties DEF IlaTypes
<1>4. (h # 0) /\ (2 <= h <=> 1 <= g) /\ (3 <= h <=> 2 <= g) /\ (h <= 1 <=> g = 0)
  <2>1. g <= Gap /\ Gap \in Nat /\ 7 <= Gap
    BY <1>1, ConstantsAre DEF LongGap, IlaTypes
  <2>2. (g < Gap => h = g + 1) /\ (~(g < Gap) => h = Gap)
    BY <1>1, <1>2, TimesAre
  <2>. QED
    BY <2>1, <2>2
<1>5. /\ lines'.csn = lines.csn /\ mcu' = mcu /\ lines.csn \in {0, 1}
      /\ (1 <= g => ~lines.wordEnd)
  BY <1>1, TimesAre DEF Edges, IlaTypes
<1>6. /\ serial'.selected <=> lines.csn = 1
      /\ serial'.number = serial.current /\ serial'.past = serial.number
      /\ lines.csn = 0 => serial'.current = 0
      /\ lines.csn = 1 /\ ~serial.selected => serial'.current = 1
      /\ lines.csn = 1 /\ serial.selected /\ ~lines.wordEnd => serial'.current = serial.current
      /\ lines.csn = 1 /\ serial.selected /\ lines.wordEnd /\ serial.current + 1 < Numbers =>
           serial'.current = serial.current + 1
  BY SerialIs
<1>7. /\ g = 0 => serial.current = serial.past
      /\ g <= 1 => serial.number = serial.past
      /\ 2 <= g => serial.number = serial.current
      /\ lines.csn = 0 => /\ 1 <= g => serial.current = 0
                          /\ 2 <= g => serial.number = 0
      /\ lines.csn = 1 /\ 1 <= g => serial.selected
  BY <1>1 DEF Numbered
<1>8. 1 <= g => serial'.current = serial.current
  BY <1>5, <1>6, <1>7
<1>9. /\ h <= 1 => serial'.number = serial'.past
      /\ 2 <= h => serial'.number = serial'.current
      /\ 3 <= h => serial'.past = serial'.current
  <2>1. 2 <= g => 1 <= g
    OBVIOUS
  <2>2. g = 0 => g <= 1
    OBVIOUS
  <2>. QED
    BY <1>4, <1>6, <1>7, <1>8, <2>1, <2>2
<1>10. lines.csn = 0 => /\ serial'.current = 0 /\ ~serial'.selected
                        /\ 2 <= h => serial'.number = 0
                        /\ 3 <= h => serial'.past = 0
  <2>1. lines.csn = 0 => serial'.current = 0 /\ ~serial'.selected
    <3>1. lines.csn = 0 => ~(lines.csn = 1)
      OBVIOUS
    <3>. QED
      BY <1>6, <3>1
  <2>2. lines.csn = 0 /\ 2 <= h => serial'.number = 0
    BY <1>4, <1>6, <1>7
  <2>3. lines.csn = 0 /\ 3 <= h => serial'.past = 0
    BY <1>4, <1>6, <1>7
  <2>. QED
    BY <2>1, <2>2, <2>3
<1>11. lines.csn = 1 => serial'.selected
  BY <1>6
<1>12. mcu.pc \in {"poll", "read"} =>
         /\ serial'.current = k + Flag(1 <= h)
         /\ serial'.number  = k + Flag(2 <= h)
         /\ serial'.past    = k + Flag(3 <= h)
  <2> SUFFICES ASSUME mcu.pc \in {"poll", "read"}
               PROVE  /\ serial'.current = k + 1
                      /\ serial'.number  = k + Flag(2 <= h)
                      /\ serial'.past    = k + Flag(3 <= h)
    BY <1>4 DEF Flag
  <2>1. /\ g = 0 => (serial.selected <=> 1 <= k)
        /\ serial.current = k + Flag(1 <= g) /\ serial.number  = k + Flag(2 <= g)
    BY <1>1, <1>3 DEF Numbered
  <2>2. lines.csn = 1 /\ (lines.wordEnd <=> (mcu.pc = "read" /\ g = 0 /\ 1 <= k))
    BY <1>1, <1>3 DEF Edges
  <2>3. serial'.number = k + Flag(2 <= h) /\ serial'.past = k + Flag(3 <= h)
    BY <1>4, <1>6, <2>1 DEF Flag
  <2>4. serial'.current = k + 1
    <3>1. CASE 1 <= g
      BY <1>8, <2>1, <3>1 DEF Flag
    <3>2. CASE ~(1 <= g) /\ 1 <= k
      <4>1. g = 0 /\ mcu.pc = "read" /\ serial.current = k
        BY <1>3, <2>1, <3>2 DEF Flag
      <4>2. k + 1 < Numbers
        <5>1. k <= Depth
          BY <1>3 DEF IlaTypes
        <5>. QED
          BY <5>1, ConstantsAre DEF Fits
      <4>. QED
        BY <1>6, <2>1, <2>2, <3>2, <4>1, <4>2
    <3>3. CASE ~(1 <= g) /\ ~(1 <= k)
      <4>1. g = 0 /\ k + 1 = 1
        BY <3>3
      <4>. QED
        BY <1>6, <2>1, <2>2, <3>3, <4>1
    <3>. QED
      BY <3>1, <3>2, <3>3
  <2>. QED
    BY <2>3, <2>4
<1>. QED
  BY <1>2, <1>3, <1>4, <1>5, <1>9, <1>10, <1>11, <1>12 DEF Numbered

-----------------------------------------------------------------------------
\* A clock keeps the invariant.

LEMMA ClockTypes == ASSUME IlaTypes, Fits, Clock PROVE IlaTypes'
<1>1. PICK in \in Bit01 : in = 1 <=> Push(fifo, Size, ila.wEn)
  BY DEF Bit01
<1>2. PICK out \in Bit01 : out = 1 <=> Pop(fifo, ila.rEn)
  BY DEF Bit01
<1>3. FifoOf(Samples, fifo')
  BY <1>1, <1>2, FifoIs
<1>4. ila' \in [fsm : {"IDLE", "CAPTURE", "READABLE"}, complete : BOOLEAN, rEn : BOOLEAN,
                wEn : BOOLEAN, wData : Samples, captured : Samples]
  BY AnalyserTypes
<1>5. serial' \in [selected : BOOLEAN, current : WordNumbers, number : WordNumbers,
                   past : WordNumbers, tx : Samples]
  BY SerialIs
<1>. QED
  BY <1>3, <1>4, <1>5, TimesAre DEF IlaTypes

LEMMA ClockEdges ==
  ASSUME IlaTypes, LongGap, Edges, Clock
  PROVE  Edges' /\ gap' \in Nat /\ 0 < gap'
<1>1. gap' \in Nat /\ 0 < gap'
  <2>1. gap \in 0 .. Gap /\ Gap \in Nat /\ 7 <= Gap
    BY ConstantsAre DEF IlaTypes, LongGap
  <2>. QED
    BY <2>1, TimesAre
<1>. QED
  BY <1>1, TimesAre DEF Edges

\* Before a test and as it starts.
LEMMA ClockBefore ==
  ASSUME IlaInv, Fits, LongGap, Clock
  PROVE  /\ mcu.pc \in {"idle", "register", "write"} => Quiet'
         /\ mcu.pc = "written" => Filling' \/ Still(0)'
<1>1. IlaTypes /\ Edges /\ Numbered /\ IlaStage
  BY DEF IlaInv
<1>2. ASSUME mcu.pc \in {"idle", "register", "write"} PROVE Quiet'
  <2>1. ~lines.trigger
    BY <1>1, <1>2 DEF Edges
  <2>2. PICK z \in 1 .. 4 : z = 4
    OBVIOUS
  <2>3. Drained(z) /\ z = IF z < 4 THEN z + 1 ELSE 4
    BY <1>1, <1>2, <2>2 DEF IlaStage, Quiet
  <2>4. Drained(z)'
    BY <1>1, <2>1, <2>3, DrainedMoves
  <2>. QED
    BY <2>2, <2>4 DEF Quiet
<1>3. ASSUME mcu.pc = "written" PROVE Filling' \/ Still(0)'
  <2>1. CASE gap = 0
    <3>1. lines.trigger /\ Quiet
      BY <1>1, <1>3, <2>1 DEF Edges, IlaStage
    <3>. QED
      BY <1>1, <3>1, TriggerFills
  <2>2. CASE gap # 0
    <3>1. ~lines.trigger /\ lines.csn = 0 /\ (Filling \/ Still(0))
      BY <1>1, <1>3, <2>2 DEF Edges, IlaStage
    <3>2. ~NextNumber
      <4>1. mcu.pc # "idle" /\ ~(lines.csn = 1)
        BY <1>3, <3>1
      <4>. QED
        BY <1>1, <4>1, NumberShows
    <3>3. Still(0) => Still(0)'
      <4>1. 0 \in 0 .. Depth /\ 1 \in Nat /\ 1 = 0 + 1
        BY ConstantsAre
      <4>. QED
        BY <1>1, <3>1, <3>2, <4>1, StillMoves
    <3>. QED
      BY <1>1, <3>1, <3>3, FillingMoves
  <2>. QED
    BY <2>1, <2>2
<1>. QED
  BY <1>2, <1>3

\* While the MCU polls.
LEMMA ClockAsking ==
  ASSUME IlaInv, Fits, LongGap, Clock, mcu.pc \in {"poll", "polling", "polled"}
  PROVE  Asking'
<1>1. IlaTypes /\ Edges /\ Numbered /\ Asking
  BY DEF IlaInv, IlaStage
<1>2. mcu' = mcu /\ ~lines.trigger
  BY <1>1, TimesAre DEF Edges
<1>3. 0 \in 0 .. Depth /\ 1 \in 0 .. Depth /\ 1 \in 1 .. Depth + 1 /\ 1 <= Depth /\ 1 \in Nat /\ 1 = 0 + 1 /\ 2 \in Nat /\ 2 = 1 + 1
  BY ConstantsAre
<1>4. NextNumber <=> mcu.pc = "poll" /\ gap = 2
  <2>1. CASE mcu.pc = "poll"
    BY <1>1, <2>1, NumberShows
  <2>2. CASE mcu.pc # "poll"
    <3>1. lines.csn = 0 /\ mcu.pc # "idle"
      BY <1>1, <2>2 DEF Edges
    <3>2. ~(lines.csn = 1)
      BY <3>1
    <3>. QED
      BY <1>1, <2>2, <3>1, <3>2, NumberShows
  <2>. QED
    BY <2>1, <2>2
<1>5. (gap = 2 => gap' = 3) /\ (gap = 3 => 4 <= gap') /\ (4 <= gap => 4 <= gap')
  <2>1. gap \in 0 .. Gap /\ Gap \in Nat /\ 7 <= Gap
    BY <1>1, ConstantsAre DEF IlaTypes, LongGap
  <2>. QED
    BY <1>1, <2>1, TimesAre
<1>6. CASE Filling
  BY <1>1, <1>2, <1>6, FillingMoves DEF Asking
<1>7. CASE Still(0)
  <2>1. (NextNumber => Taking(1)') /\ (~NextNumber => Still(0)')
    BY <1>1, <1>2, <1>3, <1>7, StillMoves
  <2>. QED
    BY <1>2, <1>4, <1>5, <2>1 DEF Asking
<1>8. CASE mcu.pc = "poll" /\ gap = 3 /\ Taking(1)
  <2>1. ~NextNumber
    BY <1>4, <1>8
  <2>2. Still(1)'
    BY <1>1, <1>2, <1>3, <1>8, <2>1, TakingMoves
  <2>. QED
    BY <1>2, <1>5, <1>8, <2>2 DEF Asking
<1>9. CASE Still(1) /\ \/ mcu.pc = "polling"
                       \/ mcu.pc = "polled" /\ mcu.answer
                       \/ mcu.pc = "poll" /\ 4 <= gap
  <2>1. ~NextNumber
    BY <1>4, <1>9
  <2>2. Still(1)'
    BY <1>1, <1>2, <1>3, <1>9, <2>1, StillMoves
  <2>. QED
    BY <1>2, <1>5, <1>9, <2>2 DEF Asking
<1>. QED
  BY <1>1, <1>6, <1>7, <1>8, <1>9 DEF Asking

\* Once the answer is that the capture is complete, its first sample is to be sent.
LEMMA ClockAnswer ==
  ASSUME IlaInv, Fits, LongGap, Clock, mcu.pc = "polled"
  PROVE  Answer'
<1> SUFFICES ASSUME mcu.answer PROVE Answer'
  BY TimesAre DEF IlaInv, Answer
<1>1. IlaTypes /\ Edges /\ Numbered /\ Asking /\ Answer
  BY DEF IlaInv, IlaStage
<1>2. ila.fsm = "READABLE" /\ ~Filling /\ (Still(0) \/ Still(1))
  BY <1>1 DEF Answer, Asking, Filling, FillingAt
<1>3. Full /\ ila.captured = Sample(0)
  <2>1. Sample(IF 0 = 0 THEN 0 ELSE 0 - 1) = Sample(0) /\ Sample(IF 1 = 0 THEN 0 ELSE 1 - 1) = Sample(0)
    OBVIOUS
  <2>. QED
    BY <1>2, <2>1 DEF Still
<1>4. lines.csn = 0 /\ mcu' = mcu /\ tests' = tests
  BY <1>1, TimesAre DEF Edges
<1>5. serial'.tx = Sample(0)'
  BY <1>1, <1>3, <1>4, SerialIs DEF Sample
<1>6. ila'.fsm = "READABLE"
  BY <1>1, <1>2, <1>3, ReadableIs DEF Full
<1>7. Depth + 3 <= age' /\ (2 <= gap' => age' = Span)
  <2>1. gap \in 0 .. Gap /\ Gap \in Nat /\ 7 <= Gap /\ age \in 0 .. Span /\ Span = Depth + 4 /\ Depth \in Nat
    BY <1>1, ConstantsAre DEF IlaTypes, LongGap
  <2>2. ~lines.trigger /\ Depth + 2 <= age /\ (1 <= gap => Depth + 3 <= age)
    BY <1>1, <1>3 DEF Edges, Full, Answer
  <2>3. (age < Span => age' = age + 1) /\ (~(age < Span) => age' = Span)
    BY <1>1, <2>2, TimesAre
  <2>4. (gap < Gap => gap' = gap + 1) /\ (~(gap < Gap) => gap' = Gap)
    BY <1>1, TimesAre
  <2>5. Depth + 3 <= age'
    BY <2>1, <2>2, <2>3
  <2>6. 2 <= gap' => 1 <= gap
    BY <2>1, <2>4
  <2>7. Depth + 3 <= age => age' = Span
    BY <2>1, <2>3
  <2>. QED
    BY <2>2, <2>5, <2>6, <2>7
<1>. QED
  BY <1>5, <1>6, <1>7 DEF Answer

\* As words are read.
LEMMA AfterEdgeMoves ==
  ASSUME IlaInv, Fits, LongGap, Clock, mcu.pc = "read", age = Span, NEW q \in 0 .. Depth + 1, AfterEdge(q)
  PROVE  AfterEdge(q)'
<1>1. IlaTypes /\ Edges /\ Numbered
  BY DEF IlaInv
<1>2. PICK g \in Nat : g = gap
  BY <1>1, ConstantsAre DEF IlaTypes
<1>3. PICK h \in Nat : h = gap'
  BY TimesAre, <1>1, ConstantsAre
<1>4. /\ Depth \in Nat /\ q \in Nat /\ Gap \in Nat /\ 7 <= Gap /\ g <= Gap
      /\ g < Gap => h = g + 1
      /\ ~(g < Gap) => h = Gap
      /\ ~lines.trigger /\ (NextNumber <=> g = 2)
  <2>1. ~lines.trigger /\ (NextNumber <=> g = 2)
    BY <1>1, <1>2, NumberShows DEF Edges
  <2>2. (g < Gap => h = g + 1) /\ (~(g < Gap) => h = Gap)
    BY <1>1, <1>2, <1>3, TimesAre
  <2>. QED
    BY <1>1, <1>2, <2>1, <2>2, ConstantsAre DEF LongGap, IlaTypes
<1>5. /\ q <= Depth /\ g <= 2 => Still(q)
      /\ q <= Depth /\ g = 3 => Taking(q + 1)
      /\ q < Depth /\ 4 <= g => Still(q + 1)
      /\ q = Depth /\ 4 <= g => Drained(IF 7 <= g THEN 4 ELSE g - 3)
      /\ q = Depth + 1 => Quiet
  BY <1>2 DEF AfterEdge
<1>6. PICK r \in Nat : r = q + 1
  BY <1>4
<1>7. ASSUME q <= Depth, h <= 2 PROVE Still(q)'
  <2>1. g <= 2 /\ ~NextNumber /\ q \in 0 .. Depth
    BY <1>4, <1>7
  <2>. QED
    BY <1>1, <1>4, <1>5, <1>6, <1>7, <2>1, StillMoves
<1>8. ASSUME q <= Depth, h = 3 PROVE Taking(r)'
  <2>1. g <= 2 /\ NextNumber /\ q \in 0 .. Depth
    BY <1>4, <1>8
  <2>. QED
    BY <1>1, <1>4, <1>5, <1>6, <1>8, <2>1, StillMoves
<1>9. ASSUME q < Depth, 4 <= h PROVE Still(r)'
  <2>1. CASE g = 3
    <3>1. Taking(r) /\ ~NextNumber /\ r \in 1 .. Depth + 1 /\ r <= Depth
      BY <1>4, <1>5, <1>6, <1>9, <2>1
    <3>. QED
      BY <1>1, <1>4, <3>1, TakingMoves
  <2>2. CASE 4 <= g
    <3>1. Still(r) /\ ~NextNumber /\ r \in 0 .. Depth
      BY <1>4, <1>5, <1>6, <1>9, <2>2
    <3>2. r + 1 \in Nat
      OBVIOUS
    <3>. QED
      BY <1>1, <1>4, <3>1, <3>2, StillMoves
  <2>3. g = 3 \/ 4 <= g
    BY <1>4, <1>9
  <2>. QED
    BY <2>1, <2>2, <2>3
<1>10. ASSUME q = Depth, 4 <= h, NEW y \in 1 .. 4, y = IF 7 <= h THEN 4 ELSE h - 3 PROVE Drained(y)'
  <2>1. CASE g = 3
    <3>1. Taking(r) /\ ~NextNumber /\ r \in 1 .. Depth + 1 /\ ~(r <= Depth) /\ y = 1
      BY <1>4, <1>5, <1>6, <1>10, <2>1
    <3>. QED
      BY <1>1, <1>4, <3>1, TakingMoves
  <2>2. CASE 4 <= g
    <3>1. PICK z \in 1 .. 4 : z = IF 7 <= g THEN 4 ELSE g - 3
      BY <2>2
    <3>2. Drained(z) /\ y = IF z < 4 THEN z + 1 ELSE 4
      BY <1>4, <1>5, <1>10, <2>2, <3>1
    <3>. QED
      BY <1>1, <1>4, <3>2, DrainedMoves
  <2>3. g = 3 \/ 4 <= g
    BY <1>4, <1>10
  <2>. QED
    BY <2>1, <2>2, <2>3
<1>11. ASSUME q = Depth + 1 PROVE Quiet'
  <2>1. PICK z \in 1 .. 4 : z = 4
    OBVIOUS
  <2>2. Drained(z) /\ z = IF z < 4 THEN z + 1 ELSE 4
    BY <1>5, <1>11, <2>1 DEF Quiet
  <2>3. Drained(z)'
    BY <1>1, <1>4, <2>2, DrainedMoves
  <2>. QED
    BY <2>1, <2>3 DEF Quiet
<1>12. q = Depth /\ 4 <= h => Drained(IF 7 <= h THEN 4 ELSE h - 3)'
  <2> SUFFICES ASSUME q = Depth, 4 <= h PROVE Drained(IF 7 <= h THEN 4 ELSE h - 3)'
    OBVIOUS
  <2>1. PICK y \in 1 .. 4 : y = IF 7 <= h THEN 4 ELSE h - 3
    OBVIOUS
  <2>2. Drained(y)'
    BY <1>10, <2>1
  <2>. QED
    BY <2>1, <2>2
<1>13. /\ q <= Depth /\ h <= 2 => Still(q)'
       /\ q <= Depth /\ h = 3 => Taking(q + 1)'
       /\ q < Depth /\ 4 <= h => Still(q + 1)'
       /\ q = Depth + 1 => Quiet'
  BY <1>6, <1>7, <1>8, <1>9, <1>11
<1>. QED
  BY <1>3, <1>12, <1>13 DEF AfterEdge

LEMMA ClockReading ==
  ASSUME IlaInv, Fits, LongGap, Clock, mcu.pc = "read", NEW e \in {0, 1}, ReadSince(e)
  PROVE  ReadSince(e)'
<1>1. IlaTypes /\ Edges /\ Numbered
  BY DEF IlaInv
<1>2. PICK k \in Nat : k = Len(mcu.words)
  BY <1>1, LenProperties DEF IlaTypes
<1>3. k <= Depth /\ Depth \in Nat
  BY <1>1, <1>2, ConstantsAre DEF IlaTypes
<1>4. PICK q \in 0 .. Depth + 1 : q = k + e
  BY <1>3
<1>5. age = Span /\ AfterEdge(q) /\ WordsFrom(e)
  BY <1>2, <1>4 DEF ReadSince
<1>6. mcu' = mcu /\ tests' = tests /\ ~lines.trigger /\ age' = Span
  BY <1>1, <1>5, TimesAre, ConstantsAre DEF Edges
<1>7. AfterEdge(q)'
  BY <1>5, AfterEdgeMoves
<1>8. WordsFrom(e)'
  BY <1>5, <1>6 DEF WordsFrom, WordOf, Sample
<1>9. k < Depth => serial'.tx = WordOf(k + 1, e)
  <2> SUFFICES ASSUME k < Depth PROVE serial'.tx = WordOf(k + 1, e)
    OBVIOUS
  <2>1. lines.csn = 1 /\ (lines.wordEnd <=> (gap = 0 /\ 1 <= k))
    BY <1>1, <1>2 DEF Edges
  <2>2. gap \in Nat
    BY <1>1, ConstantsAre DEF IlaTypes
  <2>3. CASE ~(gap = 0 /\ 1 <= k)
    <3>1. serial'.tx = serial.tx
      BY <1>1, <2>1, <2>3, SerialIs
    <3>2. k = 0 \/ 1 <= gap
      BY <2>2, <2>3
    <3>. QED
      BY <1>2, <3>1, <3>2 DEF ReadSince
  <2>4. CASE gap = 0 /\ 1 <= k
    <3>1. serial'.tx = ila.captured
      BY <1>1, <2>1, <2>4, SerialIs
    <3>2. q <= Depth /\ gap <= 2
      BY <1>3, <1>4, <2>4
    <3>3. Still(q)
      BY <1>5, <3>2 DEF AfterEdge
    <3>4. (IF q = 0 THEN 0 ELSE q - 1) = (IF k + 1 = 1 THEN 0 ELSE (k + 1) + e - 2)
      BY <1>4, <2>4
    <3>5. ila.captured = Sample(IF q = 0 THEN 0 ELSE q - 1)
      BY <3>3 DEF Still
    <3>. QED
      BY <3>1, <3>4, <3>5 DEF WordOf
  <2>. QED
    BY <2>3, <2>4
<1>10. Len(mcu.words)' = k /\ (k < Depth => serial'.tx = WordOf(k + 1, e)')
  BY <1>2, <1>6, <1>9 DEF WordOf, Sample
<1>. QED
  BY <1>4, <1>6, <1>7, <1>8, <1>10 DEF ReadSince

LEMMA ClockHolds == ASSUME IlaInv, Fits, LongGap, Clock PROVE IlaInv'
<1>1. IlaTypes /\ Edges /\ Numbered /\ IlaStage
  BY DEF IlaInv
<1>2. mcu' = mcu /\ tests' = tests /\ gap' \in Nat /\ ~(gap' = 0) /\ Edges'
  BY <1>1, TimesAre, ClockEdges
<1>3. IlaTypes' /\ Numbered'
  BY <1>1, ClockTypes, NumbersMove DEF IlaStage
<1>4. IlaStage'
  <2>1. /\ mcu.pc \in {"idle", "register", "write"} => Quiet'
        /\ mcu.pc = "written" => Filling' \/ Still(0)'
    BY ClockBefore
  <2>2. mcu.pc \in {"poll", "polling", "polled"} => Asking' /\ Answer'
    <3>1. mcu.pc # "polled" => Answer'
      BY <1>2 DEF Answer
    <3>. QED
      BY <3>1, ClockAsking, ClockAnswer
  <2>3. mcu.pc = "read" => \E e \in {0, 1} : ReadSince(e)'
    BY <1>1, ClockReading DEF IlaStage
  <2>4. mcu.pc \in {"idle", "register"} => \E e \in {0, 1} : WordsFrom(e)'
    BY <1>1, <1>2 DEF IlaStage, WordsFrom, WordOf, Sample
  <2>5. mcu.pc \in {"write", "written", "poll", "polling", "polled"} => Len(mcu.words) = 0
    BY <1>1 DEF IlaStage
  <2>. QED
    BY <1>2, <2>1, <2>2, <2>3, <2>4, <2>5 DEF IlaStage
<1>. QED
  BY <1>2, <1>3, <1>4 DEF IlaInv

-----------------------------------------------------------------------------
\* An edge: the gateware stands still.

LEMMA EdgeIs ==
  ASSUME IlaTypes, LongGap, NEW c \in {0, 1}, NEW t \in BOOLEAN, NEW w \in BOOLEAN, Edge(c, t, w)
  PROVE  /\ gap = Gap /\ gap' = 0 /\ 7 <= gap /\ gap \in Nat
         /\ lines' \in [csn : {0, 1}, trigger : BOOLEAN, wordEnd : BOOLEAN]
         /\ lines'.csn = c /\ lines'.trigger = t /\ lines'.wordEnd = w
         /\ ila' = ila /\ fifo' = fifo /\ serial' = serial /\ age' = age
BY ConstantsAre DEF Edge, LongGap

LEMMA EdgeTypes ==
  ASSUME IlaTypes, LongGap, NEW c \in {0, 1}, NEW t \in BOOLEAN, NEW w \in BOOLEAN, Edge(c, t, w),
         mcu' \in [pc : TestStages, size : Nat, answer : BOOLEAN, words : Seq(Samples)],
         Len(mcu'.words) <= mcu'.size, mcu'.pc \notin {"idle", "register"} => mcu'.size = Depth,
         tests' \in 0 .. MaxTests, mcu'.pc = "write" => tests' < MaxTests
  PROVE  IlaTypes'
<1>1. gap' \in 0 .. Gap
  BY EdgeIs, ConstantsAre
<1>2. /\ lines' \in [csn : {0, 1}, trigger : BOOLEAN, wordEnd : BOOLEAN]
      /\ ila' = ila /\ fifo' = fifo /\ serial' = serial /\ age' = age
  BY EdgeIs
<1>. QED
  BY <1>1, <1>2 DEF IlaTypes

\* What is in the gateware is named by the number of the test.
LEMMA NotMoved ==
  ASSUME ila' = ila, fifo' = fifo, age' = age
  PROVE  /\ Quiet => Quiet'
         /\ tests' = tests => /\ Filling => Filling'
                              /\ \A q \in Nat : Still(q) => Still(q)'
<1>1. Quiet => Quiet'
  BY DEF Quiet, Drained
<1>2. ASSUME tests' = tests, Filling PROVE Filling'
  BY <1>2 DEF Filling, FillingAt, Stored, Sample
<1>3. ASSUME tests' = tests, NEW q \in Nat, Still(q) PROVE Still(q)'
  BY <1>3 DEF Still, Full, Stored, Sample
<1>. QED
  BY <1>1, <1>2, <1>3

LEMMA EdgeNumbers ==
  ASSUME IlaTypes, LongGap, Numbered, gap = Gap, gap' = 0, serial' = serial,
         mcu'.pc \in {"poll", "read"} =>
           serial.current = Len(mcu'.words) /\ (serial.selected <=> 1 <= Len(mcu'.words))
  PROVE  Numbered'
<1>1. gap \in Nat /\ 7 <= gap
  BY ConstantsAre DEF LongGap
<1>2. serial.number = serial.current /\ serial.past = serial.current
  BY <1>1 DEF Numbered
<1>3. /\ ~(1 <= 0) /\ ~(2 <= 0) /\ ~(3 <= 0) /\ Flag(1 <= 0) = 0 /\ Flag(2 <= 0) = 0 /\ Flag(3 <= 0) = 0
  BY DEF Flag
<1>4. mcu'.pc \in {"poll", "read"} => Len(mcu'.words) = Len(mcu'.words) + 0
  <2>1. serial.current \in Nat
    BY ConstantsAre DEF IlaTypes, WordNumbers
  <2>. QED
    BY <2>1
<1>. QED
  BY <1>2, <1>3, <1>4 DEF Numbered

\* The numbers stand while the registers are selected, and after a word.
LEMMA NumbersStand ==
  ASSUME IlaTypes, Numbered, LongGap, gap = Gap
  PROVE  /\ lines.csn = 0 => serial.current = 0 /\ ~serial.selected
         /\ mcu.pc \in {"poll", "read"} => serial.current = Len(mcu.words) + 1 /\ serial.selected = TRUE
<1>1. gap \in Nat /\ 7 <= gap
  BY ConstantsAre DEF LongGap
<1>2. lines.csn = 0 => serial.current = 0 /\ ~serial.selected
  BY <1>1 DEF Numbered
<1>. QED
  BY <1>1, <1>2 DEF Numbered, Flag, IlaTypes

LEMMA StartWriteHolds == ASSUME IlaInv, WholeTests, LongGap, StartWrite PROVE IlaInv'
<1>1. IlaTypes /\ Numbered /\ Quiet /\ mcu.pc = "idle" /\ tests < MaxTests /\ tests' = tests
  BY DEF IlaInv, IlaStage, StartWrite
<1>2. Edge(0, FALSE, FALSE)
  BY DEF StartWrite
<1>3. PICK n \in Nat : n = Depth /\ mcu' = [mcu EXCEPT !.pc = "write", !.size = n, !.words = <<>>]
  BY ConstantsAre DEF StartWrite, WholeTests
<1>4. /\ mcu' \in [pc : TestStages, size : Nat, answer : BOOLEAN, words : Seq(Samples)]
      /\ mcu'.pc = "write" /\ mcu'.size = n /\ mcu'.words = <<>> /\ Len(mcu'.words) = 0
  BY <1>1, <1>3, EmptySeq DEF IlaTypes, TestStages
<1>5. IlaTypes'
  <2>1. Len(mcu'.words) <= mcu'.size /\ mcu'.size = Depth
    BY <1>3, <1>4
  <2>2. tests' \in 0 .. MaxTests /\ tests' < MaxTests
    BY <1>1 DEF IlaTypes
  <2>. QED
    BY <1>1, <1>2, <1>4, <2>1, <2>2, EdgeTypes
<1>6. Edges' /\ Numbered' /\ Quiet'
  BY <1>1, <1>2, <1>4, EdgeIs, EdgeNumbers, NotMoved DEF Edges
<1>. QED
  BY <1>4, <1>5, <1>6 DEF IlaInv, IlaStage

LEMMA TriggerHolds == ASSUME IlaInv, LongGap, Trigger PROVE IlaInv'
<1>1. IlaTypes /\ Numbered /\ Quiet /\ mcu.pc = "write" /\ tests < MaxTests /\ Len(mcu.words) = 0
  BY DEF IlaInv, IlaStage, Trigger, IlaTypes
<1>2. Edge(0, TRUE, FALSE) /\ mcu' = [mcu EXCEPT !.pc = "written"] /\ tests' = tests + 1
  BY DEF Trigger
<1>3. /\ mcu' \in [pc : TestStages, size : Nat, answer : BOOLEAN, words : Seq(Samples)]
      /\ mcu'.pc = "written" /\ mcu'.size = mcu.size /\ mcu'.words = mcu.words
  BY <1>1, <1>2 DEF IlaTypes, TestStages
<1>4. tests' \in 0 .. MaxTests
  BY <1>1, <1>2, ConstantsAre DEF IlaTypes
<1>5. IlaTypes'
  BY <1>1, <1>2, <1>3, <1>4, EdgeTypes DEF IlaTypes
<1>6. Edges' /\ Numbered' /\ Quiet'
  BY <1>1, <1>2, <1>3, EdgeIs, EdgeNumbers, NotMoved DEF Edges
<1>7. gap' = 0
  BY <1>1, <1>2, EdgeIs
<1>. QED
  BY <1>1, <1>3, <1>5, <1>6, <1>7 DEF IlaInv, IlaStage

\* The registers are selected by a request in between, and let go again.
LEMMA RegisterHolds == ASSUME IlaInv, LongGap, StartRegister \/ EndRegister PROVE IlaInv'
<1>1. /\ IlaTypes /\ Numbered /\ Quiet /\ mcu.pc \in {"idle", "register"} /\ tests' = tests
      /\ \E e \in {0, 1} : WordsFrom(e)
  BY DEF IlaInv, IlaStage, StartRegister, EndRegister
<1>2. PICK to \in {"idle", "register"}, c \in {0, 1} :
        /\ Edge(c, FALSE, FALSE) /\ mcu' = [mcu EXCEPT !.pc = to]
        /\ to = "register" => c = 0
  BY DEF StartRegister, EndRegister
<1>3. /\ mcu' \in [pc : TestStages, size : Nat, answer : BOOLEAN, words : Seq(Samples)]
      /\ mcu'.pc = to /\ mcu'.size = mcu.size /\ mcu'.words = mcu.words
  BY <1>1, <1>2 DEF IlaTypes, TestStages
<1>4. IlaTypes'
  BY <1>1, <1>2, <1>3, EdgeTypes DEF IlaTypes
<1>5. Edges' /\ Numbered' /\ Quiet'
  BY <1>1, <1>2, <1>3, EdgeIs, EdgeNumbers, NotMoved DEF Edges
<1>6. \E e \in {0, 1} : WordsFrom(e)'
  BY <1>1, <1>3 DEF WordsFrom, WordOf, Sample
<1>. QED
  BY <1>3, <1>4, <1>5, <1>6 DEF IlaInv, IlaStage

LEMMA EndWriteHolds == ASSUME IlaInv, LongGap, EndWrite PROVE IlaInv'
<1>1. /\ IlaTypes /\ Edges /\ Numbered /\ mcu.pc = "written" /\ Len(mcu.words) = 0 /\ tests' = tests
      /\ lines.csn = 0 /\ (gap # 0 => Filling \/ Still(0))
  BY DEF IlaInv, IlaStage, EndWrite, Edges
<1>2. Edge(1, FALSE, FALSE) /\ mcu' = [mcu EXCEPT !.pc = "poll"]
  BY DEF EndWrite
<1>3. /\ mcu' \in [pc : TestStages, size : Nat, answer : BOOLEAN, words : Seq(Samples)]
      /\ mcu'.pc = "poll" /\ mcu'.size = mcu.size /\ mcu'.words = mcu.words
  BY <1>1, <1>2 DEF IlaTypes, TestStages
<1>4. IlaTypes'
  BY <1>1, <1>2, <1>3, EdgeTypes DEF IlaTypes
<1>5. gap = Gap /\ gap # 0 /\ gap' = 0 /\ serial' = serial /\ Edges'
  <2>1. /\ gap = Gap /\ gap' = 0 /\ 7 <= gap /\ gap \in Nat /\ serial' = serial
        /\ lines'.csn = 1 /\ lines'.trigger = FALSE /\ lines'.wordEnd = FALSE
    BY <1>1, <1>2, EdgeIs
  <2>2. gap # 0
    BY <2>1
  <2>. QED
    BY <1>3, <2>1, <2>2 DEF Edges
<1>6. serial.current = 0 /\ ~serial.selected
  BY <1>1, <1>5, NumbersStand
<1>7. serial.current = Len(mcu'.words) /\ (serial.selected <=> 1 <= Len(mcu'.words))
  BY <1>1, <1>3, <1>6
<1>8. Numbered'
  BY <1>1, <1>5, <1>7, EdgeNumbers
<1>9. Asking' /\ Answer'
  <2>1. Filling' \/ Still(0)'
    BY <1>1, <1>2, <1>5, EdgeIs, NotMoved
  <2>. QED
    BY <1>3, <2>1 DEF Asking, Answer
<1>. QED
  BY <1>1, <1>3, <1>4, <1>5, <1>8, <1>9 DEF IlaInv, IlaStage

LEMMA StartPollHolds == ASSUME IlaInv, LongGap, StartPoll PROVE IlaInv'
<1>1. /\ IlaTypes /\ Numbered /\ mcu.pc = "poll" /\ Len(mcu.words) = 0 /\ tests' = tests /\ Asking
  BY DEF IlaInv, IlaStage, StartPoll
<1>2. Edge(0, FALSE, FALSE) /\ mcu' = [mcu EXCEPT !.pc = "polling"]
  BY DEF StartPoll
<1>3. /\ mcu' \in [pc : TestStages, size : Nat, answer : BOOLEAN, words : Seq(Samples)]
      /\ mcu'.pc = "polling" /\ mcu'.size = mcu.size /\ mcu'.words = mcu.words
  BY <1>1, <1>2 DEF IlaTypes, TestStages
<1>4. IlaTypes'
  BY <1>1, <1>2, <1>3, EdgeTypes DEF IlaTypes
<1>5. Edges' /\ Numbered'
  BY <1>1, <1>2, <1>3, EdgeIs, EdgeNumbers DEF Edges
<1>6. Filling \/ Still(0) \/ Still(1)
  <2>1. gap # 3
    <3>1. 7 <= gap /\ gap \in Nat
      BY <1>1, <1>2, EdgeIs
    <3>. QED
      BY <3>1
  <2>. QED
    BY <1>1, <2>1 DEF Asking
<1>7. Filling' \/ Still(0)' \/ Still(1)'
  <2>1. 0 \in Nat /\ 1 \in Nat
    OBVIOUS
  <2>. QED
    BY <1>1, <1>2, <1>6, <2>1, EdgeIs, NotMoved
<1>. QED
  BY <1>1, <1>3, <1>4, <1>5, <1>7 DEF IlaInv, IlaStage, Asking, Answer

LEMMA PollHolds == ASSUME IlaInv, LongGap, Poll PROVE IlaInv'
<1>1. /\ IlaTypes /\ Numbered /\ mcu.pc = "polling" /\ Len(mcu.words) = 0 /\ tests' = tests /\ Asking
  BY DEF IlaInv, IlaStage, Poll
<1>2. Edge(0, FALSE, FALSE) /\ mcu' = [mcu EXCEPT !.pc = "polled", !.answer = ila.complete]
  BY DEF Poll
<1>3. /\ mcu' \in [pc : TestStages, size : Nat, answer : BOOLEAN, words : Seq(Samples)]
      /\ mcu'.pc = "polled" /\ mcu'.size = mcu.size /\ mcu'.words = mcu.words
      /\ mcu'.answer = ila.complete
  BY <1>1, <1>2 DEF IlaTypes, TestStages
<1>4. IlaTypes'
  BY <1>1, <1>2, <1>3, EdgeTypes DEF IlaTypes
<1>5. Edges' /\ Numbered'
  BY <1>1, <1>2, <1>3, EdgeIs, EdgeNumbers DEF Edges
<1>6. Filling \/ Still(0) \/ Still(1)
  BY <1>1 DEF Asking
<1>7. (Filling => ~ila.complete) /\ (Still(0) \/ Still(1) => ila.complete /\ ila.fsm = "READABLE")
  BY DEF Filling, FillingAt, Still, Full
<1>8. gap' = 0 /\ ila' = ila
  BY <1>1, <1>2, EdgeIs
<1>9. /\ Filling' \/ Still(0)' \/ Still(1)'
      /\ Still(1) => Still(1)'
      /\ Filling => Filling'
      /\ Still(0) => Still(0)'
  <2>1. 0 \in Nat /\ 1 \in Nat
    OBVIOUS
  <2>. QED
    BY <1>1, <1>2, <1>6, <2>1, EdgeIs, NotMoved
<1>10. Asking'
  BY <1>3, <1>6, <1>7, <1>9 DEF Asking
<1>11. Answer'
  <2>1. ~(1 <= 0) /\ ~(2 <= 0)
    OBVIOUS
  <2>. QED
    BY <1>3, <1>6, <1>7, <1>8, <2>1 DEF Answer
<1>. QED
  BY <1>1, <1>3, <1>4, <1>5, <1>10, <1>11 DEF IlaInv, IlaStage

\* The registers are let go: the MCU polls again, or reads.
LEMMA EndPollHolds == ASSUME IlaInv, Fits, LongGap, EndPoll PROVE IlaInv'
<1>1. /\ IlaTypes /\ Edges /\ Numbered /\ mcu.pc = "polled" /\ Len(mcu.words) = 0 /\ tests' = tests
      /\ lines.csn = 0 /\ Asking /\ Answer
  BY DEF IlaInv, IlaStage, EndPoll, Edges
<1>2. PICK to \in {"read", "poll"} :
        Edge(1, FALSE, FALSE) /\ mcu' = [mcu EXCEPT !.pc = to] /\ (to = "read" <=> mcu.answer)
  BY <1>1 DEF EndPoll, Answered, IlaTypes
<1>3. /\ mcu' \in [pc : TestStages, size : Nat, answer : BOOLEAN, words : Seq(Samples)]
      /\ mcu'.pc = to /\ mcu'.size = mcu.size /\ mcu'.words = mcu.words
  BY <1>1, <1>2 DEF IlaTypes, TestStages
<1>4. IlaTypes'
  BY <1>1, <1>2, <1>3, EdgeTypes DEF IlaTypes
<1>5. /\ gap = Gap /\ gap' = 0 /\ 7 <= gap /\ gap \in Nat /\ serial' = serial /\ age' = age
      /\ lines'.csn = 1 /\ lines'.trigger = FALSE /\ lines'.wordEnd = FALSE
  BY <1>1, <1>2, EdgeIs
<1>6. Edges'
  <2>1. mcu'.pc # "written" /\ ~(1 <= Len(mcu'.words))
    BY <1>1, <1>2, <1>3
  <2>. QED
    BY <1>2, <1>3, <1>5, <2>1 DEF Edges
<1>7. Numbered'
  <2>1. serial.current = 0 /\ ~serial.selected
    BY <1>1, <1>5, NumbersStand
  <2>2. serial.current = Len(mcu'.words) /\ (serial.selected <=> 1 <= Len(mcu'.words))
    BY <1>1, <1>3, <2>1
  <2>. QED
    BY <1>1, <1>5, <2>2, EdgeNumbers
<1>8. /\ Filling => Filling'
      /\ \A q \in Nat : Still(q) => Still(q)'
  BY <1>1, <1>2, EdgeIs, NotMoved
<1>9. mcu'.pc = "poll" => Asking' /\ Answer'
  <2>1. mcu'.pc = "poll" => Filling \/ Still(0)
    BY <1>1, <1>2, <1>3 DEF Asking
  <2>2. 0 \in Nat
    OBVIOUS
  <2>. QED
    BY <1>8, <2>1, <2>2 DEF Asking, Answer
<1>10. mcu'.pc = "read" => \E e \in {0, 1} : ReadSince(e)'
  <2> SUFFICES ASSUME mcu.answer PROVE \E e \in {0, 1} : ReadSince(e)'
    BY <1>2, <1>3
  <2>1. ila.fsm = "READABLE" /\ serial.tx = Sample(0) /\ age = Span
    <3>1. 1 <= gap /\ 2 <= gap
      BY <1>5
    <3>. QED
      BY <1>1, <3>1 DEF Answer
  <2>2. PICK e \in {0, 1} : Still(e)
    BY <1>1, <2>1 DEF Asking, Filling, FillingAt
  <2>3. Still(e)' /\ e \in Nat
    BY <1>8, <2>2
  <2>4. Len(mcu'.words) = 0 /\ Span' = Span
    BY <1>1, <1>3 DEF Span
  <2>5. AfterEdge(e)'
    <3>1. gap' <= 2 /\ ~(gap' = 3) /\ ~(4 <= gap') /\ ~(e = Depth + 1)
      BY <1>5, ConstantsAre DEF Fits
    <3>. QED
      BY <2>3, <3>1 DEF AfterEdge
  <2>6. AfterEdge(Len(mcu.words) + e)'
    <3>1. 0 + e = e
      OBVIOUS
    <3>2. Len(mcu'.words) + e = e
      BY <2>4, <3>1
    <3>. QED
      BY <2>5, <3>2 DEF AfterEdge
  <2>7. WordsFrom(e)'
    BY <2>4 DEF WordsFrom
  <2>8. serial'.tx = WordOf(Len(mcu.words) + 1, e)'
    <3>1. Len(mcu'.words) + 1 = 1
      BY <2>4
    <3>. QED
      BY <1>1, <1>5, <2>1, <3>1 DEF WordOf, Sample
  <2>9. ReadSince(e)'
    BY <1>5, <2>1, <2>4, <2>6, <2>7, <2>8 DEF ReadSince
  <2>. QED
    BY <2>9
<1>. QED
  BY <1>1, <1>2, <1>3, <1>4, <1>6, <1>7, <1>9, <1>10 DEF IlaInv, IlaStage

\* A word is read, and the next one numbered.
LEMMA ReadWordHolds == ASSUME IlaInv, Fits, LongGap, ReadWord PROVE IlaInv'
<1>1. /\ IlaTypes /\ Edges /\ Numbered /\ mcu.pc = "read" /\ tests' = tests
      /\ lines.csn = 1 /\ Len(mcu.words) < mcu.size
  BY DEF IlaInv, ReadWord, Edges
<1>2. PICK e \in {0, 1} : ReadSince(e)
  BY <1>1 DEF IlaInv, IlaStage
<1>3. PICK k \in Nat : k = Len(mcu.words)
  BY <1>1, LenProperties DEF IlaTypes
<1>4. k < Depth /\ Depth \in Nat /\ mcu.size = Depth
  BY <1>1, <1>3, ConstantsAre DEF IlaTypes
<1>5. PICK word \in Samples : word = serial.tx
  BY <1>1 DEF IlaTypes
<1>6. PICK ws \in Seq(Samples) : ws = Append(mcu.words, word)
  BY <1>1, AppendProperties DEF IlaTypes
<1>7. /\ Edge(1, FALSE, TRUE) /\ mcu' = [mcu EXCEPT !.words = ws]
  BY <1>5, <1>6 DEF ReadWord
<1>8. /\ Len(ws) = k + 1 /\ ws[k + 1] = word
      /\ \A j \in 1 .. k : ws[j] = mcu.words[j]
  BY <1>1, <1>3, <1>6, AppendProperties DEF IlaTypes
<1>9. /\ mcu' \in [pc : TestStages, size : Nat, answer : BOOLEAN, words : Seq(Samples)]
      /\ mcu'.pc = "read" /\ mcu'.size = mcu.size /\ mcu'.words = ws
  BY <1>1, <1>7 DEF IlaTypes, TestStages
<1>10. IlaTypes'
  <2>1. Len(mcu'.words) <= mcu'.size /\ mcu'.size = Depth
    BY <1>4, <1>8, <1>9
  <2>. QED
    BY <1>1, <1>7, <1>9, <2>1, EdgeTypes DEF IlaTypes
<1>11. /\ gap = Gap /\ gap' = 0 /\ 7 <= gap /\ gap \in Nat /\ serial' = serial /\ age' = age
       /\ lines'.csn = 1 /\ lines'.trigger = FALSE /\ lines'.wordEnd = TRUE
       /\ ila' = ila /\ fifo' = fifo
  BY <1>1, <1>7, EdgeIs
<1>12. Edges'
  <2>1. 1 <= Len(mcu'.words)
    BY <1>8, <1>9
  <2>. QED
    BY <1>9, <1>11, <2>1 DEF Edges
<1>13. Numbered'
  <2>1. serial.current = k + 1 /\ serial.selected
    BY <1>1, <1>3, <1>11, NumbersStand
  <2>2. serial.current = Len(mcu'.words) /\ (serial.selected <=> 1 <= Len(mcu'.words))
    BY <1>8, <1>9, <2>1
  <2>. QED
    BY <1>1, <1>11, <2>2, EdgeNumbers
<1>14. PICK q \in Nat : q = k + e
  OBVIOUS
<1>15. age = Span /\ AfterEdge(q) /\ WordsFrom(e) /\ word = WordOf(k + 1, e)
  <2>1. k < Depth /\ 1 <= gap
    BY <1>4, <1>11
  <2>. QED
    BY <1>2, <1>3, <1>5, <1>14, <2>1 DEF ReadSince
<1>16. PICK r \in Nat : r = q + 1
  OBVIOUS
<1>17. AfterEdge(r)'
  <2>1. CASE q < Depth
    <3>1. Still(r)
      <4>1. 4 <= gap
        BY <1>11
      <4>. QED
        BY <1>15, <1>16, <2>1, <4>1 DEF AfterEdge
    <3>2. Still(r)'
      BY <1>1, <1>11, <3>1, NotMoved
    <3>3. ~(gap' = 3) /\ ~(4 <= gap') /\ ~(r = Depth + 1)
      BY <1>4, <1>11, <1>16, <2>1
    <3>. QED
      BY <3>2, <3>3 DEF AfterEdge
  <2>2. CASE ~(q < Depth)
    <3>1. q = Depth
      BY <1>4, <1>14, <2>2
    <3>2. Quiet
      <4>1. 4 <= gap /\ (IF 7 <= gap THEN 4 ELSE gap - 3) = 4
        BY <1>11
      <4>. QED
        BY <1>15, <3>1, <4>1 DEF AfterEdge, Quiet
    <3>3. Quiet'
      BY <1>11, <3>2, NotMoved
    <3>4. ~(r <= Depth) /\ ~(r < Depth) /\ ~(r = Depth)
      BY <1>4, <1>16, <3>1
    <3>. QED
      BY <3>3, <3>4 DEF AfterEdge
  <2>. QED
    BY <2>1, <2>2
<1>18. AfterEdge(Len(mcu.words) + e)'
  <2>1. Len(mcu'.words) + e = r
    BY <1>8, <1>9, <1>14, <1>16
  <2>. QED
    BY <1>17, <2>1 DEF AfterEdge
<1>19. WordsFrom(e)'
  <2>1. \A j \in 1 .. k + 1 : ws[j] = WordOf(j, e)
    <3> SUFFICES ASSUME NEW j \in 1 .. k + 1 PROVE ws[j] = WordOf(j, e)
      OBVIOUS
    <3>1. CASE j <= k
      <4>1. j \in 1 .. k
        BY <3>1
      <4>. QED
        BY <1>3, <1>8, <1>15, <4>1 DEF WordsFrom
    <3>2. CASE ~(j <= k)
      <4>1. j = k + 1
        BY <3>2
      <4>. QED
        BY <1>8, <1>15, <4>1
    <3>. QED
      BY <3>1, <3>2
  <2>. QED
    BY <1>1, <1>8, <1>9, <2>1 DEF WordsFrom, WordOf, Sample
<1>20. ReadSince(e)'
  <2>1. ~(Len(mcu'.words) = 0) /\ ~(1 <= gap')
    BY <1>8, <1>9, <1>11
  <2>. QED
    BY <1>11, <1>15, <1>18, <1>19, <2>1 DEF ReadSince, Span
<1>. QED
  BY <1>9, <1>10, <1>12, <1>13, <1>20 DEF IlaInv, IlaStage

\* The last word of the test was the last of the capture.
LEMMA EndReadHolds == ASSUME IlaInv, Fits, LongGap, EndRead PROVE IlaInv'
<1>1. /\ IlaTypes /\ Numbered /\ mcu.pc = "read" /\ tests' = tests /\ Len(mcu.words) = mcu.size
  BY DEF IlaInv, EndRead
<1>2. PICK e \in {0, 1} : ReadSince(e)
  BY <1>1 DEF IlaInv, IlaStage
<1>3. Edge(0, FALSE, FALSE) /\ mcu' = [mcu EXCEPT !.pc = "idle"]
  BY DEF EndRead
<1>4. /\ mcu' \in [pc : TestStages, size : Nat, answer : BOOLEAN, words : Seq(Samples)]
      /\ mcu'.pc = "idle" /\ mcu'.size = mcu.size /\ mcu'.words = mcu.words
  BY <1>1, <1>3 DEF IlaTypes, TestStages
<1>5. IlaTypes'
  BY <1>1, <1>3, <1>4, EdgeTypes DEF IlaTypes
<1>6. Edges' /\ Numbered'
  BY <1>1, <1>3, <1>4, EdgeIs, EdgeNumbers DEF Edges
<1>7. Quiet
  <2>1. 7 <= gap /\ gap \in Nat
    BY <1>1, <1>3, EdgeIs
  <2>2. Len(mcu.words) = Depth /\ Depth \in Nat
    BY <1>1, ConstantsAre DEF IlaTypes
  <2>3. PICK q \in Nat : q = Depth + e
    BY <2>2
  <2>4. AfterEdge(q)
    BY <1>2, <2>2, <2>3 DEF ReadSince
  <2>5. (q = Depth \/ q = Depth + 1) /\ 4 <= gap /\ (IF 7 <= gap THEN 4 ELSE gap - 3) = 4
    BY <2>1, <2>2, <2>3
  <2>. QED
    BY <2>4, <2>5 DEF AfterEdge, Quiet
<1>8. Quiet'
  BY <1>1, <1>3, <1>7, EdgeIs, NotMoved
<1>9. WordsFrom(e)'
  BY <1>1, <1>2, <1>4 DEF ReadSince, WordsFrom, WordOf, Sample
<1>. QED
  BY <1>4, <1>5, <1>6, <1>8, <1>9 DEF IlaInv, IlaStage

-----------------------------------------------------------------------------
LEMMA IlaInitHolds == ASSUME IlaInit, Fits, LongGap PROVE IlaInv
<1>1. /\ ila = [fsm |-> "IDLE", complete |-> FALSE, rEn |-> FALSE, wEn |-> FALSE,
                wData |-> NoSample, captured |-> NoSample]
      /\ fifo = EmptyFifo(NoSample)
      /\ serial = [selected |-> TRUE, current |-> 0, number |-> 0, past |-> 0, tx |-> NoSample]
      /\ lines = [csn |-> 1, trigger |-> FALSE, wordEnd |-> FALSE]
      /\ mcu = [pc |-> "idle", size |-> 0, answer |-> FALSE, words |-> <<>>]
      /\ tests = 0 /\ age = Span /\ gap = Gap
  BY DEF IlaInit
<1>2. NoSample \in Samples
  BY ConstantsAre DEF NoSample, Samples
<1>3. <<>> \in Seq(Samples) /\ Len(<<>>) = 0
  BY EmptySeq
<1>4. <<0, 0, 0, 0>> \in Seq(Bit01) /\ Len(<<0, 0, 0, 0>>) = 4 /\ \A i \in 1 .. 4 : <<0, 0, 0, 0>>[i] = 0
  BY DEF Bit01
<1>5. /\ FifoOf(Samples, fifo) /\ ~fifo.rRdy /\ Len(fifo.store) = 0 /\ fifo.pushed[1] = 0 /\ fifo.pushed[2] = 0
      /\ \A i \in 1 .. 4 : fifo.popped[i] = 0 /\ fifo.held[i] = 0
  BY <1>1, <1>2, <1>3, <1>4 DEF FifoOf, EmptyFifo, Bit01
<1>6. Quiet
  BY <1>1, <1>5 DEF Quiet, Drained
<1>7. 0 \in WordNumbers /\ gap \in Nat /\ 7 <= gap
  BY <1>1, ConstantsAre DEF Fits, WordNumbers, LongGap
<1>8. IlaTypes
  BY <1>1, <1>2, <1>3, <1>5, <1>7, ConstantsAre DEF IlaTypes, TestStages
<1>9. Edges /\ Numbered
  BY <1>1, <1>7 DEF Edges, Numbered
<1>10. WordsFrom(0)
  BY <1>1, <1>3 DEF WordsFrom
<1>. QED
  BY <1>1, <1>6, <1>8, <1>9, <1>10 DEF IlaInv, IlaStage

LEMMA IlaStep ==
  ASSUME IlaInv, Fits, WholeTests, LongGap, [IlaNext]_ilaVars
  PROVE  IlaInv'
<1>1. CASE Clock
  BY <1>1, ClockHolds
<1>2. CASE Test
  BY <1>2, TriggerHolds, EndWriteHolds, StartPollHolds, PollHolds, EndPollHolds, ReadWordHolds,
     EndReadHolds, RegisterHolds DEF Test
<1>3. CASE StartWrite \/ StartRegister
  BY <1>3, StartWriteHolds, RegisterHolds
<1>4. CASE UNCHANGED ilaVars
  <2>1. /\ ila' = ila /\ fifo' = fifo /\ serial' = serial /\ lines' = lines
        /\ mcu' = mcu /\ tests' = tests /\ age' = age /\ gap' = gap
    BY <1>4 DEF ilaVars
  <2>2. IlaTypes'
    BY <2>1 DEF IlaInv, IlaTypes
  <2>3. Edges' /\ Numbered'
    BY <2>1 DEF IlaInv, Edges, Numbered
  <2>4. /\ Quiet' <=> Quiet
        /\ Filling' <=> Filling
    BY <2>1 DEF Quiet, Drained, Filling, FillingAt, Stored, Sample
  <2>5. /\ Still(0)' <=> Still(0)
        /\ Still(1)' <=> Still(1)
        /\ Taking(1)' <=> Taking(1)
    BY <2>1 DEF Still, Taking, Full, Stored, Sample
  <2>6. (Asking' <=> Asking) /\ (Answer' <=> Answer)
    BY <2>1, <2>4, <2>5 DEF Asking, Answer, Sample
  <2>7. ASSUME NEW e \in {0, 1} PROVE (ReadSince(e)' <=> ReadSince(e)) /\ (WordsFrom(e)' <=> WordsFrom(e))
    BY <2>1 DEF ReadSince, AfterEdge, Still, Taking, Full, Stored, Sample, Quiet, Drained, WordsFrom, WordOf
  <2>8. IlaStage'
    BY <2>1, <2>4, <2>5, <2>6, <2>7 DEF IlaInv, IlaStage
  <2>. QED
    BY <2>2, <2>3, <2>8 DEF IlaInv
<1>. QED
  BY <1>1, <1>2, <1>3, <1>4 DEF IlaNext

LEMMA InOrderFollows == ASSUME IlaInv, Fits PROVE InOrder
<1>1. PICK e \in {0, 1} : WordsFrom(e)
  <2>1. mcu.pc \in {"idle", "register"} => \E e \in {0, 1} : WordsFrom(e)
    BY DEF IlaInv, IlaStage
  <2>2. mcu.pc = "read" => \E e \in {0, 1} : WordsFrom(e)
    BY DEF IlaInv, IlaStage, ReadSince
  <2>3. Len(mcu.words) = 0 => WordsFrom(0)
    BY DEF WordsFrom
  <2>. QED
    BY <2>1, <2>2, <2>3 DEF IlaInv, IlaStage, IlaTypes, TestStages
<1>2. CASE e = 1
  <2>1. \A j \in 1 .. Len(mcu.words) : (IF j = 1 THEN 0 ELSE j + e - 2) = j - 1
    BY <1>2
  <2>. QED
    BY <1>1, <2>1 DEF WordsFrom, WordOf, InOrder
<1>3. CASE e = 0
  <2>1. \A j \in 1 .. Len(mcu.words) : (IF j = 1 THEN 0 ELSE j + e - 2) = (IF j = 1 THEN 0 ELSE j - 2)
    BY <1>3
  <2>. QED
    BY <1>1, <2>1 DEF WordsFrom, WordOf, InOrder
<1>. QED
  BY <1>2, <1>3

\* What the FIFO holds fits in it, and it sees no word that is not there.
Fine == Len(fifo.store) + Flag(fifo.rRdy) <= Depth + 1 /\ Visible(fifo) >= 0

LEMMA QuietIsFine == ASSUME Fits, NEW z \in 1 .. 4, Drained(z) PROVE Fine
BY ConstantsAre DEF Drained, Fine, Flag, Visible, Fits

LEMMA FillingIsFine == ASSUME Fits, age \in Nat, Filling PROVE Fine
<1>1. age <= Depth + 1 /\ (fifo.rRdy <=> (5 <= age)) /\ Len(fifo.store) = SamplesIn(age) - Flag(5 <= age)
      /\ fifo.pushed[1] = Flag(2 <= age) /\ fifo.pushed[2] = Flag(3 <= age)
  BY DEF Filling, FillingAt, Stored
<1>2. Depth \in Nat /\ 6 <= Depth
  BY ConstantsAre DEF Fits
<1>. QED
  BY <1>1, <1>2 DEF Fine, Flag, Visible, SamplesIn

\* A word is on its way to the reading side only while many are left.
LEMMA FullIsFine ==
  ASSUME IlaTypes, Fits, NEW q \in Nat, q <= Depth, q <= 1 \/ age = Span, Still(q) \/ Taking(q + 1)
  PROVE  Fine
<1>1. Depth \in Nat /\ 6 <= Depth /\ Span = Depth + 4 /\ age \in Nat
  BY ConstantsAre DEF Fits, IlaTypes
<1>2. fifo.rRdy /\ Len(fifo.store) = Depth - q
  <2>1. Still(q) => fifo.rRdy /\ Len(fifo.store) = (Depth + 1) - (q + 1)
    BY DEF Still, Full, Stored
  <2>2. Taking(q + 1) => fifo.rRdy /\ Len(fifo.store) = (Depth + 1) - (q + 1)
    BY DEF Taking, Full, Stored
  <2>3. (Depth + 1) - (q + 1) = Depth - q
    BY <1>1
  <2>. QED
    BY <2>1, <2>2, <2>3
<1>3. fifo.pushed[1] \in {0, 1} /\ fifo.pushed[2] \in {0, 1}
  BY DEF IlaTypes, FifoOf, Bit01
<1>4. age = Span => fifo.pushed[1] = 0 /\ fifo.pushed[2] = 0
  <2>1. Full
    BY DEF Still, Taking
  <2>. QED
    BY <1>1, <2>1 DEF Full
<1>. QED
  BY <1>1, <1>2, <1>3, <1>4 DEF Fine, Flag, Visible

LEMMA EdgeIsFine == ASSUME IlaTypes, Fits, NEW q \in Nat, q <= Depth + 1, age = Span, AfterEdge(q) PROVE Fine
<1>1. Depth \in Nat /\ gap \in Nat
  BY ConstantsAre DEF IlaTypes
<1>2. CASE q <= Depth /\ gap <= 3
  <2>1. Still(q) \/ Taking(q + 1)
    BY <1>1, <1>2 DEF AfterEdge
  <2>. QED
    BY <1>2, <2>1, FullIsFine
<1>3. CASE q < Depth /\ 4 <= gap
  <2>1. PICK r \in Nat : r = q + 1
    OBVIOUS
  <2>2. r <= Depth /\ Still(r)
    BY <1>1, <1>3, <2>1 DEF AfterEdge
  <2>. QED
    BY <2>1, <2>2, FullIsFine
<1>4. CASE q = Depth /\ 4 <= gap
  <2>1. PICK z \in 1 .. 4 : z = IF 7 <= gap THEN 4 ELSE gap - 3
    BY <1>1, <1>4
  <2>2. Drained(z)
    BY <1>4, <2>1 DEF AfterEdge
  <2>. QED
    BY <2>2, QuietIsFine
<1>5. CASE q = Depth + 1
  BY <1>5, QuietIsFine DEF AfterEdge, Quiet
<1>. QED
  BY <1>1, <1>2, <1>3, <1>4, <1>5

LEMMA AlwaysFine == ASSUME IlaInv, Fits PROVE Fine
<1>1. IlaTypes /\ IlaStage /\ age \in Nat /\ Depth \in Nat
  BY ConstantsAre DEF IlaInv, IlaTypes
<1>2. Quiet => Fine
  BY QuietIsFine DEF Quiet
<1>3. Filling => Fine
  BY <1>1, FillingIsFine
<1>4. Still(0) \/ Still(1) \/ Taking(1) => Fine
  <2>1. ASSUME NEW q \in {0, 1}, Still(q) \/ Taking(q + 1) PROVE Fine
    <3>1. q \in Nat /\ q <= Depth /\ q <= 1
      BY <1>1 DEF Fits
    <3>. QED
      BY <1>1, <2>1, <3>1, FullIsFine
  <2>2. 0 + 1 = 1
    OBVIOUS
  <2>. QED
    BY <2>1, <2>2
<1>5. mcu.pc = "read" => Fine
  <2> SUFFICES ASSUME mcu.pc = "read" PROVE Fine
    OBVIOUS
  <2>1. PICK e \in {0, 1} : ReadSince(e)
    BY <1>1 DEF IlaStage
  <2>2. Len(mcu.words) \in Nat /\ Len(mcu.words) <= Depth
    BY <1>1, LenProperties DEF IlaTypes
  <2>3. PICK q \in Nat : q = Len(mcu.words) + e
    BY <2>2
  <2>4. q <= Depth + 1
    BY <1>1, <2>2, <2>3
  <2>. QED
    BY <1>1, <2>1, <2>3, <2>4, EdgeIsFine DEF ReadSince
<1>. QED
  BY <1>1, <1>2, <1>3, <1>4, <1>5 DEF IlaStage, IlaTypes, TestStages, Asking

LEMMA TypesFollow == ASSUME IlaInv, Fits PROVE IlaTypeOK
<1>1. IlaTypes /\ Fine
  BY AlwaysFine DEF IlaInv
<1>2. fifo.store \in Seq(Samples) /\ fifo.rData \in Samples /\ fifo.rRdy \in BOOLEAN
  BY <1>1 DEF IlaTypes, FifoOf
<1>3. Len(Inside(fifo)) <= Depth + 1
  <2>1. PICK front \in Seq(Samples) : front = (IF fifo.rRdy THEN <<fifo.rData>> ELSE <<>>)
    <3>1. <<fifo.rData>> \in Seq(Samples) /\ <<>> \in Seq(Samples)
      BY <1>2
    <3>. QED
      BY <3>1
  <2>2. Len(front) = Flag(fifo.rRdy)
    <3>1. CASE fifo.rRdy
      BY <2>1, <3>1 DEF Flag
    <3>2. CASE ~fifo.rRdy
      BY <2>1, <3>2 DEF Flag
    <3>. QED
      BY <3>1, <3>2
  <2>3. Len(front \o fifo.store) = Len(front) + Len(fifo.store)
    BY <1>2, <2>1, ConcatProperties
  <2>4. Inside(fifo) = front \o fifo.store
    BY <2>1 DEF Inside
  <2>5. Len(front) \in Nat /\ Len(fifo.store) \in Nat
    BY <1>2, <2>1, LenProperties
  <2>. QED
    BY <1>1, <2>2, <2>3, <2>4, <2>5 DEF Fine
<1>. QED
  BY <1>1, <1>2, <1>3 DEF IlaTypes, IlaTypeOK, Fine, WordNumbers

\* The words that test_fifo reads are the samples of its own capture, from the trigger
\* on, whenever the MCU polls and however long it takes (test3_fast_fifo_ila_gui.py,
\* mcu_firmware/source/main.py).
THEOREM WordsInOrder == Fits /\ WholeTests /\ LongGap => (IlaSpec => []InOrder)
<1> SUFFICES ASSUME Fits, WholeTests, LongGap PROVE IlaSpec => []InOrder
  OBVIOUS
<1>1. IlaInit => IlaInv
  BY IlaInitHolds
<1>2. IlaInv /\ [IlaNext]_ilaVars => IlaInv'
  BY IlaStep
<1>3. IlaInv => InOrder
  BY InOrderFollows
<1>. QED
  BY <1>1, <1>2, <1>3, PTL DEF IlaSpec
=============================================================================
