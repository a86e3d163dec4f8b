----------------------------- MODULE FifoBuffer -----------------------------
(***************************************************************************)
(* AsyncFIFOBuffered_SDRAMtest (test6_modified_ila_with_sdram_fifo.py): a  *)
(* FIFO of the SDRAM controller, behind a register that holds the word the *)
(* reader is offered.  The controller is not part of the repository: it    *)
(* takes words while it has room, and shows them to the reader in order,   *)
(* each after a time of its own (it writes them to the SDRAM and reads     *)
(* them back).  A step is a clock of the writing side, a clock of the      *)
(* reading side, or a word shown.                                          *)
(***************************************************************************)
EXTENDS Integers, Sequences

CONSTANTS
  Word, NoWord,   \* what is written, and what never is
  CoreSize        \* words the FIFO of the controller holds

ASSUME FifoBufferAssumption == CoreSize \in Nat \ {0} /\ NoWord \notin Word

VARIABLES
  core,       \* the words in the controller
  shown,      \* how many of them it shows to the reader
  rRdy, rData, rLevel,
  taken       \* history: the last word the reader took

bufferVars == <<core, shown, rRdy, rData, rLevel, taken>>

FifoBufferInit ==
  /\ core = <<>> /\ shown = 0
  /\ rRdy = 0 /\ rData = NoWord /\ rLevel = 0 /\ taken = NoWord

WriteWordIn(w) ==
  /\ Len(core) < CoreSize
  /\ core' = Append(core, w)
  /\ UNCHANGED <<shown, rRdy, rData, rLevel, taken>>

ShowWord ==
  /\ shown < Len(core)
  /\ shown' = shown + 1
  /\ UNCHANGED <<core, rRdy, rData, rLevel, taken>>

\* Faulty variant of Wanted: the register is only filled when it is read.
WantedByReader(rEn) == rEn = 1
\* Faulty variant of Wanted: always.
WantedAlways(rEn) == rRdy \in {0, 1}
Wanted(rEn) == rEn = 1 \/ rRdy = 0

\* What r_level adds for the word in the register.
\* Faulty variant of Consumed: the word being read counts as well.
ConsumedLater(rEn) == rRdy
Consumed(rEn) == IF rRdy = 1 /\ rEn = 0 THEN 1 ELSE 0

\* The register takes a word, and what the reader sees says whether it is one.
Fetch(rEn) ==
  /\ Wanted(rEn)
  /\ rRdy' = (IF shown > 0 THEN 1 ELSE 0)
  /\ IF shown > 0
     THEN rData' = Head(core) /\ core' = Tail(core) /\ shown' = shown - 1
     ELSE UNCHANGED <<rData, core, shown>>   \* not a word: whatever the controller gives

Keep(rEn) == ~Wanted(rEn) /\ UNCHANGED <<rRdy, rData, core, shown>>

ReadClock(rEn) ==
  /\ rLevel' = shown + Consumed(rEn)
  /\ taken' = IF rEn = 1 /\ rRdy = 1 THEN rData ELSE taken
  /\ Fetch(rEn) \/ Keep(rEn)

FifoBufferNext ==
  \/ \E w \in Word : WriteWordIn(w)
  \/ ShowWord
  \/ \E rEn \in {0, 1} : ReadClock(rEn)

\* The controller does show what it took; the clock of the reader runs, and
\* nothing says that the reader ever asks.
FifoBufferFair == WF_bufferVars(ShowWord) /\ WF_bufferVars(ReadClock(0))
FifoBufferSpec == FifoBufferInit /\ [][FifoBufferNext]_bufferVars /\ FifoBufferFair

-----------------------------------------------------------------------------
Contents == (IF rRdy = 1 THEN <<rData>> ELSE <<>>) \o core

FifoBufferTypeOK ==
  /\ core \in Seq(Word) /\ Len(core) <= CoreSize
  /\ shown \in 0 .. Len(core)
  /\ rRdy \in {0, 1} /\ rData \in Word \cup {NoWord} /\ rLevel \in Nat
  /\ taken \in Word \cup {NoWord}
  /\ rRdy = 1 => rData \in Word

\* With its register the buffer is still one FIFO, of one word more: every word is
\* taken once, in order, and r_level, though a register too, never promises one
\* that is not there (test6_modified_ila_with_sdram_fifo.py:309).
Fifo == INSTANCE WordFifo WITH
  queue <- Contents, taken <- taken, level <- rLevel, Size <- CoreSize + 1
BufferImplements == Fifo!WordFifoSpec

\* The first word to come is offered though nobody has asked yet: the reader
\* waits for r_rdy before it reads (line 317).
WordsAreOffered == Contents # <<>> ~> rRdy = 1
=============================================================================
