------------------------------ MODULE FifoSim ------------------------------
(***************************************************************************)
(* write_into_fifo and read_from_fifo, the processes that put words into a *)
(* FIFO of the SDRAM controller and take them out again in the simulation  *)
(* (sdram_tests of test1_simulation.py).  The writer stops for good when   *)
(* the FIFO is full or its counter has run out; the reader starts 13 us    *)
(* after it, takes a word in each of its clocks, and stops when fully_read *)
(* says that there is none.  A process sees what the gateware has after    *)
(* the edge, and what it sets is taken at the next.  The controller is     *)
(* external: it has a word ready at any clock it likes.                    *)
(***************************************************************************)
EXTENDS Integers, Sequences

CONSTANTS
  LastCount,   \* 0x100
  HeadStart,   \* clocks of the writer in 13 us (520)
  FifoSizes    \* words the FIFO may hold

ASSUME FifoSimAssumption == LastCount \in Nat /\ HeadStart \in Nat /\ FifoSizes \subseteq Nat \ {0}

VARIABLES
  turn,     \* edge that comes next: two of the reader to one of the writer
  size, stored, offered,   \* the FIFO and what it shows of its first word
  writer, reader

fifoSimVars == <<turn, size, stored, offered, writer, reader>>

FifoSimInit ==
  /\ turn = 0 /\ size \in FifoSizes /\ stored = <<>> /\ offered = FALSE
  /\ writer = [on |-> TRUE, count |-> -1, w_en |-> FALSE]
  /\ reader = [on |-> TRUE, wait |-> HeadStart, last |-> -1, i |-> 0]

-----------------------------------------------------------------------------
\* Faulty variant of WithinCount: the counter does not end it.
WithinSize == writer.count >= -1
WithinCount == writer.count <= LastCount

\* data is write_counter, with the number of the FIFO above it.
WriteEdge ==
  /\ turn = 0
  /\ LET after == IF writer.w_en THEN Append(stored, writer.count % 2^12) ELSE stored
         goesOn == writer.on /\ Len(after) < size /\ WithinCount
     IN /\ stored' = after
        /\ writer' = IF goesOn
                     THEN [on |-> TRUE, count |-> writer.count + 1, w_en |-> TRUE]
                     ELSE [writer EXCEPT !.on = FALSE, !.w_en = FALSE]
  /\ turn' = 1 /\ UNCHANGED <<size, offered, reader>>

Delayed13us ==
  /\ reader.wait > 0
  /\ reader' = [reader EXCEPT !.wait = IF turn = 2 THEN @ - 1 ELSE @]
  /\ UNCHANGED <<stored, offered>>

ReadsWord ==
  /\ reader.wait = 0 /\ reader.on
  /\ LET after == IF offered THEN Tail(stored) ELSE stored IN
     /\ stored' = after
     /\ offered' \in {FALSE, after # <<>>}
     /\ reader' = [reader EXCEPT
          !.on   = after # <<>>,   \* fully_read
          !.last = IF offered' THEN Head(after) ELSE @,
          !.i    = IF offered' THEN @ + 1 ELSE @]

ReadEdge ==
  /\ turn > 0
  /\ Delayed13us \/ ReadsWord
  /\ turn' = (turn + 1) % 3 /\ UNCHANGED <<size, writer>>

FifoSimNext == WriteEdge \/ ReadEdge
FifoSimSpec == FifoSimInit /\ [][FifoSimNext]_fifoSimVars

-----------------------------------------------------------------------------
FifoSimTypeOK ==
  /\ turn \in 0 .. 2 /\ size \in FifoSizes /\ offered \in BOOLEAN
  /\ stored \in Seq(0 .. 2^12 - 1) /\ Len(stored) <= size
  /\ writer.count \in -1 .. LastCount + 1 /\ reader.wait \in 0 .. HeadStart /\ reader.i \in Nat

\* The words come out as they were written, each one more than the one before
\* (the delta that is printed, test1_simulation.py:317), and the reader does not
\* take the FIFO for fully read while the writer, at half its speed, is still
\* writing: its head start is long enough for what the counter allows.
AllReadInOrder ==
  /\ reader.i > 0 => reader.last = reader.i - 1
  /\ ~reader.on => ~writer.on /\ ~writer.w_en /\ stored = <<>> /\ reader.i = writer.count + 1
=============================================================================
