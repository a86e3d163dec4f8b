------------------------------ MODULE WordFifo ------------------------------
(***************************************************************************)
(* What a FIFO promises: words are taken in the order they were put, each  *)
(* once, no more than Size are inside, and the reader is never told of     *)
(* more than there are.                                                    *)
(***************************************************************************)
EXTENDS Integers, Sequences

CONSTANTS Word, NoWord, Size

VARIABLES
  queue,    \* the words inside
  taken,    \* the last word taken
  level     \* how many the reader is told of

WordFifoInit == queue = <<>> /\ taken = NoWord /\ level = 0

Put(w) == Len(queue) < Size /\ queue' = Append(queue, w) /\ UNCHANGED <<taken, level>>
Count  == level' \in 0 .. Len(queue) /\ UNCHANGED <<queue, taken>>
Take   ==
  /\ queue # <<>> /\ taken' = Head(queue) /\ queue' = Tail(queue)
  /\ level' \in 0 .. Len(queue')

WordFifoNext == Take \/ Count \/ \E w \in Word : Put(w)
WordFifoSpec == WordFifoInit /\ [][WordFifoNext]_<<queue, taken, level>>
=============================================================================
