----------------------------- MODULE AsyncFifo -----------------------------
(***************************************************************************)
(* AsyncFIFOBuffered of Amaranth with both sides in one clock domain, as   *)
(* the gateware uses it.  It is not part of the repository; netlists of    *)
(* designs with it are (e.g. tests2_feb2022/test3_fast_fifo_ila_gui_build/ *)
(* top.debug.v).                                                           *)
(*                                                                         *)
(* A word passes two synchronising registers before the reading side sees  *)
(* it, a freed place two before the writing side does.  The words are held *)
(* in the order they came, and one more in the register that gives them    *)
(* out.  A FIFO is a record:                                               *)
(*   store                  the words, without the one given out           *)
(*   pushed, popped, held   what happened in the last clocks, latest first *)
(*   rRdy, rData, rLevel    the reading side                               *)
(***************************************************************************)
LOCAL INSTANCE Integers
LOCAL INSTANCE Sequences

Flag(p) == IF p THEN 1 ELSE 0

EmptyFifo(word) ==
  [store |-> <<>>, pushed |-> <<0, 0>>, popped |-> <<0, 0, 0, 0>>, held |-> <<0, 0, 0, 0>>,
   rRdy |-> FALSE, rData |-> word, rLevel |-> 0]

\* What the reading side may take, and what the writing side knows.
Visible(f) == Len(f.store) - f.pushed[1] - f.pushed[2]
WRdy(f, size) == Len(f.store) + f.popped[1] + f.popped[2] < size
WLevel(f) ==
  Len(f.store) - f.pushed[1] + f.popped[1] + f.popped[2] + f.popped[3] + f.popped[4] + f.held[4]

\* What the FIFO holds, given a clock with these inputs.
AfterClock(f, size, wEn, wData, rEn) ==
  LET take == rEn \/ ~f.rRdy
      push == wEn /\ WRdy(f, size)
      pop  == take /\ Visible(f) > 0
      left == IF pop THEN Tail(f.store) ELSE f.store
      kept == Flag(f.rRdy /\ ~rEn)
  IN [store  |-> IF push THEN Append(left, wData) ELSE left,
      pushed |-> <<Flag(push), f.pushed[1]>>,
      popped |-> <<Flag(pop)>> \o SubSeq(f.popped, 1, 3),
      held   |-> <<kept>> \o SubSeq(f.held, 1, 3),
      rRdy   |-> IF take THEN pop ELSE TRUE,
      rData  |-> IF pop THEN Head(f.store) ELSE f.rData,
      rLevel |-> Visible(f) + kept]

\* The words inside, the next one to be given out first.
Inside(f) == (IF f.rRdy THEN <<f.rData>> ELSE <<>>) \o f.store
=============================================================================
