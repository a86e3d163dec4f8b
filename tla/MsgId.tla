------------------------------- MODULE MsgId -------------------------------
(***************************************************************************)
(* Message identifiers of the IOT link and the record of identifiers that  *)
(* a receiver keeps to discard duplicates: gmid() and isnew() of           *)
(* mcu_firmware/source/iot/local.py (server.py holds identical copies).    *)
(*                                                                         *)
(* An identifier is one byte.  isnew() never uses it whole: it splits it   *)
(* into the byte of the 32-byte record it belongs to (mid >> 3) and a bit  *)
(* of that byte (mid & 7), so an identifier is modelled by that pair.  The *)
(* code's sizes are Half = 16 (bytes in half a record) and Bits = 8.       *)
(***************************************************************************)
EXTENDS Integers

CONSTANTS
  Half,  \* half the number of bytes of a receiver's record
  Bits   \* the number of identifiers that share a byte of the record

ASSUME HalfAssumption == Half \in Nat \ {0}
ASSUME BitsAssumption == Bits \in Nat \ {0, 1}

Idx == 0 .. 2 * Half - 1
Bit == 0 .. Bits - 1
Mid == [idx : Idx, bit : Bit]

\* Identifier 0: the first one of a sender that has just started.
Zero == [idx |-> 0, bit |-> 0]

\* Faulty variants, which the properties of the link must tell from NextMid:
\* the count is not reduced to a byte; it goes round to zero.
NextMidUnbounded(m) ==
  IF m.bit < Bits - 1 THEN [m EXCEPT !.bit = @ + 1] ELSE [idx |-> m.idx + 1, bit |-> 0]
NextMidToZero(m) ==
  IF m.bit < Bits - 1 THEN [m EXCEPT !.bit = @ + 1]
  ELSE [idx |-> (m.idx + 1) % (2 * Half), bit |-> 0]

\* The identifiers run 0, 1, 2, ..., 255, 1, 2, ...: zero is never used again.
NextMid(m) ==
  IF m.bit < Bits - 1 THEN [idx |-> m.idx, bit |-> m.bit + 1]
  ELSE IF m.idx < 2 * Half - 1 THEN [idx |-> m.idx + 1, bit |-> 0]
  ELSE [idx |-> 0, bit |-> 1]

-----------------------------------------------------------------------------
\* A record is, for each byte, the set of bits that are 1.
Record == [Idx -> SUBSET Bit]
EmptyRecord == [i \in Idx |-> {}]

\* The byte half a record away, (idx + 16) & 0x1f.
Opposite(i) == IF i < Half THEN i + Half ELSE i - Half

\* Faulty variants: no duplicate is recognised; old bits are never cleared.
IsNewAlways(mid, lst) == TRUE
NotedForGood(mid, lst) == [lst EXCEPT ![mid.idx] = @ \cup {mid.bit}]

\* What isnew(mid, lst) returns, and what it leaves in lst.
IsNew(mid, lst) == mid.bit \notin lst[mid.idx]
Noted(mid, lst) ==
  [lst EXCEPT ![mid.idx] = @ \cup {mid.bit}, ![Opposite(mid.idx)] = {}]

\* Faulty variant of Prepared: the record outlives the sender it is of.
PreparedNever(mid, lst) == lst

\* Both receivers clear the record before they look up identifier 0, which
\* says that the sender has power cycled.
Prepared(mid, lst) == IF mid = Zero THEN EmptyRecord ELSE lst

Accepts(mid, lst) == IsNew(mid, Prepared(mid, lst))
After(mid, lst)   == Noted(mid, Prepared(mid, lst))

-----------------------------------------------------------------------------
(***************************************************************************)
(* What the record may hold once m is the last identifier noted by a       *)
(* receiver that sees every identifier in turn (any number of times each): *)
(* in m's own byte no bit above m's, and nothing at all in the Half bytes  *)
(* that follow it, cyclically.  It makes the next identifier new.          *)
(***************************************************************************)
Ahead(i, j) == IF i <= j THEN j - i ELSE j + 2 * Half - i

Window(m, lst) ==
  /\ m.bit \in lst[m.idx]
  /\ \A b \in lst[m.idx] : b <= m.bit
  /\ \A j \in Idx : Ahead(m.idx, j) \in 1 .. Half => lst[j] = {}
=============================================================================
