---------------------------- MODULE MsgIdProofs ----------------------------
(***************************************************************************)
(* Facts about identifiers and the record of a receiver, for every size of *)
(* the record: a message is never taken for one seen long ago, a repeated  *)
(* message is recognised unless its identifier is zero.                    *)
(***************************************************************************)
EXTENDS MsgId, TLAPS

\* gmid() stays within a byte and never yields the same identifier twice in a
\* row, nor zero again.
LEMMA NextMidType ==
  ASSUME NEW m \in Mid
  PROVE  /\ NextMid(m) \in Mid
         /\ NextMid(m) # m
         /\ NextMid(m) # Zero
<1> USE HalfAssumption, BitsAssumption DEF Mid, Idx, Bit, NextMid, Zero
<1>1. m.idx \in 0 .. 2 * Half - 1 /\ m.bit \in 0 .. Bits - 1
  OBVIOUS
<1>2. CASE m.bit < Bits - 1
  BY <1>1, <1>2
<1>3. CASE ~(m.bit < Bits - 1) /\ m.idx < 2 * Half - 1
  BY <1>1, <1>3
<1>4. CASE ~(m.bit < Bits - 1) /\ ~(m.idx < 2 * Half - 1)
  BY <1>1, <1>4
<1>5. QED
  BY <1>2, <1>3, <1>4

\* Only the last identifier and zero have the same successor.
LEMMA NextMidInjective ==
  ASSUME NEW m \in Mid, NEW k \in Mid,
         m = Zero <=> k = Zero, NextMid(m) = NextMid(k)
  PROVE  m = k
<1> USE HalfAssumption, BitsAssumption DEF Mid, Idx, Bit
<1>1. /\ m = [idx |-> m.idx, bit |-> m.bit] /\ k = [idx |-> k.idx, bit |-> k.bit]
      /\ m.idx \in 0 .. 2 * Half - 1 /\ m.bit \in 0 .. Bits - 1
      /\ k.idx \in 0 .. 2 * Half - 1 /\ k.bit \in 0 .. Bits - 1
  OBVIOUS
<1>2. /\ NextMid(m).idx = NextMid(k).idx
      /\ NextMid(m).bit = NextMid(k).bit
  OBVIOUS
<1>3. (m.idx = 0 /\ m.bit = 0) <=> (k.idx = 0 /\ k.bit = 0)
  BY <1>1 DEF Zero
<1>4. m.idx = k.idx /\ m.bit = k.bit
  BY <1>1, <1>2, <1>3 DEF NextMid
<1>5. QED
  BY <1>1, <1>4

LEMMA RecordType ==
  ASSUME NEW m \in Mid, NEW lst \in Record
  PROVE  /\ EmptyRecord \in Record
         /\ Prepared(m, lst) \in Record
         /\ After(m, lst) \in Record
<1> USE HalfAssumption, BitsAssumption DEF Mid, Idx, Bit, Record
<1>1. EmptyRecord \in Record
  BY DEF EmptyRecord
<1>2. Prepared(m, lst) \in Record
  BY <1>1 DEF Prepared
<1>3. After(m, lst) \in Record
  BY <1>2 DEF After, Noted, Opposite
<1>4. QED
  BY <1>1, <1>2, <1>3

\* What isnew() leaves in the record.
LEMMA NotedValue ==
  ASSUME NEW m \in Mid, NEW lst \in Record
  PROVE  /\ Noted(m, lst)[m.idx] = lst[m.idx] \cup {m.bit}
         /\ \A j \in Idx : Ahead(m.idx, j) = Half => Noted(m, lst)[j] = {}
         /\ \A j \in Idx : j # m.idx /\ lst[j] = {} => Noted(m, lst)[j] = {}
<1> USE HalfAssumption, BitsAssumption DEF Mid, Idx, Bit, Record
<1>1. m.idx \in Idx /\ Opposite(m.idx) \in Idx /\ Opposite(m.idx) # m.idx
  BY DEF Opposite
<1>2. Noted(m, lst) = [lst EXCEPT ![m.idx] = @ \cup {m.bit}, ![Opposite(m.idx)] = {}]
  BY DEF Noted
<1>3. \A j \in Idx : Ahead(m.idx, j) = Half => j = Opposite(m.idx)
  BY <1>1 DEF Ahead, Opposite
<1>4. QED
  BY <1>1, <1>2, <1>3

\* The first identifier a receiver sees, and zero whenever it comes, is new.
LEMMA FirstIsNew ==
  ASSUME NEW m \in Mid, NEW lst \in Record, lst = EmptyRecord \/ m = Zero
  PROVE  Accepts(m, lst) /\ Window(m, After(m, lst))
<1>1. Prepared(m, lst) = EmptyRecord
  BY DEF Prepared
<1>2. EmptyRecord \in Record /\ m.idx \in Idx
  BY RecordType DEF Mid
<1>3. \A j \in Idx : EmptyRecord[j] = {}
  BY DEF EmptyRecord
<1>4. Accepts(m, lst)
  BY <1>1, <1>2, <1>3 DEF Accepts, IsNew
<1>5. After(m, lst)[m.idx] = {m.bit}
  BY <1>1, <1>2, <1>3, NotedValue DEF After
<1>6. \A j \in Idx : j # m.idx => After(m, lst)[j] = {}
  BY <1>1, <1>2, <1>3, NotedValue DEF After
<1>7. \A j \in Idx : Ahead(m.idx, j) \in 1 .. Half => j # m.idx
  BY <1>2, HalfAssumption DEF Ahead, Idx
<1>8. m.bit \in Int
  BY BitsAssumption DEF Mid, Bit
<1>9. QED
  BY <1>4, <1>5, <1>6, <1>7, <1>8 DEF Window

\* A message seen again is recognised, unless its identifier is zero.
LEMMA RepeatIsOld ==
  ASSUME NEW m \in Mid, NEW lst \in Record, m # Zero, Window(m, lst)
  PROVE  ~Accepts(m, lst) /\ Window(m, After(m, lst))
<1>1. Prepared(m, lst) = lst /\ m.idx \in Idx
  BY DEF Prepared, Mid
<1>2. ~Accepts(m, lst)
  BY <1>1 DEF Accepts, IsNew, Window
<1>3. After(m, lst)[m.idx] = lst[m.idx]
  <2>1. After(m, lst)[m.idx] = lst[m.idx] \cup {m.bit}
    BY <1>1, NotedValue DEF After
  <2>2. m.bit \in lst[m.idx]
    BY DEF Window
  <2>3. QED
    BY <2>1, <2>2
<1>4. \A j \in Idx : Ahead(m.idx, j) \in 1 .. Half => After(m, lst)[j] = {}
  <2> SUFFICES ASSUME NEW j \in Idx, Ahead(m.idx, j) \in 1 .. Half
               PROVE  After(m, lst)[j] = {}
    OBVIOUS
  <2>1. j # m.idx
    BY <1>1, HalfAssumption DEF Ahead, Idx
  <2>2. lst[j] = {}
    BY DEF Window
  <2>3. QED
    BY <1>1, <2>1, <2>2, NotedValue DEF After
<1>5. QED
  BY <1>2, <1>3, <1>4 DEF Window

\* The message after the last one seen is new, however often the identifiers
\* have gone round.
LEMMA NextIsNew ==
  ASSUME NEW m \in Mid, NEW lst \in Record, Window(m, lst)
  PROVE  Accepts(NextMid(m), lst) /\ Window(NextMid(m), After(NextMid(m), lst))
<1> DEFINE k == NextMid(m)
<1>1. k \in Mid /\ k # Zero
  BY NextMidType
<1>2. Prepared(k, lst) = lst /\ After(k, lst) = Noted(k, lst)
  BY <1>1 DEF Prepared, After
<1>3. /\ m.idx \in 0 .. 2 * Half - 1 /\ m.bit \in 0 .. Bits - 1
      /\ k.idx \in 0 .. 2 * Half - 1 /\ k.bit \in 0 .. Bits - 1
  BY <1>1 DEF Mid, Idx, Bit
<1>4. \/ k.idx = m.idx /\ k.bit = m.bit + 1
      \/ Ahead(m.idx, k.idx) = 1
  BY <1>3, HalfAssumption, BitsAssumption DEF NextMid, Ahead
<1>5. /\ \A b \in lst[k.idx] : b <= k.bit
      /\ k.bit \notin lst[k.idx]
  <2>1. CASE k.idx = m.idx /\ k.bit = m.bit + 1
    <3>1. \A b \in lst[m.idx] : b \in Int /\ b <= m.bit
      BY <1>3 DEF Window, Record, Idx, Bit
    <3>2. QED
      BY <2>1, <3>1, <1>3
  <2>2. CASE Ahead(m.idx, k.idx) = 1
    <3>1. lst[k.idx] = {}
      BY <2>2, <1>3, HalfAssumption DEF Window, Idx
    <3>2. QED
      BY <3>1
  <2>3. QED
    BY <1>4, <2>1, <2>2
<1>6. Accepts(k, lst)
  BY <1>2, <1>5 DEF Accepts, IsNew
<1>7. /\ k.bit \in After(k, lst)[k.idx]
      /\ \A b \in After(k, lst)[k.idx] : b <= k.bit
  BY <1>1, <1>2, <1>3, <1>5, NotedValue
<1>8. \A j \in Idx : Ahead(k.idx, j) \in 1 .. Half => After(k, lst)[j] = {}
  <2> SUFFICES ASSUME NEW j \in Idx, Ahead(k.idx, j) \in 1 .. Half
               PROVE  Noted(k, lst)[j] = {}
    BY <1>2
  <2>1. CASE Ahead(k.idx, j) = Half
    BY <1>1, <2>1, NotedValue
  <2>2. CASE Ahead(k.idx, j) # Half
    <3>1. Ahead(k.idx, j) \in 1 .. Half - 1 /\ j # k.idx
      BY <2>2, <1>3, HalfAssumption DEF Ahead, Idx
    <3>2. Ahead(m.idx, j) \in 1 .. Half
      BY <1>3, <1>4, <3>1, HalfAssumption DEF Ahead, Idx
    <3>3. lst[j] = {}
      BY <3>2 DEF Window
    <3>4. QED
      BY <1>1, <3>1, <3>3, NotedValue
  <2>3. QED
    BY <2>1, <2>2
<1>9. QED
  BY <1>6, <1>7, <1>8 DEF Window
=============================================================================
