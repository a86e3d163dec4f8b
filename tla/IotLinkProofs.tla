--------------------------- MODULE IotLinkProofs ---------------------------
(***************************************************************************)
(* The link: its types, its inductive invariant IInv and what follows from *)
(* it, for every size of the record of identifiers, of the queue and of    *)
(* every bound.  What a step does to LinkInv is proved first for one       *)
(* direction, whichever it is: n and mid are the number and the identifier *)
(* of the writer's last message, pend the identifiers whose ACK is         *)
(* awaited, h the last message held by the other end, out the stream from  *)
(* the writer, back the stream to it, tasks the ACKs that the other end    *)
(* has not sent yet.                                                       *)
(***************************************************************************)
EXTENDS IotLinkInv, MsgIdProofs


LEMMA AppendedFacts ==
  ASSUME NEW S, NEW s \in Seq(S), NEW e \in S
  PROVE  /\ Len(Append(s, e)) = Len(s) + 1 /\ Append(s, e)[Len(s) + 1] = e
         /\ \A i \in 1 .. Len(s) : Append(s, e)[i] = s[i]
         /\ Len(s) \in Nat /\ Append(s, e) # <<>>
         /\ s # <<>> => Len(s) \in 1 .. Len(s) /\ 1 \in 1 .. Len(s)
<1>1. /\ Len(Append(s, e)) = Len(s) + 1 /\ Append(s, e)[Len(s) + 1] = e
      /\ \A i \in 1 .. Len(s) : Append(s, e)[i] = s[i]
      /\ Len(s) \in Nat
  OBVIOUS
<1>2. Append(s, e) # <<>>
  BY <1>1
<1>3. s # <<>> => Len(s) \in 1 .. Len(s) /\ 1 \in 1 .. Len(s)
  OBVIOUS
<1>4. QED
  BY <1>1, <1>2, <1>3

\* t is a contiguous part of s: what is left of a stream when its front has
\* been read, or its end lost.
Part(t, s) ==
  \E d \in Nat : \A i \in 1 .. Len(t) : i + d \in 1 .. Len(s) /\ t[i] = s[i + d]

LEMMA PartOfSeq ==
  ASSUME NEW S, NEW s \in Seq(S)
  PROVE  /\ Part(s, s)
         /\ Part(<<>>, s)
         /\ s # <<>> => Part(Tail(s), s) /\ Tail(s) \in Seq(S)
         /\ \A t \in Prefixes(s) : Part(t, s) /\ t \in Seq(S)
<1>1. Part(s, s)
  <2>1. \A i \in 1 .. Len(s) : i + 0 \in 1 .. Len(s) /\ s[i] = s[i + 0]
    OBVIOUS
  <2>2. QED
    BY <2>1 DEF Part
<1>2. Part(<<>>, s)
  <2>1. \A i \in 1 .. Len(<<>>) : i + 0 \in 1 .. Len(s) /\ <<>>[i] = s[i + 0]
    OBVIOUS
  <2>2. QED
    BY <2>1 DEF Part
<1>3. ASSUME s # <<>> PROVE Part(Tail(s), s) /\ Tail(s) \in Seq(S)
  <2>1. /\ Tail(s) \in Seq(S)
        /\ \A i \in 1 .. Len(Tail(s)) : i + 1 \in 1 .. Len(s) /\ Tail(s)[i] = s[i + 1]
    BY <1>3
  <2>2. QED
    BY <2>1 DEF Part
<1>4. ASSUME NEW t \in Prefixes(s) PROVE Part(t, s) /\ t \in Seq(S)
  <2>1. PICK k \in 0 .. Len(s) : t = SubSeq(s, 1, k)
    BY DEF Prefixes
  <2>2. /\ t \in Seq(S)
        /\ \A i \in 1 .. Len(t) : i + 0 \in 1 .. Len(s) /\ t[i] = s[i + 0]
    BY <2>1
  <2>3. QED
    BY <2>2 DEF Part
<1>5. QED
  BY <1>1, <1>2, <1>3, <1>4

\* Losing lines, or acknowledgements not yet sent, harms nothing.
LEMMA LinkLoses ==
  ASSUME NEW n \in Nat, NEW mid \in Mid, NEW pend \in SUBSET Mid, NEW h \in Item,
         NEW out \in Seq(Line), NEW back \in Seq(Line), NEW tasks \in Seq(Item),
         NEW out2 \in Seq(Line), NEW back2 \in Seq(Line), NEW tasks2 \in Seq(Item),
         Part(out2, out), Part(back2, back), Part(tasks2, tasks),
         LinkInv(n, mid, pend, h, out, back, tasks)
  PROVE  LinkInv(n, mid, pend, h, out2, back2, tasks2)
<1>1. PICK d \in Nat : \A i \in 1 .. Len(out2) :
                          i + d \in 1 .. Len(out) /\ out2[i] = out[i + d]
  BY DEF Part
<1>2. PICK e \in Nat : \A i \in 1 .. Len(back2) :
                          i + e \in 1 .. Len(back) /\ back2[i] = back[i + e]
  BY DEF Part
<1>3. PICK f \in Nat : \A i \in 1 .. Len(tasks2) :
                          i + f \in 1 .. Len(tasks) /\ tasks2[i] = tasks[i + f]
  BY DEF Part
<1>4. OutInv(n, mid, h, out2)
  <2>1. \A i \in 1 .. Len(out2) :
          out2[i].kind = "msg" => Current(out2[i], n, mid) /\ out2[i].n >= h.n
    BY <1>1 DEF LinkInv, OutInv
  <2>2. \A i, j \in 1 .. Len(out2) :
          i < j /\ out2[i].kind = "msg" /\ out2[j].kind = "msg" => out2[i].n <= out2[j].n
    <3> SUFFICES ASSUME NEW i \in 1 .. Len(out2), NEW j \in 1 .. Len(out2), i < j,
                        out2[i].kind = "msg", out2[j].kind = "msg"
                 PROVE  out2[i].n <= out2[j].n
      OBVIOUS
    <3>1. /\ i + d \in 1 .. Len(out) /\ j + d \in 1 .. Len(out) /\ i + d < j + d
          /\ out2[i] = out[i + d] /\ out2[j] = out[j + d]
      BY <1>1
    <3>2. QED
      BY <3>1 DEF LinkInv, OutInv
  <2>3. QED
    BY <2>1, <2>2 DEF OutInv
<1>5. BackInv(n, mid, pend, h, back2, tasks2)
  <2> USE DEF LinkInv, BackInv
  <2>1. \A i \in 1 .. Len(back2) :
          back2[i].kind = "ack" =>
            /\ Current(back2[i], n, mid) /\ back2[i].n <= h.n
            /\ mid \notin pend => back2[i].n = n
    BY <1>2
  <2>2. \A i \in 1 .. Len(tasks2) :
          /\ Current(tasks2[i], n, mid) /\ tasks2[i].n <= h.n
          /\ mid \notin pend => tasks2[i].n = n
    BY <1>3
  <2>3. \A i, j \in 1 .. Len(back2) :
          i < j /\ back2[i].kind = "ack" /\ back2[j].kind = "ack" => back2[i].n <= back2[j].n
    <3> SUFFICES ASSUME NEW i \in 1 .. Len(back2), NEW j \in 1 .. Len(back2), i < j,
                        back2[i].kind = "ack", back2[j].kind = "ack"
                 PROVE  back2[i].n <= back2[j].n
      OBVIOUS
    <3>1. /\ i + e \in 1 .. Len(back) /\ j + e \in 1 .. Len(back) /\ i + e < j + e
          /\ back2[i] = back[i + e] /\ back2[j] = back[j + e]
      BY <1>2
    <3>2. QED
      BY <3>1
  <2>4. \A i, j \in 1 .. Len(tasks2) : i < j => tasks2[i].n <= tasks2[j].n
    <3> SUFFICES ASSUME NEW i \in 1 .. Len(tasks2), NEW j \in 1 .. Len(tasks2), i < j
                 PROVE  tasks2[i].n <= tasks2[j].n
      OBVIOUS
    <3>1. /\ i + f \in 1 .. Len(tasks) /\ j + f \in 1 .. Len(tasks) /\ i + f < j + f
          /\ tasks2[i] = tasks[i + f] /\ tasks2[j] = tasks[j + f]
      BY <1>3
    <3>2. QED
      BY <3>1
  <2>5. \A i \in 1 .. Len(back2), j \in 1 .. Len(tasks2) :
          back2[i].kind = "ack" => back2[i].n <= tasks2[j].n
    BY <1>2, <1>3
  <2>6. QED
    BY <2>1, <2>2, <2>3, <2>4, <2>5
<1>6. QED
  BY <1>4, <1>5 DEF LinkInv

\* A line of the other direction does not concern this one.
LEMMA LinkIgnores ==
  ASSUME NEW n \in Nat, NEW mid \in Mid, NEW pend \in SUBSET Mid, NEW h \in Item,
         NEW out \in Seq(Line), NEW back \in Seq(Line), NEW tasks \in Seq(Item),
         NEW x \in Line, LinkInv(n, mid, pend, h, out, back, tasks)
  PROVE  /\ x.kind = "ack" => LinkInv(n, mid, pend, h, Append(out, x), back, tasks)
         /\ x.kind = "msg" => LinkInv(n, mid, pend, h, out, Append(back, x), tasks)
<1>1. ASSUME x.kind = "ack" PROVE OutInv(n, mid, h, Append(out, x))
  BY <1>1 DEF LinkInv, OutInv
<1>2. ASSUME x.kind = "msg" PROVE BackInv(n, mid, pend, h, Append(back, x), tasks)
  <2>1. /\ Len(Append(back, x)) = Len(back) + 1
        /\ \A i \in 1 .. Len(back) : Append(back, x)[i] = back[i]
        /\ Append(back, x)[Len(back) + 1].kind # "ack"
    BY <1>2
  <2>2. \A i \in 1 .. Len(Append(back, x)) :
          Append(back, x)[i].kind = "ack" => i \in 1 .. Len(back)
    BY <2>1
  <2>3. QED
    BY <2>1, <2>2 DEF LinkInv, BackInv
<1>3. QED
  BY <1>1, <1>2 DEF LinkInv

\* The writer sends its current message, for the first time or again.
LEMMA LinkSends ==
  ASSUME NEW n \in Nat, NEW mid \in Mid, NEW pend \in SUBSET Mid, NEW h \in Item,
         NEW out \in Seq(Line), NEW back \in Seq(Line), NEW tasks \in Seq(Item),
         n >= 1, mid = Zero <=> n <= 1,
         LinkInv(n, mid, pend, h, out, back, tasks)
  PROVE  LinkInv(n, mid, pend, h,
                 Append(out, [kind |-> "msg", n |-> n, mid |-> mid]), back, tasks)
<1> DEFINE x == [kind |-> "msg", n |-> n, mid |-> mid]
           new == Append(out, x)
<1>1. /\ Len(new) = Len(out) + 1
      /\ \A i \in 1 .. Len(out) : new[i] = out[i]
      /\ new[Len(out) + 1] = x
  OBVIOUS
<1>2. Current(x, n, mid) /\ x.n >= h.n
  BY DEF Current, LinkInv, HeldInv, Item
<1>3. \A i \in 1 .. Len(out) : out[i].kind = "msg" => out[i].n <= x.n
  BY DEF LinkInv, OutInv, Current
<1>4. OutInv(n, mid, h, new)
  <2> HIDE DEF new, x
  <2>1. \A i \in 1 .. Len(new) : new[i].kind = "msg" => Current(new[i], n, mid) /\ new[i].n >= h.n
    BY <1>1, <1>2 DEF LinkInv, OutInv
  <2>2. \A i, j \in 1 .. Len(new) :
          i < j /\ new[i].kind = "msg" /\ new[j].kind = "msg" => new[i].n <= new[j].n
    <3> SUFFICES ASSUME NEW i \in 1 .. Len(new), NEW j \in 1 .. Len(new), i < j,
                        new[i].kind = "msg", new[j].kind = "msg"
                 PROVE  new[i].n <= new[j].n
      OBVIOUS
    <3>1. i \in 1 .. Len(out) /\ (j \in 1 .. Len(out) \/ j = Len(out) + 1)
      BY <1>1
    <3>2. QED
      BY <1>1, <1>3, <3>1 DEF LinkInv, OutInv
  <2>3. QED
    BY <2>1, <2>2 DEF OutInv
<1>5. QED
  BY <1>4 DEF LinkInv

\* The writer's next message has an identifier of its own.
LEMMA GmidType ==
  ASSUME NEW n \in Nat, NEW mid \in Mid, mid = Zero <=> n <= 1
  PROVE  /\ Gmid(n, mid) \in Mid
         /\ Gmid(n, mid) = Zero <=> n + 1 <= 1
         /\ n >= 1 => Gmid(n, mid) = NextMid(mid) /\ Gmid(n, mid) # mid
<1>1. Zero \in Mid
  BY HalfAssumption, BitsAssumption DEF Zero, Mid, Idx, Bit
<1>2. QED
  BY <1>1, NextMidType DEF Gmid

\* The writer takes a new message once the last one has been acknowledged.
LEMMA LinkWrites ==
  ASSUME NEW n \in Nat, NEW mid \in Mid, NEW h \in Item,
         NEW out \in Seq(Line), NEW back \in Seq(Line), NEW tasks \in Seq(Item),
         mid = Zero <=> n <= 1,
         LinkInv(n, mid, {}, h, out, back, tasks)
  PROVE  LinkInv(n + 1, Gmid(n, mid), {Gmid(n, mid)}, h, out, back, tasks)
<1> DEFINE k == Gmid(n, mid)
<1>1. h.n = n /\ (n >= 1 => Current(h, n, mid))
  BY DEF LinkInv, HeldInv, Item
<1>2. k \in Mid /\ (n >= 1 => k = NextMid(mid))
  BY GmidType
<1>3. \A x : Current(x, n, mid) /\ x.n = n => Current(x, n + 1, k)
  BY <1>2 DEF Current
<1> HIDE DEF k
<1>4. HeldInv(n + 1, k, {k}, h)
  <2>1. h.n = 0 => h = None
    BY DEF LinkInv, HeldInv
  <2>2. QED
    BY <1>1, <1>3, <2>1 DEF HeldInv
<1>5. \A i \in 1 .. Len(out) :
        out[i].kind = "msg" => Current(out[i], n + 1, k) /\ out[i].n >= h.n
  <2> SUFFICES ASSUME NEW i \in 1 .. Len(out), out[i].kind = "msg"
               PROVE  Current(out[i], n + 1, k) /\ out[i].n >= h.n
    OBVIOUS
  <2>1. Current(out[i], n, mid) /\ out[i].n >= h.n
    BY DEF LinkInv, OutInv
  <2>2. out[i].n = n
    BY <1>1, <2>1 DEF Current
  <2>3. QED
    BY <1>3, <2>1, <2>2
<1>6. OutInv(n + 1, k, h, out)
  BY <1>5 DEF LinkInv, OutInv
<1>7. BackInv(n + 1, k, {k}, h, back, tasks)
  BY <1>3 DEF LinkInv, BackInv
<1>8. QED
  BY <1>4, <1>6, <1>7 DEF LinkInv, k

\* Two messages with the same number have the same identifier.
LEMMA CurrentSame ==
  ASSUME NEW n \in Nat, NEW mid \in Mid, NEW x, NEW y, x.mid \in Mid, y.mid \in Mid,
         Current(x, n, mid), Current(y, n, mid), x.n = y.n
  PROVE  x.mid = y.mid
<1>1. CASE x.n = n
  BY <1>1 DEF Current
<1>2. CASE x.n = n - 1
  BY <1>2, NextMidInjective DEF Current
<1>3. QED
  BY <1>1, <1>2 DEF Current

\* A message that arrives is the one held, again, or the one after it.  It is
\* held from then on, and its acknowledgement is on its way.
LEMMA LinkReceives ==
  ASSUME NEW n \in Nat, NEW mid \in Mid, NEW pend \in SUBSET Mid, NEW h \in Item,
         NEW out \in Seq(Line), NEW back \in Seq(Line), NEW tasks \in Seq(Item),
         mid = Zero <=> n <= 1,
         out # <<>>, Head(out).kind = "msg",
         LinkInv(n, mid, pend, h, out, back, tasks)
  PROVE  /\ Follows(h, ToItem(Head(out)))
         /\ ToItem(Head(out)) \in Item
         /\ ToItem(Head(out)).mid = Zero <=> ToItem(Head(out)).n = 1
         /\ LinkInv(n, mid, pend, ToItem(Head(out)), Tail(out), back,
                    Append(tasks, ToItem(Head(out))))
<1> DEFINE l == Head(out)
           x == ToItem(l)
           rest == Tail(out)
           new == Append(tasks, x)
<1>1. l = out[1] /\ l \in Line /\ 1 \in 1 .. Len(out)
  OBVIOUS
<1>2. x \in Item /\ x.n = l.n /\ x.mid = l.mid
  BY <1>1 DEF ToItem, Item, Line
<1>3. Current(x, n, mid) /\ x.n >= h.n
  <2>1. Current(l, n, mid) /\ l.n >= h.n
    BY <1>1 DEF LinkInv, OutInv
  <2>2. QED
    BY <1>2, <2>1 DEF Current
<1>4. /\ rest \in Seq(Line) /\ Len(rest) = Len(out) - 1
      /\ \A i \in 1 .. Len(rest) : rest[i] = out[i + 1] /\ i + 1 \in 1 .. Len(out)
  OBVIOUS
<1>5. /\ Len(new) = Len(tasks) + 1
      /\ \A i \in 1 .. Len(tasks) : new[i] = tasks[i]
      /\ new[Len(tasks) + 1] = x
  BY <1>2
<1>6. \A i \in 1 .. Len(rest) :
        rest[i].kind = "msg" => Current(rest[i], n, mid) /\ rest[i].n >= x.n
  BY <1>1, <1>2, <1>4 DEF LinkInv, OutInv
<1>7. Follows(h, x)
  <2>1. CASE h.n = 0
    <3>1. h = None /\ x.n = 1
      BY <1>3, <2>1 DEF LinkInv, HeldInv, Current
    <3>2. x.mid = Zero
      BY <1>3, <3>1 DEF Current
    <3>3. QED
      BY <3>1, <3>2 DEF Follows, None, Gmid
  <2>2. CASE h.n > 0 /\ x.n = h.n
    <3>1. Current(h, n, mid) /\ h.mid \in Mid
      BY <2>2 DEF LinkInv, HeldInv, Item
    <3>2. x.mid = h.mid
      BY <1>2, <1>3, <2>2, <3>1, CurrentSame DEF Item
    <3>3. QED
      BY <2>2, <3>2 DEF Follows
  <2>3. CASE h.n > 0 /\ x.n # h.n
    <3>1. Current(h, n, mid) /\ h.n = n - 1 /\ x.n = n
      BY <1>3, <2>3 DEF LinkInv, HeldInv, Current
    <3>2. x.mid = mid /\ mid = NextMid(h.mid)
      BY <1>3, <2>3, <3>1 DEF Current
    <3>3. QED
      BY <2>3, <3>1, <3>2 DEF Follows, Gmid
  <2>4. QED
    BY <2>1, <2>2, <2>3 DEF Item
<1>8. HeldInv(n, mid, pend, x)
  BY <1>3 DEF LinkInv, HeldInv, Current
<1> HIDE DEF rest, new
<1>9. OutInv(n, mid, x, rest)
  <2>1. \A i, j \in 1 .. Len(rest) :
          i < j /\ rest[i].kind = "msg" /\ rest[j].kind = "msg" => rest[i].n <= rest[j].n
    <3> SUFFICES ASSUME NEW i \in 1 .. Len(rest), NEW j \in 1 .. Len(rest), i < j,
                        rest[i].kind = "msg", rest[j].kind = "msg"
                 PROVE  rest[i].n <= rest[j].n
      OBVIOUS
    <3>1. /\ rest[i] = out[i + 1] /\ rest[j] = out[j + 1] /\ i + 1 < j + 1
          /\ i + 1 \in 1 .. Len(out) /\ j + 1 \in 1 .. Len(out)
      BY <1>4
    <3>2. QED
      BY <3>1 DEF LinkInv, OutInv
  <2>2. QED
    BY <1>6, <2>1 DEF OutInv
<1>10. BackInv(n, mid, pend, x, back, new)
  <2>1. \A i \in 1 .. Len(back) :
          back[i].kind = "ack" =>
            /\ Current(back[i], n, mid) /\ back[i].n <= h.n
            /\ mid \notin pend => back[i].n = n
    BY DEF LinkInv, BackInv
  <2>2. \A i \in 1 .. Len(tasks) :
          /\ Current(tasks[i], n, mid) /\ tasks[i].n <= h.n
          /\ mid \notin pend => tasks[i].n = n
    BY DEF LinkInv, BackInv
  <2>3. mid \notin pend => x.n = n
    BY <1>3 DEF LinkInv, HeldInv, Current
  <2>4. h.n \in Nat /\ x.n \in Nat /\ h.n <= x.n
    BY <1>2, <1>3 DEF Item
  <2>5. \A i \in 1 .. Len(back) :
          back[i].kind = "ack" =>
            /\ Current(back[i], n, mid) /\ back[i].n <= x.n
            /\ mid \notin pend => back[i].n = n
    BY <2>1, <2>4 DEF Current
  <2>6. \A i \in 1 .. Len(new) :
          /\ Current(new[i], n, mid) /\ new[i].n <= x.n
          /\ mid \notin pend => new[i].n = n
    <3> SUFFICES ASSUME NEW i \in 1 .. Len(new)
                 PROVE  /\ Current(new[i], n, mid) /\ new[i].n <= x.n
                        /\ mid \notin pend => new[i].n = n
      OBVIOUS
    <3>1. CASE i \in 1 .. Len(tasks)
      <4>1. /\ new[i] = tasks[i] /\ Current(tasks[i], n, mid) /\ tasks[i].n <= h.n
            /\ mid \notin pend => tasks[i].n = n
        BY <1>5, <2>2, <3>1
      <4>2. tasks[i].n \in Int
        BY <4>1 DEF Current
      <4>3. QED
        BY <2>4, <4>1, <4>2
    <3>2. CASE i = Len(tasks) + 1
      BY <1>3, <1>5, <2>3, <2>4, <3>2
    <3>3. QED
      BY <1>5, <3>1, <3>2
  <2>7. \A i, j \in 1 .. Len(new) : i < j => new[i].n <= new[j].n
    <3> SUFFICES ASSUME NEW i \in 1 .. Len(new), NEW j \in 1 .. Len(new), i < j
                 PROVE  new[i].n <= new[j].n
      OBVIOUS
    <3>1. CASE j \in 1 .. Len(tasks)
      <4>1. i \in 1 .. Len(tasks) /\ new[i] = tasks[i] /\ new[j] = tasks[j]
        BY <1>5, <3>1
      <4>2. QED
        BY <3>1, <4>1 DEF LinkInv, BackInv
    <3>2. CASE j = Len(tasks) + 1
      BY <1>5, <2>6, <3>2
    <3>3. j \in 1 .. Len(tasks) \/ j = Len(tasks) + 1
      BY <1>5
    <3>4. QED
      BY <3>1, <3>2, <3>3
  <2>8. \A i \in 1 .. Len(back), j \in 1 .. Len(new) :
          back[i].kind = "ack" => back[i].n <= new[j].n
    <3> SUFFICES ASSUME NEW i \in 1 .. Len(back), NEW j \in 1 .. Len(new),
                        back[i].kind = "ack"
                 PROVE  back[i].n <= new[j].n
      OBVIOUS
    <3>1. j \in 1 .. Len(tasks) \/ new[j] = x
      BY <1>5
    <3>2. QED
      BY <1>5, <2>5, <3>1 DEF LinkInv, BackInv
  <2>9. QED
    BY <2>5, <2>6, <2>7, <2>8 DEF LinkInv, BackInv
<1>11. QED
  BY <1>2, <1>3, <1>7, <1>8, <1>9, <1>10 DEF LinkInv, rest, new, Current

\* The oldest acknowledgement not yet sent is sent.
LEMMA LinkAcknowledges ==
  ASSUME NEW n \in Nat, NEW mid \in Mid, NEW pend \in SUBSET Mid, NEW h \in Item,
         NEW out \in Seq(Line), NEW back \in Seq(Line), NEW tasks \in Seq(Item),
         tasks # <<>>, LinkInv(n, mid, pend, h, out, back, tasks)
  PROVE  /\ ToLine("ack", Head(tasks)) \in Line
         /\ LinkInv(n, mid, pend, h, out,
                    Append(back, ToLine("ack", Head(tasks))), Tail(tasks))
<1> DEFINE x == ToLine("ack", Head(tasks))
           new == Append(back, x)
           rest == Tail(tasks)
<1>1. Head(tasks) = tasks[1] /\ tasks[1] \in Item /\ 1 \in 1 .. Len(tasks)
  OBVIOUS
<1>2. x \in Line /\ x.kind = "ack" /\ x.n = tasks[1].n /\ x.mid = tasks[1].mid
  BY <1>1 DEF ToLine, Item, Line
<1>3. /\ Current(x, n, mid) /\ x.n <= h.n
      /\ mid \notin pend => x.n = n
  <2>1. /\ Current(tasks[1], n, mid) /\ tasks[1].n <= h.n
        /\ mid \notin pend => tasks[1].n = n
    BY <1>1 DEF LinkInv, BackInv
  <2>2. QED
    BY <1>2, <2>1 DEF Current
<1>4. /\ Len(rest) = Len(tasks) - 1
      /\ \A i \in 1 .. Len(rest) : rest[i] = tasks[i + 1] /\ i + 1 \in 1 .. Len(tasks)
  BY <1>1
<1>5. /\ Len(new) = Len(back) + 1
      /\ \A i \in 1 .. Len(back) : new[i] = back[i]
      /\ new[Len(back) + 1] = x
  BY <1>2
<1> HIDE DEF new, rest, x
<1>6. /\ \A i \in 1 .. Len(back) : back[i].kind = "ack" => back[i].n <= x.n
      /\ \A j \in 1 .. Len(rest) : x.n <= rest[j].n
  <2>1. \A i \in 1 .. Len(back) : back[i].kind = "ack" => back[i].n <= x.n
    BY <1>1, <1>2 DEF LinkInv, BackInv
  <2>2. ASSUME NEW j \in 1 .. Len(rest) PROVE x.n <= rest[j].n
    <3>1. rest[j] = tasks[j + 1] /\ j + 1 \in 1 .. Len(tasks) /\ 1 < j + 1
      BY <1>4
    <3>2. QED
      BY <1>1, <1>2, <3>1 DEF LinkInv, BackInv
  <2>3. QED
    BY <2>1, <2>2
<1>7. BackInv(n, mid, pend, h, new, rest)
  <2>0. \A i \in 1 .. Len(new) : i \in 1 .. Len(back) \/ i = Len(back) + 1
    BY <1>5
  <2>1. \A i \in 1 .. Len(new) :
          new[i].kind = "ack" =>
            /\ Current(new[i], n, mid) /\ new[i].n <= h.n
            /\ mid \notin pend => new[i].n = n
    <3>1. \A i \in 1 .. Len(back) :
            back[i].kind = "ack" =>
              /\ Current(back[i], n, mid) /\ back[i].n <= h.n
              /\ mid \notin pend => back[i].n = n
      BY DEF LinkInv, BackInv
    <3>2. QED
      BY <1>3, <1>5, <2>0, <3>1
  <2>2. \A i \in 1 .. Len(rest) :
          /\ Current(rest[i], n, mid) /\ rest[i].n <= h.n
          /\ mid \notin pend => rest[i].n = n
    BY <1>4 DEF LinkInv, BackInv
  <2>3. \A i, j \in 1 .. Len(new) :
          i < j /\ new[i].kind = "ack" /\ new[j].kind = "ack" => new[i].n <= new[j].n
    <3> SUFFICES ASSUME NEW i \in 1 .. Len(new), NEW j \in 1 .. Len(new), i < j,
                        new[i].kind = "ack", new[j].kind = "ack"
                 PROVE  new[i].n <= new[j].n
      OBVIOUS
    <3>1. i \in 1 .. Len(back) /\ new[i] = back[i]
      BY <1>5
    <3>2. CASE j \in 1 .. Len(back)
      BY <1>5, <3>1, <3>2 DEF LinkInv, BackInv
    <3>3. CASE j = Len(back) + 1
      BY <1>5, <1>6, <3>1, <3>3
    <3>4. QED
      BY <2>0, <3>2, <3>3
  <2>4. \A i, j \in 1 .. Len(rest) : i < j => rest[i].n <= rest[j].n
    <3> SUFFICES ASSUME NEW i \in 1 .. Len(rest), NEW j \in 1 .. Len(rest), i < j
                 PROVE  rest[i].n <= rest[j].n
      OBVIOUS
    <3>1. /\ rest[i] = tasks[i + 1] /\ rest[j] = tasks[j + 1] /\ i + 1 < j + 1
          /\ i + 1 \in 1 .. Len(tasks) /\ j + 1 \in 1 .. Len(tasks)
      BY <1>4
    <3>2. QED
      BY <3>1 DEF LinkInv, BackInv
  <2>5. \A i \in 1 .. Len(new), j \in 1 .. Len(rest) :
          new[i].kind = "ack" => new[i].n <= rest[j].n
    <3> SUFFICES ASSUME NEW i \in 1 .. Len(new), NEW j \in 1 .. Len(rest),
                        new[i].kind = "ack"
                 PROVE  new[i].n <= rest[j].n
      OBVIOUS
    <3>1. CASE i \in 1 .. Len(back)
      BY <1>4, <1>5, <3>1 DEF LinkInv, BackInv
    <3>2. CASE i = Len(back) + 1
      BY <1>5, <1>6, <3>2
    <3>3. QED
      BY <2>0, <3>1, <3>2
  <2>6. QED
    BY <2>1, <2>2, <2>3, <2>4, <2>5 DEF BackInv
<1>8. QED
  BY <1>2, <1>7 DEF LinkInv, new, rest, x

\* The writer reads an acknowledgement.  If it bears the identifier of the last
\* message then it is of that message, which is therefore held.
LEMMA LinkAcknowledged ==
  ASSUME NEW n \in Nat, NEW mid \in Mid, NEW pend \in SUBSET Mid, NEW h \in Item,
         NEW out \in Seq(Line), NEW back \in Seq(Line), NEW tasks \in Seq(Item),
         pend \subseteq {mid}, back # <<>>, Head(back).kind = "ack",
         LinkInv(n, mid, pend, h, out, back, tasks)
  PROVE  LinkInv(n, mid, pend \ {Head(back).mid}, h, out, Tail(back), tasks)
<1> DEFINE x == Head(back)
           rest == Tail(back)
<1>1. x = back[1] /\ back[1] \in Line /\ 1 \in 1 .. Len(back)
  OBVIOUS
<1>2. Current(x, n, mid) /\ x.n <= h.n /\ x.mid \in Mid
  BY <1>1 DEF LinkInv, BackInv, Line
<1>3. rest \in Seq(Line) /\ Part(rest, back) /\ Part(out, out) /\ Part(tasks, tasks)
  BY PartOfSeq
<1>4. LinkInv(n, mid, pend, h, out, rest, tasks)
  BY <1>3, LinkLoses
<1>5. CASE x.mid # mid
  <2>1. pend \ {x.mid} = pend
    BY <1>5
  <2>2. QED
    BY <1>4, <2>1
<1>6. CASE x.mid = mid
  <2>1. x.n = n
    BY <1>2, <1>6, NextMidType DEF Current
  <2>2. h.n = n
    BY <1>2, <2>1 DEF LinkInv, HeldInv, Item
  <2>3. HeldInv(n, mid, pend \ {x.mid}, h)
    BY <2>2 DEF LinkInv, HeldInv
  <2>4. \A i \in 1 .. Len(rest) : rest[i].kind = "ack" => rest[i].n = n
    <3> SUFFICES ASSUME NEW i \in 1 .. Len(rest), rest[i].kind = "ack"
                 PROVE  rest[i].n = n
      OBVIOUS
    <3>1. rest[i] = back[i + 1] /\ i + 1 \in 1 .. Len(back) /\ 1 < i + 1
      BY <1>1
    <3>2. x.n <= rest[i].n
      BY <1>1, <3>1 DEF LinkInv, BackInv
    <3>3. Current(rest[i], n, mid)
      BY <1>4 DEF LinkInv, BackInv
    <3>4. QED
      BY <2>1, <3>2, <3>3 DEF Current
  <2>5. \A i \in 1 .. Len(tasks) : tasks[i].n = n
    <3> SUFFICES ASSUME NEW i \in 1 .. Len(tasks)
                 PROVE  tasks[i].n = n
      OBVIOUS
    <3>1. x.n <= tasks[i].n /\ Current(tasks[i], n, mid)
      BY <1>1 DEF LinkInv, BackInv
    <3>2. QED
      BY <2>1, <3>1 DEF Current
  <2>6. BackInv(n, mid, pend \ {x.mid}, h, rest, tasks)
    BY <1>4, <2>4, <2>5 DEF LinkInv, BackInv
  <2>7. QED
    BY <1>4, <2>3, <2>6 DEF LinkInv
<1>7. QED
  BY <1>5, <1>6

\* A receiver that has seen every message up to seen looks up the next one it
\* gets: new messages are accepted, repeated ones are not, the first excepted.
LEMMA LooksUp ==
  ASSUME NEW seen \in Item, NEW rec \in Record, NEW x \in Item,
         SeenInv(seen, rec), Follows(seen, x)
  PROVE  /\ SeenInv(x, After(x.mid, rec))
         /\ x.n >= 1 /\ x.n \in {seen.n, seen.n + 1}
         /\ Accepts(x.mid, rec) <=> x.n = seen.n + 1 \/ x.n = 1
<1>1. seen.n \in Nat /\ x.n \in Nat /\ seen.mid \in Mid /\ x.mid \in Mid /\ Zero \in Mid
  BY HalfAssumption, BitsAssumption DEF Item, Zero, Mid, Idx, Bit
<1>2. CASE seen.n = 0
  <2>1. x.n = 1 /\ x.mid = Zero
    BY <1>1, <1>2 DEF Follows, Gmid
  <2>2. Accepts(x.mid, rec) /\ Window(x.mid, After(x.mid, rec))
    BY <1>1, <2>1, FirstIsNew
  <2>3. QED
    BY <1>2, <2>1, <2>2 DEF SeenInv
<1>3. CASE seen.n > 0 /\ x.n = seen.n
  <2>1. x.mid = seen.mid /\ Window(x.mid, rec) /\ (x.mid = Zero <=> x.n = 1)
    BY <1>1, <1>3 DEF Follows, SeenInv
  <2>2. CASE x.mid = Zero
    <3>1. Accepts(x.mid, rec) /\ Window(x.mid, After(x.mid, rec))
      BY <1>1, <2>2, FirstIsNew
    <3>2. QED
      BY <1>3, <2>1, <2>2, <3>1 DEF SeenInv
  <2>3. CASE x.mid # Zero
    <3>1. ~Accepts(x.mid, rec) /\ Window(x.mid, After(x.mid, rec))
      BY <1>1, <2>1, <2>3, RepeatIsOld
    <3>2. QED
      BY <1>1, <1>3, <2>1, <2>3, <3>1 DEF SeenInv
  <2>4. QED
    BY <2>2, <2>3
<1>4. CASE seen.n > 0 /\ x.n # seen.n
  <2>1. x.n = seen.n + 1 /\ x.mid = NextMid(seen.mid) /\ Window(seen.mid, rec)
    BY <1>1, <1>4 DEF Follows, Gmid, SeenInv
  <2>2. Accepts(x.mid, rec) /\ Window(x.mid, After(x.mid, rec)) /\ x.mid # Zero
    BY <1>1, <2>1, NextIsNew, NextMidType
  <2>3. QED
    BY <1>1, <1>4, <2>1, <2>2 DEF SeenInv
<1>5. QED
  BY <1>1, <1>2, <1>3, <1>4

-----------------------------------------------------------------------------
(* The link as a whole                                                     *)


LEMMA ItemTypes ==
  /\ None \in Item
  /\ \A x \in Line : ToItem(x) \in Item
  /\ \A x \in Item : ToLine("ack", x) \in Line
<1>1. Zero \in Mid
  BY HalfAssumption, BitsAssumption DEF Zero, Mid, Idx, Bit
<1>2. QED
  BY <1>1 DEF None, Item, Line, ToItem, ToLine

LEMMA GmidInMid ==
  ASSUME NEW n \in Nat, NEW mid \in Mid
  PROVE  Gmid(n, mid) \in Mid
<1>1. Zero \in Mid
  BY HalfAssumption, BitsAssumption DEF Zero, Mid, Idx, Bit
<1>2. QED
  BY <1>1, NextMidType DEF Gmid

\* The server's tasks take turns in _send: what they do to the streams, to the
\* ACKs not sent yet and to the writer.
SendingFrame ==
  /\ UNCHANGED <<cWriter, cInbox, sN, sMid, sPend, sLines, sRec, sSeen, sGot>>
  /\ sAcks' = sAcks \/ (sAcks # <<>> /\ sAcks' = Tail(sAcks))
  /\ up' \in {up, <<>>}
  /\ dn' \in {dn} \cup Prefixes(dn)
  /\ sPc' = sPc \/ (sPc # "idle" /\ sPc' \in {"send", "lock"})

LEMMA SendingFrames ==
  ASSUME Sending
  PROVE  SendingFrame
<1> USE DEF SendingFrame, sInbox
<1>1. CASE SKeepaliveSent
  BY <1>1, Zenon DEF SKeepaliveSent
<1>2. ASSUME NEW t \in Tasks, SSendSleeps(t)
      PROVE  SendingFrame
  <2>1. t = "writer" => sPc # "idle"
    BY <1>2 DEF SSendSleeps, MaySend, WriterReady
  <2>2. QED
    BY <1>2, <2>1, Zenon DEF SSendSleeps
<1>3. ASSUME NEW t \in Tasks, SSendFails(t)
      PROVE  SendingFrame
  <2>1. /\ t = "writer" => sPc # "idle"
        /\ t = "ack" => sAcks # <<>>
    BY <1>3 DEF SSendFails, MaySend, WriterReady
  <2>2. /\ UNCHANGED <<cWriter, cInbox, sN, sMid, sPend, sLines, sRec, sSeen, sGot>>
        /\ sPc' = IF t = "writer" THEN "send" ELSE sPc
        /\ sAcks' = IF t = "ack" THEN Tail(sAcks) ELSE sAcks
    BY <1>3, Zenon DEF SSendFails, LineDropped
  <2>3. up' \in {up, <<>>} /\ dn' \in {dn} \cup Prefixes(dn)
    BY <1>3, Zenon DEF SSendFails, Closes
  <2>4. QED
    BY <2>1, <2>2, <2>3, Zenon
<1>4. ASSUME NEW t \in Tasks, SSendDies(t)
      PROVE  SendingFrame
  <2>1. t = "ack" => sAcks # <<>>
    BY <1>4 DEF SSendDies, MaySend
  <2>2. QED
    BY <1>4, <2>1, Zenon DEF SSendDies, LineDropped
<1>5. QED
  BY <1>1, <1>2, <1>3, <1>4, Zenon DEF Sending

\* What each of the four parts of Next leaves alone.
LEMMA Frames ==
  ASSUME [Next]_vars
  PROVE  \/ Uplink /\ UNCHANGED <<sWriter, cInbox>>
         \/ Downlink /\ UNCHANGED <<cWriter, sInbox>>
         \/ Sending /\ SendingFrame
         \/ /\ UNCHANGED <<cWriter, sInbox, sWriter, cInbox>>
            /\ up' \in {up, <<>>} \cup Prefixes(up)
            /\ dn' \in {dn, <<>>} \cup Prefixes(dn)
<1>1. CASE Connecting
  BY <1>1, Zenon DEF Connecting, CConnect, CReaderFails, CSendFails, CRunFails,
     SGo, SGoGhost, Closes, SClose, CKeepalive, SKeepalive, SClientActive
<1>2. CASE Uplink
  BY <1>2, Zenon DEF Uplink, CWrite, CSend, CAwaitAck, CRepeat, CReturn,
     SReceive, SSendAck, SRead, CReceiveAck, sWriter
<1>3. CASE Downlink
  BY <1>3, Zenon DEF Downlink, SWrite, SVwrite, SSend, SAwaitAck, SRepeat, SReturn,
     CReceive, CSendAck, CRead, SReceiveAck
<1>4. CASE UNCHANGED vars
  BY <1>4, Zenon DEF vars
<1>5. QED
  BY <1>1, <1>2, <1>3, <1>4, SendingFrames DEF Next

\* The connection's flags keep their types.
LEMMA ConnTypeStep == ConnType /\ [Next]_vars => ConnType'
<1> SUFFICES ASSUME ConnType, [Next]_vars PROVE ConnType'
  OBVIOUS
<1> USE DEF ConnType, connVars, Links, Received, Reconnect
<1>1. CASE Connecting
  BY <1>1, ZenonT(40) DEF Connecting, CConnect, CReaderFails, CSendFails, CRunFails,
     SGo, SGoGhost, Closes, SClose, CKeepalive, SKeepalive, SClientActive
<1>2. CASE Uplink
  <2>1. CASE SReceive
    BY <2>1, Zenon DEF SReceive
  <2>2. CASE CReceiveAck
    BY <2>2, Zenon DEF CReceiveAck
  <2>3. CASE UNCHANGED connVars
    BY <2>3, Zenon
  <2>4. QED
    BY <1>2, <2>1, <2>2, <2>3, Zenon DEF Uplink, CWrite, CSend, CAwaitAck,
       CRepeat, CReturn, SSendAck, SRead
<1>3. CASE Downlink
  <2>1. CASE CReceive
    BY <2>1, Zenon DEF CReceive
  <2>2. CASE SReceiveAck
    BY <2>2, Zenon DEF SReceiveAck
  <2>3. CASE UNCHANGED connVars
    BY <2>3, Zenon
  <2>4. QED
    BY <1>3, <2>1, <2>2, <2>3, Zenon DEF Downlink, SWrite, SVwrite, SSend, SAwaitAck,
       SRepeat, SReturn, CSendAck, CRead
<1>4. CASE UNCHANGED vars
  BY <1>4, Zenon DEF vars
<1>5. CASE Sending
  <2>1. \/ UNCHANGED connVars
        \/ /\ UNCHANGED <<cLink, cReader, cOk, cFail, sGhost, sAwait, sWaking, sPause>>
           /\ sUp' \in {sUp, FALSE}
    BY <1>5, Zenon DEF Sending, SSendSleeps, SSendFails, Closes, SSendDies, SKeepaliveSent
  <2>2. QED
    BY <2>1, Zenon
<1>6. QED
  BY <1>1, <1>2, <1>3, <1>4, <1>5 DEF Next

LEMMA OutagesStep == outages \in Nat /\ [Next]_vars => outages' \in Nat
<1> SUFFICES ASSUME outages \in Nat, [Next]_vars PROVE outages' \in Nat
  OBVIOUS
<1>1. outages' = outages \/ outages' = outages + 1
  BY Zenon DEF Next, Connecting, Uplink, Downlink, vars, connVars, Outage,
     Sending, SSendSleeps, SSendFails, SSendDies, SKeepaliveSent, SVwrite,
     CConnect, CReaderFails, CSendFails, CRunFails, SGo, SGoGhost, Closes, SClose,
     CKeepalive, SKeepalive, SClientActive, CWrite, CSend, CAwaitAck, CRepeat,
     CReturn, SReceive, SSendAck, SRead, CReceiveAck, SWrite, SSend, SAwaitAck,
     SRepeat, SReturn, CReceive, CSendAck, CRead, SReceiveAck
<1>2. QED
  BY <1>1

\* The lock and the tasks that have died.
LEMMA LockTypeStep == LockType /\ [Next]_vars => LockType'
<1> SUFFICES ASSUME LockType, [Next]_vars PROVE LockType'
  OBVIOUS
<1> USE DEF LockType, sLock
<1>1. CASE UNCHANGED sLock
  BY <1>1
<1>2. CASE sTask' \in Tasks \cup {"none"} /\ sDead' = sDead
  BY <1>2
<1>3. CASE Connecting
  BY <1>1, <1>3, Zenon DEF Connecting, CConnect, CReaderFails, CSendFails, CRunFails,
     SGo, SGoGhost, SClose, CKeepalive, SKeepalive, SClientActive
<1>4. CASE Sending
  <2>1. ASSUME NEW t \in Tasks, SSendDies(t)
        PROVE  LockType'
    <3>1. sTask' = "none" /\ sDead' = sDead \cup ({t} \ {"ack"})
      BY <2>1 DEF SSendDies, LineDropped
    <3>2. QED
      BY <3>1
  <2>2. ASSUME NEW t \in Tasks, SSendSleeps(t) \/ SSendFails(t)
        PROVE  LockType'
    BY <1>2, <2>2, Zenon DEF SSendSleeps, SSendFails, LineDropped
  <2>3. CASE SKeepaliveSent
    BY <1>2, <2>3, Zenon DEF SKeepaliveSent
  <2>4. QED
    BY <1>4, <2>1, <2>2, <2>3, Zenon DEF Sending
<1>5. CASE Uplink
  BY <1>1, <1>2, <1>5, Zenon DEF Uplink, CWrite, CSend, CAwaitAck, CRepeat,
     CReturn, SReceive, SSendAck, LineDropped, SRead, CReceiveAck
<1>6. CASE Downlink
  BY <1>1, <1>2, <1>6, Zenon DEF Downlink, SWrite, SVwrite, SSend, SAwaitAck,
     SRepeat, SReturn, CReceive, CSendAck, CRead, SReceiveAck
<1>7. CASE UNCHANGED vars
  BY <1>1, <1>7, Zenon DEF vars
<1>8. QED
  BY <1>3, <1>4, <1>5, <1>6, <1>7 DEF Next

\* What can become of the two streams.
UpLine == [kind |-> "msg", n |-> cN, mid |-> cMid]
DnLine == [kind |-> "msg", n |-> sN, mid |-> sMid]

LEMMA StreamsChange ==
  ASSUME [Next]_vars
  PROVE  /\ \/ up' \in {up, <<>>, Append(up, UpLine)} \cup Prefixes(up)
            \/ up # <<>> /\ up' = Tail(up)
            \/ cAcks # <<>> /\ up' = Append(up, ToLine("ack", Head(cAcks)))
         /\ \/ dn' \in {dn, <<>>, Append(dn, DnLine)} \cup Prefixes(dn)
            \/ dn # <<>> /\ dn' = Tail(dn)
            \/ sAcks # <<>> /\ dn' = Append(dn, ToLine("ack", Head(sAcks)))
<1>1. CASE Uplink
  <2>1. /\ up' \in {up, Append(up, UpLine)} \/ (up # <<>> /\ up' = Tail(up))
        /\ \/ dn' = dn
           \/ dn # <<>> /\ dn' = Tail(dn)
           \/ sAcks # <<>> /\ dn' = Append(dn, ToLine("ack", Head(sAcks)))
    BY <1>1, Zenon DEF Uplink, CWrite, CSend, CAwaitAck, CRepeat, CReturn,
       SReceive, SSendAck, MaySend, SRead, CReceiveAck, ClientPuts, UpLine
  <2>2. QED
    BY <2>1, Zenon
<1>2. CASE Downlink
  <2>1. /\ dn' \in {dn, Append(dn, DnLine)} \/ (dn # <<>> /\ dn' = Tail(dn))
        /\ \/ up' = up
           \/ up # <<>> /\ up' = Tail(up)
           \/ cAcks # <<>> /\ up' = Append(up, ToLine("ack", Head(cAcks)))
    BY <1>2, Zenon DEF Downlink, SWrite, SVwrite, SSend, SAwaitAck, SRepeat, SReturn,
       CReceive, CSendAck, CRead, SReceiveAck, ClientPuts, DnLine
  <2>2. QED
    BY <2>1, Zenon
<1>3. CASE SendingFrame
  BY <1>3, Zenon DEF SendingFrame
<1>4. QED
  BY <1>1, <1>2, <1>3, Frames, Zenon

\* Lines that are sent are lines; lines that are left of a stream are too.
LEMMA StreamsStep ==
  TypeOK /\ [Next]_vars => up' \in Seq(Line) /\ dn' \in Seq(Line)
<1> SUFFICES ASSUME TypeOK, [Next]_vars
             PROVE  up' \in Seq(Line) /\ dn' \in Seq(Line)
  OBVIOUS
<1>1. UpLine \in Line /\ DnLine \in Line
  BY DEF TypeOK, UplinkType, DownlinkType, Line, UpLine, DnLine
<1>2. /\ sAcks # <<>> => ToLine("ack", Head(sAcks)) \in Line
      /\ cAcks # <<>> => ToLine("ack", Head(cAcks)) \in Line
  <2>1. /\ sAcks # <<>> => Head(sAcks) \in Item
        /\ cAcks # <<>> => Head(cAcks) \in Item
    BY DEF TypeOK, UplinkType, DownlinkType
  <2>2. QED
    BY <2>1, ItemTypes
<1>3. up' \in Seq(Line)
  <2>1. /\ up \in Seq(Line) /\ <<>> \in Seq(Line)
        /\ \A t \in Prefixes(up) : t \in Seq(Line)
        /\ up # <<>> => Tail(up) \in Seq(Line)
        /\ \A l \in Line : Append(up, l) \in Seq(Line)
    BY PartOfSeq DEF TypeOK
  <2>2. QED
    BY <1>1, <1>2, <2>1, StreamsChange, Zenon
<1>4. dn' \in Seq(Line)
  <2>1. /\ dn \in Seq(Line) /\ <<>> \in Seq(Line)
        /\ \A t \in Prefixes(dn) : t \in Seq(Line)
        /\ dn # <<>> => Tail(dn) \in Seq(Line)
        /\ \A l \in Line : Append(dn, l) \in Seq(Line)
    BY PartOfSeq DEF TypeOK
  <2>2. QED
    BY <1>1, <1>2, <2>1, StreamsChange, Zenon
<1>5. QED
  BY <1>3, <1>4

LEMMA UplinkTypeStep == TypeOK /\ [Next]_vars => UplinkType'
<1> SUFFICES ASSUME TypeOK, [Next]_vars PROVE UplinkType'
  OBVIOUS
<1>1. UplinkType
  BY DEF TypeOK
<1>2. CASE UNCHANGED <<cWriter, sInbox>>
  BY <1>1, <1>2, Zenon DEF UplinkType, cWriter, sInbox
<1>3. CASE Uplink
  <2> USE DEF UplinkType, cWriter, sInbox, Pcs
  <2>1. CASE CWrite
    BY <1>1, <2>1, GmidInMid DEF CWrite
  <2>2. CASE CSend
    BY <1>1, <2>2 DEF CSend
  <2>3. CASE CAwaitAck
    BY <1>1, <2>3 DEF CAwaitAck
  <2>4. CASE CRepeat
    BY <1>1, <2>4 DEF CRepeat
  <2>5. CASE CReturn
    BY <1>1, <2>5 DEF CReturn
  <2>6. CASE SReceive
    <3>1. ToItem(Head(up)) \in Item
      BY <2>6, ItemTypes DEF SReceive, TypeOK
    <3>2. QED
      BY <1>1, <2>6, <3>1 DEF SReceive
  <2>7. CASE SSendAck
    BY <1>1, <2>7 DEF SSendAck, MaySend, LineDropped
  <2>8. CASE SRead
    <3>1. Head(sLines) \in Item /\ Tail(sLines) \in Seq(Item)
      BY <1>1, <2>8 DEF SRead
    <3>2. After(Head(sLines).mid, sRec) \in Record
      BY <1>1, <3>1, RecordType DEF Item
    <3>3. QED
      BY <1>1, <2>8, <3>1, <3>2 DEF SRead, Item
  <2>9. CASE CReceiveAck
    BY <1>1, <2>9 DEF CReceiveAck
  <2>10. QED
    BY <1>3, <2>1, <2>2, <2>3, <2>4, <2>5, <2>6, <2>7, <2>8, <2>9 DEF Uplink
<1>4. CASE SendingFrame
  <2>1. /\ UNCHANGED <<cPc, cN, cMid, cPend, sLines, sRec, sSeen, sGot>>
        /\ sAcks' = sAcks \/ (sAcks # <<>> /\ sAcks' = Tail(sAcks))
    BY <1>4 DEF SendingFrame, cWriter
  <2>2. sAcks \in Seq(Item)
    BY <1>1 DEF UplinkType
  <2>3. sAcks # <<>> => Tail(sAcks) \in Seq(Item)
    BY <2>2
  <2>4. sAcks' \in Seq(Item)
    BY <2>1, <2>2, <2>3, Zenon
  <2>5. QED
    BY <1>1, <2>1, <2>4 DEF UplinkType
<1>5. QED
  BY <1>2, <1>3, <1>4, Frames

LEMMA DownlinkTypeStep == TypeOK /\ [Next]_vars => DownlinkType'
<1> SUFFICES ASSUME TypeOK, [Next]_vars PROVE DownlinkType'
  OBVIOUS
<1>1. DownlinkType
  BY DEF TypeOK
<1>2. CASE UNCHANGED <<sWriter, cInbox>>
  BY <1>1, <1>2, Zenon DEF DownlinkType, sWriter, cInbox
<1>3. CASE Downlink
  <2> USE DEF DownlinkType, sWriter, cInbox, Pcs
  <2>1. CASE SWrite
    BY <1>1, <2>1, GmidInMid DEF SWrite
  <2>2. CASE SSend
    BY <1>1, <2>2 DEF SSend
  <2>3. CASE SAwaitAck
    BY <1>1, <2>3 DEF SAwaitAck
  <2>4. CASE SRepeat
    BY <1>1, <2>4 DEF SRepeat
  <2>5. CASE SReturn
    BY <1>1, <2>5 DEF SReturn
  <2>6. CASE CReceive
    <3> DEFINE x == ToItem(Head(dn))
    <3>1. x \in Item
      BY <2>6, ItemTypes DEF CReceive, TypeOK
    <3>2. After(x.mid, cRec) \in Record
      BY <1>1, <3>1, RecordType DEF Item
    <3> HIDE DEF x
    <3>3. /\ cAcks' = Append(cAcks, x)
          /\ cRec' = After(x.mid, cRec)
          /\ cSeen' = x
          /\ cLines' = cLines \/ cLines' = Append(cLines, x)
          /\ UNCHANGED <<sPc, sN, sMid, sPend, cGot>>
      BY <2>6, Zenon DEF CReceive, x
    <3>4. cLines' \in Seq(Item)
      <4>1. cLines \in Seq(Item) /\ Append(cLines, x) \in Seq(Item)
        BY <1>1, <3>1
      <4>2. QED
        BY <3>3, <4>1, Zenon
    <3>5. QED
      BY <1>1, <3>1, <3>2, <3>3, <3>4
  <2>7. CASE CSendAck
    BY <1>1, <2>7 DEF CSendAck
  <2>8. CASE CRead
    <3>1. Head(cLines).n \in Nat /\ Tail(cLines) \in Seq(Item)
      <4>1. Head(cLines) \in Item /\ Tail(cLines) \in Seq(Item)
        BY <1>1, <2>8 DEF CRead
      <4>2. QED
        BY <4>1 DEF Item
    <3>2. QED
      BY <1>1, <2>8, <3>1 DEF CRead
  <2>9. CASE SReceiveAck
    BY <1>1, <2>9 DEF SReceiveAck
  <2>10. CASE SVwrite
    BY <1>1, <2>10 DEF SVwrite
  <2>11. QED
    BY <1>3, <2>10, <2>1, <2>2, <2>3, <2>4, <2>5, <2>6, <2>7, <2>8, <2>9 DEF Downlink
<1>4. CASE SendingFrame
  <2>1. /\ UNCHANGED <<sN, sMid, sPend, cAcks, cLines, cRec, cSeen, cGot>>
        /\ sPc' = sPc \/ sPc' \in {"send", "lock"}
    BY <1>4 DEF SendingFrame, cInbox
  <2>2. QED
    BY <1>1, <2>1 DEF DownlinkType, Pcs
<1>5. QED
  BY <1>2, <1>3, <1>4, Frames

LEMMA TypeInit == Init => TypeOK
<1> SUFFICES ASSUME Init PROVE TypeOK
  OBVIOUS
<1>1. ConnType
  BY Zenon DEF Init, ConnType, Links
<1>2. Zero \in Mid /\ EmptyRecord \in Record
  BY HalfAssumption, BitsAssumption
     DEF Zero, Mid, Idx, Bit, EmptyRecord, Record
<1>3. UplinkType /\ DownlinkType
  BY <1>2, ItemTypes DEF Init, UplinkType, DownlinkType, Pcs
<1>4. LockType
  BY DEF Init, LockType
<1>5. QED
  BY <1>1, <1>3, <1>4 DEF Init, TypeOK

LEMMA TypeStep == TypeOK /\ [Next]_vars => TypeOK'
  BY ConnTypeStep, LockTypeStep, OutagesStep, StreamsStep, UplinkTypeStep, DownlinkTypeStep
     DEF TypeOK

\* Every variable of the link has its type in every state.
THEOREM TypeCorrect == Spec => []TypeOK
  BY TypeInit, TypeStep, PTL DEF Spec

-----------------------------------------------------------------------------
\* Nothing is sent to a client, and the client does not take its link for a
\* good one, before the server has accepted the connection.
LEMMA AcceptedStep ==
  NothingBeforeAccepted /\ [Next]_vars => NothingBeforeAccepted'
<1> SUFFICES ASSUME NothingBeforeAccepted, [Next]_vars, cLink' # "joined"
             PROVE  ~cOk' /\ dn' = <<>>
  BY DEF NothingBeforeAccepted
<1>1. cLink # "joined" => ~cOk /\ dn = <<>>
  BY DEF NothingBeforeAccepted
<1> USE DEF Joined, connVars
<1>2. CASE Connecting
  <2>1. CASE CRunFails
    BY <2>1, Zenon DEF CRunFails
  <2>2. CASE SClose
    BY <1>1, <2>2, Zenon DEF Closes, SClose
  <2>3. CASE CKeepalive
    BY <2>3, Zenon DEF CKeepalive
  <2>4. CASE CConnect
    <3>1. cLink # "joined" /\ UNCHANGED <<cOk, dn>>
      BY <2>4 DEF CConnect
    <3>2. QED
      BY <1>1, <3>1, Zenon
  <2>5. CASE SGo
    <3>1. cLink # "joined" /\ UNCHANGED <<cOk, dn>>
      BY <2>5 DEF SGo
    <3>2. QED
      BY <1>1, <3>1, Zenon
  <2>6. CASE UNCHANGED <<cLink, cOk, dn>>
    BY <1>1, <2>6, Zenon
  <2>7. QED
    BY <1>2, <2>1, <2>2, <2>3, <2>4, <2>5, <2>6, Zenon
       DEF Connecting, CReaderFails, CSendFails, SGoGhost, SKeepalive, SClientActive
<1>3. CASE Uplink
  <2>1. CASE CReceiveAck
    BY <1>1, <2>1, Zenon DEF CReceiveAck
  <2>2. CASE SSendAck
    BY <1>1, <2>2, Zenon DEF SSendAck
  <2>3. CASE UNCHANGED <<cLink, cOk, dn>>
    BY <1>1, <2>3, Zenon
  <2>4. QED
    BY <1>3, <2>1, <2>2, <2>3, Zenon
       DEF Uplink, CWrite, CSend, CAwaitAck, CRepeat, CReturn, SReceive, SRead
<1>4. CASE Downlink
  <2>1. CASE CReceive
    BY <1>1, <2>1, Zenon DEF CReceive
  <2>2. CASE SSend
    BY <1>1, <2>2, Zenon DEF SSend
  <2>3. CASE UNCHANGED <<cLink, cOk, dn>>
    BY <1>1, <2>3, Zenon
  <2>4. QED
    BY <1>4, <2>1, <2>2, <2>3, Zenon
       DEF Downlink, SWrite, SVwrite, SAwaitAck, SRepeat, SReturn, CSendAck, CRead, SReceiveAck
<1>5. CASE Sending
  <2>1. UNCHANGED <<cLink, cOk>> /\ (cLink = "joined" \/ dn' = dn)
    BY <1>5, Zenon DEF Sending, SSendSleeps, SSendFails, Closes, SSendDies, SKeepaliveSent
  <2>2. QED
    BY <1>1, <2>1, Zenon
<1>6. CASE UNCHANGED vars
  BY <1>1, <1>6, Zenon DEF vars
<1>7. QED
  BY <1>2, <1>3, <1>4, <1>5, <1>6 DEF Next

\* The two writers: one message at a time, each with its own identifier.
LEMMA ClientWriterStep ==
  TypeOK /\ WriterInv(cN, cMid, cPend, cPc) /\ [Next]_vars
    => WriterInv(cN, cMid, cPend, cPc)'
<1> SUFFICES ASSUME TypeOK, WriterInv(cN, cMid, cPend, cPc), [Next]_vars
             PROVE  WriterInv(cN, cMid, cPend, cPc)'
  OBVIOUS
<1>1. cN \in Nat /\ cMid \in Mid
  BY DEF TypeOK, UplinkType
<1> USE DEF WriterInv
<1>2. CASE UNCHANGED cWriter
  BY <1>2 DEF cWriter
<1>3. CASE Uplink
  <2>1. CASE CWrite
    BY <1>1, <2>1, GmidType DEF CWrite
  <2>2. CASE CSend
    BY <2>2 DEF CSend
  <2>3. CASE CAwaitAck
    BY <2>3 DEF CAwaitAck
  <2>4. CASE CRepeat
    BY <2>4 DEF CRepeat
  <2>5. CASE CReturn
    BY <2>5 DEF CReturn
  <2>6. CASE CReceiveAck
    BY <2>6 DEF CReceiveAck
  <2>7. CASE UNCHANGED cWriter
    BY <1>2, <2>7
  <2>8. QED
    BY <1>3, <2>1, <2>2, <2>3, <2>4, <2>5, <2>6, <2>7, Zenon
       DEF Uplink, SReceive, SSendAck, SRead
<1>4. QED
  BY <1>2, <1>3, Frames DEF SendingFrame

LEMMA ServerWriterStep ==
  TypeOK /\ WriterInv(sN, sMid, sPend, sPc) /\ [Next]_vars
    => WriterInv(sN, sMid, sPend, sPc)'
<1> SUFFICES ASSUME TypeOK, WriterInv(sN, sMid, sPend, sPc), [Next]_vars
             PROVE  WriterInv(sN, sMid, sPend, sPc)'
  OBVIOUS
<1>1. sN \in Nat /\ sMid \in Mid
  BY DEF TypeOK, DownlinkType
<1> USE DEF WriterInv
<1>2. CASE UNCHANGED sWriter
  BY <1>2 DEF sWriter
<1>3. CASE Downlink
  <2>1. CASE SWrite
    BY <1>1, <2>1, GmidType DEF SWrite
  <2>2. CASE SSend
    BY <2>2 DEF SSend, MaySend, WriterReady
  <2>3. CASE SAwaitAck
    BY <2>3 DEF SAwaitAck
  <2>4. CASE SRepeat
    BY <2>4 DEF SRepeat
  <2>5. CASE SReturn
    BY <2>5 DEF SReturn
  <2>6. CASE SReceiveAck
    BY <2>6 DEF SReceiveAck
  <2>7. CASE UNCHANGED sWriter
    BY <1>2, <2>7
  <2>8. CASE SVwrite
    BY <2>8 DEF SVwrite
  <2>9. QED
    BY <1>3, <2>8, <2>1, <2>2, <2>3, <2>4, <2>5, <2>6, <2>7, Zenon
       DEF Downlink, CReceive, CSendAck, CRead
<1>4. CASE SendingFrame
  BY <1>4 DEF SendingFrame
<1>5. QED
  BY <1>2, <1>3, <1>4, Frames

-----------------------------------------------------------------------------
LEMMA HeldType == TypeOK => SHeld \in Item /\ cSeen \in Item
  BY DEF TypeOK, UplinkType, DownlinkType, SHeld

UplinkInv   == LinkInv(cN, cMid, cPend, SHeld, up, dn, sAcks)
DownlinkInv == LinkInv(sN, sMid, sPend, cSeen, dn, up, cAcks)

\* The last message held is not changed by reading.
LEMMA ReadKeepsHeld ==
  ASSUME sLines \in Seq(Item), SRead
  PROVE  SHeld' = SHeld
<1>0. sLines # <<>> /\ sLines' = Tail(sLines) /\ sSeen' = Head(sLines)
  BY DEF SRead
<1> DEFINE rest == Tail(sLines)
<1>1. /\ rest \in Seq(Item) /\ Len(rest) = Len(sLines) - 1
      /\ Len(sLines) \in Nat /\ Head(sLines) = sLines[1]
      /\ \A i \in 1 .. Len(rest) : rest[i] = sLines[i + 1]
  BY <1>0
<1> HIDE DEF rest
<1>2. SHeld = sLines[Len(sLines)]
  BY <1>0 DEF SHeld
<1>3. SHeld' = IF rest = <<>> THEN Head(sLines) ELSE rest[Len(rest)]
  BY <1>0 DEF SHeld, rest
<1>4. CASE rest = <<>>
  <2>1. Len(rest) = 0
    BY <1>4
  <2>2. Len(sLines) = 1
    BY <1>1, <2>1
  <2>3. QED
    BY <1>1, <1>2, <1>3, <1>4, <2>2
<1>5. CASE rest # <<>>
  <2>1. Len(rest) \in 1 .. Len(rest)
    BY <1>1, <1>5
  <2>2. rest[Len(rest)] = sLines[Len(sLines)]
    BY <1>1, <2>1
  <2>3. QED
    BY <1>2, <1>3, <1>5, <2>2
<1>6. QED
  BY <1>4, <1>5

\* The messages of the client, and their acknowledgements.
LEMMA UplinkStep ==
  ASSUME TypeOK, TypeOK', [Next]_vars, UplinkInv,
         WriterInv(cN, cMid, cPend, cPc)
  PROVE  LinkInv(cN', cMid', cPend', SHeld', up', dn', sAcks')
<1>1. /\ cN \in Nat /\ cMid \in Mid /\ cPend \in SUBSET Mid /\ SHeld \in Item
      /\ up \in Seq(Line) /\ dn \in Seq(Line)
      /\ sAcks \in Seq(Item) /\ sLines \in Seq(Item)
      /\ up' \in Seq(Line) /\ dn' \in Seq(Line) /\ sAcks' \in Seq(Item)
  BY HeldType DEF TypeOK, UplinkType
<1>2. LinkInv(cN, cMid, cPend, SHeld, up, dn, sAcks)
  BY DEF UplinkInv
<1>3. Part(sAcks, sAcks) /\ Part(up, up) /\ Part(dn, dn)
  BY <1>1, PartOfSeq
<1>4. ASSUME UNCHANGED <<cN, cMid, cPend, sLines, sSeen, sAcks>>,
             Part(up', up), Part(dn', dn)
      PROVE  LinkInv(cN', cMid', cPend', SHeld', up', dn', sAcks')
  <2>1. SHeld' = SHeld
    BY <1>4 DEF SHeld
  <2>2. LinkInv(cN, cMid, cPend, SHeld, up', dn', sAcks)
    BY <1>1, <1>2, <1>3, <1>4, LinkLoses
  <2>3. QED
    BY <1>4, <2>1, <2>2
<1>5. CASE /\ UNCHANGED <<cWriter, sInbox, sWriter, cInbox>>
           /\ up' \in {up, <<>>} \cup Prefixes(up)
           /\ dn' \in {dn, <<>>} \cup Prefixes(dn)
  <2>1. Part(up', up) /\ Part(dn', dn)
    BY <1>1, <1>5, PartOfSeq
  <2>2. QED
    BY <1>4, <1>5, <2>1 DEF cWriter, sInbox
<1>6. CASE Uplink
  <2>1. CASE CWrite
    <3>1. cPend = {} /\ (cMid = Zero <=> cN <= 1)
      BY <2>1 DEF CWrite, WriterInv
    <3>2. /\ cN' = cN + 1 /\ cMid' = Gmid(cN, cMid) /\ cPend' = {Gmid(cN, cMid)}
          /\ UNCHANGED <<up, dn, sAcks, sLines, sSeen>>
      BY <2>1, <3>1 DEF CWrite, sInbox
    <3>3. SHeld' = SHeld
      BY <3>2 DEF SHeld
    <3>4. LinkInv(cN + 1, Gmid(cN, cMid), {Gmid(cN, cMid)}, SHeld, up, dn, sAcks)
      BY <1>1, <1>2, <3>1, LinkWrites
    <3>5. QED
      BY <3>2, <3>3, <3>4
  <2>2. CASE CSend
    <3>1. /\ UNCHANGED <<cN, cMid, cPend, sLines, sSeen, sAcks, dn>>
          /\ up' = up \/ up' = Append(up, UpLine)
      BY <2>2, Zenon DEF CSend, ClientPuts, UpLine, sInbox
    <3>2. CASE up' = up
      BY <1>3, <1>4, <3>1, <3>2
    <3>3. CASE up' = Append(up, UpLine)
      <4>1. cN >= 1 /\ (cMid = Zero <=> cN <= 1)
        BY <1>1, <2>2 DEF CSend, WriterInv
      <4>2. LinkInv(cN, cMid, cPend, SHeld, Append(up, UpLine), dn, sAcks)
        BY <1>1, <1>2, <4>1, LinkSends DEF UpLine
      <4>3. SHeld' = SHeld
        BY <3>1 DEF SHeld
      <4>4. QED
        BY <3>1, <3>3, <4>2, <4>3
    <3>4. QED
      BY <3>1, <3>2, <3>3
  <2>3. CASE CAwaitAck \/ CRepeat \/ CReturn
    BY <1>3, <1>4, <2>3 DEF CAwaitAck, CRepeat, CReturn, sInbox
  <2>4. CASE SReceive
    <3> DEFINE x == ToItem(Head(up))
    <3>1. /\ up # <<>> /\ Head(up).kind = "msg" /\ (cMid = Zero <=> cN <= 1)
          /\ UNCHANGED <<cN, cMid, cPend, dn>>
          /\ up' = Tail(up) /\ sLines' = Append(sLines, x) /\ sAcks' = Append(sAcks, x)
      BY <2>4 DEF SReceive, WriterInv, cWriter
    <3>2. /\ x \in Item
          /\ LinkInv(cN, cMid, cPend, x, Tail(up), dn, Append(sAcks, x))
      BY <1>1, <1>2, <3>1, LinkReceives
    <3>3. SHeld' = x
      BY <1>1, <3>1, <3>2 DEF SHeld
    <3> HIDE DEF x
    <3>4. QED
      BY <3>1, <3>2, <3>3
  <2>5. CASE SSendAck
    <3>1. /\ UNCHANGED <<cN, cMid, cPend, sLines, sSeen, up>>
          /\ sAcks # <<>> /\ sAcks' = Tail(sAcks)
          /\ dn' = dn \/ dn' = Append(dn, ToLine("ack", Head(sAcks)))
      BY <2>5, Zenon DEF SSendAck, MaySend, LineDropped, cWriter
    <3>2. SHeld' = SHeld
      BY <3>1 DEF SHeld
    <3>3. CASE dn' = dn
      <4>1. Part(sAcks', sAcks)
        BY <1>1, <3>1, PartOfSeq
      <4>2. LinkInv(cN, cMid, cPend, SHeld, up, dn, sAcks')
        BY <1>1, <1>2, <1>3, <4>1, LinkLoses
      <4>3. QED
        BY <3>1, <3>2, <3>3, <4>2
    <3>4. CASE dn' = Append(dn, ToLine("ack", Head(sAcks)))
      <4>1. LinkInv(cN, cMid, cPend, SHeld, up,
                    Append(dn, ToLine("ack", Head(sAcks))), Tail(sAcks))
        BY <1>1, <1>2, <3>1, LinkAcknowledges
      <4>2. QED
        BY <3>1, <3>2, <3>4, <4>1
    <3>5. QED
      BY <3>1, <3>3, <3>4
  <2>6. CASE SRead
    <3>1. /\ UNCHANGED <<cN, cMid, cPend, sAcks, up, dn>>
          /\ sLines # <<>> /\ sLines' = Tail(sLines) /\ sSeen' = Head(sLines)
      BY <2>6 DEF SRead, cWriter
    <3>2. SHeld' = SHeld
      BY <1>1, <2>6, ReadKeepsHeld
    <3>3. QED
      BY <1>2, <3>1, <3>2
  <2>7. CASE CReceiveAck
    <3>1. /\ UNCHANGED <<cN, cMid, sLines, sSeen, sAcks, up>>
          /\ dn # <<>> /\ Head(dn).kind = "ack" /\ dn' = Tail(dn)
          /\ cPend' = cPend \ {Head(dn).mid} /\ cPend \subseteq {cMid}
      BY <2>7 DEF CReceiveAck, sInbox, WriterInv
    <3>2. LinkInv(cN, cMid, cPend \ {Head(dn).mid}, SHeld, up, Tail(dn), sAcks)
      BY <1>1, <1>2, <3>1, LinkAcknowledged
    <3>3. SHeld' = SHeld
      BY <3>1 DEF SHeld
    <3>4. QED
      BY <3>1, <3>2, <3>3
  <2>8. QED
    BY <1>6, <2>1, <2>2, <2>3, <2>4, <2>5, <2>6, <2>7 DEF Uplink
<1>7. CASE Downlink /\ UNCHANGED <<cWriter, sInbox>>
  <2>1. UNCHANGED <<cN, cMid, cPend, sLines, sSeen, sAcks>>
    BY <1>7 DEF cWriter, sInbox
  <2>2. CASE SWrite \/ SVwrite \/ SAwaitAck \/ SRepeat \/ SReturn \/ CRead
    BY <1>3, <1>4, <2>1, <2>2 DEF SWrite, SVwrite, SAwaitAck, SRepeat, SReturn, CRead
  <2>3. CASE SSend
    <3>1. up' = up /\ (dn' = dn \/ dn' = Append(dn, DnLine))
      BY <2>3, Zenon DEF SSend, DnLine
    <3>2. CASE dn' = dn
      BY <1>3, <1>4, <2>1, <3>1, <3>2
    <3>3. CASE dn' = Append(dn, DnLine)
      <4>1. DnLine \in Line /\ DnLine.kind = "msg"
        BY DEF TypeOK, DownlinkType, Line, DnLine
      <4>2. LinkInv(cN, cMid, cPend, SHeld, up, Append(dn, DnLine), sAcks)
        BY <1>1, <1>2, <4>1, LinkIgnores
      <4>3. SHeld' = SHeld
        BY <2>1 DEF SHeld
      <4>4. QED
        BY <2>1, <3>1, <3>3, <4>2, <4>3
    <3>4. QED
      BY <3>1, <3>2, <3>3
  <2>4. CASE CReceive \/ SReceiveAck
    <3>1. \/ up' = up /\ dn # <<>> /\ dn' = Tail(dn)
          \/ dn' = dn /\ up # <<>> /\ up' = Tail(up)
      BY <2>4, Zenon DEF CReceive, SReceiveAck
    <3>2. Part(up', up) /\ Part(dn', dn)
      BY <1>1, <3>1, PartOfSeq
    <3>3. QED
      BY <1>4, <2>1, <3>2
  <2>5. CASE CSendAck
    <3> DEFINE x == ToLine("ack", Head(cAcks))
    <3>1. dn' = dn /\ (up' = up \/ up' = Append(up, x))
      BY <2>5, Zenon DEF CSendAck, ClientPuts
    <3>2. CASE up' = up
      BY <1>3, <1>4, <2>1, <3>1, <3>2
    <3>3. CASE up' = Append(up, x)
      <4>1. x \in Line /\ x.kind = "ack"
        <5>1. Head(cAcks) \in Item
          BY <2>5 DEF CSendAck, TypeOK, DownlinkType
        <5>2. QED
          BY <5>1, ItemTypes DEF ToLine
      <4> HIDE DEF x
      <4>2. LinkInv(cN, cMid, cPend, SHeld, Append(up, x), dn, sAcks)
        BY <1>1, <1>2, <4>1, LinkIgnores
      <4>3. SHeld' = SHeld
        BY <2>1 DEF SHeld
      <4>4. QED
        BY <2>1, <3>1, <3>3, <4>2, <4>3
    <3>4. QED
      BY <3>1, <3>2, <3>3
  <2>6. QED
    BY <1>7, <2>2, <2>3, <2>4, <2>5 DEF Downlink
<1>8. CASE SendingFrame
  <2>1. /\ UNCHANGED <<cN, cMid, cPend, sLines, sSeen>>
        /\ sAcks' = sAcks \/ (sAcks # <<>> /\ sAcks' = Tail(sAcks))
        /\ up' \in {up, <<>>} /\ dn' \in {dn} \cup Prefixes(dn)
    BY <1>8 DEF SendingFrame, cWriter
  <2>2. Part(up', up) /\ Part(dn', dn) /\ Part(sAcks', sAcks)
    BY <1>1, <2>1, PartOfSeq
  <2>3. SHeld' = SHeld
    BY <2>1 DEF SHeld
  <2>4. LinkInv(cN, cMid, cPend, SHeld, up', dn', sAcks')
    BY <1>1, <1>2, <2>2, LinkLoses
  <2>5. QED
    BY <2>1, <2>3, <2>4
<1>9. QED
  BY <1>5, <1>6, <1>7, <1>8, Frames

\* The messages of the server, and their acknowledgements.
LEMMA DownlinkStep ==
  ASSUME TypeOK, TypeOK', [Next]_vars, DownlinkInv,
         WriterInv(sN, sMid, sPend, sPc)
  PROVE  LinkInv(sN', sMid', sPend', cSeen', dn', up', cAcks')
<1>1. /\ sN \in Nat /\ sMid \in Mid /\ sPend \in SUBSET Mid /\ cSeen \in Item
      /\ up \in Seq(Line) /\ dn \in Seq(Line) /\ cAcks \in Seq(Item)
      /\ up' \in Seq(Line) /\ dn' \in Seq(Line) /\ cAcks' \in Seq(Item)
  BY DEF TypeOK, DownlinkType
<1>2. LinkInv(sN, sMid, sPend, cSeen, dn, up, cAcks)
  BY DEF DownlinkInv
<1>3. Part(cAcks, cAcks) /\ Part(up, up) /\ Part(dn, dn)
  BY <1>1, PartOfSeq
<1>4. ASSUME UNCHANGED <<sN, sMid, sPend, cSeen, cAcks>>,
             Part(up', up), Part(dn', dn)
      PROVE  LinkInv(sN', sMid', sPend', cSeen', dn', up', cAcks')
  <2>1. LinkInv(sN, sMid, sPend, cSeen, dn', up', cAcks)
    BY <1>1, <1>2, <1>3, <1>4, LinkLoses
  <2>2. QED
    BY <1>4, <2>1
<1>5. CASE /\ UNCHANGED <<cWriter, sInbox, sWriter, cInbox>>
           /\ up' \in {up, <<>>} \cup Prefixes(up)
           /\ dn' \in {dn, <<>>} \cup Prefixes(dn)
  <2>1. Part(up', up) /\ Part(dn', dn)
    BY <1>1, <1>5, PartOfSeq
  <2>2. QED
    BY <1>4, <1>5, <2>1 DEF sWriter, cInbox
<1>6. CASE Downlink
  <2>1. CASE SWrite
    <3>1. sPend = {} /\ (sMid = Zero <=> sN <= 1)
      BY <2>1 DEF SWrite, WriterInv
    <3>2. /\ sN' = sN + 1 /\ sMid' = Gmid(sN, sMid) /\ sPend' = {Gmid(sN, sMid)}
          /\ UNCHANGED <<up, dn, cAcks, cSeen>>
      BY <2>1, <3>1 DEF SWrite, cInbox
    <3>3. LinkInv(sN + 1, Gmid(sN, sMid), {Gmid(sN, sMid)}, cSeen, dn, up, cAcks)
      BY <1>1, <1>2, <3>1, LinkWrites
    <3>4. QED
      BY <3>2, <3>3
  <2>2. CASE SSend
    <3>1. /\ UNCHANGED <<sN, sMid, sPend, cSeen, cAcks, up>>
          /\ dn' = dn \/ dn' = Append(dn, DnLine)
      BY <2>2, Zenon DEF SSend, DnLine, cInbox
    <3>2. CASE dn' = dn
      BY <1>3, <1>4, <3>1, <3>2
    <3>3. CASE dn' = Append(dn, DnLine)
      <4>1. sN >= 1 /\ (sMid = Zero <=> sN <= 1)
        BY <1>1, <2>2 DEF SSend, MaySend, WriterReady, WriterInv
      <4>2. LinkInv(sN, sMid, sPend, cSeen, Append(dn, DnLine), up, cAcks)
        BY <1>1, <1>2, <4>1, LinkSends DEF DnLine
      <4>3. QED
        BY <3>1, <3>3, <4>2
    <3>4. QED
      BY <3>1, <3>2, <3>3
  <2>3. CASE SVwrite \/ SAwaitAck \/ SRepeat \/ SReturn \/ CRead
    BY <1>3, <1>4, <2>3 DEF SVwrite, SAwaitAck, SRepeat, SReturn, CRead, cInbox, sWriter
  <2>4. CASE CReceive
    <3> DEFINE x == ToItem(Head(dn))
    <3>1. /\ dn # <<>> /\ Head(dn).kind = "msg" /\ (sMid = Zero <=> sN <= 1)
          /\ UNCHANGED <<sN, sMid, sPend, up>>
          /\ dn' = Tail(dn) /\ cSeen' = x /\ cAcks' = Append(cAcks, x)
      BY <2>4 DEF CReceive, WriterInv, sWriter
    <3>2. LinkInv(sN, sMid, sPend, x, Tail(dn), up, Append(cAcks, x))
      BY <1>1, <1>2, <3>1, LinkReceives
    <3> HIDE DEF x
    <3>3. QED
      BY <3>1, <3>2
  <2>5. CASE CSendAck
    <3>1. /\ UNCHANGED <<sN, sMid, sPend, cSeen, dn>>
          /\ cAcks # <<>> /\ cAcks' = Tail(cAcks)
          /\ up' = up \/ up' = Append(up, ToLine("ack", Head(cAcks)))
      BY <2>5, Zenon DEF CSendAck, ClientPuts, sWriter
    <3>2. CASE up' = up
      <4>1. Part(cAcks', cAcks)
        BY <1>1, <3>1, PartOfSeq
      <4>2. LinkInv(sN, sMid, sPend, cSeen, dn, up, cAcks')
        BY <1>1, <1>2, <1>3, <4>1, LinkLoses
      <4>3. QED
        BY <3>1, <3>2, <4>2
    <3>3. CASE up' = Append(up, ToLine("ack", Head(cAcks)))
      <4>1. LinkInv(sN, sMid, sPend, cSeen, dn,
                    Append(up, ToLine("ack", Head(cAcks))), Tail(cAcks))
        BY <1>1, <1>2, <3>1, LinkAcknowledges
      <4>2. QED
        BY <3>1, <3>3, <4>1
    <3>4. QED
      BY <3>1, <3>2, <3>3
  <2>6. CASE SReceiveAck
    <3>1. /\ UNCHANGED <<sN, sMid, cSeen, cAcks, dn>>
          /\ up # <<>> /\ Head(up).kind = "ack" /\ up' = Tail(up)
          /\ sPend' = sPend \ {Head(up).mid} /\ sPend \subseteq {sMid}
      BY <2>6 DEF SReceiveAck, cInbox, WriterInv
    <3>2. LinkInv(sN, sMid, sPend \ {Head(up).mid}, cSeen, dn, Tail(up), cAcks)
      BY <1>1, <1>2, <3>1, LinkAcknowledged
    <3>3. QED
      BY <3>1, <3>2
  <2>7. QED
    BY <1>6, <2>1, <2>2, <2>3, <2>4, <2>5, <2>6 DEF Downlink
<1>7. CASE Uplink /\ UNCHANGED <<sWriter, cInbox>>
  <2>1. UNCHANGED <<sN, sMid, sPend, cSeen, cAcks>>
    BY <1>7 DEF sWriter, cInbox
  <2>2. CASE CWrite \/ CAwaitAck \/ CRepeat \/ CReturn \/ SRead
    BY <1>3, <1>4, <2>1, <2>2 DEF CWrite, CAwaitAck, CRepeat, CReturn, SRead
  <2>3. CASE CSend
    <3>1. dn' = dn /\ (up' = up \/ up' = Append(up, UpLine))
      BY <2>3, Zenon DEF CSend, ClientPuts, UpLine
    <3>2. CASE up' = up
      BY <1>3, <1>4, <2>1, <3>1, <3>2
    <3>3. CASE up' = Append(up, UpLine)
      <4>1. UpLine \in Line /\ UpLine.kind = "msg"
        BY DEF TypeOK, UplinkType, Line, UpLine
      <4>2. LinkInv(sN, sMid, sPend, cSeen, dn, Append(up, UpLine), cAcks)
        BY <1>1, <1>2, <4>1, LinkIgnores
      <4>3. QED
        BY <2>1, <3>1, <3>3, <4>2
    <3>4. QED
      BY <3>1, <3>2, <3>3
  <2>4. CASE SReceive \/ CReceiveAck
    <3>1. \/ up' = up /\ dn # <<>> /\ dn' = Tail(dn)
          \/ dn' = dn /\ up # <<>> /\ up' = Tail(up)
      BY <2>4, Zenon DEF SReceive, CReceiveAck
    <3>2. Part(up', up) /\ Part(dn', dn)
      BY <1>1, <3>1, PartOfSeq
    <3>3. QED
      BY <1>4, <2>1, <3>2
  <2>5. CASE SSendAck
    <3> DEFINE x == ToLine("ack", Head(sAcks))
    <3>1. up' = up /\ (dn' = dn \/ dn' = Append(dn, x))
      BY <2>5, Zenon DEF SSendAck, LineDropped
    <3>2. CASE dn' = dn
      BY <1>3, <1>4, <2>1, <3>1, <3>2
    <3>3. CASE dn' = Append(dn, x)
      <4>1. x \in Line /\ x.kind = "ack"
        <5>1. Head(sAcks) \in Item
          BY <2>5 DEF SSendAck, MaySend, TypeOK, UplinkType
        <5>2. QED
          BY <5>1, ItemTypes DEF ToLine
      <4> HIDE DEF x
      <4>2. LinkInv(sN, sMid, sPend, cSeen, Append(dn, x), up, cAcks)
        BY <1>1, <1>2, <4>1, LinkIgnores
      <4>3. QED
        BY <2>1, <3>1, <3>3, <4>2
    <3>4. QED
      BY <3>1, <3>2, <3>3
  <2>6. QED
    BY <1>7, <2>2, <2>3, <2>4, <2>5 DEF Uplink
<1>8. CASE SendingFrame
  <2>1. /\ UNCHANGED <<sN, sMid, sPend, cSeen, cAcks>>
        /\ up' \in {up, <<>>} /\ dn' \in {dn} \cup Prefixes(dn)
    BY <1>8 DEF SendingFrame, cInbox
  <2>2. Part(up', up) /\ Part(dn', dn)
    BY <1>1, <2>1, PartOfSeq
  <2>3. QED
    BY <1>4, <2>1, <2>2
<1>9. QED
  BY <1>5, <1>6, <1>7, <1>8, Frames

-----------------------------------------------------------------------------
\* The lines the server keeps, and those its application has read.
LEMMA SInboxStep ==
  ASSUME TypeOK, [Next]_vars, UplinkInv, WriterInv(cN, cMid, cPend, cPc), SInboxInv
  PROVE  SInboxInv'
<1>1. /\ cN \in Nat /\ cMid \in Mid /\ cPend \in SUBSET Mid /\ SHeld \in Item
      /\ up \in Seq(Line) /\ dn \in Seq(Line)
      /\ sAcks \in Seq(Item) /\ sLines \in Seq(Item)
      /\ sRec \in Record /\ sSeen \in Item /\ sGot \in Seq(Nat)
  BY HeldType DEF TypeOK, UplinkType
<1> USE DEF SInboxInv, UpInOrder, InOrder
<1>2. CASE UNCHANGED <<sLines, sRec, sSeen, sGot>>
  BY <1>2 DEF SHeld
<1>3. CASE SReceive
  <2> DEFINE x == ToItem(Head(up))
             new == Append(sLines, x)
  <2>1. /\ up # <<>> /\ Head(up).kind = "msg" /\ (cMid = Zero <=> cN <= 1)
        /\ sLines' = new /\ UNCHANGED <<sRec, sSeen, sGot>>
    BY <1>3 DEF SReceive, WriterInv
  <2>2. x \in Item /\ Follows(SHeld, x)
    BY <1>1, <2>1, LinkReceives DEF UplinkInv
  <2>3. /\ Len(new) = Len(sLines) + 1 /\ new[Len(sLines) + 1] = x
        /\ \A i \in 1 .. Len(sLines) : new[i] = sLines[i]
        /\ Len(sLines) \in Nat
    BY <1>1, <2>2
  <2> HIDE DEF x, new
  <2>0. \A i \in 1 .. Len(new) : new[i].n <= SHeld'.n
    <3>1. SHeld' = x
      <4>1. new # <<>>
        BY <2>3
      <4>2. QED
        BY <2>1, <2>3, <4>1 DEF SHeld
    <3>2. SHeld.n \in Nat /\ x.n \in Nat /\ SHeld.n <= x.n
      BY <1>1, <2>2 DEF Item, Follows
    <3>3. \A i \in 1 .. Len(sLines) : sLines[i].n \in Nat /\ sLines[i].n <= SHeld.n
      <4>1. \A i \in 1 .. Len(sLines) : sLines[i] \in Item
        BY <1>1
      <4>2. QED
        BY <4>1 DEF Item
    <3>4. \A i \in 1 .. Len(new) : i \in 1 .. Len(sLines) \/ i = Len(sLines) + 1
      BY <2>3
    <3>5. QED
      BY <2>3, <3>1, <3>2, <3>3, <3>4
  <2>4. Follows(sSeen, new[1])
    <3>1. CASE sLines = <<>>
      BY <2>2, <2>3, <3>1 DEF SHeld
    <3>2. CASE sLines # <<>>
      <4>1. 1 \in 1 .. Len(sLines)
        BY <1>1, <3>2
      <4>2. QED
        BY <2>3, <3>2, <4>1
    <3>3. QED
      BY <3>1, <3>2
  <2>5. \A i \in 1 .. Len(new) - 1 : Follows(new[i], new[i + 1])
    <3> SUFFICES ASSUME NEW i \in 1 .. Len(new) - 1
                 PROVE  Follows(new[i], new[i + 1])
      OBVIOUS
    <3>1. i \in 1 .. Len(sLines) /\ new[i] = sLines[i]
      BY <2>3
    <3>2. CASE i = Len(sLines)
      <4>1. SHeld = sLines[i]
        BY <1>1, <3>1, <3>2 DEF SHeld
      <4>2. QED
        BY <2>2, <2>3, <3>1, <3>2, <4>1
    <3>3. CASE i # Len(sLines)
      <4>1. i \in 1 .. Len(sLines) - 1 /\ new[i + 1] = sLines[i + 1]
        BY <2>3, <3>1, <3>3
      <4>2. QED
        BY <3>1, <4>1
    <3>4. QED
      BY <3>2, <3>3
  <2>6. QED
    BY <2>0, <2>1, <2>4, <2>5
<1>4. CASE SRead
  <2> DEFINE x == Head(sLines)
             rest == Tail(sLines)
             new == Append(sGot, x.n)
  <2>1. /\ sLines # <<>>
        /\ sGot' = IF Accepts(x.mid, sRec) THEN new ELSE sGot
        /\ sRec' = After(x.mid, sRec) /\ sSeen' = x /\ sLines' = rest
    BY <1>4 DEF SRead
  <2>2. /\ x = sLines[1] /\ x \in Item /\ x.n \in Nat
        /\ Len(rest) = Len(sLines) - 1
        /\ \A i \in 1 .. Len(rest) : rest[i] = sLines[i + 1]
        /\ Len(sLines) \in Nat /\ rest # <<>> => 1 \in 1 .. Len(rest)
    <3>1. x = sLines[1] /\ x \in Item /\ rest \in Seq(Item)
      BY <1>1, <2>1
    <3>2. x.n \in Nat
      BY <3>1 DEF Item
    <3>3. QED
      BY <1>1, <2>1, <3>1, <3>2
  <2>3. /\ SeenInv(x, After(x.mid, sRec))
        /\ x.n >= 1 /\ x.n \in {sSeen.n, sSeen.n + 1}
        /\ Accepts(x.mid, sRec) <=> x.n = sSeen.n + 1 \/ x.n = 1
    BY <1>1, <2>1, <2>2, LooksUp
  <2>4. /\ Len(new) = Len(sGot) + 1 /\ new[Len(sGot) + 1] = x.n
        /\ \A i \in 1 .. Len(sGot) : new[i] = sGot[i]
        /\ Len(sGot) \in Nat /\ new # <<>>
        /\ sGot # <<>> => Len(sGot) \in 1 .. Len(sGot) /\ 1 \in 1 .. Len(sGot)
    BY <1>1, <2>2, AppendedFacts
  <2>5. sSeen.n \in Nat
    BY <1>1 DEF Item
  <2> HIDE DEF x, rest, new
  <2>6. rest # <<>> => Follows(x, rest[1])
    BY <2>2
  <2>7. \A i \in 1 .. Len(rest) - 1 : Follows(rest[i], rest[i + 1])
    <3> SUFFICES ASSUME NEW i \in 1 .. Len(rest) - 1
                 PROVE  Follows(rest[i], rest[i + 1])
      OBVIOUS
    <3>1. /\ rest[i] = sLines[i + 1] /\ rest[i + 1] = sLines[(i + 1) + 1]
          /\ i + 1 \in 1 .. Len(sLines) - 1
      BY <2>2
    <3>2. QED
      BY <3>1
  <2>0. \A i \in 1 .. Len(rest) : rest[i].n <= SHeld'.n
    <3>1. SHeld' = SHeld
      BY <1>1, <1>4, ReadKeepsHeld
    <3>2. \A i \in 1 .. Len(rest) :
            rest[i] = sLines[i + 1] /\ i + 1 \in 1 .. Len(sLines)
      BY <2>2
    <3>3. QED
      BY <3>1, <3>2
  <2>8. CASE ~Accepts(x.mid, sRec)
    <3>1. sGot' = sGot /\ x.n = sSeen.n /\ x.n >= 1
      BY <2>1, <2>3, <2>8
    <3>2. sGot # <<>> /\ sGot[Len(sGot)] = x.n
      BY <3>1
    <3>3. QED
      BY <2>0, <2>1, <2>3, <2>6, <2>7, <3>1, <3>2
  <2>9. CASE Accepts(x.mid, sRec)
    <3>1. sGot' = new /\ new[Len(new)] = x.n
      BY <2>1, <2>4, <2>9
    <3>2. sGot = <<>> => new[1] = 1
      <4>1. ASSUME sGot = <<>> PROVE x.n = 1
        BY <2>3, <4>1
      <4>2. ASSUME sGot = <<>> PROVE Len(sGot) = 0
        BY <4>2
      <4>3. QED
        BY <2>4, <4>1, <4>2
    <3>3. sGot # <<>> => new[1] = 1
      BY <2>4
    <3>4. \A i \in 1 .. Len(new) - 1 :
            new[i + 1] = new[i] + 1 \/ (new[i] = 1 /\ new[i + 1] = 1)
      <4> SUFFICES ASSUME NEW i \in 1 .. Len(new) - 1
                   PROVE  new[i + 1] = new[i] + 1 \/ (new[i] = 1 /\ new[i + 1] = 1)
        OBVIOUS
      <4>1. i \in 1 .. Len(sGot) /\ new[i] = sGot[i]
        BY <2>4
      <4>2. CASE i = Len(sGot)
        <5>1. new[i] = sSeen.n /\ new[i + 1] = x.n
          BY <1>1, <2>4, <4>1, <4>2
        <5>2. QED
          BY <2>3, <2>5, <2>9, <5>1
      <4>3. CASE i # Len(sGot)
        <5>1. i \in 1 .. Len(sGot) - 1 /\ new[i + 1] = sGot[i + 1]
          BY <2>4, <4>1, <4>3
        <5>2. QED
          BY <4>1, <5>1
      <4>4. QED
        BY <4>2, <4>3
    <3>5. QED
      BY <2>0, <2>1, <2>3, <2>4, <2>6, <2>7, <3>1, <3>2, <3>3, <3>4
  <2>10. QED
    BY <2>8, <2>9
<1>5. QED
  <2>1. UNCHANGED sInbox \/ Uplink \/ SendingFrame
    BY Frames
  <2>2. UNCHANGED <<sLines, sRec, sSeen, sGot>> \/ SReceive \/ SRead
    BY <2>1, Zenon DEF Uplink, CWrite, CSend, CAwaitAck, CRepeat, CReturn,
       SSendAck, LineDropped, CReceiveAck, sInbox, SendingFrame
  <2>3. QED
    BY <1>2, <1>3, <1>4, <2>2

\* The queue of the client, and what its application has read.
LEMMA CInboxStep ==
  ASSUME TypeOK, [Next]_vars, DownlinkInv, WriterInv(sN, sMid, sPend, sPc), CInboxInv
  PROVE  CInboxInv'
<1>1. /\ sN \in Nat /\ sMid \in Mid /\ sPend \in SUBSET Mid
      /\ up \in Seq(Line) /\ dn \in Seq(Line)
      /\ cAcks \in Seq(Item) /\ cLines \in Seq(Item)
      /\ cRec \in Record /\ cSeen \in Item /\ cGot \in Seq(Nat)
  BY DEF TypeOK, DownlinkType
<1> USE DEF CInboxInv, DnInOrder, Later
<1>2. CASE UNCHANGED <<cLines, cRec, cSeen, cGot>>
  BY <1>2
<1>3. CASE CReceive
  <2> DEFINE x == ToItem(Head(dn))
             new == Append(cLines, x)
             fresh == Accepts(x.mid, cRec)
  <2>1. /\ dn # <<>> /\ Head(dn).kind = "msg" /\ (sMid = Zero <=> sN <= 1)
        /\ cRec' = After(x.mid, cRec) /\ cSeen' = x /\ cGot' = cGot
        /\ cLines' = cLines \/ (fresh /\ cLines' = new)
    <3>1. sMid = Zero <=> sN <= 1
      BY DEF WriterInv
    <3> HIDE DEF x, new, fresh
    <3>2. QED
      BY <1>3, <3>1, Zenon DEF CReceive, x, new, fresh
  <2>2. x \in Item /\ Follows(cSeen, x)
    BY <1>1, <2>1, LinkReceives DEF DownlinkInv
  <2>3. /\ Len(new) = Len(cLines) + 1 /\ new[Len(cLines) + 1] = x
        /\ \A i \in 1 .. Len(cLines) : new[i] = cLines[i]
        /\ Len(cLines) \in Nat
        /\ cLines # <<>> => 1 \in 1 .. Len(cLines)
        /\ cGot # <<>> => Len(cGot) \in 1 .. Len(cGot)
    BY <1>1, <2>2
  <2>4. /\ SeenInv(x, After(x.mid, cRec))
        /\ x.n >= 1 /\ x.n \in {cSeen.n, cSeen.n + 1}
        /\ fresh <=> x.n = cSeen.n + 1 \/ x.n = 1
    BY <1>1, <2>2, LooksUp
  <2>5. cSeen.n \in Nat /\ x.n \in Nat
    BY <1>1, <2>2 DEF Item
  <2> HIDE DEF x, new, fresh
  <2>6. \A k \in 1 .. cSeen.n : k \in 1 .. x.n /\ (fresh => Later(k, x.n))
    BY <2>4, <2>5
  <2>7. /\ \A i \in 1 .. Len(cLines) : cLines[i].n \in 1 .. x.n
        /\ \A i \in 1 .. Len(cGot) : cGot[i] \in 1 .. x.n
    BY <2>6
  <2>8. CASE cLines' = cLines
    BY <2>1, <2>4, <2>7, <2>8
  <2>9. CASE fresh /\ cLines' = new
    <3>1. \A i \in 1 .. Len(new) : new[i].n \in 1 .. x.n
      <4>1. \A i \in 1 .. Len(new) : i \in 1 .. Len(cLines) \/ i = Len(cLines) + 1
        BY <2>3
      <4>2. x.n \in 1 .. x.n
        BY <2>4, <2>5
      <4>3. QED
        BY <2>3, <2>7, <4>1, <4>2
    <3>2. \A i \in 1 .. Len(new) - 1 : Later(new[i].n, new[i + 1].n)
      <4> SUFFICES ASSUME NEW i \in 1 .. Len(new) - 1
                   PROVE  Later(new[i].n, new[i + 1].n)
        OBVIOUS
      <4>1. i \in 1 .. Len(cLines) /\ new[i] = cLines[i]
        BY <2>3
      <4>2. CASE i = Len(cLines)
        BY <2>3, <2>6, <2>9, <4>1, <4>2
      <4>3. CASE i # Len(cLines)
        <5>1. i \in 1 .. Len(cLines) - 1 /\ new[i + 1] = cLines[i + 1]
          BY <2>3, <4>1, <4>3
        <5>2. QED
          BY <4>1, <5>1
      <4>4. QED
        BY <4>2, <4>3
    <3>3. cGot # <<>> => Later(cGot[Len(cGot)], new[1].n)
      <4> SUFFICES ASSUME cGot # <<>> PROVE Later(cGot[Len(cGot)], new[1].n)
        OBVIOUS
      <4>1. CASE cLines = <<>>
        <5>1. Len(cLines) = 0
          BY <4>1
        <5>2. new[1] = x
          BY <2>3, <5>1
        <5>3. QED
          BY <2>3, <2>6, <2>9, <5>2
      <4>2. CASE cLines # <<>>
        BY <2>3, <4>2
      <4>3. QED
        BY <4>1, <4>2
    <3>4. QED
      BY <2>1, <2>4, <2>7, <2>9, <3>1, <3>2, <3>3
  <2>10. QED
    BY <2>1, <2>8, <2>9
<1>4. CASE CRead
  <2> DEFINE x == Head(cLines)
             rest == Tail(cLines)
             new == Append(cGot, x.n)
  <2>1. /\ cLines # <<>> /\ cGot' = new /\ cLines' = rest
        /\ UNCHANGED <<cRec, cSeen>>
    BY <1>4 DEF CRead
  <2>2. /\ x = cLines[1] /\ x.n \in Nat /\ 1 \in 1 .. Len(cLines)
        /\ Len(rest) = Len(cLines) - 1
        /\ \A i \in 1 .. Len(rest) : rest[i] = cLines[i + 1]
        /\ Len(cLines) \in Nat /\ rest # <<>> => 1 \in 1 .. Len(cLines) - 1
    <3>1. x = cLines[1] /\ x \in Item /\ rest \in Seq(Item)
      BY <1>1, <2>1
    <3>2. x.n \in Nat
      BY <3>1 DEF Item
    <3>3. QED
      BY <1>1, <2>1, <3>1, <3>2
  <2>3. /\ Len(new) = Len(cGot) + 1 /\ new[Len(cGot) + 1] = x.n
        /\ \A i \in 1 .. Len(cGot) : new[i] = cGot[i]
        /\ Len(cGot) \in Nat
        /\ cGot = <<>> \/ Len(cGot) \in 1 .. Len(cGot)
    BY <1>1, <2>2, AppendedFacts
  <2> HIDE DEF x, rest, new
  <2>4. \A i \in 1 .. Len(rest) : rest[i].n \in 1 .. cSeen.n
    <3>1. \A i \in 1 .. Len(rest) :
            rest[i] = cLines[i + 1] /\ i + 1 \in 1 .. Len(cLines)
      BY <2>2
    <3>2. QED
      BY <3>1
  <2>5. \A i \in 1 .. Len(rest) - 1 : Later(rest[i].n, rest[i + 1].n)
    <3> SUFFICES ASSUME NEW i \in 1 .. Len(rest) - 1
                 PROVE  Later(rest[i].n, rest[i + 1].n)
      OBVIOUS
    <3>1. /\ rest[i] = cLines[i + 1] /\ rest[i + 1] = cLines[(i + 1) + 1]
          /\ i + 1 \in 1 .. Len(cLines) - 1
      BY <2>2
    <3>2. QED
      BY <3>1
  <2>6. \A i \in 1 .. Len(new) : new[i] \in 1 .. cSeen.n
    <3>1. \A i \in 1 .. Len(new) : i \in 1 .. Len(cGot) \/ i = Len(cGot) + 1
      BY <2>3
    <3>2. QED
      BY <2>2, <2>3, <3>1
  <2>7. rest # <<>> => Later(new[Len(new)], rest[1].n)
    <3> SUFFICES ASSUME rest # <<>> PROVE Later(new[Len(new)], rest[1].n)
      OBVIOUS
    <3>1. new[Len(new)] = cLines[1].n /\ rest[1] = cLines[1 + 1] /\ 1 \in 1 .. Len(cLines) - 1
      BY <2>2, <2>3
    <3>2. QED
      BY <3>1
  <2>8. \A i \in 1 .. Len(new) - 1 : Later(new[i], new[i + 1])
    <3> SUFFICES ASSUME NEW i \in 1 .. Len(new) - 1
                 PROVE  Later(new[i], new[i + 1])
      OBVIOUS
    <3>1. i \in 1 .. Len(cGot) /\ new[i] = cGot[i]
      BY <2>3
    <3>2. CASE i = Len(cGot)
      <4>1. cGot # <<>> /\ new[i + 1] = cLines[1].n
        BY <2>2, <2>3, <3>1, <3>2
      <4>2. QED
        BY <2>1, <3>1, <3>2, <4>1
    <3>3. CASE i # Len(cGot)
      <4>1. i \in 1 .. Len(cGot) - 1 /\ new[i + 1] = cGot[i + 1]
        BY <2>3, <3>1, <3>3
      <4>2. QED
        BY <3>1, <4>1
    <3>4. QED
      BY <3>2, <3>3
  <2>9. QED
    BY <2>1, <2>4, <2>5, <2>6, <2>7, <2>8
<1>5. QED
  <2>1. UNCHANGED cInbox \/ Downlink
    BY Frames DEF SendingFrame
  <2>2. UNCHANGED <<cLines, cRec, cSeen, cGot>> \/ CReceive \/ CRead
    BY <2>1, Zenon DEF Downlink, SWrite, SVwrite, SSend, SAwaitAck, SRepeat, SReturn,
       CSendAck, SReceiveAck, cInbox
  <2>3. QED
    BY <1>2, <1>3, <1>4, <2>2

-----------------------------------------------------------------------------
LEMMA IInvInit == Init => IInv
<1> SUFFICES ASSUME Init PROVE IInv
  OBVIOUS
<1>1. TypeOK
  BY TypeInit
<1>2. NothingBeforeAccepted
  BY Zenon DEF Init, NothingBeforeAccepted
<1>3. /\ WriterInv(cN, cMid, cPend, cPc)
      /\ WriterInv(sN, sMid, sPend, sPc)
  BY DEF Init, WriterInv
<1>4. SHeld = None /\ cSeen = None /\ None.n = 0
  BY DEF Init, SHeld, None
<1>5. /\ LinkInv(cN, cMid, cPend, SHeld, up, dn, sAcks)
      /\ LinkInv(sN, sMid, sPend, cSeen, dn, up, cAcks)
  BY <1>4 DEF Init, LinkInv, HeldInv, OutInv, BackInv
<1>6. SInboxInv /\ CInboxInv
  BY <1>4 DEF Init, SInboxInv, CInboxInv, SeenInv, UpInOrder, InOrder, DnInOrder
<1>7. QED
  BY <1>1, <1>2, <1>3, <1>5, <1>6 DEF IInv

LEMMA IInvStep == IInv /\ [Next]_vars => IInv'
<1> SUFFICES ASSUME IInv, [Next]_vars PROVE IInv'
  OBVIOUS
<1>1. /\ TypeOK /\ NothingBeforeAccepted
      /\ WriterInv(cN, cMid, cPend, cPc) /\ WriterInv(sN, sMid, sPend, sPc)
      /\ UplinkInv /\ DownlinkInv /\ SInboxInv /\ CInboxInv
  BY DEF IInv, UplinkInv, DownlinkInv
<1>2. TypeOK' /\ NothingBeforeAccepted'
  BY <1>1, TypeStep, AcceptedStep
<1>3. WriterInv(cN, cMid, cPend, cPc)' /\ WriterInv(sN, sMid, sPend, sPc)'
  BY <1>1, ClientWriterStep, ServerWriterStep
<1>4. /\ LinkInv(cN, cMid, cPend, SHeld, up, dn, sAcks)'
      /\ LinkInv(sN, sMid, sPend, cSeen, dn, up, cAcks)'
  BY <1>1, <1>2, UplinkStep, DownlinkStep
<1>5. SInboxInv' /\ CInboxInv'
  BY <1>1, SInboxStep, CInboxStep
<1>6. QED
  BY <1>2, <1>3, <1>4, <1>5 DEF IInv

\* IInv holds in every state of the link: at any moment at most the last
\* message and the one before it are about, and each end knows as much of them
\* as the other end's next step needs.
THEOREM InvariantHolds == Spec => []IInv
  BY IInvInit, IInvStep, PTL DEF Spec

\* The GUI reads the microcontroller's messages in order and without a gap.
THEOREM UplinkOrder == Spec => []UpInOrder
<1>1. IInv => UpInOrder
  BY DEF IInv, SInboxInv
<1>2. QED
  BY <1>1, InvariantHolds, PTL

\* A message of the microcontroller whose ACK has come has reached the GUI's end.
THEOREM UplinkAcked == Spec => []UpAckedHeld
<1>1. IInv => UpAckedHeld
  BY DEF IInv, LinkInv, HeldInv, UpAckedHeld
<1>2. QED
  BY <1>1, InvariantHolds, PTL

\* The microcontroller reads the messages of the GUI in order.
THEOREM DownlinkOrder == Spec => []DnInOrder
<1>1. IInv => DnInOrder
  BY DEF IInv, CInboxInv
<1>2. QED
  BY <1>1, InvariantHolds, PTL

\* A message of the GUI whose ACK has come has been looked up by the client.
THEOREM DownlinkAcked == Spec => []DnAckedSeen
<1>1. IInv => DnAckedSeen
  BY DEF IInv, LinkInv, HeldInv, DnAckedSeen
<1>2. QED
  BY <1>1, InvariantHolds, PTL

\* Nothing is sent to a client whose connection has not been accepted.
THEOREM AcceptedFirst == Spec => []NothingBeforeAccepted
<1>1. IInv => NothingBeforeAccepted
  BY DEF IInv
<1>2. QED
  BY <1>1, InvariantHolds, PTL

-----------------------------------------------------------------------------
(***************************************************************************)
(* Each direction implements ReliableLink.  A message is held when the     *)
(* other end takes it off the stream for the first time, its write is free *)
(* to return when its first ACK is read.                                   *)
(***************************************************************************)
LEMMA UpLinkStep ==
  ASSUME IInv, IInv', [Next]_vars
  PROVE  [UpLink!Next]_UpLink!vars
<1>1. /\ TypeOK /\ WriterInv(cN, cMid, cPend, cPc) /\ UplinkInv /\ SInboxInv
      /\ WriterInv(cN', cMid', cPend', cPc')
      /\ LinkInv(cN', cMid', cPend', SHeld', up', dn', sAcks')
  BY DEF IInv, UplinkInv
<1>2. /\ cN \in Nat /\ cMid \in Mid /\ cPend \in SUBSET Mid /\ SHeld \in Item
      /\ up \in Seq(Line) /\ dn \in Seq(Line)
      /\ sAcks \in Seq(Item) /\ sLines \in Seq(Item)
      /\ sRec \in Record /\ sSeen \in Item /\ sGot \in Seq(Nat)
  BY <1>1, HeldType DEF TypeOK, UplinkType
<1>3. SHeld.n \in Nat /\ sSeen.n \in Nat
  BY <1>2 DEF Item
<1>4. ASSUME UNCHANGED <<cN, cMid, cPend, sLines, sSeen, sGot>>
      PROVE  UNCHANGED UpLink!vars
  BY <1>4 DEF UpLink!vars, SHeld, Returned
<1>5. CASE UNCHANGED <<cWriter, sInbox>>
  BY <1>4, <1>5 DEF cWriter, sInbox
<1>6. CASE Uplink
  <2>1. CASE CWrite
    <3>1. /\ cPend = {} /\ cN' = cN + 1 /\ cMid' \in cPend'
          /\ UNCHANGED <<sLines, sSeen, sGot>>
      BY <1>1, <2>1 DEF CWrite, WriterInv, sInbox
    <3>2. UpLink!Write
      BY <1>2, <3>1 DEF UpLink!Write, Returned, SHeld
    <3>3. QED
      BY <3>2 DEF UpLink!Next
  <2>2. CASE SReceive
    <3> DEFINE x == ToItem(Head(up))
    <3>1. /\ up # <<>> /\ Head(up).kind = "msg" /\ (cMid = Zero <=> cN <= 1)
          /\ UNCHANGED <<cN, cMid, cPend, sGot>> /\ sLines' = Append(sLines, x)
      BY <1>1, <2>2 DEF SReceive, WriterInv, cWriter
    <3>2. /\ Follows(SHeld, x) /\ x \in Item
          /\ LinkInv(cN, cMid, cPend, x, Tail(up), dn, Append(sAcks, x))
      BY <1>1, <1>2, <3>1, LinkReceives DEF UplinkInv
    <3>3. SHeld' = x
      <4>1. /\ Append(sLines, x) # <<>>
            /\ Append(sLines, x)[Len(Append(sLines, x))] = x
        BY <1>2, <3>2, AppendedFacts
      <4>2. QED
        BY <3>1, <4>1 DEF SHeld
    <3>4. x.n \in Nat /\ x.n \in {SHeld.n, SHeld.n + 1} /\ x.n <= cN
      BY <1>2, <3>2 DEF Follows, Item, LinkInv, HeldInv
    <3>5. CASE x.n = SHeld.n
      BY <3>1, <3>3, <3>5 DEF UpLink!vars, Returned
    <3>6. CASE x.n = SHeld.n + 1
      <4>1. UpLink!Hold
        BY <1>2, <1>3, <3>1, <3>3, <3>4, <3>6 DEF UpLink!Hold, Returned
      <4>2. QED
        BY <4>1 DEF UpLink!Next
    <3>7. QED
      BY <3>4, <3>5, <3>6
  <2>3. CASE CReceiveAck
    <3>1. /\ UNCHANGED <<cN, cMid, sLines, sSeen, sGot>>
          /\ cPend' = cPend \ {Head(dn).mid}
      BY <2>3 DEF CReceiveAck, sInbox
    <3>2. SHeld' = SHeld
      BY <3>1 DEF SHeld
    <3>3. CASE cMid \in cPend <=> cMid \in cPend'
      BY <3>1, <3>2, <3>3 DEF UpLink!vars, Returned
    <3>4. CASE cMid \in cPend /\ cMid \notin cPend'
      <4>1. SHeld.n = cN
        BY <1>1, <3>1, <3>2, <3>4 DEF LinkInv, HeldInv
      <4>2. UpLink!Return
        BY <1>2, <3>1, <3>2, <3>4, <4>1 DEF UpLink!Return, Returned
      <4>3. QED
        BY <4>2 DEF UpLink!Next
    <3>5. QED
      BY <3>1, <3>3, <3>4
  <2>4. CASE SRead
    <3> DEFINE x == Head(sLines)
    <3>1. /\ sLines # <<>> /\ UNCHANGED <<cN, cMid, cPend>>
          /\ sGot' = IF Accepts(x.mid, sRec) THEN Append(sGot, x.n) ELSE sGot
      BY <2>4 DEF SRead, cWriter
    <3>2. SHeld' = SHeld
      BY <1>2, <2>4, ReadKeepsHeld
    <3>3. x = sLines[1] /\ x \in Item /\ 1 \in 1 .. Len(sLines)
      BY <1>2, <3>1
    <3>4. x.n <= SHeld.n /\ SeenInv(sSeen, sRec) /\ Follows(sSeen, x)
      BY <1>1, <3>1, <3>3 DEF SInboxInv
    <3>5. /\ x.n \in Nat /\ x.n >= 1
          /\ Accepts(x.mid, sRec) <=> x.n = sSeen.n + 1 \/ x.n = 1
          /\ x.n \in {sSeen.n, sSeen.n + 1}
      <4>1. x.n \in Nat
        BY <3>3 DEF Item
      <4>2. QED
        BY <1>2, <3>3, <3>4, <4>1, LooksUp
    <3>6. UpLink!LastRead = sSeen.n
      BY <1>1 DEF SInboxInv, UpLink!LastRead
    <3> HIDE DEF x
    <3>7. CASE Accepts(x.mid, sRec)
      <4>1. UpLink!Read(x.n)
        <5>1. x.n = sSeen.n + 1 \/ (x.n = 1 /\ sSeen.n = 1)
          BY <1>3, <3>5, <3>7
        <5>2. QED
          BY <3>1, <3>2, <3>4, <3>6, <3>7, <5>1 DEF UpLink!Read, Returned
      <4>2. x.n \in 1 .. SHeld.n
        BY <1>3, <3>4, <3>5
      <4>3. QED
        BY <4>1, <4>2 DEF UpLink!Next
    <3>8. CASE ~Accepts(x.mid, sRec)
      BY <3>1, <3>2, <3>8 DEF UpLink!vars, Returned
    <3>9. QED
      BY <3>7, <3>8
  <2>5. CASE CSend \/ CAwaitAck \/ CRepeat \/ CReturn \/ SSendAck
    <3>1. UNCHANGED <<cN, cMid, cPend, sLines, sSeen, sGot>>
      BY <2>5, Zenon DEF CSend, CAwaitAck, CRepeat, CReturn, SSendAck, LineDropped,
       sInbox, cWriter
    <3>2. QED
      BY <1>4, <3>1
  <2>6. QED
    BY <1>6, <2>1, <2>2, <2>3, <2>4, <2>5 DEF Uplink
<1>7. CASE SendingFrame
  BY <1>4, <1>7 DEF SendingFrame, cWriter
<1>8. QED
  BY <1>5, <1>6, <1>7, Frames

LEMMA DnLinkStep ==
  ASSUME IInv, IInv', [Next]_vars
  PROVE  [DnLink!Next]_DnLink!vars
<1>1. /\ TypeOK /\ WriterInv(sN, sMid, sPend, sPc) /\ DownlinkInv /\ CInboxInv
      /\ LinkInv(sN', sMid', sPend', cSeen', dn', up', cAcks')
  BY DEF IInv, DownlinkInv
<1>2. /\ sN \in Nat /\ sMid \in Mid /\ sPend \in SUBSET Mid
      /\ up \in Seq(Line) /\ dn \in Seq(Line)
      /\ cAcks \in Seq(Item) /\ cLines \in Seq(Item)
      /\ cSeen \in Item /\ cGot \in Seq(Nat)
  BY <1>1 DEF TypeOK, DownlinkType
<1>3. cSeen.n \in Nat
  BY <1>2 DEF Item
<1>4. ASSUME UNCHANGED <<sN, sMid, sPend, cSeen, cGot>>
      PROVE  UNCHANGED DnLink!vars
  BY <1>4 DEF DnLink!vars, Returned
<1>5. CASE UNCHANGED <<sWriter, cInbox>>
  BY <1>4, <1>5 DEF sWriter, cInbox
<1>6. CASE Downlink
  <2>1. CASE SWrite
    <3>1. /\ sPend = {} /\ sN' = sN + 1 /\ sMid' \in sPend'
          /\ UNCHANGED <<cSeen, cGot>>
      BY <2>1 DEF SWrite, cInbox
    <3>2. DnLink!Write
      BY <1>2, <3>1 DEF DnLink!Write, Returned
    <3>3. QED
      BY <3>2 DEF DnLink!Next
  <2>2. CASE CReceive
    <3> DEFINE x == ToItem(Head(dn))
    <3>1. /\ dn # <<>> /\ Head(dn).kind = "msg" /\ (sMid = Zero <=> sN <= 1)
          /\ UNCHANGED <<sN, sMid, sPend, cGot>> /\ cSeen' = x
      BY <1>1, <2>2 DEF CReceive, WriterInv, sWriter
    <3>2. /\ Follows(cSeen, x) /\ x \in Item
          /\ LinkInv(sN, sMid, sPend, x, Tail(dn), up, Append(cAcks, x))
      BY <1>1, <1>2, <3>1, LinkReceives DEF DownlinkInv
    <3>3. x.n \in Nat /\ x.n \in {cSeen.n, cSeen.n + 1} /\ x.n <= sN
      BY <1>2, <3>2 DEF Follows, Item, LinkInv, HeldInv
    <3> HIDE DEF x
    <3>4. CASE x.n = cSeen.n
      BY <3>1, <3>4 DEF DnLink!vars, Returned
    <3>5. CASE x.n = cSeen.n + 1
      <4>1. DnLink!Hold
        BY <1>2, <1>3, <3>1, <3>3, <3>5 DEF DnLink!Hold, Returned
      <4>2. QED
        BY <4>1 DEF DnLink!Next
    <3>6. QED
      BY <3>3, <3>4, <3>5
  <2>3. CASE SReceiveAck
    <3>1. /\ UNCHANGED <<sN, sMid, cSeen, cGot>>
          /\ sPend' = sPend \ {Head(up).mid}
      BY <2>3 DEF SReceiveAck, cInbox
    <3>2. CASE sMid \in sPend <=> sMid \in sPend'
      BY <3>1, <3>2 DEF DnLink!vars, Returned
    <3>3. CASE sMid \in sPend /\ sMid \notin sPend'
      <4>1. cSeen.n = sN
        BY <1>1, <3>1, <3>3 DEF LinkInv, HeldInv
      <4>2. DnLink!Return
        BY <1>2, <3>1, <3>3, <4>1 DEF DnLink!Return, Returned
      <4>3. QED
        BY <4>2 DEF DnLink!Next
    <3>4. QED
      BY <3>1, <3>2, <3>3
  <2>4. CASE CRead
    <3> DEFINE k == Head(cLines).n
    <3>1. /\ cLines # <<>> /\ UNCHANGED <<sN, sMid, sPend, cSeen>>
          /\ cGot' = Append(cGot, k)
      BY <2>4 DEF CRead, sWriter
    <3>2. k = cLines[1].n /\ 1 \in 1 .. Len(cLines)
      BY <1>2, <3>1
    <3>3. /\ k \in 1 .. cSeen.n
          /\ cGot # <<>> => Later(cGot[Len(cGot)], k)
      BY <1>1, <3>1, <3>2 DEF CInboxInv
    <3> HIDE DEF k
    <3>4. k > DnLink!LastRead \/ (k = 1 /\ DnLink!LastRead = 1)
      BY <1>3, <3>3 DEF DnLink!LastRead, Later
    <3>5. DnLink!Read(k)
      BY <1>3, <3>1, <3>3, <3>4 DEF DnLink!Read, Returned
    <3>6. QED
      BY <3>3, <3>5 DEF DnLink!Next
  <2>5. CASE SVwrite \/ SSend \/ SAwaitAck \/ SRepeat \/ SReturn \/ CSendAck
    <3>1. UNCHANGED <<sN, sMid, sPend, cSeen, cGot>>
      BY <2>5, Zenon DEF SVwrite, SSend, SAwaitAck, SRepeat, SReturn, CSendAck, cInbox, sWriter
    <3>2. QED
      BY <1>4, <3>1
  <2>6. QED
    BY <1>6, <2>1, <2>2, <2>3, <2>4, <2>5 DEF Downlink
<1>7. CASE SendingFrame
  BY <1>4, <1>7 DEF SendingFrame, cInbox
<1>8. QED
  BY <1>5, <1>6, <1>7, Frames

\* The link from the microcontroller to the GUI is a reliable link.
THEOREM UplinkImplements == Spec => UpImplements
<1>1. Init => UpLink!Init
  BY DEF Init, UpLink!Init, Returned, SHeld, None
<1>2. IInv /\ IInv' /\ [Next]_vars => [UpLink!Next]_UpLink!vars
  BY UpLinkStep
<1>3. QED
  BY <1>1, <1>2, InvariantHolds, PTL DEF Spec, UpImplements, UpLink!Spec

\* The link from the GUI to the microcontroller is one that may drop messages
\* it holds.
THEOREM DownlinkImplements == Spec => DnImplements
<1>1. Init => DnLink!Init
  BY DEF Init, DnLink!Init, Returned, None
<1>2. IInv /\ IInv' /\ [Next]_vars => [DnLink!Next]_DnLink!vars
  BY DnLinkStep
<1>3. QED
  BY <1>1, <1>2, InvariantHolds, PTL DEF Spec, DnImplements, DnLink!Spec
=============================================================================
