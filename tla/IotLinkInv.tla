----------------------------- MODULE IotLinkInv -----------------------------
(***************************************************************************)
(* The inductive invariant of IotLink.  One direction of the link is       *)
(* described once, by LinkInv, and used for both.                          *)
(***************************************************************************)
EXTENDS IotLink

(***************************************************************************)
(* At most the last message and the one before it are about.  x is one of  *)
(* them, the last message being n with identifier mid.                     *)
(***************************************************************************)
Current(x, n, mid) ==
  /\ x.n >= 1
  /\ x.mid = Zero <=> x.n = 1
  /\ \/ x.n = n /\ x.mid = mid
     \/ x.n = n - 1 /\ mid = NextMid(x.mid)

\* The writer: n messages written, the last with identifier mid.
WriterInv(n, mid, pend, pc) ==
  /\ mid = Zero <=> n <= 1
  /\ pend \subseteq {mid}
  /\ n = 0 => pend = {} /\ pc = "idle"
  /\ pc = "idle" => pend = {}

\* The last message held by the other end.
HeldInv(n, mid, pend, h) ==
  /\ h.n \in {n - 1, n}
  /\ h.n = 0 => h = None
  /\ h.n > 0 => Current(h, n, mid)
  /\ mid \notin pend => h.n = n

\* The messages on their way: none older than the one held, and in order.
OutInv(n, mid, h, out) ==
  /\ \A i \in 1 .. Len(out) :
       out[i].kind = "msg" => Current(out[i], n, mid) /\ out[i].n >= h.n
  /\ \A i, j \in 1 .. Len(out) :
       i < j /\ out[i].kind = "msg" /\ out[j].kind = "msg" => out[i].n <= out[j].n

\* The acknowledgements on their way back, in the stream and then in tasks not
\* yet run: of messages held, in order, and none older than a message whose
\* acknowledgement has been seen.
BackInv(n, mid, pend, h, back, tasks) ==
  /\ \A i \in 1 .. Len(back) :
       back[i].kind = "ack" =>
         /\ Current(back[i], n, mid) /\ back[i].n <= h.n
         /\ mid \notin pend => back[i].n = n
  /\ \A i \in 1 .. Len(tasks) :
       /\ Current(tasks[i], n, mid) /\ tasks[i].n <= h.n
       /\ mid \notin pend => tasks[i].n = n
  /\ \A i, j \in 1 .. Len(back) :
       i < j /\ back[i].kind = "ack" /\ back[j].kind = "ack" => back[i].n <= back[j].n
  /\ \A i, j \in 1 .. Len(tasks) : i < j => tasks[i].n <= tasks[j].n
  /\ \A i \in 1 .. Len(back), j \in 1 .. Len(tasks) :
       back[i].kind = "ack" => back[i].n <= tasks[j].n

LinkInv(n, mid, pend, h, out, back, tasks) ==
  /\ HeldInv(n, mid, pend, h)
  /\ OutInv(n, mid, h, out)
  /\ BackInv(n, mid, pend, h, back, tasks)

-----------------------------------------------------------------------------
\* x is g again, or the message after g.
Follows(g, x) ==
  \/ x.n = g.n /\ x.mid = g.mid /\ g.n > 0
  \/ x.n = g.n + 1 /\ x.mid = Gmid(g.n, g.mid)

\* What the receiver remembers of the last message it has looked up.
SeenInv(seen, rec) ==
  /\ seen.n = 0 => rec = EmptyRecord /\ seen = None
  /\ seen.n > 0 => Window(seen.mid, rec) /\ (seen.mid = Zero <=> seen.n = 1)

SInboxInv ==
  /\ SeenInv(sSeen, sRec)
  /\ sLines # <<>> => Follows(sSeen, sLines[1])
  /\ \A i \in 1 .. Len(sLines) - 1 : Follows(sLines[i], sLines[i + 1])
  /\ \A i \in 1 .. Len(sLines) : sLines[i].n <= SHeld.n
  /\ IF sGot = <<>> THEN sSeen.n = 0 ELSE sGot[Len(sGot)] = sSeen.n
  /\ UpInOrder

\* b may be read after a.
Later(a, b) == b > a \/ (a = 1 /\ b = 1)

CInboxInv ==
  /\ SeenInv(cSeen, cRec)
  /\ \A i \in 1 .. Len(cLines) : cLines[i].n \in 1 .. cSeen.n
  /\ \A i \in 1 .. Len(cLines) - 1 : Later(cLines[i].n, cLines[i + 1].n)
  /\ \A i \in 1 .. Len(cGot) : cGot[i] \in 1 .. cSeen.n
  /\ cGot # <<>> /\ cLines # <<>> => Later(cGot[Len(cGot)], cLines[1].n)
  /\ DnInOrder

IInv ==
  /\ TypeOK
  /\ NothingBeforeAccepted
  /\ WriterInv(cN, cMid, cPend, cPc)
  /\ WriterInv(sN, sMid, sPend, sPc)
  /\ LinkInv(cN, cMid, cPend, SHeld, up, dn, sAcks)
  /\ LinkInv(sN, sMid, sPend, cSeen, dn, up, cAcks)
  /\ SInboxInv
  /\ CInboxInv
=============================================================================
