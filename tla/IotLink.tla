------------------------------ MODULE IotLink ------------------------------
(***************************************************************************)
(* The resilient link between the microcontroller (Client, iot/client.py)  *)
(* and the GUI (Connection, server.py): newline-terminated lines over a    *)
(* TCP connection that breaks and is made again, a message identifier in   *)
(* front of every line, an acknowledgement for every line received, the    *)
(* retransmission of lines not acknowledged, and the discarding of         *)
(* duplicates.                                                             *)
(*                                                                         *)
(* A step is what one asyncio task does between two awaits.  A line is a   *)
(* record; the number n of its message is a history component that no      *)
(* guard reads, the code sees only mid.  How lines are cut and joined in   *)
(* the byte stream is the subject of LineFraming.                          *)
(*                                                                         *)
(* Both applications write one message at a time with the default          *)
(* qos=True, wait=True (main.py:162, gui.py:69).  Timeouts may expire at   *)
(* any moment.  Keepalives are not kept in the streams: one may arrive     *)
(* whenever a connection exists.                                           *)
(*                                                                         *)
(* The tasks of the server that write share a lock and may sleep while     *)
(* they hold it, the socket being full.  One that wakes to find no socket  *)
(* raises an exception nobody catches: it is dead for good.                *)
(***************************************************************************)
EXTENDS MsgId, Sequences

CONSTANTS
  QMax,       \* capacity of Client._lineq (20 in the code)
  MaxUp,      \* bound: messages the MCU application writes
  MaxDn,      \* bound: messages the GUI application writes
  MaxOutage,  \* bound: failures of a connection that both ends still use
  MaxWire,    \* bound: lines a socket holds before send() would block
  MaxCopies   \* bound: a line is not repeated while this many are unread

ASSUME BoundsAssumption ==
  /\ QMax \in Nat \ {0}
  /\ MaxUp \in Nat /\ MaxDn \in Nat /\ MaxOutage \in Nat
  /\ MaxWire \in Nat /\ MaxCopies \in Nat

VARIABLES
  \* The connection.
  cLink,        \* the client's end: see Links
  cReader,      \* Client._reader runs
  cOk,          \* Client._evok
  cFail,        \* Client._evfail
  sUp,          \* Connection._sock is not None
  sGhost,       \* a connection the client has given up is still in the backlog
  sAwait,       \* Connection._await_client
  sWaking,      \* a _client_active task sleeps
  sPause,       \* Connection._wr_pause
  outages,      \* how many of MaxOutage have happened
  \* The two directions of the byte stream of the connection.
  up, dn,
  \* From the client to the server.
  cPc, cN, cMid, cPend,        \* Client.write, gmid(), _acks_pend
  sAcks, sLines, sRec, sSeen, sGot,
  \* From the server to the client.
  sPc, sN, sMid, sPend,        \* Connection.write, _getmid, _acks_pend
  cAcks, cLines, cRec, cSeen, cGot,
  \* The tasks of the server that send.
  sTask,        \* the one that sleeps in Connection._send, holding _wlock
  sDead         \* those that have died there

connVars == <<cLink, cReader, cOk, cFail, sUp, sGhost, sAwait, sWaking, sPause, outages>>
cWriter  == <<cPc, cN, cMid, cPend>>
sInbox   == <<sAcks, sLines, sRec, sSeen, sGot>>
sWriter  == <<sPc, sN, sMid, sPend>>
cInbox   == <<cAcks, cLines, cRec, cSeen, cGot>>
sLock    == <<sTask, sDead>>
vars == <<connVars, up, dn, cWriter, sInbox, sWriter, cInbox, sLock>>

-----------------------------------------------------------------------------
(***************************************************************************)
(* Links: the client has no socket ("down"); it has connected and sent its *)
(* name, and the server has not looked yet ("pending"); the server has     *)
(* closed that connection as a duplicate ("refused"); the server has given *)
(* it to the Connection ("joined").                                        *)
(***************************************************************************)
Links == {"down", "pending", "refused", "joined"}

(***************************************************************************)
(* Pcs: no write is under way ("idle"); the line waits for the connection  *)
(* ("send"); it is sent and the identifier will be looked up ("wait"); the *)
(* ACK is awaited ("sleep").  The server's writer waits for the end of the *)
(* pause ("pause") and for its turn to send ("lock") as well.              *)
(***************************************************************************)
Pcs == {"idle", "send", "pause", "lock", "wait", "sleep"}

\* The tasks that call Connection._send: the application's in write, the one
\* of _keepalive, and one of _sendack for each line received.
Tasks == {"writer", "keepalive", "ack"}

Item == [n : Nat, mid : Mid]
Line == [kind : {"msg", "ack"}, n : Nat, mid : Mid]
None == [n |-> 0, mid |-> Zero]

ToLine(kind, x) == [kind |-> kind, n |-> x.n, mid |-> x.mid]
ToItem(x)       == [n |-> x.n, mid |-> x.mid]

\* Both ends use the same connection; otherwise what one sends is lost.
Joined == cLink = "joined" /\ sUp

Prefixes(s) == {SubSeq(s, 1, k) : k \in 0 .. Len(s)}

ConnType ==
  /\ cLink \in Links
  /\ cReader \in BOOLEAN /\ cOk \in BOOLEAN /\ cFail \in BOOLEAN
  /\ sUp \in BOOLEAN /\ sGhost \in BOOLEAN
  /\ sAwait \in BOOLEAN /\ sWaking \in BOOLEAN /\ sPause \in BOOLEAN

UplinkType ==
  /\ cPc \in Pcs /\ cN \in Nat /\ cMid \in Mid /\ cPend \in SUBSET Mid
  /\ sAcks \in Seq(Item) /\ sLines \in Seq(Item)
  /\ sRec \in Record /\ sSeen \in Item /\ sGot \in Seq(Nat)

DownlinkType ==
  /\ sPc \in Pcs /\ sN \in Nat /\ sMid \in Mid /\ sPend \in SUBSET Mid
  /\ cAcks \in Seq(Item) /\ cLines \in Seq(Item)
  /\ cRec \in Record /\ cSeen \in Item /\ cGot \in Seq(Nat)

LockType == sTask \in Tasks \cup {"none"} /\ sDead \in SUBSET Tasks

TypeOK ==
  /\ ConnType /\ LockType
  /\ outages \in Nat
  /\ up \in Seq(Line) /\ dn \in Seq(Line)
  /\ UplinkType
  /\ DownlinkType

Init ==
  /\ cLink = "down" /\ cReader = FALSE /\ cOk = FALSE /\ cFail = FALSE
  /\ sUp = FALSE /\ sGhost = FALSE
  /\ sAwait = TRUE /\ sWaking = FALSE /\ sPause = TRUE
  /\ outages = 0
  /\ up = <<>> /\ dn = <<>>
  /\ cPc = "idle" /\ cN = 0 /\ cMid = Zero /\ cPend = {}
  /\ sAcks = <<>> /\ sLines = <<>>
  /\ sRec = EmptyRecord /\ sSeen = None /\ sGot = <<>>
  /\ sPc = "idle" /\ sN = 0 /\ sMid = Zero /\ sPend = {}
  /\ cAcks = <<>> /\ cLines = <<>>
  /\ cRec = EmptyRecord /\ cSeen = None /\ cGot = <<>>
  /\ sTask = "none" /\ sDead = {}

-----------------------------------------------------------------------------
(***************************************************************************)
(* The life of a connection.                                               *)
(***************************************************************************)
\* A failure of a connection in use by both ends is counted as an outage; one
\* that follows from the other end having left is not, and is not bounded.
Outage(counted) ==
  IF counted THEN outages < MaxOutage /\ outages' = outages + 1
             ELSE UNCHANGED outages

\* _run: a new socket, _evfail cleared, the reader started, the name sent.
CConnect ==
  /\ cLink = "down"
  /\ cLink' = "pending" /\ cFail' = FALSE /\ cReader' = TRUE
  /\ UNCHANGED <<cOk, sUp, sGhost, sAwait, sWaking, sPause, outages>>
  /\ UNCHANGED <<up, dn, cWriter, sInbox, sWriter, cInbox, sLock>>

\* _reader: timeout, or the server has closed the connection.
CReaderFails ==
  /\ cReader
  /\ Outage(Joined \/ cLink = "pending")
  /\ cReader' = FALSE /\ cFail' = TRUE
  /\ UNCHANGED <<cLink, cOk, sUp, sGhost, sAwait, sWaking, sPause>>
  /\ UNCHANGED <<up, dn, cWriter, sInbox, sWriter, cInbox, sLock>>

\* _send of a line, a keepalive or an acknowledgement meets an OSError.
CSendFails ==
  /\ cLink # "down" /\ ~cFail
  /\ Outage(Joined \/ cLink = "pending")
  /\ cFail' = TRUE
  /\ UNCHANGED <<cLink, cReader, cOk, sUp, sGhost, sAwait, sWaking, sPause>>
  /\ UNCHANGED <<up, dn, cWriter, sInbox, sWriter, cInbox, sLock>>

\* Faulty variant of CRunFails: _evok stays set.
CRunFailsStillOk ==
  /\ cFail /\ cLink # "down"
  /\ cLink' = "down" /\ cReader' = FALSE
  /\ IF Joined THEN up' \in Prefixes(up) ELSE UNCHANGED up
  /\ dn' = <<>>
  /\ UNCHANGED <<cOk, cFail, sUp, sGhost, sAwait, sWaking, sPause, outages>>
  /\ UNCHANGED <<cWriter, sInbox, sWriter, cInbox, sLock>>

\* _run wakes on _evfail: _evok cleared, reader cancelled, socket closed and
\* WiFi left.  Of what was on its way to the server some may still arrive; a
\* connection never accepted may stay in the server's backlog.
CRunFails ==
  /\ cFail /\ cLink # "down"
  /\ cLink' = "down" /\ cReader' = FALSE /\ cOk' = FALSE
  /\ sGhost' \in {sGhost, sGhost \/ cLink = "pending"}
  /\ IF Joined THEN up' \in Prefixes(up) ELSE UNCHANGED up
  /\ dn' = <<>>
  /\ UNCHANGED <<cFail, sUp, sAwait, sWaking, sPause, outages>>
  /\ UNCHANGED <<cWriter, sInbox, sWriter, cInbox, sLock>>

\* Connection.go for the client's connection, and for one it has given up.
\* A Connection that has a socket refuses any other as a duplicate.  (In the
\* faulty variant the first line after a reconnection is not awaited.)
ReconnectNotAwaited == sUp' = TRUE /\ sPause' = TRUE /\ UNCHANGED sAwait
Reconnect == sUp' = TRUE /\ sPause' = TRUE /\ sAwait' = TRUE

SGo ==
  /\ cLink = "pending" /\ ~sGhost
  /\ \/ sUp /\ cLink' = "refused" /\ UNCHANGED <<sUp, sPause, sAwait>>
     \/ ~sUp /\ cLink' = "joined" /\ Reconnect
  /\ UNCHANGED <<cReader, cOk, cFail, sGhost, sWaking, outages>>
  /\ UNCHANGED <<up, dn, cWriter, sInbox, sWriter, cInbox, sLock>>

SGoGhost ==
  /\ sGhost
  /\ sGhost' = FALSE
  /\ \/ sUp /\ UNCHANGED <<sUp, sPause, sAwait>>
     \/ ~sUp /\ Reconnect
  /\ UNCHANGED <<cLink, cReader, cOk, cFail, sWaking, outages>>
  /\ UNCHANGED <<up, dn, cWriter, sInbox, sWriter, cInbox, sLock>>

\* Connection._close.  Of what the server has sent some may still arrive.
Closes ==
  /\ sUp
  /\ Outage(Joined)
  /\ sUp' = FALSE
  /\ up' = <<>>
  /\ IF Joined THEN dn' \in Prefixes(dn) ELSE UNCHANGED dn

\* _read closes: timeout, reset, end of the stream.
SClose ==
  /\ Closes
  /\ UNCHANGED <<cLink, cReader, cOk, cFail, sGhost, sAwait, sWaking, sPause>>
  /\ UNCHANGED <<cWriter, sInbox, sWriter, cInbox, sLock>>

\* A keepalive reaches the client: _readline sets _evok.  When _keepalive has
\* died only what was on its way before can.
CKeepalive ==
  /\ cReader /\ cLink = "joined"
  /\ Joined => "keepalive" \notin sDead
  /\ cOk' = TRUE
  /\ UNCHANGED <<cLink, cReader, cFail, sUp, sGhost, sAwait, sWaking, sPause, outages>>
  /\ UNCHANGED <<up, dn, cWriter, sInbox, sWriter, cInbox, sLock>>

\* _read receives something: the first time after a (re)connection it starts
\* the task that ends the pause.
Received == sAwait' = FALSE /\ sWaking' = (sWaking \/ sAwait)

SKeepalive ==
  /\ sUp
  /\ Received
  /\ UNCHANGED <<cLink, cReader, cOk, cFail, sUp, sGhost, sPause, outages>>
  /\ UNCHANGED <<up, dn, cWriter, sInbox, sWriter, cInbox, sLock>>

\* _client_active ends, after 0.2 s.
SClientActive ==
  /\ sWaking
  /\ sWaking' = FALSE /\ sPause' = FALSE
  /\ UNCHANGED <<cLink, cReader, cOk, cFail, sUp, sGhost, sAwait, outages>>
  /\ UNCHANGED <<up, dn, cWriter, sInbox, sWriter, cInbox, sLock>>

-----------------------------------------------------------------------------
(***************************************************************************)
(* Connection._send: how the server's tasks take turns.                    *)
(***************************************************************************)
\* _vwrite has a connection and no pause, or had them when it came to the lock.
WriterReady ==
  \/ sPc = "send" /\ sUp /\ ~sPause
  \/ sPc = "pause" /\ ~sPause
  \/ sPc = "lock"

\* Task t has a line to send, and has the lock or can have it.
MaySend(t) ==
  /\ sTask \in {"none", t} /\ t \notin sDead
  /\ t = "writer" => WriterReady
  /\ t = "ack" => sAcks # <<>>

\* The socket takes nothing, or a part only: t sleeps and keeps the lock.
SSendSleeps(t) ==
  /\ MaySend(t) /\ sTask = "none"
  /\ sUp /\ (Joined => Len(dn) = MaxWire)
  /\ sTask' = t
  /\ sPc' = IF t = "writer" THEN "lock" ELSE sPc
  /\ UNCHANGED <<connVars, up, dn, cWriter, sInbox, sN, sMid, sPend, cInbox, sDead>>

\* t has no line to send any more, but for a writer that tries again.
LineDropped(t) ==
  /\ sTask' = "none"
  /\ sAcks' = IF t = "ack" THEN Tail(sAcks) ELSE sAcks
  /\ UNCHANGED <<sLines, sRec, sSeen, sGot>>

\* _send returns False: there is no socket, or an OSError or a timeout while
\* it slept has made it close the one there is.
SSendFails(t) ==
  /\ MaySend(t)
  /\ \/ Closes
     \/ ~sUp /\ UNCHANGED <<sUp, outages, up, dn>>
  /\ LineDropped(t)
  /\ sPc' = IF t = "writer" THEN "send" ELSE sPc
  /\ UNCHANGED <<cLink, cReader, cOk, cFail, sGhost, sAwait, sWaking, sPause>>
  /\ UNCHANGED <<cWriter, sN, sMid, sPend, cInbox, sDead>>

\* t wakes to find that the socket has been closed and is None: the exception
\* ends the task, and only the lock is given back.  _sendack had nothing else
\* to do.
SSendDies(t) ==
  /\ MaySend(t) /\ sTask = t /\ ~sUp
  /\ sDead' = sDead \cup ({t} \ {"ack"})
  /\ LineDropped(t)
  /\ UNCHANGED <<connVars, up, dn, cWriter, sPc, sN, sMid, sPend, cInbox>>

\* A keepalive that had to sleep is sent: see CKeepalive.
SKeepaliveSent ==
  /\ sTask = "keepalive" /\ sUp /\ Len(dn) < MaxWire
  /\ sTask' = "none"
  /\ UNCHANGED <<connVars, up, dn, cWriter, sInbox, sPc, sN, sMid, sPend, cInbox, sDead>>

-----------------------------------------------------------------------------
(***************************************************************************)
(* Messages from the client to the server.                                 *)
(***************************************************************************)
\* What gmid() yields for message n + 1, mid being that of message n.
Gmid(n, mid) == IF n = 0 THEN Zero ELSE NextMid(mid)

ClientPuts(line) == up' = IF Joined THEN Append(up, line) ELSE up

\* Client.write is called: it takes an identifier and expects its ACK.
CWrite ==
  /\ cPc = "idle" /\ cN < MaxUp
  /\ cPc' = "send" /\ cN' = cN + 1 /\ cMid' = Gmid(cN, cMid)
  /\ cPend' = cPend \cup {Gmid(cN, cMid)}
  /\ UNCHANGED <<connVars, up, dn, sInbox, sWriter, cInbox, sLock>>

\* _write: _evok awaited, the line handed to the socket.
CSend ==
  /\ cPc = "send" /\ cOk /\ Len(up) < MaxWire
  /\ ClientPuts([kind |-> "msg", n |-> cN, mid |-> cMid])
  /\ cPc' = "wait"
  /\ UNCHANGED <<connVars, dn, cN, cMid, cPend, sInbox, sWriter, cInbox, sLock>>

\* _do_qos: _evok awaited, then the ACK if it is not there.
CAwaitAck ==
  /\ cPc = "wait" /\ cOk /\ cMid \in cPend
  /\ cPc' = "sleep"
  /\ UNCHANGED <<connVars, up, dn, cN, cMid, cPend, sInbox, sWriter, cInbox, sLock>>

\* Faulty variant of CRepeat: waits again without writing the line again.
CRepeatNotSent ==
  /\ cPc = "sleep"
  /\ Len(sLines) + Len(up) < MaxCopies /\ Len(sAcks) < MaxCopies
  /\ cPc' = "wait"
  /\ UNCHANGED <<connVars, up, dn, cN, cMid, cPend, sInbox, sWriter, cInbox, sLock>>

\* _do_qos: the wait has timed out (the ACK may come in that same instant),
\* the line is written again.
CRepeat ==
  /\ cPc = "sleep"
  /\ Len(sLines) + Len(up) < MaxCopies /\ Len(sAcks) < MaxCopies
  /\ cPc' = "send"
  /\ UNCHANGED <<connVars, up, dn, cN, cMid, cPend, sInbox, sWriter, cInbox, sLock>>

\* _do_qos: the ACK has come, write returns.
CReturn ==
  /\ cMid \notin cPend
  /\ cPc = "sleep" \/ (cPc = "wait" /\ cOk)
  /\ cPc' = "idle"
  /\ UNCHANGED <<connVars, up, dn, cN, cMid, cPend, sInbox, sWriter, cInbox, sLock>>

\* _process_str, a message: kept for the application, an ACK task started.
SReceive ==
  /\ sUp /\ up # <<>> /\ Head(up).kind = "msg"
  /\ up' = Tail(up)
  /\ sLines' = Append(sLines, ToItem(Head(up)))
  /\ sAcks'  = Append(sAcks, ToItem(Head(up)))
  /\ Received
  /\ UNCHANGED <<cLink, cReader, cOk, cFail, sUp, sGhost, sPause, outages>>
  /\ UNCHANGED <<dn, cWriter, sRec, sSeen, sGot, sWriter, cInbox, sLock>>

\* _sendack: lost if the client has left the socket.
SSendAck ==
  /\ MaySend("ack") /\ sUp /\ Len(dn) < MaxWire
  /\ LineDropped("ack")
  /\ dn' = IF Joined THEN Append(dn, ToLine("ack", Head(sAcks))) ELSE dn
  /\ UNCHANGED <<connVars, up, cWriter, sPc, sN, sMid, sPend, cInbox, sDead>>

\* _readline (server): one turn of its loop, a line taken and looked up.
SRead ==
  /\ sLines # <<>>
  /\ LET x == Head(sLines) IN
       /\ sGot'  = IF Accepts(x.mid, sRec) THEN Append(sGot, x.n) ELSE sGot
       /\ sRec'  = After(x.mid, sRec)
       /\ sSeen' = x
  /\ sLines' = Tail(sLines)
  /\ UNCHANGED <<connVars, up, dn, cWriter, sAcks, sWriter, cInbox, sLock>>

\* Faulty variant of CReceiveAck: any ACK is taken for the one awaited.
CReceiveAckOfAny ==
  /\ cReader /\ dn # <<>> /\ Head(dn).kind = "ack"
  /\ dn' = Tail(dn)
  /\ cPend' = {}
  /\ cOk' = TRUE
  /\ UNCHANGED <<cLink, cReader, cFail, sUp, sGhost, sAwait, sWaking, sPause, outages>>
  /\ UNCHANGED <<up, cPc, cN, cMid, sInbox, sWriter, cInbox, sLock>>

\* _reader: an ACK.
CReceiveAck ==
  /\ cReader /\ dn # <<>> /\ Head(dn).kind = "ack"
  /\ dn' = Tail(dn)
  /\ cPend' = cPend \ {Head(dn).mid}
  /\ cOk' = TRUE
  /\ UNCHANGED <<cLink, cReader, cFail, sUp, sGhost, sAwait, sWaking, sPause, outages>>
  /\ UNCHANGED <<up, cPc, cN, cMid, sInbox, sWriter, cInbox, sLock>>

-----------------------------------------------------------------------------
(***************************************************************************)
(* Messages from the server to the client.                                 *)
(***************************************************************************)
\* Connection.write is called and no earlier ACK is outstanding.
SWrite ==
  /\ sPc = "idle" /\ sPend = {} /\ sN < MaxDn
  /\ sPc' = "send" /\ sN' = sN + 1 /\ sMid' = Gmid(sN, sMid)
  /\ sPend' = sPend \cup {Gmid(sN, sMid)}
  /\ UNCHANGED <<connVars, up, dn, cWriter, sInbox, cInbox, sLock>>

\* _vwrite waits: for the end of the pause, for the lock.  What it has found
\* before, a connection and then no pause, it does not look at again.
SVwrite ==
  /\ \/ sPc = "send" /\ sUp /\ sPause /\ sPc' = "pause"
     \/ sPc \in {"send", "pause"} /\ WriterReady /\ sTask # "none" /\ sPc' = "lock"
  /\ UNCHANGED <<connVars, up, dn, cWriter, sInbox, sN, sMid, sPend, cInbox, sLock>>

\* _vwrite: the line sent; lost if the client has left the socket.
SSend ==
  /\ MaySend("writer") /\ sUp /\ Len(dn) < MaxWire
  /\ dn' = IF Joined THEN Append(dn, [kind |-> "msg", n |-> sN, mid |-> sMid]) ELSE dn
  /\ sPc' = "wait" /\ sTask' = "none"
  /\ UNCHANGED <<connVars, up, cWriter, sInbox, sN, sMid, sPend, cInbox, sDead>>

\* _waitack is called, with a connection, and finds no ACK yet.
SAwaitAck ==
  /\ sPc = "wait" /\ sUp /\ sMid \in sPend
  /\ sPc' = "sleep"
  /\ UNCHANGED <<connVars, up, dn, cWriter, sInbox, sN, sMid, sPend, cInbox, sLock>>

\* Faulty variant of SRepeat: the repeated line gets an identifier of its own.
SRepeatRenumbered ==
  /\ sPc = "sleep"
  /\ Len(dn) < MaxCopies /\ Len(cAcks) < MaxCopies
  /\ sPc' = "send" /\ sMid' = NextMid(sMid) /\ sPend' = {NextMid(sMid)}
  /\ UNCHANGED <<connVars, up, dn, cWriter, sInbox, sN, cInbox, sLock>>

\* _waitack wakes to a timeout or an outage, which it looks at before it looks
\* for the ACK: the line is written again.
SRepeat ==
  /\ sPc = "sleep"
  /\ Len(dn) < MaxCopies /\ Len(cAcks) < MaxCopies
  /\ sPc' = "send"
  /\ UNCHANGED <<connVars, up, dn, cWriter, sInbox, sN, sMid, sPend, cInbox, sLock>>

\* _waitack has found the ACK, write returns.
SReturn ==
  /\ sPc \in {"wait", "sleep"} /\ sUp /\ sMid \notin sPend
  /\ sPc' = "idle"
  /\ UNCHANGED <<connVars, up, dn, cWriter, sInbox, sN, sMid, sPend, cInbox, sLock>>

\* _reader, a message: ACK task started, duplicates discarded, the others put
\* in the queue.  A full queue ends the reader after the identifier has been
\* noted and the ACK task started.
CReceive ==
  /\ cReader /\ dn # <<>> /\ Head(dn).kind = "msg"
  /\ dn' = Tail(dn)
  /\ LET x == ToItem(Head(dn))
         fresh == Accepts(x.mid, cRec)
         full  == Len(cLines) = QMax IN
       /\ cAcks' = Append(cAcks, x)
       /\ cRec'  = After(x.mid, cRec)
       /\ cSeen' = x
       /\ cLines' = IF fresh /\ ~full THEN Append(cLines, x) ELSE cLines
       /\ cFail'   = (cFail \/ (fresh /\ full))
       /\ cReader' = ~(fresh /\ full)
       /\ Outage(fresh /\ full)
  /\ cOk' = TRUE
  /\ UNCHANGED <<cLink, sUp, sGhost, sAwait, sWaking, sPause>>
  /\ UNCHANGED <<up, cWriter, sInbox, sWriter, cGot, sLock>>

\* _sendack (client): lost when the socket is closed.
CSendAck ==
  /\ cAcks # <<>> /\ Len(up) < MaxWire
  /\ cAcks' = Tail(cAcks)
  /\ ClientPuts(ToLine("ack", Head(cAcks)))
  /\ UNCHANGED <<connVars, dn, cWriter, sInbox, sWriter, cLines, cRec, cSeen, cGot, sLock>>

\* Client.readline: the application takes a message from the queue.
CRead ==
  /\ cLines # <<>>
  /\ cGot' = Append(cGot, Head(cLines).n)
  /\ cLines' = Tail(cLines)
  /\ UNCHANGED <<connVars, up, dn, cWriter, sInbox, sWriter, cAcks, cRec, cSeen, sLock>>

\* Faulty variant of SReceiveAck: any ACK is taken for the one awaited.
SReceiveAckOfAny ==
  /\ sUp /\ up # <<>> /\ Head(up).kind = "ack"
  /\ up' = Tail(up)
  /\ sPend' = {}
  /\ Received
  /\ UNCHANGED <<cLink, cReader, cOk, cFail, sUp, sGhost, sPause, outages>>
  /\ UNCHANGED <<dn, cWriter, sInbox, sPc, sN, sMid, cInbox, sLock>>

\* _process_str, an ACK.
SReceiveAck ==
  /\ sUp /\ up # <<>> /\ Head(up).kind = "ack"
  /\ up' = Tail(up)
  /\ sPend' = sPend \ {Head(up).mid}
  /\ Received
  /\ UNCHANGED <<cLink, cReader, cOk, cFail, sUp, sGhost, sPause, outages>>
  /\ UNCHANGED <<dn, cWriter, sInbox, sPc, sN, sMid, cInbox, sLock>>

-----------------------------------------------------------------------------
Connecting ==
  \/ CConnect \/ CReaderFails \/ CSendFails \/ CRunFails
  \/ SGo \/ SGoGhost \/ SClose
  \/ CKeepalive \/ SKeepalive \/ SClientActive

Sending ==
  \/ \E t \in Tasks : SSendSleeps(t) \/ SSendFails(t) \/ SSendDies(t)
  \/ SKeepaliveSent

Uplink ==
  \/ CWrite \/ CSend \/ CAwaitAck \/ CRepeat \/ CReturn
  \/ SReceive \/ SSendAck \/ SRead \/ CReceiveAck

Downlink ==
  \/ SWrite \/ SVwrite \/ SSend \/ SAwaitAck \/ SRepeat \/ SReturn
  \/ CReceive \/ CSendAck \/ CRead \/ SReceiveAck

Next == Connecting \/ Sending \/ Uplink \/ Downlink

Spec == Init /\ [][Next]_vars

(***************************************************************************)
(* Every task of both event loops runs again and again, a socket delivers  *)
(* what it holds, an end whose peer has left finds out (its read times     *)
(* out), the applications keep reading.  A sleep in _send ends, and the    *)
(* lock is given to those who wait for it in their order; a task that has  *)
(* died does nothing.  Nothing is assumed of outages, nor of new messages. *)
(***************************************************************************)
Stranded == cReader /\ ~Joined /\ cLink # "pending"

SSendWakes ==
  /\ sTask # "none"
  /\ SSend \/ SSendAck \/ SKeepaliveSent \/ \E t \in Tasks : SSendDies(t)

Fairness ==
  /\ WF_vars(CConnect) /\ WF_vars(CRunFails) /\ WF_vars(SGo) /\ WF_vars(SGoGhost)
  /\ WF_vars(Stranded /\ CReaderFails) /\ WF_vars(~Joined /\ SClose)
  /\ WF_vars(Joined /\ CKeepalive) /\ WF_vars(SKeepalive) /\ WF_vars(SClientActive)
  /\ WF_vars(CSend) /\ WF_vars(CAwaitAck) /\ WF_vars(CRepeat) /\ WF_vars(CReturn)
  /\ WF_vars(SReceive) /\ WF_vars(SSendAck) /\ WF_vars(SRead) /\ WF_vars(CReceiveAck)
  /\ WF_vars(SSendWakes) /\ WF_vars(\E t \in Tasks : ~sUp /\ SSendFails(t))
  /\ WF_vars(SVwrite) /\ WF_vars(SSend) /\ WF_vars(SAwaitAck) /\ WF_vars(SRepeat) /\ WF_vars(SReturn)
  /\ WF_vars(CReceive) /\ WF_vars(CSendAck) /\ WF_vars(CRead) /\ WF_vars(SReceiveAck)

FairSpec == Spec /\ Fairness

-----------------------------------------------------------------------------
\* The last message to reach the server's Connection: read or not yet.
SHeld == IF sLines = <<>> THEN sSeen ELSE sLines[Len(sLines)]

\* Read by an application: in the order written, none left out.  The first
\* message only, the one with identifier zero, may come again: zero makes the
\* receiver forget what it has seen (server.py:257, client.py:338).
InOrder(got) ==
  /\ got # <<>> => got[1] = 1
  /\ \A i \in 1 .. Len(got) - 1 :
       \/ got[i + 1] = got[i] + 1
       \/ got[i] = 1 /\ got[i + 1] = 1

\* The GUI reads the messages of the microcontroller in order and without a
\* gap, whatever outages, repetitions and losses of acknowledgements happen.
UpInOrder == InOrder(sGot)

\* When Client.write has returned, or will at once, the message has reached
\* the Connection of the server: an ACK is never taken for another message's.
UpAckedHeld == cMid \notin cPend => SHeld.n = cN

\* The microcontroller reads the messages of the GUI in order.  A gap can only
\* come from an overflow of the queue (client.py:343).
DnInOrder ==
  \A i \in 1 .. Len(cGot) - 1 :
    cGot[i + 1] > cGot[i] \/ (cGot[i] = 1 /\ cGot[i + 1] = 1)

\* When Connection.write has returned, the identifier of the message has been
\* noted by the client's reader.
DnAckedSeen == sMid \notin sPend => cSeen.n = sN

\* The client sends no message before the server has given its connection to
\* the Connection, and nothing is under way to it: what go() drops on a
\* reconnection (init_str, server.py:138) holds no message.
NothingBeforeAccepted == cLink # "joined" => ~cOk /\ dn = <<>>

\* client.py:335 "Message received & can be passed to user: send ack": a
\* message whose ACK has come back is, or was, in the user's queue.
DnAckedQueued ==
  (sMid \notin sPend /\ sN > 0) =>
     \/ \E i \in 1 .. Len(cGot) : cGot[i] = sN
     \/ \E i \in 1 .. Len(cLines) : cLines[i].n = sN

\* server.py:250 "If a non-duplicate line is ready return it": no line is
\* handed to the application twice.
UpNoDuplicate ==
  \A i, j \in 1 .. Len(sGot) : i # j => sGot[i] # sGot[j]

\* Each direction implements the abstract link.
Returned(n, mid, pend) == IF mid \in pend THEN n - 1 ELSE n

UpLink == INSTANCE ReliableLink WITH
  MayDrop <- FALSE, MayRepeat <- TRUE,
  written <- cN, returned <- Returned(cN, cMid, cPend), held <- SHeld.n, got <- sGot

DnLink == INSTANCE ReliableLink WITH
  MayDrop <- TRUE, MayRepeat <- TRUE,
  written <- sN, returned <- Returned(sN, sMid, sPend), held <- cSeen.n, got <- cGot

\* From the microcontroller to the GUI nothing is lost, reordered or, after the
\* first message, duplicated (write, _do_qos, _process_str, _readline).
UpImplements == UpLink!Spec

\* From the GUI to the microcontroller the same, but for what an overflow of
\* the queue loses (write, _waitack, _reader).
DnImplements == DnLink!Spec

\* Every message written by the microcontroller is read, once outages stop,
\* unless the server's keepalives have stopped: an outage has met _keepalive
\* asleep in _send (server.py:384).  The writer and the ACKs may meet that fate.
UpDelivered ==
  \A n \in 1 .. MaxUp :
    cN = n ~> \/ \E i \in 1 .. Len(sGot) : sGot[i] = n
              \/ "keepalive" \in sDead

\* Every message written by the GUI is read, once outages stop, unless one has
\* met the writer or _keepalive asleep in _send.  A task that sends an ACK may
\* meet that fate.
DnDelivered ==
  \A n \in 1 .. MaxDn :
    sN = n ~> \/ \E i \in 1 .. Len(cGot) : cGot[i] = n
              \/ sDead # {}
=============================================================================
