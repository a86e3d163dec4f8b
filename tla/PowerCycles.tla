---------------------------- MODULE PowerCycles ----------------------------
(***************************************************************************)
(* Restarts of either end of the link.  The identifiers of an end begin    *)
(* again at zero, which tells the other to clear its record (client.py:337,*)
(* server.py:255); an end that has restarted has an empty record and meets *)
(* identifiers from the middle of their round.  What was pending is gone   *)
(* with the life it belonged to.                                           *)
(*                                                                         *)
(* Messages of one direction, from one end to the other, and their ACKs:   *)
(* the two directions share nothing but the connection.  How an outage is  *)
(* noticed and what else a line waits for is in IotLink.  A step is what a *)
(* task does between two awaits.                                           *)
(***************************************************************************)
EXTENDS MsgId, Sequences, FiniteSets

CONSTANTS
  MaxWritten,   \* bound: messages, over all lives
  MaxRestarts,  \* bound: restarts of both ends
  MaxBreaks,    \* bound: other outages
  MaxAbout      \* bound: lines and ACKs under way, or not yet looked up or sent

ASSUME PowerCyclesAssumption == {MaxWritten, MaxRestarts, MaxBreaks, MaxAbout} \subseteq Nat

VARIABLES
  sender,     \* "mcu" or "gui": the end that writes
  connected,
  source,     \* of the sender, in this life
  sink,       \* of the receiver, in this life
  toReader, toWriter,   \* lines under way
  written, restarts, breaks,   \* counted for the bounds
  reached,    \* history: the last message that reached the receiver
  stale       \* history: an ACK of a life that has ended was taken for one of this

livesVars == <<sender, connected, source, sink, toReader, toWriter, written, restarts, breaks,
               reached, stale>>

\* A message is known by the life of its sender and its number in that life.
NoMessage == [life |-> 0, n |-> 0]
Newer(m, o) == m.life > o.life \/ (m.life = o.life /\ m.n > o.n)

\* The lists of a new life: gmid, isnew, _acks_pend, _lines.
WriterOf(life) == [life |-> life, n |-> 0, mid |-> Zero, pending |-> {}, at |-> "idle"]
NewReader == [lst |-> EmptyRecord, lines |-> <<>>, acks |-> <<>>, last |-> NoMessage]

LivesInit ==
  /\ sender \in {"mcu", "gui"} /\ connected = TRUE
  /\ source = WriterOf(1) /\ sink = NewReader
  /\ toReader = <<>> /\ toWriter = <<>>
  /\ written = 0 /\ restarts = 0 /\ breaks = 0
  /\ reached = NoMessage /\ stale = FALSE

-----------------------------------------------------------------------------
(* The sender: Client.write and _do_qos, Connection.write and _waitack.     *)

Current == [life |-> source.life, n |-> source.n, mid |-> source.mid]

\* The identifier is pending before the line is sent.
StartsWrite ==
  /\ source.at = "idle" /\ written < MaxWritten /\ written' = written + 1
  /\ source' = LET mid == IF source.n = 0 THEN Zero ELSE NextMid(source.mid)
               IN [source EXCEPT !.n = @ + 1, !.mid = mid, !.pending = @ \cup {mid}, !.at = "send"]
  /\ UNCHANGED <<sender, connected, sink, toReader, toWriter, restarts, breaks, reached, stale>>

About == Len(toReader) + Len(sink.lines) + Len(sink.acks) + Len(toWriter)

\* The line is sent; or again, when no ACK has come in time.
SendsLine ==
  /\ connected /\ About < MaxAbout
  /\ source.at = "send" \/ (source.at = "wait" /\ source.mid \in source.pending)
  /\ toReader' = Append(toReader, Current)
  /\ source' = [source EXCEPT !.at = "wait"]
  /\ UNCHANGED <<sender, connected, sink, toWriter, written, restarts, breaks, reached, stale>>

TakesAck ==
  /\ connected /\ toWriter # <<>>
  /\ toWriter' = Tail(toWriter)
  /\ source' = [source EXCEPT !.pending = @ \ {Head(toWriter).mid}]
  /\ stale' = (stale \/ (Head(toWriter).mid \in source.pending /\ Head(toWriter).life # source.life))
  /\ UNCHANGED <<sender, connected, sink, toReader, written, restarts, breaks, reached>>

Returns ==
  /\ source.at = "wait" /\ source.mid \notin source.pending
  /\ source' = [source EXCEPT !.at = "idle"]
  /\ UNCHANGED <<sender, connected, sink, toReader, toWriter, written, restarts, breaks,
                 reached, stale>>

-----------------------------------------------------------------------------
(* The receiver: _reader of Client, _read and _readline of Connection.      *)

\* The record and what was given to the application, after a line.
Given(m) == Accepts(m.mid, sink.lst)
LookedUp(r, m) ==
  [r EXCEPT !.lst = After(m.mid, @), !.last = IF Newer(m, @) THEN [life |-> m.life, n |-> m.n] ELSE @]

\* An ACK is a task of its own; the MCU looks the line up at once, the GUI when
\* its application asks for one.
Arrives ==
  /\ connected /\ toReader # <<>>
  /\ LET m == Head(toReader)
         acked == [sink EXCEPT !.acks = Append(@, m)]
     IN /\ sink' = IF sender = "gui" THEN LookedUp(acked, m)
                     ELSE [acked EXCEPT !.lines = Append(@, m)]
        /\ reached' = [life |-> m.life, n |-> m.n]
  /\ toReader' = Tail(toReader)
  /\ UNCHANGED <<sender, connected, source, toWriter, written, restarts, breaks, stale>>

ReadsLine ==
  /\ sink.lines # <<>>
  /\ sink' = LookedUp([sink EXCEPT !.lines = Tail(@)], Head(sink.lines))
  /\ UNCHANGED <<sender, connected, source, toReader, toWriter, written, restarts, breaks,
                 reached, stale>>

SendsAck ==
  /\ connected /\ sink.acks # <<>>
  /\ toWriter' = Append(toWriter, Head(sink.acks))
  /\ sink' = [sink EXCEPT !.acks = Tail(@)]
  /\ UNCHANGED <<sender, connected, source, toReader, written, restarts, breaks, reached, stale>>

-----------------------------------------------------------------------------
(* Outages.                                                                *)

\* What is under way is lost.  Every _sendack of the MCU fails before it comes
\* back; one of the GUI that waits for _wlock, held by a _send that sleeps, may
\* be left for the next connection (server.py:325, 376).
Outage(r) ==
  /\ connected' = FALSE /\ toReader' = <<>> /\ toWriter' = <<>>
  /\ \E kept \in IF sender = "mcu" THEN {r.acks, <<>>} ELSE {<<>>} :
       sink' = [r EXCEPT !.acks = kept]

LinkFails ==
  /\ connected /\ breaks < MaxBreaks /\ breaks' = breaks + 1
  /\ Outage(sink)
  /\ UNCHANGED <<sender, source, written, restarts, reached, stale>>

RestartsSender ==
  /\ restarts < MaxRestarts /\ restarts' = restarts + 1
  /\ source' = WriterOf(source.life + 1)
  /\ Outage(sink)
  /\ UNCHANGED <<sender, written, breaks, reached, stale>>

RestartsReceiver ==
  /\ restarts < MaxRestarts /\ restarts' = restarts + 1
  /\ Outage(NewReader)
  /\ UNCHANGED <<sender, source, written, breaks, reached, stale>>

Connects ==
  /\ ~connected /\ connected' = TRUE
  /\ UNCHANGED <<sender, source, sink, toReader, toWriter, written, restarts, breaks, reached,
                 stale>>

LivesNext ==
  \/ StartsWrite \/ SendsLine \/ TakesAck \/ Returns
  \/ Arrives \/ ReadsLine \/ SendsAck
  \/ LinkFails \/ RestartsSender \/ RestartsReceiver \/ Connects

LivesSpec == LivesInit /\ [][LivesNext]_livesVars

-----------------------------------------------------------------------------
LivesTypeOK ==
  /\ sender \in {"mcu", "gui"} /\ connected \in BOOLEAN /\ stale \in BOOLEAN
  /\ source.mid \in Mid /\ source.pending \subseteq Mid /\ Cardinality(source.pending) <= 1
  /\ source.at \in {"idle", "send", "wait"}
  /\ sink.lst \in Record /\ About <= 2 * MaxAbout

\* The line that is looked up in a step, if one is.
LooksUp ==
  IF ReadsLine THEN <<Head(sink.lines)>>
  ELSE IF Arrives /\ sender = "gui" THEN <<Head(toReader)>> ELSE <<>>

\* Lives are kept apart.  A line is given to the application just when its message
\* is newer than any this life of the receiver has had: none is taken for a
\* duplicate of one from a life before, and none is given twice, but for the
\* first of a life, whose identifier clears the record each time it comes.  And
\* write returns only when its message has reached the other end.  All this until
\* an ACK the GUI owed to the life before meets the same identifier: then the
\* first message may be lost, and with it the clearing of the record.
LivesAreApart ==
  [][ ~stale =>
      /\ \A i \in DOMAIN LooksUp :
           LET m == LooksUp[i] IN Given(m) <=> Newer(m, sink.last) \/ m.mid = Zero
      /\ Returns => reached = [life |-> source.life, n |-> source.n]
    ]_livesVars
=============================================================================
