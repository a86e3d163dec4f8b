----------------------------- MODULE Keepalives -----------------------------
(***************************************************************************)
(* The clocks of the link: each end writes at least every quarter of the   *)
(* timeout and takes the other for gone when it has heard nothing for the  *)
(* whole of it (iot/client.py, server.py).  The MCU has one loop: while    *)
(* it flashes its LEDs (main.py:75) it neither reads nor writes.           *)
(*                                                                         *)
(* Time is counted in ticks, rounded to the side that is worse for the     *)
(* link.  What is under way is known by its age alone: what is said, and   *)
(* how lines are kept through an outage, are in IotLink and LineFraming.   *)
(***************************************************************************)
EXTENDS Integers

CONSTANTS
  Timeout,    \* TIMEOUT: nothing heard for longer than this, the other is gone
  KaInterval, \* _tim_ka, a quarter of it
  FlashTime,  \* how long flash_leds keeps the loop of the MCU
  OffTime,    \* from s.disconnect() to the sleep that follows: to * 2
  WifiTime,   \* the shortest _connect: half a second and three of stability
  MaxDelay,   \* a segment that is not lost arrives within this time
  ServerLag,  \* how late the server's loop may be
  WakeTime    \* 0.2 s of _client_active and the poll of _wr_pause

ASSUME TicksAssumption ==
  /\ {Timeout, KaInterval, FlashTime, OffTime, WifiTime} \subseteq Nat \ {0}
  /\ {MaxDelay, ServerLag} \subseteq Nat /\ WakeTime \in 0..KaInterval

VARIABLES
  radio,    \* does anything get through
  client,   \* the MCU end, see KaTypeOK
  server,   \* the GUI end
  up, down  \* under way to the server and to the client

kaVars == <<radio, client, server, up, down>>

Nothing == [age |-> -1, fin |-> FALSE]

UnderWay(pipe) == pipe.age >= 0

\* What is written now joins what is under way, whose age counts.
Onto(pipe, fin) == [age |-> IF UnderWay(pipe) THEN pipe.age ELSE 0, fin |-> fin]

KaInit ==
  /\ radio = "good"
  /\ client = [joined |-> TRUE, first |-> TRUE, since |-> 0, wrote |-> 0, busy |-> 0,
               away |-> 0, outage |-> FALSE]
  /\ server = [open |-> TRUE, since |-> 0, wrote |-> KaInterval, held |-> FALSE,
               outage |-> FALSE]
  /\ up = Nothing /\ down = Nothing

Alive == client.joined /\ client.busy = 0

-----------------------------------------------------------------------------
(* The MCU                                                                 *)

\* Faulty variant of KeepaliveDue: it writes as rarely as it may hear nothing.
KeepaliveDueAtTimeout == client.wrote >= Timeout

\* _keepalive: due once _tim_ka has gone by since the last write.
KeepaliveDue == client.wrote >= KaInterval

\* A keepalive, or an ACK or result in its place.
ClientWrites ==
  /\ Alive /\ client.wrote > 0
  /\ client' = [client EXCEPT !.wrote = 0]
  /\ up' = Onto(up, FALSE)
  /\ UNCHANGED <<radio, server, down>>

\* flash_leds: what is overdue runs first, for cipo_queue has one place and so
\* no second command starts before the loop has been round.
FlashLeds ==
  /\ Alive /\ ~client.first /\ ~KeepaliveDue
  /\ client' = [client EXCEPT !.busy = FlashTime]
  /\ UNCHANGED <<radio, server, up, down>>

\* Faulty variant of Left: WiFi is tried again without the sleep of client.py:315.
LeftAtOnce == [client EXCEPT !.joined = FALSE, !.away = OffTime]

\* _run, after _evfail: the socket is closed, WiFi is left, and it sleeps.  The
\* end of the connection gets out or does not; nothing reaches the client.
Left == [client EXCEPT !.joined = FALSE, !.away = 0]

Leaves ==
  /\ client' = Left
  /\ up' \in {up, Onto(up, TRUE)}
  /\ down' = Nothing

\* _readline: something received resets the timer; the end of the stream fails.
\* A keepalive is received there and then, a line ends the call.
\* A line written after the oldest under way may come with it or later.
LeftOf(pipe, wrote) ==
  {Nothing} \cup (IF wrote < pipe.age THEN {[age |-> wrote, fin |-> pipe.fin]} ELSE {})

ClientReads ==
  /\ Alive /\ radio = "good" /\ UnderWay(down)
  /\ UNCHANGED <<radio, server>>
  /\ IF down.fin THEN Leaves
     ELSE /\ \E line \in BOOLEAN :
               client' = [client EXCEPT !.first = @ /\ ~line, !.since = 0, !.outage = FALSE]
          /\ down' \in LeftOf(down, server.wrote)
          /\ UNCHANGED up

\* _reader waits twice as long in its first _readline (client.py:321).
Patience == IF client.first THEN 2 * Timeout ELSE Timeout

\* It reads before it looks at the time, so what has come is never overlooked.
HasCome(pipe) == radio = "good" /\ pipe.age >= MaxDelay

ClientTimesOut ==
  /\ Alive /\ client.since > Patience /\ ~HasCome(down)
  /\ Leaves /\ UNCHANGED <<radio, server>>

\* _run from the top: connected to WiFi, then to the server, which takes the
\* socket for the name it knows or closes it as a duplicate (server.py:133-138).
ClientReturns ==
  /\ ~client.joined /\ client.away >= OffTime + WifiTime /\ radio = "good"
  /\ UNCHANGED radio
  /\ IF server.open
     THEN /\ client' = Left /\ UNCHANGED <<server, up, down>>
     ELSE /\ client' = [joined |-> TRUE, first |-> TRUE, since |-> 0, wrote |-> 0, busy |-> 0,
                        away |-> 0, outage |-> FALSE]
          /\ \E held \in BOOLEAN :
               server' = [server EXCEPT !.open = TRUE, !.since = 0, !.held = held, !.outage = FALSE]
          /\ up' = Nothing /\ down' = Nothing

-----------------------------------------------------------------------------
(* The GUI                                                                 *)

\* Connection._close
Closed == [server EXCEPT !.open = FALSE]

\* _keepalive: one whose _send has failed is written again by _vwrite, which
\* now holds it back as any line until _client_active has ended the pause.
ServerWrites ==
  /\ server.open /\ server.wrote >= KaInterval /\ ~server.held
  /\ server' = [server EXCEPT !.wrote = 0]
  /\ down' = IF client.joined THEN Onto(down, FALSE) ELSE down
  /\ UNCHANGED <<radio, client, up>>

\* A keepalive held back is written once the pause has been seen to end.
Awake ==
  IF server.held /\ server.wrote > KaInterval - WakeTime
  THEN [server EXCEPT !.wrote = KaInterval - WakeTime] ELSE server

\* _read.  What is left of a connection the client has closed is read as well.
ServerReads ==
  /\ server.open /\ radio = "good" /\ UnderWay(up)
  /\ UNCHANGED <<radio, client>>
  /\ IF up.fin
     THEN /\ server' = Closed /\ up' = Nothing
          /\ down' = IF client.joined THEN Onto(down, TRUE) ELSE down
     ELSE /\ server' = [Awake EXCEPT !.since = 0, !.held = FALSE, !.outage = FALSE]
          /\ up' \in LeftOf(up, client.wrote)
          /\ UNCHANGED down

ServerTimesOut ==
  /\ server.open /\ server.since > Timeout /\ ~HasCome(up)
  /\ server' = Closed
  /\ down' = IF client.joined THEN Onto(down, TRUE) ELSE down
  /\ UNCHANGED <<radio, client, up>>

-----------------------------------------------------------------------------
(* Time                                                                    *)

\* While nothing gets through, what is under way waits.
RadioFails ==
  /\ radio = "good" /\ radio' = "bad"
  /\ client' = [client EXCEPT !.outage = TRUE] /\ server' = [server EXCEPT !.outage = TRUE]
  /\ UNCHANGED <<up, down>>

RadioRecovers == radio = "bad" /\ radio' = "good" /\ UNCHANGED <<client, server, up, down>>

\* Nobody is later than he may be: the loop of the MCU, unless it is held, is
\* always on time, the server's and the network within their bounds.
OnSchedule ==
  /\ Alive => /\ ~KeepaliveDue /\ ~HasCome(down)
              /\ client.since <= Patience
  /\ server.open => /\ server.wrote < KaInterval + ServerLag \/ server.held
                    /\ ~HasCome(up) /\ server.since <= Timeout

Older(pipe) ==
  IF UnderWay(pipe) /\ radio = "good" /\ pipe.age < MaxDelay
  THEN [pipe EXCEPT !.age = @ + 1] ELSE pipe

\* A counter past every comparison made with it stands still.
UpTo(n, top) == IF n < top THEN n + 1 ELSE n

Tick ==
  /\ OnSchedule
  /\ client' = [client EXCEPT
        !.wrote = UpTo(@, Timeout),
        !.since = IF client.joined THEN UpTo(@, 2 * Timeout + 1) ELSE @,
        !.busy = IF client.joined /\ @ > 0 THEN @ - 1 ELSE @,
        !.away = IF client.joined THEN @ ELSE UpTo(@, OffTime + WifiTime)]
  /\ server' = [server EXCEPT
        !.wrote = UpTo(@, KaInterval + ServerLag),
        !.since = IF server.open THEN UpTo(@, Timeout + 1) ELSE @]
  /\ up' = Older(up) /\ down' = Older(down)
  /\ UNCHANGED radio

KaNext ==
  \/ ClientWrites \/ FlashLeds \/ ClientReads \/ ClientTimesOut \/ ClientReturns
  \/ ServerWrites \/ ServerReads \/ ServerTimesOut
  \/ RadioFails \/ RadioRecovers \/ Tick

KaTypeOK ==
  /\ radio \in {"good", "bad"}
  /\ client \in [joined : BOOLEAN, first : BOOLEAN, outage : BOOLEAN, since : 0..2 * Timeout + 1,
                 wrote : 0..Timeout, busy : 0..FlashTime, away : 0..OffTime + WifiTime]
  /\ server \in [open : BOOLEAN, held : BOOLEAN, outage : BOOLEAN, since : 0..Timeout + 1,
                 wrote : 0..KaInterval + ServerLag]
  /\ {up, down} \subseteq [age : -1..MaxDelay, fin : BOOLEAN]

-----------------------------------------------------------------------------
\* An end gives the other up only after an outage of the radio it has heard
\* nothing since: a loop held by flash_leds, late answers and the wait for the
\* first line never break a connection.
OnlyOutagesBreak ==
  /\ server.open /\ ~server'.open => server.outage \/ up.fin \/ ~client.joined
  /\ client.joined /\ ~client'.joined => client.outage \/ down.fin

\* When the client comes back the server has noticed that it had gone
\* (client.py:314 "Ensure server detects outage").
ServerHasNoticed == ~client.joined /\ client.away > client'.away => ~server.open

TimeoutsAreRight == [][OnlyOutagesBreak /\ ServerHasNoticed]_kaVars
=============================================================================
