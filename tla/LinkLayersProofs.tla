-------------------------- MODULE LinkLayersProofs --------------------------
(***************************************************************************)
(* What IotLink abstracts from: the clocks by which the two ends take each *)
(* other for gone, the lives of the ends, and the lines in the stream.     *)
(***************************************************************************)
EXTENDS Keepalives, PowerCycles, LineFraming, MsgIdProofs, SequenceTheorems, FiniteSetTheorems,
        NaturalsInduction, WellFoundedInduction

-----------------------------------------------------------------------------
(* The clocks                                                              *)

\* The longest the client is silent: a keepalive that is almost due when the LEDs
\* begin to flash.  And the longest the server is.
ClientSilence == KaInterval + FlashTime - 1
ServerSilence == KaInterval + ServerLag

\* What the times have to be like.  Each end hears of the other within the timeout,
\* and the client stays away for longer than the server can take it for present:
\* one timeout until it has read the last that came, and one more.
TimesFit ==
  /\ ClientSilence + MaxDelay <= Timeout
  /\ ServerSilence + MaxDelay <= Timeout
  /\ 2 * Timeout + MaxDelay + 2 < OffTime + WifiTime

\* While the client is there, the server has heard of it within its silence and the
\* age of what is under way, unless the radio failed.
ServerHears ==
  /\ client.joined => ~up.fin /\ client.wrote + client.busy <= ClientSilence
  /\ client.joined /\ server.open /\ ~server.outage =>
       /\ ~UnderWay(up) => server.since <= client.wrote
       /\ UnderWay(up) => server.since <= ClientSilence + up.age

\* The other way round.  A server that has just taken the client back may hold its
\* keepalives until it hears of it: for that time the first line has one timeout
\* more.  What waits while the client flashes its LEDs has come.
Grace == IF client.first THEN Timeout ELSE 0
ClientHears ==
  /\ client.joined /\ ~server.open => UnderWay(down) /\ down.fin
  /\ client.joined /\ server.open /\ server.held =>
       /\ client.first /\ ~UnderWay(down)
       /\ ~client.outage => ~server.outage /\ client.since <= server.since
  /\ client.joined /\ server.open /\ ~server.held /\ ~client.outage =>
       /\ ~UnderWay(down) => client.since <= Grace + server.wrote
       /\ down.age \in 0 .. MaxDelay - 1 => client.since <= Grace + ServerSilence + down.age

\* While the client is away, the server hears no more than what was under way.
ServerForgets ==
  ~client.joined =>
    /\ client.wrote >= client.away \/ client.wrote = Timeout
    /\ server.open =>
         /\ UnderWay(up) => client.away <= server.since + MaxDelay
         /\ client.away <= server.since + MaxDelay + Timeout + 1

KaInv ==
  /\ KaTypeOK
  /\ radio = "bad" => client.outage /\ server.outage
  /\ ServerHears /\ ClientHears /\ ServerForgets

LEMMA TicksAre ==
  /\ Timeout \in Nat \ {0} /\ KaInterval \in Nat \ {0} /\ FlashTime \in Nat \ {0}
  /\ OffTime \in Nat \ {0} /\ WifiTime \in Nat \ {0} /\ MaxDelay \in Nat /\ ServerLag \in Nat
  /\ WakeTime \in 0 .. KaInterval
BY TicksAssumption

\* The fields of both ends, one by one.
LEMMA EndsAre ==
  ASSUME KaTypeOK
  PROVE  /\ client.joined \in BOOLEAN /\ client.first \in BOOLEAN /\ client.outage \in BOOLEAN
         /\ client.since \in 0 .. 2 * Timeout + 1 /\ client.wrote \in 0 .. Timeout
         /\ client.busy \in 0 .. FlashTime /\ client.away \in 0 .. OffTime + WifiTime
         /\ server.open \in BOOLEAN /\ server.held \in BOOLEAN /\ server.outage \in BOOLEAN
         /\ server.since \in 0 .. Timeout + 1 /\ server.wrote \in 0 .. KaInterval + ServerLag
         /\ up.age \in -1 .. MaxDelay /\ up.fin \in BOOLEAN
         /\ down.age \in -1 .. MaxDelay /\ down.fin \in BOOLEAN
BY DEF KaTypeOK

\* What is put onto a pipe, what is left of it, and how it grows older.
LEMMA PipesAre ==
  ASSUME NEW pipe \in [age : -1 .. MaxDelay, fin : BOOLEAN], NEW fin \in BOOLEAN, NEW wrote \in Nat
  PROVE  /\ Nothing \in [age : -1 .. MaxDelay, fin : BOOLEAN] /\ ~UnderWay(Nothing) /\ ~Nothing.fin
         /\ Onto(pipe, fin) \in [age : -1 .. MaxDelay, fin : BOOLEAN]
         /\ UnderWay(Onto(pipe, fin)) /\ Onto(pipe, fin).fin = fin
         /\ Onto(pipe, fin).age = IF UnderWay(pipe) THEN pipe.age ELSE 0
         /\ \A rest \in LeftOf(pipe, wrote) :
              /\ rest \in [age : -1 .. MaxDelay, fin : BOOLEAN]
              /\ rest = Nothing \/ (rest.age = wrote /\ wrote < pipe.age /\ rest.fin = pipe.fin)
         /\ Older(pipe) \in [age : -1 .. MaxDelay, fin : BOOLEAN]
         /\ UnderWay(Older(pipe)) <=> UnderWay(pipe)
         /\ Older(pipe).fin = pipe.fin
         /\ Older(pipe).age = IF UnderWay(pipe) /\ radio = "good" /\ pipe.age < MaxDelay
                              THEN pipe.age + 1 ELSE pipe.age
<1>0. MaxDelay \in Nat
  BY TicksAre
<1>1. pipe.age \in -1 .. MaxDelay /\ pipe.fin \in BOOLEAN
  OBVIOUS
<1>2. Nothing \in [age : -1 .. MaxDelay, fin : BOOLEAN] /\ ~UnderWay(Nothing) /\ ~Nothing.fin
  BY <1>0 DEF Nothing, UnderWay
<1>3. /\ Onto(pipe, fin) \in [age : -1 .. MaxDelay, fin : BOOLEAN]
      /\ UnderWay(Onto(pipe, fin)) /\ Onto(pipe, fin).fin = fin
      /\ Onto(pipe, fin).age = IF UnderWay(pipe) THEN pipe.age ELSE 0
  BY <1>0, <1>1 DEF Onto, UnderWay
<1>4. ASSUME NEW rest \in LeftOf(pipe, wrote)
      PROVE  /\ rest \in [age : -1 .. MaxDelay, fin : BOOLEAN]
             /\ rest = Nothing \/ (rest.age = wrote /\ wrote < pipe.age /\ rest.fin = pipe.fin)
  <2>1. CASE rest = Nothing
    BY <1>2, <2>1
  <2>2. CASE wrote < pipe.age /\ rest = [age |-> wrote, fin |-> pipe.fin]
    BY <1>0, <1>1, <2>2
  <2>. QED
    BY <1>4, <2>1, <2>2 DEF LeftOf
<1>5. /\ Older(pipe) \in [age : -1 .. MaxDelay, fin : BOOLEAN]
      /\ UnderWay(Older(pipe)) <=> UnderWay(pipe)
      /\ Older(pipe).fin = pipe.fin
      /\ Older(pipe).age = IF UnderWay(pipe) /\ radio = "good" /\ pipe.age < MaxDelay
                           THEN pipe.age + 1 ELSE pipe.age
  BY <1>0, <1>1 DEF Older, UnderWay
<1>. QED
  BY <1>2, <1>3, <1>4, <1>5

LEMMA KaInitHolds == TimesFit /\ KaInit => KaInv
<1> SUFFICES ASSUME TimesFit, KaInit PROVE KaInv
  OBVIOUS
<1>0. /\ Timeout \in Nat \ {0} /\ KaInterval \in Nat \ {0} /\ FlashTime \in Nat \ {0}
      /\ OffTime \in Nat \ {0} /\ WifiTime \in Nat \ {0} /\ MaxDelay \in Nat /\ ServerLag \in Nat
  BY TicksAre
<1>1. /\ client.joined = TRUE /\ client.since = 0 /\ client.wrote = 0 /\ client.busy = 0
      /\ server.open = TRUE /\ server.since = 0 /\ server.wrote = KaInterval /\ server.held = FALSE
      /\ up = Nothing /\ down = Nothing /\ radio = "good" /\ client.first = TRUE
  BY DEF KaInit
<1>2. ~UnderWay(Nothing) /\ Nothing.fin = FALSE /\ Nothing.age = -1
  BY DEF Nothing, UnderWay
<1>3. KaTypeOK
  <2>1. client \in [joined : BOOLEAN, first : BOOLEAN, outage : BOOLEAN, since : 0..2 * Timeout + 1,
                 wrote : 0..Timeout, busy : 0..FlashTime, away : 0..OffTime + WifiTime]
    BY <1>0 DEF KaInit
  <2>2. server \in [open : BOOLEAN, held : BOOLEAN, outage : BOOLEAN, since : 0..Timeout + 1,
                 wrote : 0..KaInterval + ServerLag]
    BY <1>0 DEF KaInit
  <2>3. up \in [age : -1..MaxDelay, fin : BOOLEAN] /\ down \in [age : -1..MaxDelay, fin : BOOLEAN]
    BY <1>0 DEF KaInit, Nothing
  <2>. QED
    BY <1>1, <2>1, <2>2, <2>3 DEF KaTypeOK
<1>4. ServerHears
  BY <1>0, <1>1, <1>2 DEF ServerHears, ClientSilence
<1>5. ClientHears
  BY <1>0, <1>1, <1>2 DEF ClientHears, Grace
<1>6. ServerForgets
  BY <1>1 DEF ServerForgets
<1>. QED
  BY <1>1, <1>3, <1>4, <1>5, <1>6 DEF KaInv

LEMMA ClientWritesHolds == ASSUME TimesFit, KaInv, ClientWrites PROVE KaInv'
<1> DEFINE Pipe == [age : -1 .. MaxDelay, fin : BOOLEAN]
<1>0. /\ Timeout \in Nat \ {0} /\ KaInterval \in Nat \ {0} /\ FlashTime \in Nat \ {0} /\ MaxDelay \in Nat
  BY TicksAre
<1>1. KaTypeOK /\ up \in Pipe /\ down \in Pipe
  BY DEF KaInv, KaTypeOK
<1>2. /\ client.joined = TRUE /\ client.busy = 0 /\ client.wrote > 0
      /\ client' = [client EXCEPT !.wrote = 0] /\ up' = Onto(up, FALSE)
      /\ radio' = radio /\ server' = server /\ down' = down
  BY <1>1, EndsAre DEF ClientWrites, Alive
<1>3. /\ client' \in [joined : BOOLEAN, first : BOOLEAN, outage : BOOLEAN, since : 0..2 * Timeout + 1,
                 wrote : 0..Timeout, busy : 0..FlashTime, away : 0..OffTime + WifiTime]
      /\ client'.joined = TRUE /\ client'.first = client.first /\ client'.outage = client.outage
      /\ client'.since = client.since /\ client'.wrote = 0 /\ client'.busy = 0
  BY <1>0, <1>1, <1>2 DEF KaTypeOK
<1>4. /\ up' \in Pipe /\ UnderWay(up)' /\ up'.fin = FALSE
      /\ up'.age = IF UnderWay(up) THEN up.age ELSE 0
  <2>1. FALSE \in BOOLEAN /\ 0 \in Nat
    OBVIOUS
  <2>2. UnderWay(up)' = UnderWay(up')
    BY DEF UnderWay
  <2>. QED
    BY <1>1, <1>2, <2>1, <2>2, PipesAre
<1>5. KaTypeOK'
  BY <1>1, <1>2, <1>3, <1>4 DEF KaTypeOK
<1>6. ServerHears'
  <2>1. server.since \in Nat /\ client.wrote \in Nat /\ ClientSilence \in Nat
    BY <1>0, <1>1, EndsAre DEF ClientSilence
  <2>2. client.wrote <= ClientSilence
    BY <1>2, <2>1 DEF KaInv, ServerHears
  <2>3. ASSUME server.open, ~server.outage PROVE server.since <= ClientSilence + up'.age
    <3>1. /\ ~UnderWay(up) => server.since <= client.wrote
          /\ UnderWay(up) => server.since <= ClientSilence + up.age
      BY <1>2, <2>3 DEF KaInv, ServerHears
    <3>2. CASE UnderWay(up)
      BY <1>4, <3>1, <3>2
    <3>3. CASE ~UnderWay(up)
      BY <1>4, <2>1, <2>2, <3>1, <3>3
    <3>. QED
      BY <3>2, <3>3
  <2>4. client'.wrote + client'.busy <= ClientSilence
    BY <1>3, <2>1
  <2>. QED
    BY <1>2, <1>4, <2>3, <2>4 DEF ServerHears, ClientSilence
<1>7. ClientHears'
  BY <1>2, <1>3 DEF KaInv, ClientHears, Grace, UnderWay, ServerSilence
<1>8. ServerForgets'
  BY <1>3 DEF ServerForgets
<1>. QED
  BY <1>2, <1>3, <1>5, <1>6, <1>7, <1>8 DEF KaInv

LEMMA FlashLedsHolds == ASSUME TimesFit, KaInv, FlashLeds PROVE KaInv'
<1>0. /\ Timeout \in Nat \ {0} /\ KaInterval \in Nat \ {0} /\ FlashTime \in Nat \ {0} /\ MaxDelay \in Nat
  BY TicksAre
<1>1. KaTypeOK
  BY DEF KaInv
<1>2. /\ client.joined = TRUE /\ client.wrote < KaInterval
      /\ client' = [client EXCEPT !.busy = FlashTime]
      /\ radio' = radio /\ server' = server /\ down' = down /\ up' = up
  BY <1>0, <1>1, EndsAre DEF FlashLeds, Alive, KeepaliveDue
<1>3. /\ client' \in [joined : BOOLEAN, first : BOOLEAN, outage : BOOLEAN, since : 0..2 * Timeout + 1,
                 wrote : 0..Timeout, busy : 0..FlashTime, away : 0..OffTime + WifiTime]
      /\ client'.joined = TRUE /\ client'.first = client.first /\ client'.outage = client.outage
      /\ client'.since = client.since /\ client'.wrote = client.wrote /\ client'.busy = FlashTime
  BY <1>0, <1>1, <1>2 DEF KaTypeOK
<1>4. client.wrote + FlashTime <= ClientSilence
  BY <1>0, <1>1, <1>2, EndsAre DEF ClientSilence
<1>5. KaTypeOK'
  BY <1>1, <1>2, <1>3 DEF KaTypeOK
<1>6. ServerHears'
  BY <1>2, <1>3, <1>4 DEF KaInv, ServerHears, UnderWay, ClientSilence
<1>7. ClientHears'
  BY <1>2, <1>3 DEF KaInv, ClientHears, Grace, UnderWay, ServerSilence
<1>8. ServerForgets'
  BY <1>3 DEF ServerForgets
<1>. QED
  BY <1>2, <1>3, <1>5, <1>6, <1>7, <1>8 DEF KaInv

\* The client gives the connection up: now it is away, from this moment on.
LEMMA LeavesHolds ==
  ASSUME TimesFit, KaInv, Leaves, UNCHANGED <<radio, server>>
  PROVE  KaInv' /\ client'.joined = FALSE /\ client'.away = 0
<1> DEFINE Pipe == [age : -1 .. MaxDelay, fin : BOOLEAN]
<1>0. /\ Timeout \in Nat \ {0} /\ MaxDelay \in Nat /\ OffTime \in Nat /\ WifiTime \in Nat
  BY TicksAre
<1>1. KaTypeOK /\ up \in Pipe /\ down \in Pipe
  BY DEF KaInv, KaTypeOK
<1>2. /\ client' = [client EXCEPT !.joined = FALSE, !.away = 0] /\ up' \in {up, Onto(up, TRUE)}
      /\ radio' = radio /\ server' = server /\ down' = Nothing
  BY DEF Leaves, Left
<1>3. /\ client' \in [joined : BOOLEAN, first : BOOLEAN, outage : BOOLEAN, since : 0..2 * Timeout + 1,
                 wrote : 0..Timeout, busy : 0..FlashTime, away : 0..OffTime + WifiTime]
      /\ client'.joined = FALSE /\ client'.away = 0 /\ client'.wrote = client.wrote
      /\ client'.outage = client.outage
  <2>1. client \in [joined : BOOLEAN, first : BOOLEAN, outage : BOOLEAN, since : 0..2 * Timeout + 1,
                    wrote : 0..Timeout, busy : 0..FlashTime, away : 0..OffTime + WifiTime]
    BY <1>1 DEF KaTypeOK
  <2>2. 0 \in 0 .. OffTime + WifiTime /\ FALSE \in BOOLEAN
    BY <1>0
  <2>. QED
    BY <1>2, <2>1, <2>2
<1>4. up' \in Pipe /\ down' \in Pipe
  <2>1. TRUE \in BOOLEAN /\ 0 \in Nat
    OBVIOUS
  <2>2. Onto(up, TRUE) \in Pipe /\ Nothing \in Pipe
    BY <1>1, <2>1, PipesAre
  <2>. QED
    BY <1>1, <1>2, <2>2
<1>5. KaTypeOK'
  BY <1>1, <1>2, <1>3, <1>4 DEF KaTypeOK
<1>6. server.since \in Nat /\ client.wrote \in Nat
  BY <1>0, <1>1, EndsAre
<1>7. ServerHears' /\ ClientHears'
  BY <1>3 DEF ServerHears, ClientHears
<1>8. ServerForgets'
  BY <1>0, <1>2, <1>3, <1>6 DEF ServerForgets
<1>. QED
  BY <1>2, <1>3, <1>5, <1>7, <1>8 DEF KaInv

\* What a step may not do, when only some of the two ends change.
KaStep == OnlyOutagesBreak /\ ServerHasNoticed

LEMMA ClientReadsHolds == ASSUME TimesFit, KaInv, ClientReads PROVE KaInv' /\ KaStep
<1> DEFINE Pipe == [age : -1 .. MaxDelay, fin : BOOLEAN]
<1>0. /\ Timeout \in Nat \ {0} /\ MaxDelay \in Nat /\ KaInterval \in Nat \ {0} /\ ServerLag \in Nat
  BY TicksAre
<1>1. KaTypeOK /\ up \in Pipe /\ down \in Pipe
  BY DEF KaInv, KaTypeOK
<1>2. /\ client.joined /\ client.busy = 0 /\ radio = "good" /\ UnderWay(down)
      /\ radio' = radio /\ server' = server
  BY DEF ClientReads, Alive
<1>3. CASE down.fin
  <2>1. Leaves
    BY <1>3 DEF ClientReads
  <2>2. KaInv'
    BY <1>2, <2>1, LeavesHolds
  <2>3. KaStep
    BY <1>2, <1>3 DEF KaStep, OnlyOutagesBreak, ServerHasNoticed
  <2>. QED
    BY <2>2, <2>3
<1>4. CASE ~down.fin
  <2>1. PICK line \in BOOLEAN :
          client' = [client EXCEPT !.first = @ /\ ~line, !.since = 0, !.outage = FALSE]
    BY <1>4 DEF ClientReads
  <2>2. down' \in LeftOf(down, server.wrote) /\ up' = up
    BY <1>4 DEF ClientReads
  <2>3. /\ client' \in [joined : BOOLEAN, first : BOOLEAN, outage : BOOLEAN, since : 0..2 * Timeout + 1,
                   wrote : 0..Timeout, busy : 0..FlashTime, away : 0..OffTime + WifiTime]
        /\ client'.joined = client.joined /\ client'.since = 0 /\ client'.wrote = client.wrote
        /\ client'.busy = client.busy /\ client'.away = client.away
    <3> DEFINE first == client.first /\ ~line
    <3>1. first \in BOOLEAN
      BY <1>1, EndsAre
    <3>2. client' = [client EXCEPT !.first = first, !.since = 0, !.outage = FALSE]
      BY <2>1
    <3>3. client \in [joined : BOOLEAN, first : BOOLEAN, outage : BOOLEAN, since : 0..2 * Timeout + 1,
                      wrote : 0..Timeout, busy : 0..FlashTime, away : 0..OffTime + WifiTime]
      BY <1>1 DEF KaTypeOK
    <3>4. 0 \in 0 .. 2 * Timeout + 1 /\ FALSE \in BOOLEAN
      BY <1>0
    <3> HIDE DEF first
    <3>. QED
      BY <3>1, <3>2, <3>3, <3>4
  <2>4. server.wrote \in Nat /\ server.wrote \in 0 .. KaInterval + ServerLag /\ client.wrote \in Nat
    BY <1>0, <1>1, EndsAre
  <2>5. /\ down' \in Pipe
        /\ down' = Nothing \/ (down'.age = server.wrote /\ down'.fin = down.fin)
    BY <1>1, <2>2, <2>4, PipesAre
  <2>6. KaTypeOK'
    BY <1>1, <1>2, <2>2, <2>3, <2>5 DEF KaTypeOK
  <2>7. server.open /\ ~server.held
    BY <1>2, <1>4 DEF KaInv, ClientHears
  <2>8. ServerHears'
    BY <1>2, <2>2, <2>3 DEF KaInv, ServerHears, UnderWay, ClientSilence
  <2>9. ClientHears'
    <3>1. Grace' \in Nat /\ ServerSilence \in Nat
      BY <1>0 DEF Grace, ServerSilence
    <3>2. 0 <= Grace' + server.wrote
      BY <2>4, <3>1
    <3>3. down'.age \in 0 .. MaxDelay - 1 => 0 <= Grace' + ServerSilence + down'.age
      BY <1>0, <3>1
    <3>. QED
      BY <1>2, <2>3, <2>7, <3>2, <3>3 DEF ClientHears, UnderWay, ServerSilence
  <2>10. ServerForgets'
    BY <1>2, <2>3 DEF ServerForgets
  <2>11. KaStep
    BY <1>2, <2>3 DEF KaStep, OnlyOutagesBreak, ServerHasNoticed
  <2>. QED
    BY <1>2, <2>3, <2>6, <2>8, <2>9, <2>10, <2>11 DEF KaInv
<1>. QED
  BY <1>3, <1>4

LEMMA ClientTimesOutHolds == ASSUME TimesFit, KaInv, ClientTimesOut PROVE KaInv' /\ KaStep
<1>0. /\ Timeout \in Nat \ {0} /\ MaxDelay \in Nat /\ KaInterval \in Nat \ {0} /\ ServerLag \in Nat
      /\ FlashTime \in Nat \ {0} /\ ClientSilence \in Nat /\ ServerSilence \in Nat
      /\ ClientSilence + MaxDelay <= Timeout /\ ServerSilence + MaxDelay <= Timeout
  BY TicksAre DEF TimesFit, ClientSilence, ServerSilence
<1>1. KaTypeOK
  BY DEF KaInv
<1>2. /\ client.joined /\ client.since > Patience /\ ~HasCome(down) /\ Leaves
      /\ radio' = radio /\ server' = server
  BY DEF ClientTimesOut, Alive
<1>3. KaInv' /\ client'.joined = FALSE /\ client'.away = 0
  BY <1>2, LeavesHolds
<1>4. /\ client.since \in Nat /\ client.first \in BOOLEAN /\ server.since \in Nat /\ server.wrote \in Nat
      /\ server.wrote <= ServerSilence /\ down.age \in -1 .. MaxDelay /\ up.age \in -1 .. MaxDelay
      /\ client.wrote \in Nat /\ client.busy \in Nat /\ radio \in {"good", "bad"}
  BY <1>0, <1>1, EndsAre DEF ServerSilence, KaTypeOK
<1>5. Patience = Grace + Timeout /\ Grace \in Nat
  BY <1>0, <1>4 DEF Patience, Grace
<1>6. ASSUME ~client.outage, ~down.fin PROVE FALSE
  <2>1. server.open /\ radio = "good"
    BY <1>2, <1>4, <1>6 DEF KaInv, ClientHears
  <2>2. down.age < MaxDelay
    BY <1>0, <1>2, <1>4, <2>1 DEF HasCome
  <2>3. CASE server.held
    <3>1. ~server.outage /\ client.since <= server.since
      BY <1>2, <1>6, <2>1, <2>3 DEF KaInv, ClientHears
    <3>2. /\ client.wrote <= ClientSilence /\ (~UnderWay(up) => server.since <= client.wrote)
          /\ (UnderWay(up) => server.since <= ClientSilence + up.age)
      <4>1. client.wrote + client.busy <= ClientSilence
        BY <1>2 DEF KaInv, ServerHears
      <4>2. client.wrote <= ClientSilence
        BY <1>0, <1>4, <4>1
      <4>. QED
        BY <1>2, <2>1, <3>1, <4>2 DEF KaInv, ServerHears
    <3>3. server.since <= Timeout
      BY <1>0, <1>4, <3>2
    <3>. QED
      BY <1>0, <1>2, <1>4, <1>5, <3>1, <3>3
  <2>4. CASE ~server.held
    <3>1. /\ ~UnderWay(down) => client.since <= Grace + server.wrote
          /\ down.age \in 0 .. MaxDelay - 1 => client.since <= Grace + ServerSilence + down.age
      BY <1>2, <1>6, <2>1, <2>4 DEF KaInv, ClientHears
    <3>2. CASE down.age >= 0
      <4>1. down.age \in 0 .. MaxDelay - 1
        BY <1>0, <1>4, <2>2, <3>2
      <4>. QED
        BY <1>0, <1>2, <1>4, <1>5, <3>1, <4>1
    <3>3. CASE ~(down.age >= 0)
      <4>1. client.since <= Grace + server.wrote
        BY <3>1, <3>3 DEF UnderWay
      <4>. QED
        BY <1>0, <1>2, <1>4, <1>5, <4>1
    <3>. QED
      BY <3>2, <3>3
  <2>. QED
    BY <2>3, <2>4
<1>7. KaStep
  BY <1>2, <1>6 DEF KaStep, OnlyOutagesBreak, ServerHasNoticed
<1>. QED
  BY <1>3, <1>7

LEMMA ClientReturnsHolds == ASSUME TimesFit, KaInv, ClientReturns PROVE KaInv' /\ KaStep
<1>0. /\ Timeout \in Nat \ {0} /\ MaxDelay \in Nat /\ KaInterval \in Nat \ {0} /\ ServerLag \in Nat
      /\ FlashTime \in Nat \ {0} /\ OffTime \in Nat /\ WifiTime \in Nat
      /\ 2 * Timeout + MaxDelay + 2 < OffTime + WifiTime
  BY TicksAre DEF TimesFit
<1>1. KaTypeOK
  BY DEF KaInv
<1>2. ~client.joined /\ client.away >= OffTime + WifiTime /\ radio = "good" /\ radio' = radio
  BY DEF ClientReturns
<1>3. client.away \in Nat /\ server.since \in 0 .. Timeout + 1
  BY <1>0, <1>1, EndsAre
<1>4. ~server.open
  <2> SUFFICES ASSUME server.open PROVE FALSE
    OBVIOUS
  <2>1. client.away <= server.since + MaxDelay + Timeout + 1
    BY <1>2 DEF KaInv, ServerForgets
  <2>. QED
    BY <1>0, <1>2, <1>3, <2>1
<1>5. /\ client' = [joined |-> TRUE, first |-> TRUE, since |-> 0, wrote |-> 0, busy |-> 0,
                    away |-> 0, outage |-> FALSE]
      /\ up' = Nothing /\ down' = Nothing
  BY <1>4 DEF ClientReturns
<1>6. PICK held \in BOOLEAN :
        server' = [server EXCEPT !.open = TRUE, !.since = 0, !.held = held, !.outage = FALSE]
  BY <1>4 DEF ClientReturns
<1>7. /\ client' \in [joined : BOOLEAN, first : BOOLEAN, outage : BOOLEAN, since : 0..2 * Timeout + 1,
                 wrote : 0..Timeout, busy : 0..FlashTime, away : 0..OffTime + WifiTime]
      /\ client'.joined /\ client'.first /\ client'.since = 0 /\ client'.wrote = 0 /\ client'.busy = 0
  BY <1>0, <1>5
<1>8. /\ server' \in [open : BOOLEAN, held : BOOLEAN, outage : BOOLEAN, since : 0..Timeout + 1,
                 wrote : 0..KaInterval + ServerLag]
      /\ server'.open /\ server'.since = 0 /\ ~server'.outage /\ server'.wrote \in Nat
  <2>1. server \in [open : BOOLEAN, held : BOOLEAN, outage : BOOLEAN, since : 0..Timeout + 1,
                    wrote : 0..KaInterval + ServerLag]
    BY <1>1 DEF KaTypeOK
  <2>2. 0 \in 0 .. Timeout + 1 /\ TRUE \in BOOLEAN /\ FALSE \in BOOLEAN
    BY <1>0
  <2>3. server.wrote \in Nat
    BY <1>0, <1>1, EndsAre
  <2>. QED
    BY <1>6, <2>1, <2>2, <2>3
<1>9. /\ Nothing \in [age : -1..MaxDelay, fin : BOOLEAN] /\ Nothing.age = -1 /\ Nothing.fin = FALSE
      /\ ~(-1 >= 0) /\ -1 \notin 0 .. MaxDelay - 1
  BY <1>0 DEF Nothing
<1>10. KaTypeOK'
  BY <1>1, <1>2, <1>5, <1>7, <1>8, <1>9 DEF KaTypeOK
<1>11. ServerHears'
  <2>1. 0 + 0 <= ClientSilence
    BY <1>0 DEF ClientSilence
  <2>. QED
    BY <1>5, <1>7, <1>8, <1>9, <2>1 DEF ServerHears, UnderWay, ClientSilence
<1>12. ClientHears'
  <2>1. Grace' \in Nat /\ 0 <= Grace' + server'.wrote
    BY <1>0, <1>8 DEF Grace
  <2>. QED
    BY <1>5, <1>7, <1>8, <1>9, <2>1 DEF ClientHears, UnderWay
<1>13. ServerForgets'
  BY <1>7 DEF ServerForgets
<1>14. KaStep
  BY <1>2, <1>4 DEF KaStep, OnlyOutagesBreak, ServerHasNoticed
<1>. QED
  BY <1>2, <1>10, <1>11, <1>12, <1>13, <1>14 DEF KaInv

LEMMA ServerWritesHolds == ASSUME TimesFit, KaInv, ServerWrites PROVE KaInv' /\ KaStep
<1> DEFINE Pipe == [age : -1 .. MaxDelay, fin : BOOLEAN]
<1>0. /\ Timeout \in Nat \ {0} /\ MaxDelay \in Nat /\ KaInterval \in Nat \ {0} /\ ServerLag \in Nat
      /\ FlashTime \in Nat \ {0} /\ OffTime \in Nat /\ WifiTime \in Nat
  BY TicksAre
<1>1. KaTypeOK /\ up \in Pipe /\ down \in Pipe
  BY DEF KaInv, KaTypeOK
<1>2. /\ server.open /\ ~server.held /\ server' = [server EXCEPT !.wrote = 0]
      /\ down' = (IF client.joined THEN Onto(down, FALSE) ELSE down)
      /\ radio' = radio /\ client' = client /\ up' = up
  BY DEF ServerWrites
<1>3. /\ server' \in [open : BOOLEAN, held : BOOLEAN, outage : BOOLEAN, since : 0..Timeout + 1,
                 wrote : 0..KaInterval + ServerLag]
      /\ server'.open = server.open /\ server'.since = server.since /\ server'.held = server.held
      /\ server'.wrote = 0 /\ server'.outage = server.outage
  <2>1. server \in [open : BOOLEAN, held : BOOLEAN, outage : BOOLEAN, since : 0..Timeout + 1,
                    wrote : 0..KaInterval + ServerLag]
    BY <1>1 DEF KaTypeOK
  <2>2. 0 \in 0 .. KaInterval + ServerLag
    BY <1>0
  <2>. QED
    BY <1>2, <2>1, <2>2
<1>4. /\ down' \in Pipe
      /\ client.joined => /\ UnderWay(down')
                          /\ down'.age = IF UnderWay(down) THEN down.age ELSE 0
  <2>1. FALSE \in BOOLEAN /\ 0 \in Nat
    OBVIOUS
  <2>. QED
    BY <1>1, <1>2, <2>1, PipesAre
<1>5. KaTypeOK'
  BY <1>1, <1>2, <1>3, <1>4 DEF KaTypeOK
<1>6. ServerHears'
  BY <1>2, <1>3 DEF KaInv, ServerHears, UnderWay, ClientSilence
<1>7. ClientHears'
  <2> SUFFICES ASSUME client.joined, ~client.outage, down'.age \in 0 .. MaxDelay - 1
               PROVE  client.since <= Grace + ServerSilence + down'.age
    BY <1>2, <1>3, <1>4 DEF ClientHears, Grace, UnderWay, ServerSilence
  <2>1. /\ server.wrote \in Nat /\ server.wrote <= ServerSilence /\ client.since \in Nat
        /\ Grace \in Nat /\ ServerSilence \in Nat /\ down.age \in -1 .. MaxDelay
    BY <1>0, <1>1, EndsAre DEF ServerSilence, Grace
  <2>2. CASE UnderWay(down)
    <3>1. down.age \in 0 .. MaxDelay - 1 /\ down'.age = down.age
      BY <1>4, <2>2
    <3>. QED
      BY <1>2, <3>1 DEF KaInv, ClientHears
  <2>3. CASE ~UnderWay(down)
    <3>1. client.since <= Grace + server.wrote /\ down'.age = 0
      BY <1>2, <1>4, <2>3 DEF KaInv, ClientHears
    <3>. QED
      BY <2>1, <3>1
  <2>. QED
    BY <2>2, <2>3
<1>8. ServerForgets'
  BY <1>2, <1>3 DEF KaInv, ServerForgets, UnderWay
<1>9. KaStep
  <2>1. client.away \in Nat
    BY <1>0, <1>1, EndsAre
  <2>. QED
    BY <1>2, <1>3, <2>1 DEF KaStep, OnlyOutagesBreak, ServerHasNoticed
<1>. QED
  BY <1>2, <1>3, <1>5, <1>6, <1>7, <1>8, <1>9 DEF KaInv

\* The server closes the connection, which the client is told when it is there.
LEMMA ClosesHolds ==
  ASSUME TimesFit, KaInv, server' = Closed, radio' = radio, client' = client,
         up' \in {up, Nothing}, down' = IF client.joined THEN Onto(down, TRUE) ELSE down
  PROVE  KaInv'
<1> DEFINE Pipe == [age : -1 .. MaxDelay, fin : BOOLEAN]
<1>1. KaTypeOK /\ up \in Pipe /\ down \in Pipe
  BY DEF KaInv, KaTypeOK
<1>2. TRUE \in BOOLEAN /\ FALSE \in BOOLEAN /\ 0 \in Nat
  OBVIOUS
<1>3. /\ server' \in [open : BOOLEAN, held : BOOLEAN, outage : BOOLEAN, since : 0..Timeout + 1,
                 wrote : 0..KaInterval + ServerLag]
      /\ server'.open = FALSE /\ server'.outage = server.outage
  BY <1>1, <1>2 DEF KaTypeOK, Closed
<1>4. /\ up' \in Pipe /\ down' \in Pipe /\ (client.joined => UnderWay(down') /\ down'.fin = TRUE)
      /\ client.joined => ~up'.fin
  <2>1. Nothing \in Pipe /\ ~Nothing.fin
    BY <1>1, <1>2, PipesAre
  <2>2. client.joined => ~up.fin
    BY DEF KaInv, ServerHears
  <2>3. client.joined => down' = Onto(down, TRUE)
    OBVIOUS
  <2>4. Onto(down, TRUE) \in Pipe /\ UnderWay(Onto(down, TRUE)) /\ Onto(down, TRUE).fin = TRUE
    BY <1>1, <1>2, PipesAre
  <2>. QED
    BY <1>1, <2>1, <2>2, <2>3, <2>4
<1>5. KaTypeOK'
  BY <1>1, <1>3, <1>4 DEF KaTypeOK
<1>6. ServerHears'
  BY <1>3, <1>4 DEF KaInv, ServerHears
<1>7. ClientHears'
  BY <1>3, <1>4 DEF ClientHears, UnderWay
<1>8. ServerForgets'
  BY <1>3 DEF KaInv, ServerForgets
<1>. QED
  BY <1>3, <1>5, <1>6, <1>7, <1>8 DEF KaInv

LEMMA ServerTimesOutHolds == ASSUME TimesFit, KaInv, ServerTimesOut PROVE KaInv' /\ KaStep
<1>0. /\ Timeout \in Nat \ {0} /\ MaxDelay \in Nat /\ ClientSilence \in Nat
      /\ ClientSilence + MaxDelay <= Timeout /\ OffTime \in Nat /\ WifiTime \in Nat
  BY TicksAre DEF TimesFit, ClientSilence
<1>1. KaTypeOK
  BY DEF KaInv
<1>2. /\ server.open /\ server.since > Timeout /\ ~HasCome(up) /\ server' = Closed
      /\ down' = (IF client.joined THEN Onto(down, TRUE) ELSE down)
      /\ radio' = radio /\ client' = client /\ up' = up
  BY DEF ServerTimesOut
<1>3. KaInv'
  BY <1>2, ClosesHolds
<1>4. /\ server.since \in Nat /\ up.age \in -1 .. MaxDelay /\ client.wrote \in Nat
      /\ client.busy \in Nat /\ client.away \in Nat /\ radio \in {"good", "bad"}
  BY <1>0, <1>1, EndsAre, TicksAre DEF KaTypeOK
<1>5. ASSUME client.joined, ~server.outage PROVE FALSE
  <2>1. radio = "good"
    BY <1>4, <1>5 DEF KaInv
  <2>2. up.age < MaxDelay
    BY <1>0, <1>2, <1>4, <2>1 DEF HasCome
  <2>3. /\ client.wrote + client.busy <= ClientSilence
        /\ ~UnderWay(up) => server.since <= client.wrote
        /\ UnderWay(up) => server.since <= ClientSilence + up.age
    BY <1>2, <1>5 DEF KaInv, ServerHears
  <2>4. CASE UnderWay(up)
    BY <1>0, <1>2, <1>4, <2>2, <2>3, <2>4
  <2>5. CASE ~UnderWay(up)
    BY <1>0, <1>2, <1>4, <2>3, <2>5
  <2>. QED
    BY <2>4, <2>5
<1>6. KaStep
  BY <1>2, <1>4, <1>5 DEF KaStep, OnlyOutagesBreak, ServerHasNoticed
<1>. QED
  BY <1>3, <1>6

LEMMA ServerReadsHolds == ASSUME TimesFit, KaInv, ServerReads PROVE KaInv' /\ KaStep
<1> DEFINE Pipe == [age : -1 .. MaxDelay, fin : BOOLEAN]
<1>0. /\ Timeout \in Nat \ {0} /\ MaxDelay \in Nat /\ KaInterval \in Nat \ {0} /\ ServerLag \in Nat
      /\ FlashTime \in Nat \ {0} /\ OffTime \in Nat /\ WifiTime \in Nat /\ WakeTime \in 0 .. KaInterval
      /\ ClientSilence \in Nat /\ ServerSilence \in Nat /\ ClientSilence + MaxDelay <= Timeout
  BY TicksAre DEF TimesFit, ClientSilence, ServerSilence
<1>1. KaTypeOK /\ up \in Pipe /\ down \in Pipe
  BY DEF KaInv, KaTypeOK
<1>2. server.open /\ radio = "good" /\ UnderWay(up) /\ radio' = radio /\ client' = client
  BY DEF ServerReads
<1>3. /\ client.away \in Nat /\ client.wrote \in Nat /\ client.since \in Nat
      /\ server.since \in 0 .. Timeout + 1 /\ server.wrote \in 0 .. KaInterval + ServerLag
      /\ server.held \in BOOLEAN /\ up.age \in -1 .. MaxDelay
  BY <1>0, <1>1, EndsAre
<1>4. CASE up.fin
  <2>1. /\ server' = Closed /\ up' = Nothing
        /\ down' = IF client.joined THEN Onto(down, TRUE) ELSE down
    BY <1>4 DEF ServerReads
  <2>2. KaInv'
    BY <1>2, <2>1, ClosesHolds
  <2>3. KaStep
    BY <1>2, <1>3, <1>4 DEF KaStep, OnlyOutagesBreak, ServerHasNoticed
  <2>. QED
    BY <2>2, <2>3
<1>5. CASE ~up.fin
  <2>1. /\ server' = [Awake EXCEPT !.since = 0, !.held = FALSE, !.outage = FALSE]
        /\ up' \in LeftOf(up, client.wrote) /\ down' = down
    BY <1>5 DEF ServerReads
  <2>2. /\ Awake \in [open : BOOLEAN, held : BOOLEAN, outage : BOOLEAN, since : 0..Timeout + 1,
                    wrote : 0..KaInterval + ServerLag]
        /\ Awake.open = server.open /\ (~server.held => Awake.wrote = server.wrote)
    <3>1. server \in [open : BOOLEAN, held : BOOLEAN, outage : BOOLEAN, since : 0..Timeout + 1,
                    wrote : 0..KaInterval + ServerLag]
      BY <1>1 DEF KaTypeOK
    <3>2. KaInterval - WakeTime \in 0 .. KaInterval + ServerLag
      BY <1>0
    <3>. QED
      BY <3>1, <3>2 DEF Awake
  <2>3. /\ server' \in [open : BOOLEAN, held : BOOLEAN, outage : BOOLEAN, since : 0..Timeout + 1,
                    wrote : 0..KaInterval + ServerLag]
        /\ server'.open = server.open /\ server'.since = 0 /\ ~server'.held /\ ~server'.outage
        /\ server'.wrote = Awake.wrote
    <3>1. 0 \in 0 .. Timeout + 1 /\ FALSE \in BOOLEAN
      BY <1>0
    <3>. QED
      BY <2>1, <2>2, <3>1
  <2>4. server'.wrote \in 0 .. KaInterval + ServerLag /\ server'.wrote \in Nat
    BY <1>0, <2>2, <2>3
  <2>5. /\ up' \in Pipe
        /\ up' = Nothing \/ (up'.age = client.wrote /\ client.wrote < up.age /\ up'.fin = up.fin)
    BY <1>1, <1>3, <2>1, PipesAre
  <2>6. ~UnderWay(Nothing) /\ ~Nothing.fin
    BY DEF Nothing, UnderWay
  <2>7. KaTypeOK'
    BY <1>1, <1>2, <2>1, <2>3, <2>5 DEF KaTypeOK
  <2>8. ServerHears'
    <3>1. ~up'.fin
      BY <1>5, <2>5, <2>6
    <3>2. 0 <= client.wrote /\ (UnderWay(up') => 0 <= ClientSilence + up'.age)
      BY <1>0, <1>3, <2>5, <2>6 DEF UnderWay
    <3>. QED
      BY <1>2, <2>3, <3>1, <3>2 DEF KaInv, ServerHears, UnderWay, ClientSilence
  <2>9. ClientHears'
    <3>1. CASE ~server.held
      BY <1>2, <2>1, <2>2, <2>3, <3>1 DEF KaInv, ClientHears, Grace, UnderWay, ServerSilence
    <3>2. CASE server.held
      <4>0. ~UnderWay(down) => down.age \notin 0 .. MaxDelay - 1
        BY <1>0, <1>1, EndsAre DEF UnderWay
      <4> SUFFICES ASSUME client.joined, ~client.outage
                   PROVE  ~UnderWay(down) /\ client.since <= Grace + server'.wrote
        BY <1>2, <2>1, <2>3, <4>0 DEF ClientHears, Grace, UnderWay
      <4>1. client.first /\ ~UnderWay(down) /\ ~server.outage /\ client.since <= server.since
        BY <1>2, <3>2 DEF KaInv, ClientHears
      <4>2. server.since <= ClientSilence + up.age
        BY <1>2, <4>1 DEF KaInv, ServerHears
      <4>3. Grace = Timeout
        BY <4>1 DEF Grace
      <4>4. client.since <= Grace + server'.wrote
        BY <1>0, <1>3, <2>4, <4>1, <4>2, <4>3
      <4>. QED
        BY <4>1, <4>4
    <3>. QED
      BY <1>3, <3>1, <3>2
  <2>10. ServerForgets'
    <3> SUFFICES ASSUME ~client.joined
                 PROVE  /\ UnderWay(up') => client.away <= 0 + MaxDelay
                        /\ client.away <= 0 + MaxDelay + Timeout + 1
      BY <1>2, <2>3 DEF KaInv, ServerForgets, UnderWay
    <3>1. /\ client.wrote >= client.away \/ client.wrote = Timeout
          /\ client.away <= server.since + MaxDelay
      BY <1>2 DEF KaInv, ServerForgets
    <3>2. ASSUME UnderWay(up') PROVE client.away <= 0 + MaxDelay
      <4>1. client.wrote < up.age
        BY <2>5, <2>6, <3>2
      <4>. QED
        BY <1>0, <1>3, <3>1, <4>1
    <3>. QED
      BY <1>0, <1>3, <3>1, <3>2
  <2>11. KaStep
    BY <1>2, <1>3, <2>3 DEF KaStep, OnlyOutagesBreak, ServerHasNoticed
  <2>. QED
    BY <1>2, <2>3, <2>7, <2>8, <2>9, <2>10, <2>11 DEF KaInv
<1>. QED
  BY <1>4, <1>5

\* An outage forgives whatever comes of it.
LEMMA RadioHolds == ASSUME TimesFit, KaInv, RadioFails \/ RadioRecovers PROVE KaInv' /\ KaStep
<1>0. Timeout \in Nat \ {0} /\ OffTime \in Nat /\ WifiTime \in Nat
  BY TicksAre
<1>1. KaTypeOK /\ client.away \in Nat
  BY <1>0, EndsAre DEF KaInv
<1>2. CASE RadioFails
  <2>1. /\ radio' = "bad" /\ client' = [client EXCEPT !.outage = TRUE]
        /\ server' = [server EXCEPT !.outage = TRUE] /\ up' = up /\ down' = down
    BY <1>2 DEF RadioFails
  <2>2. /\ client' \in [joined : BOOLEAN, first : BOOLEAN, outage : BOOLEAN, since : 0..2 * Timeout + 1,
                   wrote : 0..Timeout, busy : 0..FlashTime, away : 0..OffTime + WifiTime]
        /\ client'.joined = client.joined /\ client'.wrote = client.wrote /\ client'.busy = client.busy
        /\ client'.away = client.away /\ client'.first = client.first /\ client'.outage = TRUE
    BY <1>1, <2>1 DEF KaTypeOK
  <2>3. /\ server' \in [open : BOOLEAN, held : BOOLEAN, outage : BOOLEAN, since : 0..Timeout + 1,
                   wrote : 0..KaInterval + ServerLag]
        /\ server'.open = server.open /\ server'.since = server.since /\ server'.outage = TRUE
        /\ server'.held = server.held
    BY <1>1, <2>1 DEF KaTypeOK
  <2>4. KaTypeOK'
    BY <1>1, <2>1, <2>2, <2>3 DEF KaTypeOK
  <2>5. ServerHears'
    BY <2>1, <2>2, <2>3 DEF KaInv, ServerHears, ClientSilence
  <2>6. ClientHears'
    BY <2>1, <2>2, <2>3 DEF KaInv, ClientHears, UnderWay
  <2>7. ServerForgets'
    BY <2>1, <2>2, <2>3 DEF KaInv, ServerForgets, UnderWay
  <2>8. KaStep
    BY <1>1, <2>2, <2>3 DEF KaStep, OnlyOutagesBreak, ServerHasNoticed
  <2>. QED
    BY <2>2, <2>3, <2>4, <2>5, <2>6, <2>7, <2>8 DEF KaInv
<1>3. CASE RadioRecovers
  <2>1. radio' = "good" /\ client' = client /\ server' = server /\ up' = up /\ down' = down
    BY <1>3 DEF RadioRecovers
  <2>2. KaTypeOK'
    BY <1>1, <2>1 DEF KaTypeOK
  <2>3. ServerHears' /\ ServerForgets'
    BY <2>1 DEF KaInv, ServerHears, ServerForgets, UnderWay, ClientSilence
  <2>4. ClientHears'
    BY <2>1 DEF KaInv, ClientHears, UnderWay, Grace, ServerSilence
  <2>5. KaStep
    BY <1>1, <2>1 DEF KaStep, OnlyOutagesBreak, ServerHasNoticed
  <2>. QED
    BY <2>1, <2>2, <2>3, <2>4, <2>5 DEF KaInv
<1>. QED
  BY <1>2, <1>3

\* Time: whoever is on schedule has written, read or given up before he is late.
LEMMA TickHolds == ASSUME TimesFit, KaInv, Tick PROVE KaInv' /\ KaStep
<1> DEFINE Pipe == [age : -1 .. MaxDelay, fin : BOOLEAN]
           wrote == UpTo(client.wrote, Timeout)
           since == IF client.joined THEN UpTo(client.since, 2 * Timeout + 1) ELSE client.since
           busy == IF client.joined /\ client.busy > 0 THEN client.busy - 1 ELSE client.busy
           away == IF client.joined THEN client.away ELSE UpTo(client.away, OffTime + WifiTime)
           swrote == UpTo(server.wrote, KaInterval + ServerLag)
           ssince == IF server.open THEN UpTo(server.since, Timeout + 1) ELSE server.since
<1>0. /\ Timeout \in Nat \ {0} /\ MaxDelay \in Nat /\ KaInterval \in Nat \ {0} /\ ServerLag \in Nat
      /\ FlashTime \in Nat \ {0} /\ OffTime \in Nat /\ WifiTime \in Nat
      /\ ClientSilence \in Nat /\ ServerSilence \in Nat /\ ClientSilence + MaxDelay <= Timeout
      /\ KaInterval <= ClientSilence /\ ServerSilence = KaInterval + ServerLag
  BY TicksAre DEF TimesFit, ClientSilence, ServerSilence
<1>1. KaTypeOK /\ up \in Pipe /\ down \in Pipe
  BY DEF KaInv, KaTypeOK
<1>2. /\ client.since \in 0 .. 2 * Timeout + 1 /\ client.wrote \in 0 .. Timeout
      /\ client.busy \in 0 .. FlashTime /\ client.away \in 0 .. OffTime + WifiTime
      /\ server.since \in 0 .. Timeout + 1 /\ server.wrote \in 0 .. KaInterval + ServerLag
      /\ up.age \in -1 .. MaxDelay /\ down.age \in -1 .. MaxDelay /\ radio \in {"good", "bad"}
  BY <1>1, EndsAre DEF KaTypeOK
<1>3. /\ client' = [client EXCEPT !.wrote = wrote, !.since = since, !.busy = busy, !.away = away]
      /\ server' = [server EXCEPT !.wrote = swrote, !.since = ssince]
      /\ up' = Older(up) /\ down' = Older(down) /\ radio' = radio
  BY DEF Tick
<1>4. /\ wrote \in 0 .. Timeout /\ since \in 0 .. 2 * Timeout + 1 /\ busy \in 0 .. FlashTime
      /\ away \in 0 .. OffTime + WifiTime
      /\ swrote \in 0 .. KaInterval + ServerLag /\ ssince \in 0 .. Timeout + 1
  BY <1>0, <1>2 DEF UpTo
<1>5. /\ wrote = client.wrote + 1 \/ (wrote = Timeout /\ client.wrote = Timeout)
      /\ since <= client.since + 1 /\ away <= client.away + 1 /\ client.away <= away
      /\ client.joined => away = client.away /\ busy = IF client.busy > 0 THEN client.busy - 1 ELSE 0
      /\ ssince <= server.since + 1
      /\ swrote = server.wrote + 1 \/ server.wrote = KaInterval + ServerLag
      /\ server.open /\ server.since <= Timeout => ssince = server.since + 1
  BY <1>0, <1>2 DEF UpTo
<1> HIDE DEF wrote, since, busy, away, swrote, ssince
<1>6. /\ client' \in [joined : BOOLEAN, first : BOOLEAN, outage : BOOLEAN, since : 0..2 * Timeout + 1,
                 wrote : 0..Timeout, busy : 0..FlashTime, away : 0..OffTime + WifiTime]
      /\ client'.joined = client.joined /\ client'.first = client.first /\ client'.outage = client.outage
      /\ client'.since = since /\ client'.wrote = wrote /\ client'.busy = busy /\ client'.away = away
  BY <1>1, <1>3, <1>4 DEF KaTypeOK
<1>7. /\ server' \in [open : BOOLEAN, held : BOOLEAN, outage : BOOLEAN, since : 0..Timeout + 1,
                 wrote : 0..KaInterval + ServerLag]
      /\ server'.open = server.open /\ server'.held = server.held /\ server'.outage = server.outage
      /\ server'.since = ssince /\ server'.wrote = swrote
  BY <1>1, <1>3, <1>4 DEF KaTypeOK
<1>8. /\ up' \in Pipe /\ down' \in Pipe /\ up'.fin = up.fin /\ down'.fin = down.fin
      /\ (UnderWay(up') <=> UnderWay(up)) /\ (UnderWay(down') <=> UnderWay(down))
      /\ up'.age = IF UnderWay(up) /\ radio = "good" /\ up.age < MaxDelay THEN up.age + 1 ELSE up.age
      /\ down'.age = IF UnderWay(down) /\ radio = "good" /\ down.age < MaxDelay
                     THEN down.age + 1 ELSE down.age
  <2>1. FALSE \in BOOLEAN /\ 0 \in Nat
    OBVIOUS
  <2>. QED
    BY <1>1, <1>3, <2>1, PipesAre
<1>9. /\ client.joined /\ client.busy = 0 => client.wrote < KaInterval
      /\ server.open => /\ server.wrote < KaInterval + ServerLag \/ server.held
                        /\ radio = "good" => up.age < MaxDelay
                        /\ server.since <= Timeout
  BY <1>0, <1>2 DEF Tick, OnSchedule, Alive, KeepaliveDue, HasCome
<1>10. KaTypeOK'
  BY <1>1, <1>3, <1>6, <1>7, <1>8 DEF KaTypeOK
<1>11. ASSUME client.joined PROVE wrote = client.wrote + 1 /\ wrote + busy <= ClientSilence
  <2>1. client.wrote + client.busy <= ClientSilence
    BY <1>11 DEF KaInv, ServerHears
  <2>2. CASE client.busy > 0
    BY <1>0, <1>2, <1>4, <1>5, <1>11, <2>1, <2>2
  <2>3. CASE client.busy = 0
    <3>1. client.wrote < KaInterval /\ busy = 0
      BY <1>2, <1>5, <1>9, <1>11, <2>3
    <3>. QED
      BY <1>0, <1>2, <1>4, <1>5, <3>1
  <2>. QED
    BY <1>0, <1>2, <2>2, <2>3
<1>12. ServerHears'
  <2>1. client.joined => ~up'.fin /\ wrote + busy <= ClientSilence
    BY <1>8, <1>11 DEF KaInv, ServerHears
  <2> SUFFICES ASSUME client.joined, server.open, ~server.outage
               PROVE  /\ ~UnderWay(up') => ssince <= wrote
                      /\ UnderWay(up') => ssince <= ClientSilence + up'.age
    BY <1>6, <1>7, <2>1 DEF ServerHears, ClientSilence, UnderWay
  <2>2. /\ ~UnderWay(up) => server.since <= client.wrote
        /\ UnderWay(up) => server.since <= ClientSilence + up.age
    BY DEF KaInv, ServerHears
  <2>3. radio = "good" /\ up.age < MaxDelay
    BY <1>2, <1>9 DEF KaInv
  <2>4. CASE UnderWay(up)
    <3>1. up'.age = up.age + 1
      BY <1>8, <2>3, <2>4
    <3>. QED
      BY <1>0, <1>2, <1>4, <1>5, <1>8, <2>2, <2>4, <3>1
  <2>5. CASE ~UnderWay(up)
    BY <1>0, <1>2, <1>4, <1>5, <1>8, <1>11, <2>2, <2>5
  <2>. QED
    BY <2>4, <2>5
<1>13. ClientHears'
  <2>1. Grace' = Grace /\ Grace \in Nat
    BY <1>0, <1>6 DEF Grace
  <2>2. client.joined /\ ~server.open => UnderWay(down') /\ down'.fin
    BY <1>8 DEF KaInv, ClientHears
  <2>3. ASSUME client.joined, server.open, server.held
        PROVE  /\ client.first /\ ~UnderWay(down')
               /\ ~client.outage => ~server.outage /\ since <= ssince
    <3>1. /\ client.first /\ ~UnderWay(down)
          /\ ~client.outage => ~server.outage /\ client.since <= server.since
      BY <2>3 DEF KaInv, ClientHears
    <3>2. ~client.outage => since <= ssince
      BY <1>2, <1>4, <1>5, <1>9, <2>3, <3>1
    <3>. QED
      BY <1>8, <3>1, <3>2
  <2>4. ASSUME client.joined, server.open, ~server.held, ~client.outage
        PROVE  /\ ~UnderWay(down') => since <= Grace + swrote
               /\ down'.age \in 0 .. MaxDelay - 1 => since <= Grace + ServerSilence + down'.age
    <3>1. /\ ~UnderWay(down) => client.since <= Grace + server.wrote
          /\ down.age \in 0 .. MaxDelay - 1 => client.since <= Grace + ServerSilence + down.age
      BY <2>4 DEF KaInv, ClientHears
    <3>2. radio = "good"
      BY <1>2, <2>4 DEF KaInv
    <3>3. swrote = server.wrote + 1
      BY <1>0, <1>2, <1>5, <1>9, <2>4
    <3>4. ~UnderWay(down') => since <= Grace + swrote
      BY <1>2, <1>4, <1>5, <1>8, <2>1, <3>1, <3>3
    <3>5. ASSUME down'.age \in 0 .. MaxDelay - 1 PROVE since <= Grace + ServerSilence + down'.age
      <4>1. UnderWay(down)
        BY <1>8, <3>5 DEF UnderWay
      <4>2. down.age \in 0 .. MaxDelay - 1 /\ down'.age = down.age + 1
        BY <1>0, <1>2, <1>8, <3>2, <3>5, <4>1 DEF UnderWay
      <4>. QED
        BY <1>0, <1>2, <1>4, <1>5, <2>1, <3>1, <4>2
    <3>. QED
      BY <3>4, <3>5
  <2>. QED
    BY <1>6, <1>7, <2>1, <2>2, <2>3, <2>4 DEF ClientHears, UnderWay, ServerSilence
<1>14. ServerForgets'
  <2> SUFFICES ASSUME ~client.joined
               PROVE  /\ wrote >= away \/ wrote = Timeout
                      /\ server.open => /\ UnderWay(up') => away <= ssince + MaxDelay
                                        /\ away <= ssince + MaxDelay + Timeout + 1
    BY <1>6, <1>7 DEF ServerForgets, UnderWay
  <2>1. /\ client.wrote >= client.away \/ client.wrote = Timeout
        /\ server.open => /\ UnderWay(up) => client.away <= server.since + MaxDelay
                          /\ client.away <= server.since + MaxDelay + Timeout + 1
    BY DEF KaInv, ServerForgets
  <2>2. wrote >= away \/ wrote = Timeout
    BY <1>0, <1>2, <1>4, <1>5, <2>1
  <2>3. ASSUME server.open
        PROVE  /\ UnderWay(up') => away <= ssince + MaxDelay
               /\ away <= ssince + MaxDelay + Timeout + 1
    <3>1. ssince = server.since + 1
      BY <1>5, <1>9, <2>3
    <3>2. UnderWay(up') => away <= ssince + MaxDelay
      BY <1>0, <1>2, <1>4, <1>5, <1>8, <2>1, <2>3, <3>1
    <3>3. away <= ssince + MaxDelay + Timeout + 1
      BY <1>0, <1>2, <1>4, <1>5, <2>1, <2>3, <3>1
    <3>. QED
      BY <3>2, <3>3
  <2>. QED
    BY <2>2, <2>3
<1>15. KaStep
  BY <1>2, <1>4, <1>5, <1>6, <1>7 DEF KaStep, OnlyOutagesBreak, ServerHasNoticed
<1>. QED
  BY <1>3, <1>6, <1>7, <1>10, <1>12, <1>13, <1>14, <1>15 DEF KaInv

\* Every step keeps the invariant and is one the timeouts may take.
LEMMA KaNextHolds == ASSUME TimesFit, KaInv, KaNext PROVE KaInv' /\ KaStep
<1>1. CASE ClientWrites
  <2>1. KaStep
    <3>1. client.away \in Nat /\ client'.joined = client.joined
      BY <1>1, EndsAre, TicksAre DEF KaInv, KaTypeOK, ClientWrites
    <3>2. client'.away = client.away /\ server' = server
      BY <1>1 DEF KaInv, KaTypeOK, ClientWrites
    <3>. QED
      BY <3>1, <3>2 DEF KaStep, OnlyOutagesBreak, ServerHasNoticed
  <2>. QED
    BY <1>1, <2>1, ClientWritesHolds
<1>2. CASE FlashLeds
  <2>1. KaStep
    <3>1. client.away \in Nat /\ client'.joined = client.joined
      BY <1>2, EndsAre, TicksAre DEF KaInv, KaTypeOK, FlashLeds
    <3>2. client'.away = client.away /\ server' = server
      BY <1>2 DEF KaInv, KaTypeOK, FlashLeds
    <3>. QED
      BY <3>1, <3>2 DEF KaStep, OnlyOutagesBreak, ServerHasNoticed
  <2>. QED
    BY <1>2, <2>1, FlashLedsHolds
<1>. QED
  BY <1>1, <1>2, ClientReadsHolds, ClientTimesOutHolds, ClientReturnsHolds, ServerWritesHolds,
     ServerReadsHolds, ServerTimesOutHolds, RadioHolds, TickHolds DEF KaNext

LEMMA KaStepHolds == ASSUME TimesFit, KaInv, [KaNext]_kaVars PROVE KaInv'
<1>1. CASE KaNext
  BY <1>1, KaNextHolds
<1>2. CASE UNCHANGED kaVars
  BY <1>2 DEF kaVars, KaInv, KaTypeOK, ServerHears, ClientHears, ServerForgets, Grace, UnderWay,
              ClientSilence, ServerSilence
<1>. QED
  BY <1>1, <1>2

\* With times that fit, an end takes the other for gone only after an outage of the
\* radio it has heard nothing since, and the server has noticed every absence of the
\* client by the time it comes back (client.py:314, server.py:133).
THEOREM TimeoutsFit == TimesFit => (KaInit /\ [][KaNext]_kaVars => TimeoutsAreRight)
<1> SUFFICES ASSUME TimesFit PROVE KaInit /\ [][KaNext]_kaVars => TimeoutsAreRight
  OBVIOUS
<1>1. KaInit => KaInv
  BY KaInitHolds
<1>2. KaInv /\ [KaNext]_kaVars => KaInv'
  BY KaStepHolds
<1>3. KaInv /\ [KaNext]_kaVars => [OnlyOutagesBreak /\ ServerHasNoticed]_kaVars
  BY KaNextHolds DEF KaStep
<1>. QED
  BY <1>1, <1>2, <1>3, PTL DEF TimeoutsAreRight

-----------------------------------------------------------------------------
(* Induction.  The library states it for an operator, which the provers     *)
(* cannot instantiate; a set of numbers they can.                           *)

\* A set of natural numbers that has some has a least one.
LEMMA LeastNumber ==
  ASSUME NEW S, S \subseteq Nat, S # {}
  PROVE  \E n \in S : \A m \in S : n <= m
<1> DEFINE R == {p \in Nat \X Nat : p[1] < p[2]}
<1>1. IsWellFoundedOn(R, Nat)
  BY NatLessThanWellFounded DEF OpToRel
<1>2. PICK n \in S : \A m \in S : ~(<<m, n>> \in R)
  <2> HIDE DEF R
  <2>. QED
    BY <1>1, WFMin
<1>3. \A m \in S : ~(m < n)
  BY <1>2
<1>. QED
  BY <1>3

\* What holds of 0 and of n + 1 with n holds of every natural number.
LEMMA Induction ==
  ASSUME NEW S, 0 \in S, \A n \in Nat : n \in S => n + 1 \in S
  PROVE  \A n \in Nat : n \in S
<1> SUFFICES ASSUME Nat \ S # {} PROVE FALSE
  OBVIOUS
<1>1. PICK n \in Nat \ S : \A m \in Nat \ S : n <= m
  BY LeastNumber
<1>2. n - 1 \in Nat /\ n - 1 \in S
  BY <1>1
<1>. QED
  BY <1>1, <1>2

-----------------------------------------------------------------------------
(* The identifiers of a life: gmid() is called once for each message, so the *)
(* number of a message tells its identifier.                                 *)

RunsOn(f, k) ==
  /\ f \in [1 .. k -> Mid]
  /\ k >= 1 => f[1] = Zero
  /\ \A n \in 1 .. k - 1 : f[n + 1] = NextMid(f[n])

Mids == [n \in Nat \ {0} |-> (CHOOSE f : RunsOn(f, n))[n]]

LEMMA ZeroIsMid == Zero \in Mid
BY HalfAssumption, BitsAssumption DEF Zero, Mid, Idx, Bit

\* For every number of messages there are identifiers.
LEMMA IdentifiersRunOn == \A k \in Nat : \E f : RunsOn(f, k)
<1> DEFINE S == {k \in Nat : \E f : RunsOn(f, k)}
<1>1. 0 \in S
  <2>1. RunsOn([i \in 1 .. 0 |-> Zero], 0)
    BY DEF RunsOn
  <2>. QED
    BY <2>1
<1>2. ASSUME NEW k \in Nat, k \in S PROVE k + 1 \in S
  <2>1. PICK f : RunsOn(f, k)
    BY <1>2
  <2> DEFINE last == IF k = 0 THEN Zero ELSE NextMid(f[k])
             g == [i \in 1 .. k + 1 |-> IF i = k + 1 THEN last ELSE f[i]]
  <2>2. \A i \in 1 .. k : f[i] \in Mid
    BY <2>1 DEF RunsOn
  <2>3. last \in Mid
    <3>1. k # 0 => k \in 1 .. k
      BY <1>2
    <3>. QED
      BY <2>2, <3>1, ZeroIsMid, NextMidType
  <2>4. k # 0 => last = NextMid(f[k])
    OBVIOUS
  <2>5. k = 0 => last = Zero
    OBVIOUS
  <2> HIDE DEF last
  <2>6. g \in [1 .. k + 1 -> Mid]
    BY <1>2, <2>2, <2>3
  <2>7. g[1] = Zero
    <3>1. CASE k = 0
      BY <2>5, <3>1
    <3>2. CASE k # 0
      <4>1. 1 \in 1 .. k + 1 /\ 1 # k + 1 /\ k >= 1
        BY <1>2, <3>2
      <4>. QED
        BY <2>1, <4>1 DEF RunsOn
    <3>. QED
      BY <3>1, <3>2
  <2>8. ASSUME NEW n \in 1 .. (k + 1) - 1 PROVE g[n + 1] = NextMid(g[n])
    <3>1. n \in 1 .. k + 1 /\ n + 1 \in 1 .. k + 1 /\ n # k + 1 /\ k # 0
      BY <1>2, <2>8
    <3>2. CASE n = k
      BY <2>4, <3>1, <3>2
    <3>3. CASE n # k
      <4>1. n \in 1 .. k - 1 /\ n + 1 # k + 1
        BY <1>2, <2>8, <3>3
      <4>. QED
        BY <2>1, <3>1, <4>1 DEF RunsOn
    <3>. QED
      BY <3>2, <3>3
  <2>9. RunsOn(g, k + 1)
    <3> HIDE DEF g
    <3>. QED
      BY <2>6, <2>7, <2>8 DEF RunsOn
  <2>. QED
    BY <1>2, <2>9
<1>3. \A k \in Nat : k \in S
  <2> HIDE DEF S
  <2>. QED
    BY <1>1, <1>2, Induction
<1>. QED
  BY <1>3

\* And only these.
LEMMA IdentifiersAgree ==
  ASSUME NEW k \in Nat, NEW l \in Nat, k <= l, NEW f, NEW g, RunsOn(f, k), RunsOn(g, l)
  PROVE  \A n \in 1 .. k : f[n] = g[n]
<1> DEFINE S == {n \in Nat : n \in 1 .. k => f[n] = g[n]}
<1>1. 0 \in S
  OBVIOUS
<1>2. ASSUME NEW n \in Nat, n \in S PROVE n + 1 \in S
  <2> SUFFICES ASSUME n + 1 \in 1 .. k PROVE f[n + 1] = g[n + 1]
    OBVIOUS
  <2>1. CASE n = 0
    <3>1. k >= 1 /\ l >= 1 /\ n + 1 = 1
      BY <2>1
    <3>. QED
      BY <3>1 DEF RunsOn
  <2>2. CASE n # 0
    <3>1. n \in 1 .. k /\ n \in 1 .. k - 1 /\ n \in 1 .. l - 1
      BY <1>2, <2>2
    <3>2. f[n] = g[n]
      BY <1>2, <3>1
    <3>. QED
      BY <3>1, <3>2 DEF RunsOn
  <2>. QED
    BY <2>1, <2>2
<1>3. \A n \in Nat : n \in S
  <2> HIDE DEF S
  <2>. QED
    BY <1>1, <1>2, Induction
<1>. QED
  BY <1>3

LEMMA MidsAre ==
  /\ Mids \in [Nat \ {0} -> Mid] /\ Mids[1] = Zero
  /\ \A n \in Nat \ {0} : Mids[n + 1] = NextMid(Mids[n]) /\ Mids[n + 1] # Mids[n] /\ Mids[n] \in Mid
<1> DEFINE F(n) == CHOOSE f : RunsOn(f, n)
<1>1. ASSUME NEW n \in Nat \ {0} PROVE RunsOn(F(n), n) /\ Mids[n] = F(n)[n] /\ n \in 1 .. n
  <2>1. \E f : RunsOn(f, n)
    BY IdentifiersRunOn
  <2>2. RunsOn(F(n), n)
    BY <2>1
  <2>3. Mids[n] = F(n)[n]
    BY DEF Mids
  <2>. QED
    BY <2>2, <2>3
<1> HIDE DEF F
<1>2. \A n \in Nat \ {0} : Mids[n] \in Mid
  <2> SUFFICES ASSUME NEW n \in Nat \ {0} PROVE Mids[n] \in Mid
    OBVIOUS
  <2>1. F(n) \in [1 .. n -> Mid]
    BY <1>1 DEF RunsOn
  <2>. QED
    BY <1>1, <2>1
<1>3. Mids \in [Nat \ {0} -> Mid]
  BY <1>2 DEF Mids
<1>4. Mids[1] = Zero
  <2>1. RunsOn(F(1), 1) /\ Mids[1] = F(1)[1]
    BY <1>1
  <2>. QED
    BY <2>1 DEF RunsOn
<1>5. ASSUME NEW n \in Nat \ {0} PROVE Mids[n + 1] = NextMid(Mids[n])
  <2>1. n + 1 \in Nat \ {0} /\ n \in Nat /\ n + 1 \in Nat /\ n <= n + 1
    OBVIOUS
  <2>2. RunsOn(F(n + 1), n + 1) /\ Mids[n + 1] = F(n + 1)[n + 1]
    BY <1>1, <2>1
  <2>3. RunsOn(F(n), n) /\ Mids[n] = F(n)[n] /\ n \in 1 .. n
    BY <1>1
  <2>4. F(n)[n] = F(n + 1)[n]
    BY <2>1, <2>2, <2>3, IdentifiersAgree
  <2>5. n \in 1 .. (n + 1) - 1
    OBVIOUS
  <2>6. F(n + 1)[n + 1] = NextMid(F(n + 1)[n])
    BY <2>2, <2>5 DEF RunsOn
  <2>. QED
    BY <2>2, <2>3, <2>4, <2>6
<1>. QED
  BY <1>2, <1>3, <1>4, <1>5, NextMidType

-----------------------------------------------------------------------------
(* The lives of the ends                                                     *)

Ident == [life : Nat, n : Nat]
Message == {m \in [life : Nat \ {0}, n : Nat \ {0}, mid : Mid] : m.mid = Mids[m.n]}

\* The message that is being written, and the one before.
ThisOne == [life |-> source.life, n |-> source.n]
OneBefore == [life |-> source.life, n |-> source.n - 1]

LivesTypes ==
  /\ sender \in {"mcu", "gui"} /\ stale \in BOOLEAN
  /\ source \in [life : Nat \ {0}, n : Nat, mid : Mid, pending : SUBSET Mid,
                 at : {"idle", "send", "wait"}]
  /\ sink \in [lst : Record, lines : Seq(Message), acks : Seq(Message), last : Ident]
  /\ toReader \in Seq(Message) /\ toWriter \in Seq(Message)
  /\ reached \in Ident
  /\ source.n # 0 => source.mid = Mids[source.n]
  /\ source.n = 0 => source.at = "idle"

\* write waits for its own message, and once that is no longer pending it has
\* reached the other end.
Settled == source.mid \notin source.pending
SourceWaits ==
  /\ source.pending \subseteq {source.mid}
  /\ source.at = "idle" => source.pending = {}
  /\ source.n # 0 /\ Settled => reached = ThisOne

\* What has reached the other end is what is written now or what was before it.
ReachedLately ==
  \/ source.n # 0 /\ reached = ThisOne
  \/ source.n >= 2 /\ reached = OneBefore
  \/ source.n <= 1 /\ reached.life < source.life

\* No two messages in the sequence, of the life given, are in the wrong order.
Ascends(s, life) ==
  \A i, j \in 1 .. Len(s) : i < j /\ s[i].life = life /\ s[j].life = life => s[i].n <= s[j].n

\* On the way to the reader are the lines of this life.
WayIsOrdered ==
  /\ \A i \in 1 .. Len(toReader) :
       /\ toReader[i].life = source.life /\ toReader[i].n \in {source.n - 1, source.n}
       /\ reached = ThisOne => toReader[i].n = source.n
  /\ Ascends(toReader, source.life)

\* An ACK is of this life and of the last two messages, or of a life before.
AckFits(a) ==
  /\ a.life <= source.life
  /\ a.life = source.life =>
       /\ a.n \in {source.n - 1, source.n}
       /\ a.n = source.n => reached = ThisOne
       /\ Settled => a.n = source.n
AcksAreOrdered ==
  /\ \A i \in 1 .. Len(toWriter) : AckFits(toWriter[i])
  /\ \A i \in 1 .. Len(sink.acks) : AckFits(sink.acks[i])
  /\ Ascends(toWriter, source.life) /\ Ascends(sink.acks, source.life)
  /\ \A i \in 1 .. Len(toWriter), j \in 1 .. Len(sink.acks) :
       toWriter[i].life = source.life /\ sink.acks[j].life = source.life =>
         toWriter[i].n <= sink.acks[j].n

\* What the receiver looks up next: a message again, the next of its life, or the
\* first of a new one.  A receiver that has just started may see any.
Follows(o, m) ==
  \/ m.life = o.life /\ m.n \in {o.n, o.n + 1}
  \/ m.life > o.life /\ m.n = 1

\* The record is the one that the last message it was asked for leaves.
RecordFits(last, lst) ==
  \/ last = NoMessage /\ lst = EmptyRecord
  \/ last.life # 0 /\ last.n # 0 /\ Window(Mids[last.n], lst)

LinesFollow ==
  /\ sender = "gui" => sink.lines = <<>>
  /\ sink.lines = <<>> => sink.last \in {reached, NoMessage}
  /\ sink.lines # <<>> =>
       LET tip == sink.lines[Len(sink.lines)] IN reached = [life |-> tip.life, n |-> tip.n]
  /\ RecordFits(sink.last, sink.lst)
  /\ \A i \in 1 .. Len(sink.lines) - 1 : Follows(sink.lines[i], sink.lines[i + 1])
  /\ sink.lines # <<>> /\ sink.last # NoMessage => Follows(sink.last, sink.lines[1])

LivesInv ==
  /\ LivesTypes
  /\ ~stale => SourceWaits /\ ReachedLately /\ WayIsOrdered /\ AcksAreOrdered /\ LinesFollow

\* A message is looked up rightly, and the record and the last message after it
\* are as they were before.
LEMMA LookUpIsRight ==
  ASSUME NEW m \in Message, NEW last \in Ident, NEW lst \in Record, RecordFits(last, lst),
         last = NoMessage \/ Follows(last, m)
  PROVE  /\ Accepts(m.mid, lst) <=> Newer(m, last) \/ m.mid = Zero
         /\ After(m.mid, lst) \in Record
         /\ LET after == IF Newer(m, last) THEN [life |-> m.life, n |-> m.n] ELSE last
            IN after = [life |-> m.life, n |-> m.n] /\ RecordFits(after, After(m.mid, lst))
<1> DEFINE this == [life |-> m.life, n |-> m.n]
           new == After(m.mid, lst)
<1>1. /\ m.life \in Nat \ {0} /\ m.n \in Nat \ {0} /\ m.mid \in Mid /\ m.mid = Mids[m.n]
      /\ last.life \in Nat /\ last.n \in Nat /\ last = [life |-> last.life, n |-> last.n]
  BY DEF Message, Ident
<1>2. new \in Record
  BY <1>1, RecordType
<1>3. ASSUME Newer(m, last) \/ this = last, Accepts(m.mid, lst) <=> Newer(m, last) \/ m.mid = Zero,
             Window(m.mid, new)
      PROVE  /\ Accepts(m.mid, lst) <=> Newer(m, last) \/ m.mid = Zero
             /\ new \in Record
             /\ LET after == IF Newer(m, last) THEN this ELSE last
                IN after = this /\ RecordFits(after, new)
  <2>1. RecordFits(this, new)
    BY <1>1, <1>3 DEF RecordFits
  <2> HIDE DEF this, new
  <2>. QED
    BY <1>2, <1>3, <2>1
<1>4. CASE last = NoMessage
  <2>1. lst = EmptyRecord
    BY <1>4 DEF RecordFits, NoMessage
  <2>2. Accepts(m.mid, lst) /\ Window(m.mid, new)
    BY <1>1, <2>1, FirstIsNew
  <2>3. Newer(m, last)
    BY <1>1, <1>4 DEF Newer, NoMessage
  <2>. QED
    BY <1>3, <2>2, <2>3
<1>5. CASE last # NoMessage
  <2>1. last.n # 0 /\ Window(Mids[last.n], lst) /\ Follows(last, m)
    BY <1>5 DEF RecordFits
  <2>2. CASE m.mid = Zero
    <3>1. Accepts(m.mid, lst) /\ Window(m.mid, new)
      BY <1>1, <2>2, FirstIsNew
    <3>2. Newer(m, last) \/ this = last
      BY <1>1, <2>1 DEF Newer, Follows
    <3>. QED
      BY <1>3, <2>2, <3>1, <3>2
  <2>3. CASE m.mid # Zero
    <3>1. m.n # 1
      BY <1>1, <2>3, MidsAre
    <3>2. m.life = last.life /\ m.n \in {last.n, last.n + 1}
      BY <2>1, <3>1 DEF Follows
    <3>3. CASE m.n = last.n
      <4>1. ~Accepts(m.mid, lst) /\ Window(m.mid, new)
        BY <1>1, <2>1, <2>3, <3>3, RepeatIsOld
      <4>2. this = last /\ ~Newer(m, last)
        BY <1>1, <3>2, <3>3 DEF Newer
      <4>. QED
        BY <1>3, <2>3, <4>1, <4>2
    <3>4. CASE m.n = last.n + 1
      <4>1. Mids[last.n] \in Mid /\ m.mid = NextMid(Mids[last.n])
        BY <1>1, <2>1, <3>4, MidsAre
      <4>2. Accepts(m.mid, lst) /\ Window(m.mid, new)
        BY <2>1, <4>1, NextIsNew
      <4>3. Newer(m, last)
        BY <1>1, <3>2, <3>4 DEF Newer
      <4>. QED
        BY <1>3, <4>2, <4>3
    <3>. QED
      BY <3>2, <3>3, <3>4
  <2>. QED
    BY <2>2, <2>3
<1>. QED
  BY <1>4, <1>5

\* The first of a sequence, and the rest of it.
LEMMA RestOf ==
  ASSUME NEW S, NEW s \in Seq(S), s # <<>>
  PROVE  /\ Tail(s) \in Seq(S) /\ Head(s) = s[1] /\ Head(s) \in S
         /\ Len(s) \in Nat \ {0} /\ Len(Tail(s)) = Len(s) - 1
         /\ 1 \in 1 .. Len(s)
         /\ \A i \in 1 .. Len(Tail(s)) : Tail(s)[i] = s[i + 1] /\ i + 1 \in 1 .. Len(s)
<1>1. /\ Tail(s) \in Seq(S) /\ Head(s) \in S /\ Head(s) = s[1]
      /\ Len(s) \in Nat \ {0} /\ Len(Tail(s)) = Len(s) - 1
      /\ \A i \in 1 .. Len(Tail(s)) : Tail(s)[i] = s[i + 1]
  BY HeadTailProperties, EmptySeq, LenProperties
<1> DEFINE k == Len(s)
           l == Len(Tail(s))
<1>2. k \in Nat \ {0} /\ l = k - 1
  BY <1>1
<1> HIDE DEF k, l
<1>3. 1 \in 1 .. k /\ \A i \in 1 .. l : i + 1 \in 1 .. k
  BY <1>2
<1>. QED
  BY <1>1, <1>3 DEF k, l

LEMMA AppendIs ==
  ASSUME NEW S, NEW s \in Seq(S), NEW e \in S
  PROVE  /\ Append(s, e) \in Seq(S) /\ Len(s) \in Nat /\ Len(Append(s, e)) = Len(s) + 1
         /\ \A i \in 1 .. Len(s) : Append(s, e)[i] = s[i]
         /\ Append(s, e)[Len(s) + 1] = e
BY AppendProperties, LenProperties

\* Order is kept when the first is taken, and when one is added that is not
\* before any other.
LEMMA StillAscends ==
  ASSUME NEW s \in Seq(Message), NEW life \in Nat, Ascends(s, life)
  PROVE  /\ s # <<>> => Ascends(Tail(s), life)
         /\ \A m \in Message :
              (\A i \in 1 .. Len(s) : s[i].life = life /\ m.life = life => s[i].n <= m.n)
                => Ascends(Append(s, m), life)
<1>1. ASSUME s # <<>> PROVE Ascends(Tail(s), life)
  <2> DEFINE k == Len(s)
             l == Len(Tail(s))
             t == Tail(s)
  <2>1. /\ k \in Nat /\ l = k - 1
        /\ \A i \in 1 .. l : t[i] = s[i + 1] /\ i + 1 \in 1 .. k
    BY <1>1, RestOf
  <2>2. \A i, j \in 1 .. k : i < j /\ s[i].life = life /\ s[j].life = life => s[i].n <= s[j].n
    BY DEF Ascends
  <2> HIDE DEF k, l, t
  <2>3. \A i, j \in 1 .. l : i < j /\ t[i].life = life /\ t[j].life = life => t[i].n <= t[j].n
    <3> SUFFICES ASSUME NEW i \in 1 .. l, NEW j \in 1 .. l, i < j, t[i].life = life, t[j].life = life
                 PROVE  t[i].n <= t[j].n
      OBVIOUS
    <3>1. i + 1 < j + 1 /\ t[i] = s[i + 1] /\ t[j] = s[j + 1] /\ i + 1 \in 1 .. k /\ j + 1 \in 1 .. k
      BY <2>1
    <3>. QED
      BY <2>2, <3>1
  <2>. QED
    BY <2>3 DEF Ascends, l, t
<1>2. ASSUME NEW m \in Message,
             \A i \in 1 .. Len(s) : s[i].life = life /\ m.life = life => s[i].n <= m.n
      PROVE  Ascends(Append(s, m), life)
  <2> DEFINE k == Len(s)
             l == Len(Append(s, m))
             t == Append(s, m)
  <2>1. k \in Nat /\ l = k + 1 /\ (\A i \in 1 .. k : t[i] = s[i]) /\ t[k + 1] = m
    BY AppendIs
  <2>2. \A i, j \in 1 .. k : i < j /\ s[i].life = life /\ s[j].life = life => s[i].n <= s[j].n
    BY DEF Ascends
  <2>3. \A i \in 1 .. k : s[i].life = life /\ m.life = life => s[i].n <= m.n
    BY <1>2
  <2> HIDE DEF k, l, t
  <2>4. \A i, j \in 1 .. l : i < j /\ t[i].life = life /\ t[j].life = life => t[i].n <= t[j].n
    <3> SUFFICES ASSUME NEW i \in 1 .. l, NEW j \in 1 .. l, i < j, t[i].life = life, t[j].life = life
                 PROVE  t[i].n <= t[j].n
      OBVIOUS
    <3>1. i \in 1 .. k /\ (j \in 1 .. k \/ j = k + 1)
      BY <2>1
    <3>2. CASE j \in 1 .. k
      BY <2>1, <2>2, <3>1, <3>2
    <3>3. CASE j = k + 1
      BY <2>1, <2>3, <3>1, <3>3
    <3>. QED
      BY <3>1, <3>2, <3>3
  <2>. QED
    BY <2>4 DEF Ascends, l, t
<1>. QED
  BY <1>1, <1>2

\* The fields, one by one, and what is known of a line or an ACK.
LEMMA FieldsAre ==
  ASSUME LivesTypes
  PROVE  /\ source.life \in Nat \ {0} /\ source.n \in Nat /\ source.mid \in Mid
         /\ source.pending \in SUBSET Mid /\ source.at \in {"idle", "send", "wait"}
         /\ sink.lst \in Record /\ sink.lines \in Seq(Message) /\ sink.acks \in Seq(Message)
         /\ sink.last \in Ident /\ toReader \in Seq(Message) /\ toWriter \in Seq(Message)
         /\ reached \in Ident /\ reached.life \in Nat /\ reached.n \in Nat
         /\ ThisOne.life = source.life /\ ThisOne.n = source.n
         /\ OneBefore.life = source.life /\ OneBefore.n = source.n - 1
BY DEF LivesTypes, ThisOne, OneBefore, Ident

LEMMA ElementsAre ==
  ASSUME NEW s \in Seq(Message)
  PROVE  /\ Len(s) \in Nat
         /\ \A i \in 1 .. Len(s) : /\ s[i] \in Message /\ s[i].life \in Nat \ {0} /\ s[i].n \in Nat \ {0}
                                   /\ s[i].mid = Mids[s[i].n]
<1>1. Len(s) \in Nat /\ \A i \in 1 .. Len(s) : s[i] \in Message
  BY LenProperties, ElementOfSeq
<1>2. \A m \in Message : m.life \in Nat \ {0} /\ m.n \in Nat \ {0} /\ m.mid = Mids[m.n]
  BY DEF Message
<1>. QED
  BY <1>1, <1>2

LEMMA NothingUnderWay ==
  /\ <<>> \in Seq(Message) /\ Len(<<>>) = 0
  /\ \A life : Ascends(<<>>, life)
<1>1. <<>> \in Seq(Message) /\ Len(<<>>) = 0
  BY EmptySeq
<1>2. \A life : Ascends(<<>>, life)
  BY <1>1 DEF Ascends
<1>. QED
  BY <1>1, <1>2

LEMMA LivesInitHolds == LivesInit => LivesInv
<1> SUFFICES ASSUME LivesInit PROVE LivesInv
  OBVIOUS
<1>1. /\ sender \in {"mcu", "gui"} /\ source = WriterOf(1) /\ sink = NewReader /\ toReader = <<>>
      /\ toWriter = <<>> /\ reached = NoMessage /\ stale = FALSE
  BY DEF LivesInit
<1>2. /\ source.life = 1 /\ source.n = 0 /\ source.mid = Zero /\ source.pending = {} /\ source.at = "idle"
      /\ sink.lst = EmptyRecord /\ sink.lines = <<>> /\ sink.acks = <<>> /\ sink.last = NoMessage
  BY <1>1 DEF WriterOf, NewReader
<1>3. LivesTypes
  <2>1. /\ source \in [life : Nat \ {0}, n : Nat, mid : Mid, pending : SUBSET Mid,
                 at : {"idle", "send", "wait"}]
    BY <1>1, ZeroIsMid DEF WriterOf
  <2>2. NoMessage \in Ident
    BY DEF NoMessage, Ident
  <2>3. EmptyRecord \in Record
    BY ZeroIsMid, RecordType DEF Record, EmptyRecord
  <2>4. sink \in [lst : Record, lines : Seq(Message), acks : Seq(Message), last : Ident]
    BY <1>1, <2>2, <2>3, NothingUnderWay DEF NewReader
  <2>. QED
    BY <1>1, <1>2, <2>1, <2>2, <2>4, NothingUnderWay DEF LivesTypes
<1>4. SourceWaits
  BY <1>2 DEF SourceWaits
<1>5. ReachedLately
  BY <1>1, <1>2 DEF ReachedLately, NoMessage
<1>6. WayIsOrdered
  BY <1>1, NothingUnderWay DEF WayIsOrdered
<1>7. AcksAreOrdered
  BY <1>1, <1>2, NothingUnderWay DEF AcksAreOrdered
<1>8. LinesFollow
  BY <1>1, <1>2, NothingUnderWay DEF LinesFollow, RecordFits
<1>. QED
  BY <1>3, <1>4, <1>5, <1>6, <1>7, <1>8 DEF LivesInv

\* A new message: the one before has reached the other end.
LEMMA StartsWriteHolds == ASSUME LivesInv, StartsWrite PROVE LivesInv'
<1> DEFINE mid == IF source.n = 0 THEN Zero ELSE NextMid(source.mid)
           pend == source.pending \cup {mid}
<1>1. LivesTypes
  BY DEF LivesInv
<1>2. /\ source' = [source EXCEPT !.n = @ + 1, !.mid = mid, !.pending = pend, !.at = "send"]
      /\ source.at = "idle" /\ sender' = sender /\ sink' = sink /\ toReader' = toReader
      /\ toWriter' = toWriter /\ reached' = reached /\ stale' = stale
  BY DEF StartsWrite
<1>3. source.life \in Nat \ {0} /\ source.n \in Nat /\ source.mid \in Mid /\ source.pending \in SUBSET Mid
  BY <1>1, FieldsAre
<1>4. mid \in Mid /\ mid = Mids[source.n + 1]
  <2>1. CASE source.n = 0
    BY <2>1, ZeroIsMid, MidsAre
  <2>2. CASE source.n # 0
    <3>1. source.mid = Mids[source.n] /\ source.n \in Nat \ {0}
      BY <1>1, <1>3, <2>2 DEF LivesTypes
    <3>. QED
      BY <1>3, <2>2, <3>1, MidsAre, NextMidType
  <2>. QED
    BY <2>1, <2>2
<1>5. pend \in SUBSET Mid /\ mid \in pend
  BY <1>3, <1>4
<1> HIDE DEF mid
<1>6. /\ source' \in [life : Nat \ {0}, n : Nat, mid : Mid, pending : SUBSET Mid,
                 at : {"idle", "send", "wait"}]
      /\ source'.life = source.life /\ source'.n = source.n + 1 /\ source'.mid = mid
      /\ source'.pending = pend /\ source'.at = "send"
  <2> HIDE DEF pend
  <2>1. source.n + 1 \in Nat
    BY <1>3
  <2>. QED
    BY <1>1, <1>2, <1>4, <1>5, <2>1 DEF LivesTypes
<1>7. LivesTypes'
  BY <1>1, <1>2, <1>3, <1>4, <1>6 DEF LivesTypes
<1>8. ASSUME ~stale
      PROVE  SourceWaits' /\ ReachedLately' /\ WayIsOrdered' /\ AcksAreOrdered' /\ LinesFollow'
  <2>0. SourceWaits /\ ReachedLately /\ WayIsOrdered /\ AcksAreOrdered /\ LinesFollow
    BY <1>8 DEF LivesInv
  <2>1. source.pending = {} /\ Settled /\ ~Settled'
    BY <1>2, <1>5, <1>6, <2>0 DEF SourceWaits, Settled
  <2>2. ThisOne'.life = source.life /\ ThisOne'.n = source.n + 1
    BY <1>6 DEF ThisOne
  <2>3. reached' # ThisOne'
    BY <1>1, <1>2, <1>3, <2>0, <2>2, FieldsAre DEF ReachedLately
  <2>4. SourceWaits'
    BY <1>3, <1>6, <2>1 DEF SourceWaits
  <2>5. ReachedLately'
    <3>1. CASE source.n = 0
      <4>1. reached.life < source.life
        BY <1>1, <1>2, <2>0, <2>1, <3>1, FieldsAre DEF ReachedLately, SourceWaits
      <4>. QED
        BY <1>2, <1>6, <3>1, <4>1 DEF ReachedLately
    <3>2. CASE source.n # 0
      <4>1. reached = ThisOne
        BY <2>0, <2>1, <3>2 DEF SourceWaits
      <4>2. (source.n + 1) - 1 = source.n /\ source.n + 1 >= 2
        BY <1>3, <3>2
      <4>. QED
        BY <1>2, <1>6, <4>1, <4>2 DEF ReachedLately, ThisOne, OneBefore
    <3>. QED
      BY <3>1, <3>2
  <2>6. \A s \in Seq(Message) : \A i \in 1 .. Len(s) :
          s[i].life = source.life /\ s[i].n \in {source.n - 1, source.n} => source.n # 0
    <3> SUFFICES ASSUME NEW s \in Seq(Message), NEW i \in 1 .. Len(s),
                        s[i].n \in {source.n - 1, source.n}
                 PROVE  source.n # 0
      OBVIOUS
    <3>1. s[i].n \in Nat \ {0}
      BY ElementsAre
    <3>. QED
      BY <1>3, <3>1
  <2>7. WayIsOrdered'
    <3>1. \A i \in 1 .. Len(toReader) : toReader[i].life = source.life /\ toReader[i].n = source.n
      <4> SUFFICES ASSUME NEW i \in 1 .. Len(toReader)
                   PROVE  toReader[i].life = source.life /\ toReader[i].n = source.n
        OBVIOUS
      <4>1. /\ toReader[i].life = source.life /\ toReader[i].n \in {source.n - 1, source.n}
            /\ reached = ThisOne => toReader[i].n = source.n
        BY <2>0 DEF WayIsOrdered
      <4>2. toReader \in Seq(Message)
        BY <1>1, FieldsAre
      <4>3. source.n # 0
        BY <2>6, <4>1, <4>2
      <4>. QED
        BY <2>0, <2>1, <4>1, <4>3 DEF SourceWaits
    <3>2. (source.n + 1) - 1 = source.n
      BY <1>3
    <3>. QED
      BY <1>2, <1>6, <2>0, <2>3, <3>1, <3>2 DEF WayIsOrdered, Ascends
  <2>8. ASSUME NEW a \in Message, AckFits(a) PROVE AckFits(a)'
    <3>1. a.life \in Nat /\ a.n \in Nat \ {0}
      BY DEF Message
    <3>2. a.life <= source.life /\ (a.life = source.life => a.n = source.n)
      BY <2>1, <2>8 DEF AckFits
    <3>3. (source.n + 1) - 1 = source.n /\ source.n # source.n + 1
      BY <1>3
    <3>. QED
      BY <1>6, <2>1, <3>2, <3>3 DEF AckFits
  <2>9. AcksAreOrdered'
    <3>1. /\ \A i \in 1 .. Len(toWriter) : AckFits(toWriter[i])'
          /\ \A i \in 1 .. Len(sink.acks) : AckFits(sink.acks[i])'
      <4>1. /\ \A i \in 1 .. Len(toWriter) : toWriter[i] \in Message
            /\ \A i \in 1 .. Len(sink.acks) : sink.acks[i] \in Message
        BY <1>1, FieldsAre, ElementsAre
      <4>2. /\ \A i \in 1 .. Len(toWriter) : AckFits(toWriter[i])
            /\ \A i \in 1 .. Len(sink.acks) : AckFits(sink.acks[i])
        BY <2>0 DEF AcksAreOrdered
      <4>. QED
        BY <1>2, <2>8, <4>1, <4>2
    <3>. QED
      BY <1>2, <1>6, <2>0, <3>1 DEF AcksAreOrdered, Ascends
  <2>10. LinesFollow'
    BY <1>2, <2>0 DEF LinesFollow
  <2>. QED
    BY <2>4, <2>5, <2>7, <2>9, <2>10
<1>. QED
  BY <1>2, <1>7, <1>8 DEF LivesInv

\* Lines are sent, and ACKs that come, only of messages there have been.
LEMMA SendsLineHolds == ASSUME LivesInv, SendsLine PROVE LivesInv'
<1>1. LivesTypes
  BY DEF LivesInv
<1>2. /\ source' = [source EXCEPT !.at = "wait"] /\ source.at \in {"send", "wait"}
      /\ toReader' = Append(toReader, Current) /\ sender' = sender /\ sink' = sink
      /\ toWriter' = toWriter /\ reached' = reached /\ stale' = stale
  BY DEF SendsLine
<1>3. /\ source.life \in Nat \ {0} /\ source.n \in Nat \ {0} /\ source.mid \in Mid
      /\ source.mid = Mids[source.n] /\ toReader \in Seq(Message)
  BY <1>1, <1>2, FieldsAre DEF LivesTypes
<1>4. /\ source' \in [life : Nat \ {0}, n : Nat, mid : Mid, pending : SUBSET Mid,
                 at : {"idle", "send", "wait"}]
      /\ source'.life = source.life /\ source'.n = source.n /\ source'.mid = source.mid
      /\ source'.pending = source.pending /\ source'.at = "wait"
  BY <1>1, <1>2 DEF LivesTypes
<1>5. Current \in Message /\ Current.life = source.life /\ Current.n = source.n
  BY <1>3 DEF Current, Message
<1>6. toReader' \in Seq(Message)
  BY <1>2, <1>3, <1>5, AppendIs
<1>7. LivesTypes'
  BY <1>1, <1>2, <1>3, <1>4, <1>6 DEF LivesTypes
<1>8. ASSUME ~stale
      PROVE  SourceWaits' /\ ReachedLately' /\ WayIsOrdered' /\ AcksAreOrdered' /\ LinesFollow'
  <2>0. SourceWaits /\ ReachedLately /\ WayIsOrdered /\ AcksAreOrdered /\ LinesFollow
    BY <1>8 DEF LivesInv
  <2>1. SourceWaits' /\ ReachedLately' /\ LinesFollow'
    BY <1>2, <1>3, <1>4, <2>0 DEF SourceWaits, ReachedLately, LinesFollow, Settled, ThisOne, OneBefore
  <2>2. AcksAreOrdered'
    <3>1. \A a : AckFits(a) => AckFits(a)'
      BY <1>2, <1>4 DEF AckFits, Settled, ThisOne
    <3>. QED
      BY <1>2, <1>4, <2>0, <3>1 DEF AcksAreOrdered, Ascends
  <2>3. WayIsOrdered'
    <3> DEFINE k == Len(toReader)
    <3>1. /\ k \in Nat /\ Len(toReader') = k + 1
          /\ (\A i \in 1 .. k : toReader'[i] = toReader[i]) /\ toReader'[k + 1] = Current
      BY <1>2, <1>3, <1>5, AppendIs
    <3>2. \A i \in 1 .. k : toReader[i].n <= source.n
      BY <1>3, <2>0 DEF WayIsOrdered
    <3>3. Ascends(toReader', source.life)
      BY <1>2, <1>3, <1>5, <2>0, <3>2, StillAscends DEF WayIsOrdered
    <3>4. \A i \in 1 .. k :
            /\ toReader[i].life = source.life /\ toReader[i].n \in {source.n - 1, source.n}
            /\ reached = ThisOne => toReader[i].n = source.n
      BY <2>0 DEF WayIsOrdered
    <3>5. ASSUME NEW i \in 1 .. k + 1
          PROVE  /\ toReader'[i].life = source.life /\ toReader'[i].n \in {source.n - 1, source.n}
                 /\ reached = ThisOne => toReader'[i].n = source.n
      <4>1. i \in 1 .. k \/ i = k + 1
        BY <3>1
      <4> HIDE DEF k
      <4>. QED
        BY <1>5, <3>1, <3>4, <4>1
    <3>6. /\ source'.life = source.life /\ source'.n = source.n
          /\ (reached = ThisOne)' <=> (reached = ThisOne)
      BY <1>2, <1>4 DEF ThisOne
    <3>7. \A i \in 1 .. Len(toReader') :
            /\ toReader'[i].life = source'.life /\ toReader'[i].n \in {source'.n - 1, source'.n}
            /\ (reached = ThisOne)' => toReader'[i].n = source'.n
      BY <3>1, <3>5, <3>6
    <3>. QED
      BY <3>3, <3>6, <3>7 DEF WayIsOrdered
  <2>. QED
    BY <2>1, <2>2, <2>3
<1>. QED
  BY <1>2, <1>7, <1>8 DEF LivesInv

\* The ACK that ends the wait is of the message that is waited for, or stale.
LEMMA TakesAckHolds == ASSUME LivesInv, TakesAck PROVE LivesInv'
<1> DEFINE a == Head(toWriter)
           pend == source.pending \ {a.mid}
           k == Len(toWriter)
<1>1. LivesTypes
  BY DEF LivesInv
<1>2. /\ source' = [source EXCEPT !.pending = pend] /\ toWriter # <<>> /\ toWriter' = Tail(toWriter)
      /\ toReader' = toReader /\ sender' = sender /\ sink' = sink /\ reached' = reached
      /\ stale' = (stale \/ (a.mid \in source.pending /\ a.life # source.life))
  BY DEF TakesAck
<1>3. /\ source.life \in Nat \ {0} /\ source.n \in Nat /\ source.mid \in Mid
      /\ source.pending \in SUBSET Mid /\ toWriter \in Seq(Message) /\ sink.acks \in Seq(Message)
      /\ stale \in BOOLEAN
  BY <1>1, FieldsAre DEF LivesTypes
<1>4. /\ a \in Message /\ toWriter' \in Seq(Message) /\ a = toWriter[1] /\ 1 \in 1 .. k
      /\ k \in Nat \ {0} /\ Len(toWriter') = k - 1
      /\ \A i \in 1 .. Len(toWriter') : toWriter'[i] = toWriter[i + 1] /\ i + 1 \in 1 .. k
  BY <1>2, <1>3, RestOf
<1>5. a.life \in Nat \ {0} /\ a.n \in Nat \ {0} /\ a.mid = Mids[a.n]
  BY <1>4 DEF Message
<1> HIDE DEF a
<1>6. /\ source' \in [life : Nat \ {0}, n : Nat, mid : Mid, pending : SUBSET Mid,
                 at : {"idle", "send", "wait"}]
      /\ source'.life = source.life /\ source'.n = source.n /\ source'.mid = source.mid
      /\ source'.pending = pend /\ source'.at = source.at
  <2>1. pend \in SUBSET Mid
    BY <1>3
  <2> HIDE DEF pend
  <2>. QED
    BY <1>1, <1>2, <2>1 DEF LivesTypes
<1>7. LivesTypes'
  <2>1. stale' \in BOOLEAN
    BY <1>2
  <2>. QED
    BY <1>1, <1>2, <1>4, <1>6, <2>1 DEF LivesTypes
<1>8. ASSUME ~stale'
      PROVE  SourceWaits' /\ ReachedLately' /\ WayIsOrdered' /\ AcksAreOrdered' /\ LinesFollow'
  <2>0. SourceWaits /\ ReachedLately /\ WayIsOrdered /\ AcksAreOrdered /\ LinesFollow
    BY <1>2, <1>8 DEF LivesInv
  <2>1. AckFits(a) /\ (a.mid \in source.pending => a.life = source.life)
    BY <1>2, <1>4, <1>8, <2>0 DEF AcksAreOrdered
  <2>2. a.mid \in source.pending => a.life = source.life /\ a.n = source.n
    <3> SUFFICES ASSUME a.mid \in source.pending PROVE a.n = source.n
      BY <2>1
    <3>1. a.mid = source.mid /\ a.life = source.life
      BY <2>0, <2>1 DEF SourceWaits
    <3>2. a.n \in {source.n - 1, source.n}
      BY <2>1, <3>1 DEF AckFits
    <3>3. source.n \in Nat \ {0} /\ source.mid = Mids[source.n]
      BY <1>1, <1>3, <1>5, <3>2 DEF LivesTypes
    <3>4. CASE a.n = source.n - 1
      <4>1. a.n + 1 = source.n
        BY <1>3, <1>5, <3>4
      <4>2. Mids[a.n + 1] # Mids[a.n]
        BY <1>5, MidsAre
      <4>. QED
        BY <1>5, <3>1, <3>3, <4>1, <4>2
    <3>. QED
      BY <3>2, <3>4
  <2>3. Settled' => Settled \/ (a.life = source.life /\ a.n = source.n /\ reached = ThisOne)
    <3>1. ASSUME ~Settled, Settled' PROVE a.mid \in source.pending
      BY <1>6, <3>1 DEF Settled
    <3>. QED
      BY <2>1, <2>2, <3>1 DEF AckFits
  <2>4. SourceWaits'
    <3>1. source'.n # 0 /\ Settled' => reached' = ThisOne'
      BY <1>2, <1>6, <2>0, <2>3 DEF SourceWaits, ThisOne
    <3>. QED
      BY <1>6, <2>0, <3>1 DEF SourceWaits
  <2>5. ReachedLately' /\ LinesFollow' /\ WayIsOrdered'
    BY <1>2, <1>6, <2>0 DEF ReachedLately, LinesFollow, ThisOne, OneBefore, WayIsOrdered, Ascends
  <2>6. ASSUME NEW b \in Message, AckFits(b),
               b.life = source.life /\ a.life = source.life => a.n <= b.n
        PROVE  AckFits(b)'
    <3>1. b.n \in Nat \ {0}
      BY DEF Message
    <3>2. ASSUME Settled', b.life = source.life PROVE b.n = source.n
      <4>1. CASE Settled
        BY <2>6, <3>2, <4>1 DEF AckFits
      <4>2. CASE ~Settled
        <5>1. a.n = source.n /\ a.n <= b.n /\ b.n \in {source.n - 1, source.n}
          BY <2>3, <2>6, <3>2, <4>2 DEF AckFits
        <5>. QED
          BY <1>3, <3>1, <5>1
      <4>. QED
        BY <4>1, <4>2
    <3>3. ThisOne' = ThisOne
      BY <1>6 DEF ThisOne
    <3>. QED
      BY <1>2, <1>6, <2>6, <3>2, <3>3 DEF AckFits
  <2>7. AcksAreOrdered'
    <3>0. /\ \A i \in 1 .. k : AckFits(toWriter[i]) /\ toWriter[i] \in Message
          /\ \A i \in 1 .. Len(sink.acks) : AckFits(sink.acks[i]) /\ sink.acks[i] \in Message
      BY <1>3, <2>0, ElementsAre DEF AcksAreOrdered
    <3>1. ASSUME NEW i \in 1 .. Len(toWriter') PROVE AckFits(toWriter[i])'
      <4>1. i + 1 \in 1 .. k /\ 1 < i + 1 /\ toWriter'[i] = toWriter[i + 1]
        BY <1>4, <3>1
      <4>2. a.life = source.life /\ toWriter[i + 1].life = source.life => a.n <= toWriter[i + 1].n
        BY <1>4, <2>0, <4>1 DEF AcksAreOrdered, Ascends
      <4>3. PICK b \in Message : b = toWriter[i + 1]
        BY <3>0, <4>1
      <4>4. AckFits(b)
        BY <3>0, <4>1, <4>3
      <4>5. AckFits(b)'
        BY <2>6, <4>2, <4>3, <4>4
      <4>. QED
        BY <4>1, <4>3, <4>5
    <3>2. ASSUME NEW i \in 1 .. Len(sink.acks) PROVE AckFits(sink.acks[i])'
      <4>1. a.life = source.life /\ sink.acks[i].life = source.life => a.n <= sink.acks[i].n
        BY <1>4, <2>0, <3>2 DEF AcksAreOrdered
      <4>. QED
        BY <1>2, <2>6, <3>0, <4>1 DEF AckFits
    <3>3. Ascends(toWriter', source.life)
      BY <1>2, <1>3, <2>0, StillAscends DEF AcksAreOrdered
    <3>4. \A i \in 1 .. Len(toWriter'), j \in 1 .. Len(sink.acks) :
             toWriter'[i].life = source.life /\ sink.acks[j].life = source.life =>
               toWriter'[i].n <= sink.acks[j].n
      BY <1>4, <2>0 DEF AcksAreOrdered
    <3>. QED
      BY <1>2, <1>6, <2>0, <3>1, <3>2, <3>3, <3>4 DEF AcksAreOrdered, Ascends
  <2>. QED
    BY <2>4, <2>5, <2>7
<1>. QED
  BY <1>7, <1>8 DEF LivesInv

LEMMA ReturnsHolds == ASSUME LivesInv, Returns PROVE LivesInv'
<1>1. LivesTypes
  BY DEF LivesInv
<1>2. /\ source' = [source EXCEPT !.at = "idle"] /\ Settled /\ source.at = "wait"
      /\ toReader' = toReader /\ sender' = sender /\ sink' = sink
      /\ toWriter' = toWriter /\ reached' = reached /\ stale' = stale
  BY DEF Returns, Settled
<1>4. /\ source' \in [life : Nat \ {0}, n : Nat, mid : Mid, pending : SUBSET Mid,
                 at : {"idle", "send", "wait"}]
      /\ source'.life = source.life /\ source'.n = source.n /\ source'.mid = source.mid
      /\ source'.pending = source.pending /\ source'.at = "idle"
  BY <1>1, <1>2 DEF LivesTypes
<1>5. LivesTypes'
  BY <1>1, <1>2, <1>4 DEF LivesTypes
<1>6. ASSUME ~stale
      PROVE  SourceWaits' /\ ReachedLately' /\ WayIsOrdered' /\ AcksAreOrdered' /\ LinesFollow'
  <2>0. SourceWaits /\ ReachedLately /\ WayIsOrdered /\ AcksAreOrdered /\ LinesFollow
    BY <1>6 DEF LivesInv
  <2>1. SourceWaits'
    BY <1>2, <1>4, <2>0 DEF SourceWaits, Settled, ThisOne
  <2>2. ReachedLately' /\ LinesFollow' /\ WayIsOrdered'
    BY <1>2, <1>4, <2>0 DEF ReachedLately, LinesFollow, ThisOne, OneBefore, WayIsOrdered, Ascends
  <2>3. AcksAreOrdered'
    <3>1. \A a : AckFits(a) => AckFits(a)'
      BY <1>2, <1>4 DEF AckFits, Settled, ThisOne
    <3>. QED
      BY <1>2, <1>4, <2>0, <3>1 DEF AcksAreOrdered, Ascends
  <2>. QED
    BY <2>1, <2>2, <2>3
<1>. QED
  BY <1>2, <1>5, <1>6 DEF LivesInv

LEMMA ConnectsHolds == ASSUME LivesInv, Connects PROVE LivesInv'
BY DEF LivesInv, Connects, LivesTypes, SourceWaits, ReachedLately, WayIsOrdered, AcksAreOrdered,
       LinesFollow, AckFits, Settled, ThisOne, OneBefore, Ascends

\* What the receiver is about to look up or receive.
LEMMA HeadOfLines ==
  ASSUME LivesInv, ~stale, sink.lines # <<>>
  PROVE  /\ Head(sink.lines) \in Message
         /\ sink.last = NoMessage \/ Follows(sink.last, Head(sink.lines))
         /\ RecordFits(sink.last, sink.lst) /\ sink.last \in Ident /\ sink.lst \in Record
<1>1. LivesTypes /\ LinesFollow
  BY DEF LivesInv
<1>2. sink.lines \in Seq(Message) /\ sink.last \in Ident /\ sink.lst \in Record
  BY <1>1, FieldsAre
<1>3. Head(sink.lines) \in Message /\ Head(sink.lines) = sink.lines[1]
  BY <1>2, RestOf
<1>. QED
  BY <1>1, <1>2, <1>3 DEF LinesFollow

LEMMA HeadOfWay ==
  ASSUME LivesInv, ~stale, toReader # <<>>
  PROVE  LET m == Head(toReader) IN
         /\ m \in Message /\ m.life = source.life /\ m.n \in {source.n - 1, source.n}
         /\ source.n # 0 /\ m.n \in Nat \ {0}
         /\ reached = ThisOne => m.n = source.n
         /\ Follows(reached, m)
         /\ sender = "gui" => sink.last = NoMessage \/ Follows(sink.last, m)
         /\ RecordFits(sink.last, sink.lst) /\ sink.last \in Ident /\ sink.lst \in Record
<1> DEFINE m == Head(toReader)
<1>1. LivesTypes /\ LinesFollow /\ ReachedLately /\ WayIsOrdered
  BY DEF LivesInv
<1>2. /\ toReader \in Seq(Message) /\ sink.last \in Ident /\ sink.lst \in Record
      /\ source.life \in Nat \ {0} /\ source.n \in Nat /\ reached.life \in Nat
      /\ ThisOne.life = source.life /\ ThisOne.n = source.n
      /\ OneBefore.life = source.life /\ OneBefore.n = source.n - 1
  BY <1>1, FieldsAre
<1>3. m \in Message /\ m = toReader[1] /\ 1 \in 1 .. Len(toReader)
  BY <1>2, RestOf
<1>4. /\ m.life = source.life /\ m.n \in {source.n - 1, source.n}
      /\ reached = ThisOne => m.n = source.n
  BY <1>1, <1>3 DEF WayIsOrdered
<1>5. m.n \in Nat \ {0}
  BY <1>3 DEF Message
<1> HIDE DEF m
<1>6. source.n # 0
  BY <1>2, <1>4, <1>5
<1>7. Follows(reached, m)
  <2>1. CASE reached = ThisOne
    BY <1>2, <1>4, <2>1 DEF Follows
  <2>2. CASE reached = OneBefore
    <3>1. (source.n - 1) + 1 = source.n
      BY <1>2
    <3>. QED
      BY <1>2, <1>4, <2>2, <3>1 DEF Follows
  <2>3. CASE source.n <= 1 /\ reached.life < source.life
    <3>1. m.n = 1 /\ m.life > reached.life
      BY <1>2, <1>4, <1>5, <2>3
    <3>. QED
      BY <3>1 DEF Follows
  <2>. QED
    BY <1>1, <2>1, <2>2, <2>3 DEF ReachedLately
<1>8. sender = "gui" => sink.last = NoMessage \/ Follows(sink.last, m)
  BY <1>1, <1>7 DEF LinesFollow
<1>9. RecordFits(sink.last, sink.lst)
  BY <1>1 DEF LinesFollow
<1>. QED
  BY <1>2, <1>3, <1>4, <1>5, <1>6, <1>7, <1>8, <1>9 DEF m

LEMMA ReadsLineHolds == ASSUME LivesInv, ReadsLine PROVE LivesInv'
<1> DEFINE m == Head(sink.lines)
           this == [life |-> m.life, n |-> m.n]
           lst == After(m.mid, sink.lst)
           last == IF Newer(m, sink.last) THEN this ELSE sink.last
           k == Len(sink.lines)
<1>1. LivesTypes
  BY DEF LivesInv
<1>2. /\ sink.lines # <<>> /\ sink' = LookedUp([sink EXCEPT !.lines = Tail(@)], m)
      /\ source' = source /\ toReader' = toReader /\ sender' = sender
      /\ toWriter' = toWriter /\ reached' = reached /\ stale' = stale
  BY DEF ReadsLine
<1>3. sink.lines \in Seq(Message) /\ sink.lst \in Record /\ sink.last \in Ident
  BY <1>1, FieldsAre
<1>4. /\ m \in Message /\ Tail(sink.lines) \in Seq(Message) /\ m = sink.lines[1] /\ 1 \in 1 .. k
      /\ k \in Nat \ {0} /\ Len(Tail(sink.lines)) = k - 1
      /\ \A i \in 1 .. Len(Tail(sink.lines)) : Tail(sink.lines)[i] = sink.lines[i + 1] /\ i + 1 \in 1 .. k
  BY <1>2, <1>3, RestOf
<1>5. this \in Ident /\ m.mid \in Mid
  BY <1>4 DEF Ident, Message
<1>6. lst \in Record
  BY <1>3, <1>5, RecordType
<1>7. last \in Ident
  BY <1>3, <1>5
<1>8. sink' = [sink EXCEPT !.lines = Tail(sink.lines), !.lst = lst, !.last = last]
  BY <1>1, <1>2 DEF LookedUp, LivesTypes
<1> HIDE DEF lst, last, m
<1>9. /\ sink' \in [lst : Record, lines : Seq(Message), acks : Seq(Message), last : Ident]
      /\ sink'.lines = Tail(sink.lines) /\ sink'.lst = lst /\ sink'.last = last
      /\ sink'.acks = sink.acks
  BY <1>1, <1>4, <1>6, <1>7, <1>8 DEF LivesTypes
<1>10. LivesTypes'
  BY <1>1, <1>2, <1>9 DEF LivesTypes
<1>11. ASSUME ~stale
      PROVE  SourceWaits' /\ ReachedLately' /\ WayIsOrdered' /\ AcksAreOrdered' /\ LinesFollow'
  <2>0. SourceWaits /\ ReachedLately /\ WayIsOrdered /\ AcksAreOrdered /\ LinesFollow
    BY <1>11 DEF LivesInv
  <2>1. SourceWaits' /\ ReachedLately' /\ WayIsOrdered'
    BY <1>2, <2>0 DEF SourceWaits, ReachedLately, WayIsOrdered, Settled, ThisOne, OneBefore, Ascends
  <2>2. AcksAreOrdered'
    BY ZenonT(30), <1>2, <1>9, <2>0 DEF AcksAreOrdered, AckFits, Settled, ThisOne, Ascends
  <2>3. last = this /\ RecordFits(last, lst)
    <3>1. sink.last = NoMessage \/ Follows(sink.last, m)
      BY <1>2, <1>11, HeadOfLines DEF m
    <3>2. RecordFits(sink.last, sink.lst)
      BY <2>0 DEF LinesFollow
    <3>. QED
      BY <1>3, <1>4, <3>1, <3>2, LookUpIsRight DEF last, lst
  <2>4. LinesFollow'
    <3> DEFINE rest == Tail(sink.lines)
    <3>1. \A i \in 1 .. k - 1 : Follows(sink.lines[i], sink.lines[i + 1])
      BY <2>0 DEF LinesFollow
    <3>2. reached = [life |-> sink.lines[k].life, n |-> sink.lines[k].n]
      BY <1>2, <2>0 DEF LinesFollow
    <3>3. sender # "gui"
      BY <1>2, <2>0 DEF LinesFollow
    <3>4. Len(rest) = k - 1 /\ \A i \in 1 .. k - 1 : rest[i] = sink.lines[i + 1]
      BY <1>4
    <3> DEFINE l == Len(rest)
    <3>5. (rest = <<>> => l = 0) /\ (rest # <<>> => l # 0) /\ l = k - 1
      BY <1>4, <3>4, EmptySeq
    <3> HIDE DEF k, l, rest
    <3>6. (rest = <<>> => k = 1) /\ (rest # <<>> => k - 1 \in Nat \ {0})
      BY <1>4, <3>5
    <3>7. rest = <<>> => last = reached
      BY <1>4, <2>3, <3>2, <3>6
    <3>8. rest # <<>> => rest[k - 1] = sink.lines[k] /\ rest[1] = sink.lines[2] /\ Follows(m, rest[1])
      <4> SUFFICES ASSUME rest # <<>>
                   PROVE  rest[k - 1] = sink.lines[k] /\ rest[1] = sink.lines[2] /\ Follows(m, rest[1])
        OBVIOUS
      <4>1. k - 1 \in 1 .. k - 1 /\ (k - 1) + 1 = k /\ 1 \in 1 .. k - 1 /\ 1 + 1 = 2
        BY <1>4, <3>6
      <4>. QED
        BY <1>4, <3>1, <3>4, <4>1
    <3>9. ASSUME NEW i \in 1 .. (k - 1) - 1 PROVE Follows(rest[i], rest[i + 1])
      <4>1. i \in 1 .. k - 1 /\ i + 1 \in 1 .. k - 1
        BY <1>4, <3>9
      <4>. QED
        BY <3>1, <3>4, <4>1
    <3>10. rest # <<>> => Follows(last, rest[1])
      BY <2>3, <3>8 DEF Follows
    <3>11. rest # <<>> => reached = [life |-> rest[k - 1].life, n |-> rest[k - 1].n]
      BY <3>2, <3>8
    <3>12. sink'.lines = rest /\ Len(rest) = k - 1
      BY <1>9, <3>4 DEF rest
    <3>. QED
      BY <1>2, <1>9, <2>3, <3>3, <3>7, <3>9, <3>10, <3>11, <3>12 DEF LinesFollow
  <2>. QED
    BY <2>1, <2>2, <2>4
<1>. QED
  BY <1>2, <1>10, <1>11 DEF LivesInv

\* An ACK goes on its way; the order is that of the two sequences together.
LEMMA SendsAckHolds == ASSUME LivesInv, SendsAck PROVE LivesInv'
<1> DEFINE a == Head(sink.acks)
           k == Len(sink.acks)
           l == Len(toWriter)
<1>1. LivesTypes
  BY DEF LivesInv
<1>2. /\ sink.acks # <<>> /\ toWriter' = Append(toWriter, a)
      /\ sink' = [sink EXCEPT !.acks = Tail(sink.acks)]
      /\ source' = source /\ toReader' = toReader /\ sender' = sender
      /\ reached' = reached /\ stale' = stale
  BY DEF SendsAck
<1>3. sink.acks \in Seq(Message) /\ toWriter \in Seq(Message) /\ source.life \in Nat
  BY <1>1, FieldsAre
<1>4. /\ a \in Message /\ Tail(sink.acks) \in Seq(Message) /\ a = sink.acks[1] /\ 1 \in 1 .. k
      /\ k \in Nat \ {0} /\ Len(Tail(sink.acks)) = k - 1
      /\ \A i \in 1 .. Len(Tail(sink.acks)) : Tail(sink.acks)[i] = sink.acks[i + 1] /\ i + 1 \in 1 .. k
  BY <1>2, <1>3, RestOf
<1> HIDE DEF a
<1>5. /\ toWriter' \in Seq(Message) /\ l \in Nat /\ Len(toWriter') = l + 1
      /\ (\A i \in 1 .. l : toWriter'[i] = toWriter[i]) /\ toWriter'[l + 1] = a
  BY <1>2, <1>3, <1>4, AppendIs
<1>6. /\ sink' \in [lst : Record, lines : Seq(Message), acks : Seq(Message), last : Ident]
      /\ sink'.lines = sink.lines /\ sink'.lst = sink.lst /\ sink'.last = sink.last
      /\ sink'.acks = Tail(sink.acks)
  BY <1>1, <1>2, <1>4 DEF LivesTypes
<1>7. LivesTypes'
  BY <1>1, <1>2, <1>5, <1>6 DEF LivesTypes
<1>8. ASSUME ~stale
      PROVE  SourceWaits' /\ ReachedLately' /\ WayIsOrdered' /\ AcksAreOrdered' /\ LinesFollow'
  <2>0. SourceWaits /\ ReachedLately /\ WayIsOrdered /\ AcksAreOrdered /\ LinesFollow
    BY <1>8 DEF LivesInv
  <2>1. SourceWaits' /\ ReachedLately' /\ WayIsOrdered' /\ LinesFollow'
    BY <1>2, <1>6, <2>0 DEF SourceWaits, ReachedLately, WayIsOrdered, LinesFollow, Settled, ThisOne,
                            OneBefore, Ascends
  <2>2. /\ \A i \in 1 .. l : AckFits(toWriter[i])
        /\ \A i \in 1 .. k : AckFits(sink.acks[i])
        /\ Ascends(toWriter, source.life) /\ Ascends(sink.acks, source.life)
        /\ \A i \in 1 .. l, j \in 1 .. k :
             toWriter[i].life = source.life /\ sink.acks[j].life = source.life =>
               toWriter[i].n <= sink.acks[j].n
    BY <2>0 DEF AcksAreOrdered
  <2>3. \A b : AckFits(b) => AckFits(b)'
    BY <1>2 DEF AckFits, Settled, ThisOne
  <2>4. \A i \in 1 .. l + 1 : AckFits(toWriter[i])'
    <3> SUFFICES ASSUME NEW i \in 1 .. l + 1 PROVE AckFits(toWriter[i])'
      OBVIOUS
    <3>1. i \in 1 .. l \/ i = l + 1
      BY <1>5
    <3>2. AckFits(a)
      BY <1>4, <2>2
    <3>3. CASE i \in 1 .. l
      <4>1. PICK b : b = toWriter[i]
        OBVIOUS
      <4>. QED
        BY <1>5, <2>2, <2>3, <3>3, <4>1
    <3>4. CASE i = l + 1
      <4>1. PICK b : b = a
        OBVIOUS
      <4>. QED
        BY <1>5, <2>3, <3>2, <3>4, <4>1
    <3>. QED
      BY <3>1, <3>3, <3>4
  <2>5. \A i \in 1 .. k - 1 : AckFits(sink.acks[i])'
    <3> SUFFICES ASSUME NEW i \in 1 .. k - 1 PROVE AckFits(sink.acks[i])'
      OBVIOUS
    <3>1. i + 1 \in 1 .. k /\ sink'.acks[i] = sink.acks[i + 1]
      BY <1>4, <1>6
    <3>2. PICK b : b = sink.acks[i + 1]
      OBVIOUS
    <3>. QED
      BY <2>2, <2>3, <3>1, <3>2
  <2>6. Ascends(toWriter', source.life)
    <3>1. \A i \in 1 .. l : toWriter[i].life = source.life /\ a.life = source.life => toWriter[i].n <= a.n
      BY <1>4, <2>2
    <3>2. \A m \in Message :
            (\A i \in 1 .. l : toWriter[i].life = source.life /\ m.life = source.life
                                => toWriter[i].n <= m.n)
              => Ascends(Append(toWriter, m), source.life)
      BY <1>3, <2>2, StillAscends
    <3>. QED
      BY <1>2, <1>4, <3>1, <3>2
  <2>7. Ascends(sink'.acks, source.life)
    BY <1>2, <1>3, <1>6, <2>2, StillAscends
  <2>8. ASSUME NEW i \in 1 .. l + 1, NEW j \in 1 .. k - 1,
               toWriter'[i].life = source.life, sink'.acks[j].life = source.life
        PROVE  toWriter'[i].n <= sink'.acks[j].n
    <3>1. j + 1 \in 1 .. k /\ 1 < j + 1 /\ sink'.acks[j] = sink.acks[j + 1]
      BY <1>4, <1>6
    <3>2. i \in 1 .. l \/ i = l + 1
      BY <1>5
    <3>3. CASE i \in 1 .. l
      BY <1>5, <2>2, <2>8, <3>1, <3>3
    <3>4. CASE i = l + 1
      <4>1. sink.acks[1].n <= sink.acks[j + 1].n
        BY <1>4, <1>5, <2>2, <2>8, <3>1, <3>4 DEF Ascends
      <4>. QED
        BY <1>4, <1>5, <3>1, <3>4, <4>1
    <3>. QED
      BY <3>2, <3>3, <3>4
  <2>9. AcksAreOrdered'
    <3>1. Len(toWriter') = l + 1 /\ Len(sink'.acks) = k - 1 /\ source' = source
      BY <1>2, <1>4, <1>5, <1>6
    <3> HIDE DEF k, l
    <3>. QED
      BY <2>4, <2>5, <2>6, <2>7, <2>8, <3>1 DEF AcksAreOrdered
  <2>. QED
    BY <2>1, <2>9
<1>. QED
  BY <1>2, <1>7, <1>8 DEF LivesInv

\* A line arrives: its ACK is owed, and it is looked up now or later.
LEMMA ArrivesHolds == ASSUME LivesInv, Arrives PROVE LivesInv'
<1> DEFINE m == Head(toReader)
           this == [life |-> m.life, n |-> m.n]
           lst == IF sender = "gui" THEN After(m.mid, sink.lst) ELSE sink.lst
           last == IF sender = "gui" THEN IF Newer(m, sink.last) THEN this ELSE sink.last ELSE sink.last
           lines == IF sender = "gui" THEN sink.lines ELSE Append(sink.lines, m)
           acks == Append(sink.acks, m)
           k == Len(toReader)
           l == Len(sink.acks)
<1>1. LivesTypes
  BY DEF LivesInv
<1>2. /\ toReader # <<>> /\ toReader' = Tail(toReader) /\ reached' = this
      /\ source' = source /\ sender' = sender /\ toWriter' = toWriter /\ stale' = stale
  BY DEF Arrives
<1>3. /\ sink.lines \in Seq(Message) /\ sink.acks \in Seq(Message) /\ toReader \in Seq(Message)
      /\ toWriter \in Seq(Message) /\ sink.lst \in Record /\ sink.last \in Ident
      /\ source.life \in Nat \ {0} /\ source.n \in Nat
  BY <1>1, FieldsAre
<1>4. /\ m \in Message /\ Tail(toReader) \in Seq(Message) /\ m = toReader[1] /\ 1 \in 1 .. k
      /\ k \in Nat \ {0} /\ Len(Tail(toReader)) = k - 1
      /\ \A i \in 1 .. Len(Tail(toReader)) : Tail(toReader)[i] = toReader[i + 1] /\ i + 1 \in 1 .. k
  BY <1>2, <1>3, RestOf
<1>5. this \in Ident /\ m.mid \in Mid /\ this.life = m.life /\ this.n = m.n
  BY <1>4 DEF Ident, Message
<1>6. lst \in Record /\ last \in Ident /\ lines \in Seq(Message)
  BY <1>3, <1>4, <1>5, RecordType, AppendIs
<1>7. /\ acks \in Seq(Message) /\ l \in Nat /\ Len(acks) = l + 1
      /\ (\A i \in 1 .. l : acks[i] = sink.acks[i]) /\ acks[l + 1] = m
  BY <1>3, <1>4, AppendIs
<1>8. sink' = [sink EXCEPT !.acks = acks, !.lines = lines, !.lst = lst, !.last = last]
  <2>1. CASE sender = "gui"
    <3>1. sink' = LookedUp([sink EXCEPT !.acks = acks], m)
      BY <2>1 DEF Arrives
    <3>. QED
      BY <1>1, <2>1, <3>1 DEF LookedUp, LivesTypes
  <2>2. CASE sender # "gui"
    <3>1. sink' = [[sink EXCEPT !.acks = acks] EXCEPT !.lines = lines]
      BY <2>2 DEF Arrives
    <3>. QED
      BY <1>1, <2>2, <3>1 DEF LivesTypes
  <2>. QED
    BY <2>1, <2>2
<1> HIDE DEF m, lst, last, lines, acks
<1>9. /\ sink' \in [lst : Record, lines : Seq(Message), acks : Seq(Message), last : Ident]
      /\ sink'.lines = lines /\ sink'.lst = lst /\ sink'.last = last /\ sink'.acks = acks
  BY <1>1, <1>6, <1>7, <1>8 DEF LivesTypes
<1>10. LivesTypes'
  BY <1>1, <1>2, <1>4, <1>5, <1>9 DEF LivesTypes
<1>11. ASSUME ~stale
      PROVE  SourceWaits' /\ ReachedLately' /\ WayIsOrdered' /\ AcksAreOrdered' /\ LinesFollow'
  <2>0. SourceWaits /\ ReachedLately /\ WayIsOrdered /\ AcksAreOrdered /\ LinesFollow
    BY <1>11 DEF LivesInv
  <2>1. /\ m.life = source.life /\ m.n \in {source.n - 1, source.n} /\ source.n # 0
        /\ m.n \in Nat \ {0} /\ (reached = ThisOne => m.n = source.n)
        /\ Follows(reached, m)
        /\ sender = "gui" => sink.last = NoMessage \/ Follows(sink.last, m)
        /\ RecordFits(sink.last, sink.lst)
    BY <1>2, <1>11, HeadOfWay DEF m
  <2>2. /\ ThisOne' = ThisOne /\ OneBefore' = OneBefore
        /\ m.n = source.n => this = ThisOne
        /\ m.n = source.n - 1 => this = OneBefore /\ source.n >= 2
        /\ this = ThisOne => m.n = source.n
    BY <1>2, <1>3, <2>1 DEF ThisOne, OneBefore
  <2>3. reached = ThisOne => reached' = ThisOne
    BY <1>2, <2>1, <2>2
  <2>4. Settled' = Settled /\ (Settled => m.n = source.n)
    BY <1>2, <2>0, <2>1 DEF Settled, SourceWaits
  <2>5. SourceWaits'
    BY <1>2, <2>0, <2>2, <2>3, <2>4 DEF SourceWaits
  <2>6. ReachedLately'
    BY <1>2, <2>1, <2>2 DEF ReachedLately
  <2>7. WayIsOrdered'
    <3>1. \A i \in 1 .. k :
            toReader[i].life = source.life /\ toReader[i].n \in {source.n - 1, source.n}
      BY <2>0 DEF WayIsOrdered
    <3>2. \A i \in 1 .. k : 1 < i => m.n <= toReader[i].n
      BY <1>4, <2>0, <2>1, <3>1 DEF WayIsOrdered, Ascends
    <3>3. ASSUME NEW i \in 1 .. k - 1
          PROVE  /\ toReader'[i].life = source.life /\ toReader'[i].n \in {source.n - 1, source.n}
                 /\ reached' = ThisOne => toReader'[i].n = source.n
      <4>1. i + 1 \in 1 .. k /\ 1 < i + 1 /\ toReader'[i] = toReader[i + 1]
        BY <1>2, <1>4
      <4>2. toReader[i + 1].n \in {source.n - 1, source.n} /\ m.n <= toReader[i + 1].n
        BY <3>1, <3>2, <4>1
      <4>3. m.n = source.n => toReader[i + 1].n = source.n
        BY <1>3, <4>2
      <4>. QED
        BY <1>2, <2>2, <3>1, <4>1, <4>3
    <3>4. Ascends(toReader', source.life)
      BY <1>2, <1>3, <2>0, StillAscends DEF WayIsOrdered
    <3>5. Len(toReader') = k - 1
      BY <1>2, <1>4
    <3> HIDE DEF k
    <3>. QED
      BY <1>2, <2>2, <3>3, <3>4, <3>5 DEF WayIsOrdered
  <2>8. \A b : AckFits(b) => AckFits(b)'
    BY <1>2, <2>2, <2>3, <2>4 DEF AckFits
  <2>9. AcksAreOrdered'
    <3>1. \A i \in 1 .. l : (AckFits(sink.acks[i]) /\ sink.acks[i].n <= m.n) \/ sink.acks[i].life # source.life
      <4> SUFFICES ASSUME NEW i \in 1 .. l, sink.acks[i].life = source.life
                   PROVE  AckFits(sink.acks[i]) /\ sink.acks[i].n <= m.n
        OBVIOUS
      <4>1. AckFits(sink.acks[i])
        BY <2>0 DEF AcksAreOrdered
      <4>. QED
        BY <1>3, <2>1, <4>1 DEF AckFits
    <3>2. \A i \in 1 .. Len(toWriter) : toWriter[i].life = source.life => toWriter[i].n <= m.n
      <4> SUFFICES ASSUME NEW i \in 1 .. Len(toWriter), toWriter[i].life = source.life
                   PROVE  toWriter[i].n <= m.n
        OBVIOUS
      <4>1. AckFits(toWriter[i])
        BY <2>0 DEF AcksAreOrdered
      <4>. QED
        BY <1>3, <2>1, <4>1 DEF AckFits
    <3>3. ASSUME NEW i \in 1 .. l + 1 PROVE AckFits(sink.acks[i])'
      <4>1. i \in 1 .. l \/ i = l + 1
        BY <1>7
      <4>2. CASE i \in 1 .. l
        <5>1. PICK b : b = sink.acks[i]
          OBVIOUS
        <5>2. AckFits(b)
          BY <2>0, <4>2, <5>1 DEF AcksAreOrdered
        <5>. QED
          BY <1>7, <1>9, <2>8, <4>2, <5>1, <5>2
      <4>3. CASE i = l + 1
        <5>1. PICK b : b = m
          OBVIOUS
        <5>2. AckFits(b)'
          BY <1>2, <1>3, <2>1, <2>2, <2>4, <5>1 DEF AckFits
        <5>. QED
          BY <1>7, <1>9, <4>3, <5>1, <5>2
      <4>. QED
        BY <4>1, <4>2, <4>3
    <3>4. Ascends(acks, source.life)
      <4>1. \A b \in Message :
            (\A i \in 1 .. l : sink.acks[i].life = source.life /\ b.life = source.life
                                => sink.acks[i].n <= b.n)
              => Ascends(Append(sink.acks, b), source.life)
        BY <1>3, <2>0, StillAscends DEF AcksAreOrdered
      <4>. QED
        BY <1>4, <3>1, <4>1 DEF acks
    <3>5. ASSUME NEW i \in 1 .. Len(toWriter), NEW j \in 1 .. l + 1,
                 toWriter[i].life = source.life, acks[j].life = source.life
          PROVE  toWriter[i].n <= acks[j].n
      <4>1. j \in 1 .. l \/ j = l + 1
        BY <1>7
      <4>2. CASE j \in 1 .. l
        BY <1>7, <2>0, <3>5, <4>2 DEF AcksAreOrdered
      <4>3. CASE j = l + 1
        BY <1>7, <3>2, <3>5, <4>3
      <4>. QED
        BY <4>1, <4>2, <4>3
    <3>6. \A i \in 1 .. Len(toWriter) : AckFits(toWriter[i])'
      <4> SUFFICES ASSUME NEW i \in 1 .. Len(toWriter) PROVE AckFits(toWriter[i])'
        OBVIOUS
      <4>1. PICK b : b = toWriter[i]
        OBVIOUS
      <4>2. AckFits(b)
        BY <2>0, <4>1 DEF AcksAreOrdered
      <4>. QED
        BY <1>2, <2>8, <4>1, <4>2
    <3>7. Ascends(toWriter, source.life)
      BY <2>0 DEF AcksAreOrdered
    <3>8. Len(sink'.acks) = l + 1 /\ sink'.acks = acks
      BY <1>7, <1>9
    <3> HIDE DEF l
    <3>. QED
      BY <1>2, <3>3, <3>4, <3>5, <3>6, <3>7, <3>8 DEF AcksAreOrdered
  <2>10. CASE sender = "gui"
    <3>1. last = this /\ RecordFits(last, lst)
      BY <1>3, <1>4, <2>1, <2>10, LookUpIsRight DEF last, lst
    <3>2. lines = <<>>
      BY <2>0, <2>10 DEF LinesFollow, lines
    <3>3. LinesFollow'
      <4>1. Len(<<>>) = 0
        BY NothingUnderWay
      <4>. QED
        BY <1>2, <1>9, <3>1, <3>2, <4>1 DEF LinesFollow
    <3>. QED
      BY <2>5, <2>6, <2>7, <2>9, <3>3
  <2>11. CASE sender # "gui"
    <3> DEFINE c == Len(sink.lines)
    <3>1. /\ c \in Nat /\ Len(lines) = c + 1 /\ (\A i \in 1 .. c : lines[i] = sink.lines[i])
          /\ lines[c + 1] = m
      BY <1>3, <1>4, <2>11, AppendIs DEF lines
    <3>2. last = sink.last /\ lst = sink.lst
      BY <2>11 DEF last, lst
    <3>3. (sink.lines = <<>> => c = 0) /\ (sink.lines # <<>> => c # 0)
      BY <1>3, EmptySeq
    <3>4. /\ \A i \in 1 .. c - 1 : Follows(sink.lines[i], sink.lines[i + 1])
          /\ c # 0 => reached = [life |-> sink.lines[c].life, n |-> sink.lines[c].n]
          /\ c = 0 => sink.last \in {reached, NoMessage}
          /\ c # 0 /\ sink.last # NoMessage => Follows(sink.last, sink.lines[1])
      BY <2>0, <3>3 DEF LinesFollow
    <3> HIDE DEF c
    <3>5. c # 0 => Follows(sink.lines[c], m)
      BY <2>1, <3>4 DEF Follows
    <3>6. ASSUME NEW i \in 1 .. (c + 1) - 1 PROVE Follows(lines[i], lines[i + 1])
      <4>1. i \in 1 .. c /\ c # 0 /\ (i = c \/ (i \in 1 .. c - 1 /\ i + 1 \in 1 .. c))
        BY <3>1
      <4>2. CASE i = c
        BY <3>1, <3>5, <4>1, <4>2
      <4>3. CASE i \in 1 .. c - 1 /\ i + 1 \in 1 .. c
        BY <3>1, <3>4, <4>1, <4>3
      <4>. QED
        BY <4>1, <4>2, <4>3
    <3>7. sink.last # NoMessage => Follows(sink.last, lines[1])
      <4>1. CASE c = 0
        BY <2>1, <3>1, <3>4, <4>1
      <4>2. CASE c # 0
        <5>1. 1 \in 1 .. c
          BY <3>1, <4>2
        <5>. QED
          BY <3>1, <3>4, <4>2, <5>1
      <4>. QED
        BY <4>1, <4>2
    <3>8. lines # <<>>
      <4>1. Len(<<>>) = 0 /\ c + 1 # 0
        BY <3>1, NothingUnderWay
      <4>. QED
        BY <3>1, <4>1
    <3>9. LinesFollow'
      BY <1>2, <1>9, <2>1, <2>11, <3>1, <3>2, <3>6, <3>7, <3>8 DEF LinesFollow
    <3>. QED
      BY <2>5, <2>6, <2>7, <2>9, <3>9
  <2>. QED
    BY <2>10, <2>11
<1>. QED
  BY <1>2, <1>10, <1>11 DEF LivesInv

\* An outage: what is under way is gone, and the ACKs that are owed, or not these.
LEMMA LinkFailsHolds == ASSUME LivesInv, LinkFails PROVE LivesInv'
<1>1. LivesTypes
  BY DEF LivesInv
<1>2. PICK kept \in {sink.acks, <<>>} : sink' = [sink EXCEPT !.acks = kept]
  BY DEF LinkFails, Outage
<1>3. /\ toReader' = <<>> /\ toWriter' = <<>> /\ source' = source /\ sender' = sender
      /\ reached' = reached /\ stale' = stale
  BY DEF LinkFails, Outage
<1>4. /\ sink' \in [lst : Record, lines : Seq(Message), acks : Seq(Message), last : Ident]
      /\ sink'.lines = sink.lines /\ sink'.lst = sink.lst /\ sink'.last = sink.last
      /\ sink'.acks = kept
  <2>1. kept \in Seq(Message)
    BY <1>1, FieldsAre, NothingUnderWay
  <2>. QED
    BY <1>1, <1>2, <2>1 DEF LivesTypes
<1>5. LivesTypes'
  BY <1>1, <1>3, <1>4, NothingUnderWay DEF LivesTypes
<1>6. ASSUME ~stale
      PROVE  SourceWaits' /\ ReachedLately' /\ WayIsOrdered' /\ AcksAreOrdered' /\ LinesFollow'
  <2>0. SourceWaits /\ ReachedLately /\ WayIsOrdered /\ AcksAreOrdered /\ LinesFollow
    BY <1>6 DEF LivesInv
  <2>1. SourceWaits' /\ ReachedLately' /\ LinesFollow'
    BY <1>3, <1>4, <2>0 DEF SourceWaits, ReachedLately, LinesFollow, Settled, ThisOne, OneBefore
  <2>2. WayIsOrdered'
    BY <1>3, NothingUnderWay DEF WayIsOrdered
  <2>3. AcksAreOrdered'
    <3>1. \A b : AckFits(b) => AckFits(b)'
      BY <1>3 DEF AckFits, Settled, ThisOne
    <3>2. Len(<<>>) = 0 /\ Ascends(<<>>, source.life)
      BY NothingUnderWay
    <3>3. /\ \A i \in 1 .. Len(sink.acks) : AckFits(sink.acks[i])
          /\ Ascends(sink.acks, source.life)
      BY <2>0 DEF AcksAreOrdered
    <3>4. Ascends(kept, source.life) /\ \A i \in 1 .. Len(kept) : AckFits(kept[i])
      BY <1>2, <3>2, <3>3
    <3>5. \A i \in 1 .. Len(kept) : AckFits(kept[i])'
      BY <3>1, <3>4
    <3>. QED
      BY <1>3, <1>4, <3>2, <3>4, <3>5 DEF AcksAreOrdered
  <2>. QED
    BY <2>1, <2>2, <2>3
<1>. QED
  BY <1>3, <1>5, <1>6 DEF LivesInv

\* The sender begins a new life: what the receiver owes is of a life before.
LEMMA RestartsSenderHolds == ASSUME LivesInv, RestartsSender PROVE LivesInv'
<1>1. LivesTypes
  BY DEF LivesInv
<1>2. PICK kept \in {sink.acks, <<>>} : sink' = [sink EXCEPT !.acks = kept]
  BY DEF RestartsSender, Outage
<1>3. /\ toReader' = <<>> /\ toWriter' = <<>> /\ source' = WriterOf(source.life + 1)
      /\ sender' = sender /\ reached' = reached /\ stale' = stale
  BY DEF RestartsSender, Outage
<1>4. /\ sink' \in [lst : Record, lines : Seq(Message), acks : Seq(Message), last : Ident]
      /\ sink'.lines = sink.lines /\ sink'.lst = sink.lst /\ sink'.last = sink.last
      /\ sink'.acks = kept /\ kept \in Seq(Message)
  <2>1. kept \in Seq(Message)
    BY <1>1, FieldsAre, NothingUnderWay
  <2>. QED
    BY <1>1, <1>2, <2>1 DEF LivesTypes
<1>5. source.life \in Nat \ {0} /\ reached.life \in Nat /\ source.n \in Nat
  BY <1>1, FieldsAre
<1>6. /\ source' \in [life : Nat \ {0}, n : Nat, mid : Mid, pending : SUBSET Mid,
                 at : {"idle", "send", "wait"}]
      /\ source'.life = source.life + 1 /\ source'.n = 0 /\ source'.pending = {} /\ source'.at = "idle"
  BY <1>3, <1>5, ZeroIsMid DEF WriterOf
<1>7. LivesTypes'
  BY <1>1, <1>3, <1>4, <1>6, NothingUnderWay DEF LivesTypes
<1>8. ASSUME ~stale
      PROVE  SourceWaits' /\ ReachedLately' /\ WayIsOrdered' /\ AcksAreOrdered' /\ LinesFollow'
  <2>0. SourceWaits /\ ReachedLately /\ WayIsOrdered /\ AcksAreOrdered /\ LinesFollow
    BY <1>8 DEF LivesInv
  <2>1. reached.life < source.life + 1
    BY <1>1, <1>5, <2>0, FieldsAre DEF ReachedLately
  <2>2. SourceWaits' /\ ReachedLately'
    BY <1>3, <1>6, <2>1 DEF SourceWaits, ReachedLately
  <2>3. WayIsOrdered'
    BY <1>3, NothingUnderWay DEF WayIsOrdered
  <2>4. LinesFollow'
    BY <1>3, <1>4, <2>0 DEF LinesFollow
  <2>5. AcksAreOrdered'
    <3>1. \A i \in 1 .. Len(sink.acks) : AckFits(sink.acks[i]) /\ sink.acks[i].life \in Nat
      BY <1>1, <2>0, FieldsAre, ElementsAre DEF AcksAreOrdered
    <3>2. \A i \in 1 .. Len(kept) : kept[i].life <= source.life /\ kept[i].life \in Nat
      <4>1. Len(<<>>) = 0
        BY NothingUnderWay
      <4>. QED
        BY <1>2, <3>1, <4>1 DEF AckFits
    <3>3. \A i \in 1 .. Len(kept) : kept[i].life < source.life + 1
      BY <1>5, <3>2
    <3>4. \A i \in 1 .. Len(kept) : kept[i].life <= source'.life /\ kept[i].life # source'.life
      BY <1>5, <1>6, <3>2, <3>3
    <3>. QED
      BY <1>3, <1>4, <3>4, NothingUnderWay DEF AcksAreOrdered, AckFits, Ascends
  <2>. QED
    BY <2>2, <2>3, <2>4, <2>5
<1>. QED
  BY <1>3, <1>7, <1>8 DEF LivesInv

\* The receiver begins a new life, with an empty record.
LEMMA RestartsReceiverHolds == ASSUME LivesInv, RestartsReceiver PROVE LivesInv'
<1>1. LivesTypes
  BY DEF LivesInv
<1>2. /\ sink'.lst = EmptyRecord /\ sink'.lines = <<>> /\ sink'.acks = <<>> /\ sink'.last = NoMessage
      /\ sink' \in [lst : Record, lines : Seq(Message), acks : Seq(Message), last : Ident]
  <2>1. PICK kept \in {<<>>} : sink' = [NewReader EXCEPT !.acks = kept]
    BY DEF RestartsReceiver, Outage, NewReader
  <2>2. NoMessage \in Ident
    BY DEF NoMessage, Ident
  <2>3. EmptyRecord \in Record
    BY DEF Record, EmptyRecord
  <2>. QED
    BY <2>1, <2>2, <2>3, NothingUnderWay DEF NewReader
<1>3. /\ toReader' = <<>> /\ toWriter' = <<>> /\ source' = source
      /\ sender' = sender /\ reached' = reached /\ stale' = stale
  BY DEF RestartsReceiver, Outage
<1>4. LivesTypes'
  BY <1>1, <1>2, <1>3, NothingUnderWay DEF LivesTypes
<1>5. ASSUME ~stale
      PROVE  SourceWaits' /\ ReachedLately' /\ WayIsOrdered' /\ AcksAreOrdered' /\ LinesFollow'
  <2>0. SourceWaits /\ ReachedLately
    BY <1>5 DEF LivesInv
  <2>1. SourceWaits' /\ ReachedLately'
    BY <1>3, <2>0 DEF SourceWaits, ReachedLately, Settled, ThisOne, OneBefore
  <2>2. WayIsOrdered' /\ AcksAreOrdered'
    BY <1>2, <1>3, NothingUnderWay DEF WayIsOrdered, AcksAreOrdered
  <2>3. LinesFollow'
    BY <1>2, <1>3, NothingUnderWay DEF LinesFollow, RecordFits
  <2>. QED
    BY <2>1, <2>2, <2>3
<1>. QED
  BY <1>3, <1>4, <1>5 DEF LivesInv

\* The two parts of LivesAreApart, for a line that is looked up and for write.
LivesStep ==
  ~stale =>
    /\ \A i \in DOMAIN LooksUp :
         LET m == LooksUp[i] IN Given(m) <=> Newer(m, sink.last) \/ m.mid = Zero
    /\ Returns => reached = [life |-> source.life, n |-> source.n]

LEMMA LivesStepHolds == ASSUME LivesInv PROVE LivesStep
<1> SUFFICES ASSUME ~stale PROVE LivesStep
  BY DEF LivesStep
<1>1. ASSUME NEW i \in DOMAIN LooksUp
      PROVE  Given(LooksUp[i]) <=> Newer(LooksUp[i], sink.last) \/ LooksUp[i].mid = Zero
  <2>1. CASE ReadsLine
    <3>1. LooksUp[i] = Head(sink.lines) /\ sink.lines # <<>>
      BY <1>1, <2>1 DEF LooksUp, ReadsLine
    <3>2. Given(Head(sink.lines)) <=> Newer(Head(sink.lines), sink.last) \/ Head(sink.lines).mid = Zero
      BY <3>1, HeadOfLines, LookUpIsRight DEF Given
    <3>. QED
      BY <3>1, <3>2
  <2>2. CASE ~ReadsLine
    <3>1. Arrives /\ sender = "gui"
      BY <1>1, <2>2 DEF LooksUp
    <3>2. LooksUp[i] = Head(toReader) /\ toReader # <<>>
      BY <1>1, <2>2, <3>1 DEF LooksUp, Arrives
    <3>3. Given(Head(toReader)) <=> Newer(Head(toReader), sink.last) \/ Head(toReader).mid = Zero
      BY <3>1, <3>2, HeadOfWay, LookUpIsRight DEF Given
    <3>. QED
      BY <3>2, <3>3
  <2>. QED
    BY <2>1, <2>2
<1>2. ASSUME Returns PROVE reached = [life |-> source.life, n |-> source.n]
  <2>1. LivesTypes /\ SourceWaits
    BY DEF LivesInv
  <2>2. source.n # 0 /\ Settled
    BY <1>2, <2>1 DEF Returns, LivesTypes, Settled
  <2>. QED
    BY <2>1, <2>2 DEF SourceWaits, ThisOne
<1>. QED
  BY <1>1, <1>2 DEF LivesStep

LEMMA LivesInvariance == LivesSpec => []LivesInv
<1>1. LivesInit => LivesInv
  BY LivesInitHolds
<1>2. LivesInv /\ [LivesNext]_livesVars => LivesInv'
  <2> SUFFICES ASSUME LivesInv, [LivesNext]_livesVars PROVE LivesInv'
    OBVIOUS
  <2>1. CASE UNCHANGED livesVars
    BY <2>1 DEF livesVars, LivesInv, LivesTypes, SourceWaits, ReachedLately, WayIsOrdered,
                AcksAreOrdered, LinesFollow, AckFits, Settled, ThisOne, OneBefore, Ascends
  <2>2. CASE LivesNext
    BY <2>2, StartsWriteHolds, SendsLineHolds, TakesAckHolds, ReturnsHolds, ArrivesHolds,
       ReadsLineHolds, SendsAckHolds, LinkFailsHolds, RestartsSenderHolds, RestartsReceiverHolds,
       ConnectsHolds DEF LivesNext
  <2>. QED
    BY <2>1, <2>2
<1>. QED
  BY <1>1, <1>2, PTL DEF LivesSpec

\* The lives of the ends are kept apart, however often either restarts and the link
\* fails, for every size of the record (client.py:337, server.py:255).
THEOREM LivesApart == LivesSpec => LivesAreApart
<1>1. LivesInv => LivesStep
  BY LivesStepHolds
<1>2. LivesInv => [LivesStep]_livesVars
  BY <1>1
<1>. QED
  BY <1>2, LivesInvariance, PTL DEF LivesSpec, LivesAreApart, LivesStep

\* Only the message that is being written is ever pending, also after an ACK of
\* another life was taken for its own; and as long as no line is sent while many are
\* about, there are no more than twice as many, each line becoming one to look up
\* and an ACK.
OnePending == source.pending \subseteq {source.mid} /\ (source.at = "idle" => source.pending = {})
Weight == 2 * Len(toReader) + Len(sink.lines) + Len(sink.acks) + Len(toWriter)
LivesRange == connected \in BOOLEAN /\ OnePending /\ Weight <= 2 * MaxAbout

LEMMA LivesRangeInit == LivesInit => LivesRange
BY PowerCyclesAssumption, EmptySeq
   DEF LivesInit, LivesRange, OnePending, Weight, WriterOf, NewReader

LEMMA LivesRangeStep == ASSUME LivesInv, LivesRange, [LivesNext]_livesVars PROVE LivesRange'
<1>1. LivesTypes /\ MaxAbout \in Nat
  BY PowerCyclesAssumption DEF LivesInv
<1>2. PICK a, b, c, d \in Nat :
        Len(toReader) = a /\ Len(sink.lines) = b /\ Len(sink.acks) = c /\ Len(toWriter) = d
  <2>1. /\ Len(toReader) \in Nat /\ Len(toWriter) \in Nat
        /\ Len(sink.lines) \in Nat /\ Len(sink.acks) \in Nat
    BY <1>1, LenProperties DEF LivesTypes
  <2>. QED
    BY <2>1
<1>3. 2 * a + b + c + d <= 2 * MaxAbout
  BY <1>2 DEF LivesRange, Weight
<1>4. ASSUME NEW k \in Nat, NEW l \in Nat, NEW m \in Nat, NEW n \in Nat,
             Len(toReader') = k, Len(sink'.lines) = l, Len(sink'.acks) = m, Len(toWriter') = n,
             2 * k + l + m + n <= 2 * MaxAbout
      PROVE  Weight' <= 2 * MaxAbout
  BY <1>4 DEF Weight
<1>5. CASE Returns \/ Connects \/ StartsWrite \/ UNCHANGED livesVars
  <2>1. toReader' = toReader /\ toWriter' = toWriter /\ sink' = sink
    BY <1>5 DEF StartsWrite, Returns, Connects, livesVars
  <2>2. Weight' <= 2 * MaxAbout
    BY <1>2, <1>3, <1>4, <2>1
  <2>3. connected' \in BOOLEAN
    BY <1>5 DEF StartsWrite, Returns, Connects, livesVars, LivesRange
  <2>4. CASE StartsWrite
    <3>1. PICK mid : source' = [source EXCEPT !.n = @ + 1, !.mid = mid, !.pending = @ \cup {mid}, !.at = "send"]
      BY <2>4 DEF StartsWrite
    <3>2. source.pending = {}
      BY <2>4 DEF StartsWrite, LivesRange, OnePending
    <3>3. source'.pending = {mid} /\ source'.mid = mid /\ source'.at = "send"
      BY <1>1, <3>1, <3>2 DEF LivesTypes
    <3>. QED
      BY <2>2, <2>3, <3>3 DEF LivesRange, OnePending
  <2>5. CASE Returns
    <3>1. /\ source.mid \notin source.pending /\ source'.pending = source.pending
          /\ source'.mid = source.mid
      BY <1>1, <2>5 DEF Returns, LivesTypes
    <3>. QED
      BY <2>2, <2>3, <3>1 DEF LivesRange, OnePending
  <2>6. CASE Connects \/ UNCHANGED livesVars
    BY <2>2, <2>3, <2>6 DEF Connects, livesVars, LivesRange, OnePending
  <2>. QED
    BY <1>5, <2>4, <2>5, <2>6
<1>6. CASE SendsLine
  <2>1. Len(toReader') = Len(toReader) + 1 /\ toWriter' = toWriter /\ sink' = sink
    BY <1>1, <1>6, AppendProperties DEF SendsLine, Current, LivesTypes
  <2>2. PICK k \in Nat : k = a + 1
    OBVIOUS
  <2>3. Len(toReader') = k
    BY <1>2, <2>1, <2>2
  <2>4. Len(toReader) + Len(sink.lines) + Len(sink.acks) + Len(toWriter) < MaxAbout
    BY <1>6 DEF SendsLine, About
  <2>5. 2 * k + b + c + d <= 2 * MaxAbout
    BY <1>1, <1>2, <2>2, <2>4
  <2>6. Weight' <= 2 * MaxAbout
    BY <1>2, <1>4, <2>1, <2>3, <2>5
  <2>7. source'.pending = source.pending /\ source'.mid = source.mid /\ source'.at = "wait"
    BY <1>1, <1>6 DEF SendsLine, LivesTypes
  <2>8. connected' = connected
    BY <1>6 DEF SendsLine
  <2>. QED
    BY <2>6, <2>7, <2>8 DEF LivesRange, OnePending
<1>7. CASE TakesAck
  <2>1. Len(toWriter') = Len(toWriter) - 1 /\ toReader' = toReader /\ sink' = sink /\ 0 < Len(toWriter)
    BY <1>1, <1>7, HeadTailProperties, EmptySeq, LenProperties DEF TakesAck, LivesTypes
  <2>2. PICK n \in Nat : n = d - 1
    BY <1>2, <2>1
  <2>3. Len(toWriter') = n
    BY <1>2, <2>1, <2>2
  <2>4. 2 * a + b + c + n <= 2 * MaxAbout
    BY <1>1, <1>3, <2>2
  <2>5. Weight' <= 2 * MaxAbout
    BY <1>2, <1>4, <2>1, <2>3, <2>4
  <2>6. source'.pending \subseteq source.pending /\ source'.mid = source.mid /\ source'.at = source.at
    BY <1>1, <1>7 DEF TakesAck, LivesTypes
  <2>7. connected' = connected
    BY <1>7 DEF TakesAck
  <2>. QED
    BY <2>5, <2>6, <2>7 DEF LivesRange, OnePending
<1>8. ASSUME source' = source, connected' = connected, Weight' <= 2 * MaxAbout PROVE LivesRange'
  BY <1>8 DEF OnePending, LivesRange
<1>9. CASE Arrives
  <2>1. toReader # <<>> /\ toReader' = Tail(toReader) /\ toWriter' = toWriter
    BY <1>9 DEF Arrives
  <2>2. Len(toReader') = Len(toReader) - 1 /\ Head(toReader) \in Message /\ 0 < Len(toReader)
    BY <1>1, <2>1, HeadTailProperties, EmptySeq, LenProperties DEF LivesTypes
  <2>3. Len(Append(sink.acks, Head(toReader))) = Len(sink.acks) + 1
    BY <1>1, <2>2, AppendProperties DEF LivesTypes
  <2>4. Len(Append(sink.lines, Head(toReader))) = Len(sink.lines) + 1
    BY <1>1, <2>2, AppendProperties DEF LivesTypes
  <2>5. /\ sink'.acks = Append(sink.acks, Head(toReader))
        /\ sink'.lines = sink.lines \/ sink'.lines = Append(sink.lines, Head(toReader))
    BY <1>1, <1>9 DEF Arrives, LookedUp, LivesTypes
  <2>6. PICK k \in Nat : k = a - 1
    BY <1>2, <2>2
  <2>7. PICK m \in Nat : m = c + 1
    OBVIOUS
  <2>8. PICK l \in Nat : Len(sink'.lines) = l /\ l <= b + 1
    <3>1. CASE sink'.lines = sink.lines
      BY <1>2, <3>1
    <3>2. CASE sink'.lines = Append(sink.lines, Head(toReader))
      <4>1. PICK g \in Nat : g = b + 1
        OBVIOUS
      <4>2. Len(sink'.lines) = g
        BY <1>2, <2>4, <3>2, <4>1
      <4>. QED
        BY <4>1, <4>2
    <3>. QED
      BY <2>5, <3>1, <3>2
  <2>9. k = a - 1 /\ m = c + 1 /\ Len(sink'.lines) = l /\ l <= b + 1
    BY <2>6, <2>7, <2>8
  <2>10. Len(toReader') = k /\ Len(sink'.acks) = m
    <3>1. Len(toReader') = k
      BY <1>2, <2>1, <2>2, <2>6
    <3>2. Len(sink'.acks) = m
      BY <1>2, <2>3, <2>5, <2>7
    <3>. QED
      BY <3>1, <3>2
  <2>11. 2 * k + l + m + d <= 2 * MaxAbout
    BY <1>1, <1>3, <2>9
  <2>12. Weight' <= 2 * MaxAbout
    BY <1>2, <1>4, <2>1, <2>9, <2>10, <2>11
  <2>. QED
    BY <1>8, <1>9, <2>12 DEF Arrives
<1>10. CASE ReadsLine
  <2>1. /\ Len(Tail(sink.lines)) = Len(sink.lines) - 1 /\ 0 < Len(sink.lines)
        /\ sink'.lines = Tail(sink.lines) /\ sink'.acks = sink.acks
        /\ toReader' = toReader /\ toWriter' = toWriter
    BY <1>1, <1>10, HeadTailProperties, EmptySeq, LenProperties DEF ReadsLine, LookedUp, LivesTypes
  <2>2. PICK l \in Nat : l = b - 1
    BY <1>2, <2>1
  <2>3. Len(sink'.lines) = l
    BY <1>2, <2>1, <2>2
  <2>4. 2 * a + l + c + d <= 2 * MaxAbout
    BY <1>1, <1>3, <2>2
  <2>5. Weight' <= 2 * MaxAbout
    BY <1>2, <1>4, <2>1, <2>3, <2>4
  <2>. QED
    BY <1>8, <1>10, <2>5 DEF ReadsLine
<1>11. CASE SendsAck
  <2>1. /\ Len(Tail(sink.acks)) = Len(sink.acks) - 1 /\ Head(sink.acks) \in Message /\ 0 < Len(sink.acks)
        /\ sink'.lines = sink.lines /\ sink'.acks = Tail(sink.acks) /\ toReader' = toReader
    BY <1>1, <1>11, HeadTailProperties, EmptySeq, LenProperties DEF SendsAck, LivesTypes
  <2>2. Len(toWriter') = Len(toWriter) + 1
    BY <1>1, <1>11, <2>1, AppendProperties DEF SendsAck, LivesTypes
  <2>3. PICK m, n \in Nat : m = c - 1 /\ n = d + 1
    BY <1>2, <2>1
  <2>4. Len(sink'.acks) = m /\ Len(toWriter') = n
    BY <1>2, <2>1, <2>2, <2>3
  <2>5. 2 * a + b + m + n <= 2 * MaxAbout
    BY <1>1, <1>3, <2>3
  <2>6. Weight' <= 2 * MaxAbout
    BY <1>2, <1>4, <2>1, <2>4, <2>5
  <2>. QED
    BY <1>8, <1>11, <2>6 DEF SendsAck
<1>12. ASSUME NEW r, r = sink \/ r = NewReader, Outage(r) PROVE Weight' <= 2 * MaxAbout /\ connected' \in BOOLEAN
  <2>1. PICK kept \in {r.acks, <<>>} : sink' = [r EXCEPT !.acks = kept]
    BY <1>12 DEF Outage
  <2>2. sink'.lines = r.lines /\ sink'.acks = kept
    BY <1>1, <1>12, <2>1 DEF NewReader, LivesTypes
  <2>3. /\ r.lines = sink.lines \/ r.lines = <<>>
        /\ kept = sink.acks \/ kept = <<>>
    BY <1>12, <2>1 DEF NewReader
  <2>4. Len(<<>>) = 0 /\ toReader' = <<>> /\ toWriter' = <<>>
    BY <1>12 DEF Outage
  <2>5. PICK l, m \in Nat : Len(sink'.lines) = l /\ Len(sink'.acks) = m /\ l <= b /\ m <= c
    BY <1>2, <2>2, <2>3, <2>4
  <2>6. Len(toReader') = 0 /\ Len(toWriter') = 0
    BY <2>4
  <2>7. 2 * 0 + l + m + 0 <= 2 * MaxAbout
    BY <1>1, <1>3, <2>5
  <2>8. Weight' <= 2 * MaxAbout
    BY <1>4, <2>5, <2>6, <2>7
  <2>. QED
    BY <1>12, <2>8 DEF Outage
<1>13. CASE LinkFails \/ RestartsReceiver
  <2>1. source' = source /\ (Outage(sink) \/ Outage(NewReader))
    BY <1>13 DEF LinkFails, RestartsReceiver
  <2>. QED
    BY <1>12, <2>1 DEF LivesRange, OnePending
<1>14. CASE RestartsSender
  <2>1. source' = WriterOf(source.life + 1) /\ Outage(sink)
    BY <1>14 DEF RestartsSender
  <2>2. OnePending'
    BY <2>1 DEF OnePending, WriterOf
  <2>. QED
    BY <1>12, <2>1, <2>2 DEF LivesRange
<1>. QED
  BY <1>5, <1>6, <1>7, <1>9, <1>10, <1>11, <1>13, <1>14 DEF LivesNext

\* The variables of the lives have their types, the bound on what is about among them.
LEMMA LivesTypesHold == LivesSpec => []LivesTypeOK
<1>1. ASSUME LivesInv, LivesRange PROVE LivesTypeOK
  <2>1. Cardinality(source.pending) <= 1
    <3>1. source.pending = {} \/ source.pending = {source.mid}
      BY <1>1 DEF LivesRange, OnePending
    <3>2. CASE source.pending = {}
      <4>1. Cardinality(source.pending) = 0
        BY <3>2, FS_EmptySet
      <4>. QED
        BY <4>1
    <3>3. CASE source.pending = {source.mid}
      <4>1. Cardinality(source.pending) = 1
        BY <3>3, FS_Singleton
      <4>. QED
        BY <4>1
    <3>. QED
      BY <3>1, <3>2, <3>3
  <2>2. About <= 2 * MaxAbout
    <3>1. PICK a, b, c, d \in Nat :
            Len(toReader) = a /\ Len(sink.lines) = b /\ Len(sink.acks) = c /\ Len(toWriter) = d
      <4>1. /\ Len(toReader) \in Nat /\ Len(toWriter) \in Nat
            /\ Len(sink.lines) \in Nat /\ Len(sink.acks) \in Nat
        BY <1>1, LenProperties DEF LivesInv, LivesTypes
      <4>. QED
        BY <4>1
    <3>2. 2 * a + b + c + d <= 2 * MaxAbout /\ MaxAbout \in Nat
      BY <1>1, <3>1, PowerCyclesAssumption DEF LivesRange, Weight
    <3>3. About = a + b + c + d
      BY <3>1 DEF About
    <3>. QED
      BY <3>2, <3>3
  <2>. QED
    BY <1>1, <2>1, <2>2 DEF LivesInv, LivesTypes, LivesRange, LivesTypeOK
<1>2. LivesInv /\ LivesRange /\ [LivesNext]_livesVars => LivesRange'
  BY LivesRangeStep
<1>. QED
  BY <1>1, <1>2, LivesRangeInit, LivesInvariance, PTL DEF LivesSpec

-----------------------------------------------------------------------------
(* The lines                                                               *)

\* Character j is the k-th of the z characters of line n, the others before it.
Placed(s, j, n, k, z) ==
  /\ s[j] = <<n, k, z>> /\ n > 0 /\ k \in 1 .. z /\ k <= j
  /\ \A m \in 1 .. k : s[j - k + m] = <<n, m, z>>
  /\ j = k \/ s[j - k] = NL
Has(s, j) == \E n, k, z \in Nat : Placed(s, j, n, k, z)

\* The first l characters of s are a text of whole lines, but for the last, in the
\* order of their numbers.
InPlace(s, l) == \A j \in 1 .. l : s[j] # NL => Has(s, j)
Complete(s, l) == \A j \in 2 .. l : s[j] = NL /\ s[j - 1] # NL => s[j - 1][2] = s[j - 1][3]
TwoInTurn(s, i, j) ==
  i < j /\ s[i] # NL /\ s[j] # NL =>
    /\ s[i][1] <= s[j][1]
    /\ \A m \in i .. j : s[m] = NL => s[i][1] < s[j][1]
InTurn(s, l) == \A i, j \in 1 .. l : TwoInTurn(s, i, j)
Text(s, l) == InPlace(s, l) /\ Complete(s, l) /\ InTurn(s, l)

\* The last line has ended; no number is above c.
Ended(s, l) == l = 0 \/ s[l] = NL
Below(s, l, c) == \A j \in 1 .. l : s[j] # NL => s[j][1] <= c

\* A character is no newline, and its numbers are those it was made of.
LEMMA CharNumbers ==
  ASSUME NEW n \in Nat, NEW k \in Nat, NEW z \in Nat
  PROVE  /\ (k > 0 => <<n, k, z>> # NL) /\ (n > 0 => <<n, k, z>> # NL)
         /\ <<n, k, z>>[1] = n /\ <<n, k, z>>[2] = k /\ <<n, k, z>>[3] = z
BY DEF NL

\* A character keeps its place when what goes before its line is dropped.
LEMMA PlacedDrops ==
  ASSUME NEW s, NEW r, NEW l \in Nat, NEW m \in 0 .. l, \A i \in 1 .. l - m : r[i] = s[i + m],
         m = 0 \/ s[m] = NL, NEW j \in 1 .. l - m,
         NEW n \in Nat, NEW k \in Nat, NEW z \in Nat, Placed(s, j + m, n, k, z)
  PROVE  Placed(r, j, n, k, z)
<1>1. k <= j
  <2> SUFFICES ASSUME k > j PROVE FALSE
    OBVIOUS
  <2>1. m > 0 /\ s[m] = NL
    BY DEF Placed
  <2>2. k - j \in 1 .. k /\ (j + m) - k + (k - j) = m
    BY <2>1 DEF Placed
  <2>3. PICK h \in 1 .. k : h = k - j
    BY <2>2
  <2>4. s[(j + m) - k + h] = <<n, h, z>>
    BY DEF Placed
  <2>5. h \in Nat /\ h > 0
    BY <2>3
  <2>6. <<n, h, z>> # NL
    BY <2>5, CharNumbers
  <2>. QED
    BY <2>1, <2>2, <2>3, <2>4, <2>6
<1>2. r[j] = <<n, k, z>> /\ n > 0 /\ k \in 1 .. z
  BY DEF Placed
<1>3. ASSUME NEW h \in 1 .. k PROVE r[j - k + h] = <<n, h, z>>
  <2>1. j - k + h \in 1 .. l - m /\ (j - k + h) + m = (j + m) - k + h
    BY <1>1
  <2>. QED
    BY <2>1 DEF Placed
<1>4. j = k \/ r[j - k] = NL
  <2>1. CASE j > k
    <3>1. j - k \in 1 .. l - m /\ (j - k) + m = (j + m) - k /\ (j + m) # k
      BY <1>1, <2>1
    <3>. QED
      BY <3>1 DEF Placed
  <2>. QED
    BY <1>1, <2>1
<1>. QED
  BY <1>1, <1>2, <1>3, <1>4 DEF Placed

\* What is left of a text from the beginning of a line on.
LEMMA TextDrops ==
  ASSUME NEW s, NEW r, NEW l \in Nat, NEW m \in 0 .. l,
         \A i \in 1 .. l - m : r[i] = s[i + m], m = 0 \/ s[m] = NL, Text(s, l)
  PROVE  Text(r, l - m)
<1>3. InPlace(r, l - m)
  <2> SUFFICES ASSUME NEW j \in 1 .. l - m, r[j] # NL PROVE Has(r, j)
    BY DEF InPlace
  <2>1. j + m \in 1 .. l /\ s[j + m] # NL
    OBVIOUS
  <2>2. PICK n, k, z \in Nat : Placed(s, j + m, n, k, z)
    BY <2>1 DEF Text, InPlace, Has
  <2>3. Placed(r, j, n, k, z)
    BY <2>2, PlacedDrops
  <2>. QED
    BY <2>3 DEF Has
<1>4. Complete(r, l - m)
  <2> SUFFICES ASSUME NEW j \in 2 .. l - m, r[j] = NL, r[j - 1] # NL PROVE r[j - 1][2] = r[j - 1][3]
    BY DEF Complete
  <2>1. j \in 1 .. l - m /\ j - 1 \in 1 .. l - m /\ j + m \in 2 .. l /\ (j - 1) + m = (j + m) - 1
    OBVIOUS
  <2>2. r[j] = s[j + m] /\ r[j - 1] = s[(j + m) - 1]
    BY <2>1
  <2>. QED
    BY <2>1, <2>2 DEF Text, Complete
<1>5. InTurn(r, l - m)
  <2> SUFFICES ASSUME NEW i \in 1 .. l - m, NEW j \in 1 .. l - m PROVE TwoInTurn(r, i, j)
    BY DEF InTurn
  <2>1. i + m \in 1 .. l /\ j + m \in 1 .. l /\ (i < j <=> i + m < j + m)
    OBVIOUS
  <2>2. TwoInTurn(s, i + m, j + m)
    BY <2>1 DEF Text, InTurn
  <2>3. r[i] = s[i + m] /\ r[j] = s[j + m]
    OBVIOUS
  <2>4. \A h \in i .. j : h + m \in (i + m) .. (j + m) /\ r[h] = s[h + m]
    OBVIOUS
  <2>. QED
    BY <2>1, <2>2, <2>3, <2>4 DEF TwoInTurn
<1>. QED
  BY <1>3, <1>4, <1>5 DEF Text

\* A text as far as it is the same.
LEMMA HasStays ==
  ASSUME NEW s, NEW r, NEW l \in Nat, \A i \in 1 .. l : r[i] = s[i], NEW j \in 1 .. l, Has(s, j)
  PROVE  Has(r, j)
<1>1. PICK n, k, z \in Nat : Placed(s, j, n, k, z)
  BY DEF Has
<1>2. \A h \in 1 .. k : j - k + h \in 1 .. l
  BY <1>1 DEF Placed
<1>3. j = k \/ j - k \in 1 .. l
  BY <1>1 DEF Placed
<1>4. Placed(r, j, n, k, z)
  BY <1>1, <1>2, <1>3 DEF Placed
<1>. QED
  BY <1>4 DEF Has

LEMMA TextStays ==
  ASSUME NEW s, NEW r, NEW l \in Nat, \A i \in 1 .. l : r[i] = s[i], Text(s, l)
  PROVE  Text(r, l)
<1>1. InPlace(r, l)
  BY HasStays DEF Text, InPlace
<1>2. Complete(r, l)
  <2> SUFFICES ASSUME NEW j \in 2 .. l, r[j] = NL, r[j - 1] # NL PROVE r[j - 1][2] = r[j - 1][3]
    BY DEF Complete
  <2>1. j \in 1 .. l /\ j - 1 \in 1 .. l
    OBVIOUS
  <2>. QED
    BY <2>1 DEF Text, Complete
<1>3. InTurn(r, l)
  <2> SUFFICES ASSUME NEW i \in 1 .. l, NEW j \in 1 .. l PROVE TwoInTurn(r, i, j)
    BY DEF InTurn
  <2>1. TwoInTurn(s, i, j)
    BY DEF Text, InTurn
  <2>2. \A h \in i .. j : r[h] = s[h]
    OBVIOUS
  <2>. QED
    BY <2>1, <2>2 DEF TwoInTurn
<1>. QED
  BY <1>1, <1>2, <1>3 DEF Text

\* The beginning of a text is one.
LEMMA TextPrefix ==
  ASSUME NEW s, NEW l \in Nat, NEW m \in 0 .. l, Text(s, l)
  PROVE  Text(s, m)
BY DEF Text, InPlace, Complete, InTurn

\* The number of a character.
LEMMA NumberIs ==
  ASSUME NEW s, NEW l \in Nat, Text(s, l), NEW j \in 1 .. l, s[j] # NL
  PROVE  s[j][1] \in Nat /\ s[j][1] > 0
<1>1. PICK n, k, z \in Nat : Placed(s, j, n, k, z)
  BY DEF Text, InPlace, Has
<1>. QED
  BY <1>1, CharNumbers DEF Placed

\* A line that is begun when the one before has ended.
LEMMA TextGrows ==
  ASSUME NEW s, NEW r, NEW l \in Nat, NEW c \in Nat, NEW z \in Nat, NEW m \in Nat, m = l + z + 1,
         \A i \in 1 .. l : r[i] = s[i],
         \A i \in 1 .. z : r[l + i] = <<c + 1, i, z>>, r[m] = NL,
         Text(s, l), Ended(s, l), Below(s, l, c)
  PROVE  Text(r, m) /\ Ended(r, m) /\ Below(r, m, c + 1)
<1>1. l = 0 \/ r[l] = NL
  BY DEF Ended
<1>3. \A j \in l + 1 .. m - 1 : \E i \in 1 .. z : j = l + i
  <2> TAKE j \in l + 1 .. m - 1
  <2>1. j - l \in 1 .. z /\ j = l + (j - l)
    OBVIOUS
  <2>. QED
    BY <2>1
<1>4. \A i \in 1 .. z : /\ r[l + i] # NL /\ r[l + i][1] = c + 1 /\ r[l + i][2] = i /\ r[l + i][3] = z
  <2> TAKE i \in 1 .. z
  <2>1. r[l + i] = <<c + 1, i, z>> /\ c + 1 \in Nat /\ i \in Nat /\ i > 0
    OBVIOUS
  <2>. QED
    BY <2>1, CharNumbers
<1>5. Text(r, l)
  BY TextStays
<1>6. InPlace(r, m)
  <2> SUFFICES ASSUME NEW j \in 1 .. m, r[j] # NL PROVE Has(r, j)
    BY DEF InPlace
  <2>1. CASE j <= l
    BY <1>5, <2>1 DEF Text, InPlace
  <2>2. CASE j > l
    <3>0. j # m
      OBVIOUS
    <3>. j \in l + 1 .. m - 1
      BY <2>2, <3>0
    <3>1. PICK i \in 1 .. z : j = l + i
      BY <1>3
    <3>3. \A h \in 1 .. i : j - i + h = l + h /\ h \in 1 .. z
      BY <3>1
    <3>4. j - i = l /\ i <= j /\ (j = i \/ l # 0) /\ i \in 1 .. z /\ c + 1 > 0 /\ c + 1 \in Nat
      BY <3>1
    <3>5. \A h \in 1 .. i : r[j - i + h] = <<c + 1, h, z>>
      BY <3>3
    <3>6. Placed(r, j, c + 1, i, z)
      BY <1>1, <3>1, <3>4, <3>5 DEF Placed
    <3>. QED
      BY <3>4, <3>6 DEF Has
  <2>. QED
    BY <2>1, <2>2
<1>7. Complete(r, m)
  <2> SUFFICES ASSUME NEW j \in 2 .. m, r[j] = NL, r[j - 1] # NL PROVE r[j - 1][2] = r[j - 1][3]
    BY DEF Complete
  <2>1. CASE j <= l
    BY <1>5, <2>1 DEF Text, Complete
  <2>2. CASE j > l
    <3>1. j = m
      <4> SUFFICES ASSUME j # m PROVE FALSE
        OBVIOUS
      <4>. j \in l + 1 .. m - 1
        BY <2>2
      <4>1. PICK i \in 1 .. z : j = l + i
        BY <1>3
      <4>. QED
        BY <1>4, <4>1
    <3>2. z > 0
      <4> SUFFICES ASSUME z = 0 PROVE FALSE
        OBVIOUS
      <4>1. j - 1 = l /\ l > 0
        BY <3>1
      <4>. QED
        BY <1>1, <4>1
    <3>3. j - 1 = l + z /\ z \in 1 .. z
      BY <3>1, <3>2
    <3>. QED
      BY <1>4, <3>3
  <2>. QED
    BY <2>1, <2>2
<1>8. \A j \in 1 .. l : r[j] # NL => r[j][1] <= c /\ r[j][1] \in Nat
  BY <1>5, NumberIs DEF Below
<1>9. InTurn(r, m)
  <2> SUFFICES ASSUME NEW i \in 1 .. m, NEW j \in 1 .. m, i < j, r[i] # NL, r[j] # NL
               PROVE  /\ r[i][1] <= r[j][1]
                      /\ \A h \in i .. j : r[h] = NL => r[i][1] < r[j][1]
    BY DEF InTurn, TwoInTurn
  <2>1. CASE j <= l
    <3>1. TwoInTurn(r, i, j)
      BY <1>5, <2>1 DEF Text, InTurn
    <3>. QED
      BY <3>1 DEF TwoInTurn
  <2>2. CASE j > l
    <3>0. j # m
      OBVIOUS
    <3>. j \in l + 1 .. m - 1
      BY <2>2, <3>0
    <3>1. PICK y \in 1 .. z : j = l + y
      BY <1>3
    <3>2. CASE i <= l
      <4>1. r[i][1] <= c /\ r[i][1] \in Nat
        BY <1>8, <3>2
      <4>2. r[j][1] = c + 1
        BY <1>4, <3>1
      <4>. QED
        BY <4>1, <4>2
    <3>3. CASE i > l
      <4>1. ASSUME NEW h \in i .. j PROVE r[h] # NL /\ r[h][1] = c + 1
        <5>0. h \in l + 1 .. m - 1
          BY <3>1, <3>3
        <5>1. PICK x \in 1 .. z : h = l + x
          BY <1>3, <5>0
        <5>. QED
          BY <1>4, <5>1
      <4>2. r[i][1] = c + 1 /\ r[j][1] = c + 1
        BY <4>1
      <4>. QED
        BY <4>1, <4>2
    <3>. QED
      BY <3>2, <3>3
  <2>. QED
    BY <2>1, <2>2
<1>10. Ended(r, m)
  BY DEF Ended
<1>11. Below(r, m, c + 1)
  <2> SUFFICES ASSUME NEW j \in 1 .. m, r[j] # NL PROVE r[j][1] <= c + 1
    BY DEF Below
  <2>1. CASE j <= l
    BY <1>8, <2>1
  <2>2. CASE j > l
    <3>0. j # m
      OBVIOUS
    <3>. j \in l + 1 .. m - 1
      BY <2>2, <3>0
    <3>1. PICK y \in 1 .. z : j = l + y
      BY <1>3
    <3>2. r[j][1] = c + 1
      BY <1>4, <3>1
    <3>. QED
      BY <3>2
  <2>. QED
    BY <2>1, <2>2
<1>. QED
  BY <1>6, <1>7, <1>9, <1>10, <1>11 DEF Text
\* The k-th smallest number of a finite set is there, and they ascend.
Rank(S, i) == Cardinality({j \in S : j <= i})

LEMMA RankIs ==
  ASSUME NEW S \in SUBSET Nat, IsFiniteSet(S), NEW i \in S
  PROVE  Rank(S, i) \in 1 .. Cardinality(S) /\ IsFiniteSet({j \in S : j <= i})
<1> DEFINE T == {j \in S : j <= i}
<1>1. T \in SUBSET S /\ i \in T
  OBVIOUS
<1>2. IsFiniteSet(T) /\ Cardinality(T) <= Cardinality(S)
  BY <1>1, FS_Subset
<1>3. Cardinality(T) \in Nat /\ Cardinality(S) \in Nat
  BY <1>2, FS_CardinalityType
<1>4. Cardinality(T) # 0
  BY <1>1, <1>2, FS_EmptySet
<1>. QED
  BY <1>2, <1>3, <1>4 DEF Rank

\* Of two numbers of a set the greater has the greater rank.
LEMMA RankRises ==
  ASSUME NEW S \in SUBSET Nat, IsFiniteSet(S), NEW i \in S, NEW j \in S, i < j
  PROVE  Rank(S, i) < Rank(S, j)
<1> DEFINE T == {h \in S : h <= i}
           U == {h \in S : h <= j}
<1>1. T \in SUBSET U /\ j \in U /\ j \notin T
  <2>1. ASSUME NEW h \in T PROVE h \in U
    <3>1. h \in S /\ h <= i /\ h \in Nat /\ i \in Nat /\ j \in Nat
      OBVIOUS
    <3>2. h <= j
      BY <3>1
    <3>. QED
      BY <3>1, <3>2
  <2>2. i \in Nat /\ j \in Nat /\ ~(j <= i) /\ j <= j
    OBVIOUS
  <2>3. j \in U /\ j \notin T
    BY <2>2
  <2> HIDE DEF T, U
  <2>. QED
    BY <2>1, <2>3
<1>2. IsFiniteSet(U)
  BY RankIs
<1>3. Cardinality(T) <= Cardinality(U) /\ Cardinality(T) # Cardinality(U)
  <2> HIDE DEF T, U
  <2>. QED
    BY <1>1, <1>2, FS_Subset
<1>4. Rank(S, i) \in Nat /\ Rank(S, j) \in Nat /\ Rank(S, i) = Cardinality(T) /\ Rank(S, j) = Cardinality(U)
  BY RankIs DEF Rank
<1>. QED
  BY <1>3, <1>4

\* Each rank is that of one number, which Nth finds.
LEMMA NthIs ==
  ASSUME NEW S \in SUBSET Nat, IsFiniteSet(S), NEW k \in 1 .. Cardinality(S)
  PROVE  Nth(S, k) \in S /\ Rank(S, Nth(S, k)) = k
<1> DEFINE n == Cardinality(S)
           f == [i \in S |-> Rank(S, i)]
<1>1. n \in Nat
  BY FS_CardinalityType
<1>2. f \in [S -> 1 .. n]
  BY RankIs
<1>3. \A i, j \in S : f[i] = f[j] => i = j
  <2> SUFFICES ASSUME NEW i \in S, NEW j \in S, i # j PROVE Rank(S, i) # Rank(S, j)
    OBVIOUS
  <2>1. Rank(S, i) \in Nat /\ Rank(S, j) \in Nat
    <3> HIDE DEF n, f
    <3>1. Rank(S, i) \in 1 .. Cardinality(S) /\ Rank(S, j) \in 1 .. Cardinality(S)
      BY RankIs
    <3>. QED
      BY <1>1, <3>1 DEF n
  <2>2. CASE i < j
    BY <2>1, <2>2, RankRises
  <2>3. CASE j < i
    BY <2>1, <2>3, RankRises
  <2>4. i \in Nat /\ j \in Nat
    OBVIOUS
  <2>. QED
    BY <2>2, <2>3, <2>4
<1>4. f \in Injection(S, 1 .. n)
  BY <1>2, <1>3 DEF Injection, IsInjective
<1>5. IsFiniteSet(1 .. n) /\ Cardinality(1 .. n) = n
  BY <1>1, FS_Interval
<1>6. f \in Surjection(S, 1 .. n)
  <2> HIDE DEF f
  <2>. QED
    BY <1>4, <1>5, FS_Injection
<1>7. \E i \in S : Rank(S, i) = k
  <2>1. \E i \in S : f[i] = k
    <3> HIDE DEF f
    <3>. QED
      BY <1>6 DEF Surjection
  <2>. QED
    BY <2>1
<1>8. \E i \in S : Cardinality({j \in S : j <= i}) = k
  BY <1>7 DEF Rank
<1>. QED
  BY <1>8 DEF Nth, Rank

\* Nth ascends.
LEMMA NthAscends ==
  ASSUME NEW S \in SUBSET Nat, IsFiniteSet(S), NEW k \in 1 .. Cardinality(S), NEW l \in 1 .. Cardinality(S), k < l
  PROVE  Nth(S, k) < Nth(S, l)
<1>1. /\ Nth(S, k) \in S /\ Rank(S, Nth(S, k)) = k
      /\ Nth(S, l) \in S /\ Rank(S, Nth(S, l)) = l
  BY NthIs
<1>2. PICK i \in S, j \in S : i = Nth(S, k) /\ j = Nth(S, l)
  BY <1>1
<1>3. Rank(S, i) = k /\ Rank(S, j) = l
  BY <1>1, <1>2
<1>4. ~(j < i) /\ i # j
  BY <1>3, RankRises
<1>. QED
  BY <1>2, <1>4

\* The first is the least,
LEMMA FirstIs ==
  ASSUME NEW S \in SUBSET Nat, IsFiniteSet(S), S # {}
  PROVE  Nth(S, 1) \in S /\ \A i \in S : Nth(S, 1) <= i
<1>1. Cardinality(S) \in Nat /\ Cardinality(S) # 0
  BY FS_CardinalityType, FS_EmptySet
<1>2. Nth(S, 1) \in S /\ Rank(S, Nth(S, 1)) = 1
  BY <1>1, NthIs
<1>3. PICK p \in S : p = Nth(S, 1)
  BY <1>2
<1>4. ASSUME NEW i \in S, i < p PROVE FALSE
  <2>1. Rank(S, i) < 1 /\ Rank(S, i) \in 1 .. Cardinality(S)
    BY <1>2, <1>3, <1>4, RankRises, RankIs
  <2>. QED
    BY <1>1, <2>1
<1>. QED
  BY <1>2, <1>3, <1>4

\* Where a piece begins.
LEMMA PieceStartIs ==
  ASSUME NEW s, NEW i \in Nat, NEW p \in 1 .. i + 1, p = 1 \/ s[p - 1] = NL,
         \A j \in p .. i : s[j] # NL
  PROVE  PieceStart(s, i) = p
<1> DEFINE P(q) == (q = 1 \/ s[q - 1] = NL) /\ \A j \in q .. i : s[j] # NL
<1>1. P(p)
  OBVIOUS
<1>2. ASSUME NEW q \in 1 .. i + 1, P(q) PROVE q = p
  <2>1. CASE q < p
    <3>1. p - 1 \in q .. i /\ p # 1
      BY <2>1
    <3>. QED
      BY <1>1, <1>2, <3>1
  <2>2. CASE p < q
    <3>1. q - 1 \in p .. i /\ q # 1
      BY <2>2
    <3>. QED
      BY <1>1, <1>2, <3>1
  <2>. QED
    BY <2>1, <2>2
<1>3. PieceStart(s, i) = CHOOSE q \in 1 .. i + 1 : P(q)
  BY DEF PieceStart
<1> HIDE DEF P
<1>. QED
  BY <1>1, <1>2, <1>3

\* A text is cut where a line ends: the piece is the whole line.
IsCut(s, e, n, z) ==
  /\ n = s[e - 1][1] /\ PieceStart(s, e - 1) = e - z
  /\ \A i \in 1 .. z : s[(e - z) + i - 1] = <<n, i, z>>

LEMMA CutIs ==
  ASSUME NEW s, NEW l \in Nat, Text(s, l), NEW e \in 2 .. l, s[e] = NL, s[e - 1] # NL
  PROVE  \E n \in Nat, z \in 1 .. e - 1 : IsCut(s, e, n, z)
<1>1. e - 1 \in 1 .. l /\ e - 1 \in Nat
  OBVIOUS
<1>2. PICK n, k, z \in Nat : Placed(s, e - 1, n, k, z)
  BY <1>1 DEF Text, InPlace, Has
<1>3. s[e - 1] = <<n, k, z>> /\ n > 0 /\ k \in 1 .. z /\ k <= e - 1
  BY <1>2 DEF Placed
<1>4. s[e - 1][2] = s[e - 1][3]
  BY DEF Text, Complete
<1>5. k = z /\ s[e - 1][1] = n
  BY <1>3, <1>4, CharNumbers
<1>6. ASSUME NEW i \in 1 .. z PROVE s[(e - z) + i - 1] = <<n, i, z>>
  <2>1. (e - z) + i - 1 = (e - 1) - z + i
    OBVIOUS
  <2>2. s[(e - 1) - z + i] = <<n, i, z>>
    BY <1>2, <1>5 DEF Placed
  <2>. QED
    BY <2>1, <2>2
<1>7. e - z \in 1 .. (e - 1) + 1
  BY <1>3, <1>5
<1>8. e - z = 1 \/ s[(e - z) - 1] = NL
  <2>1. e - 1 = z \/ s[(e - 1) - z] = NL
    BY <1>2, <1>5 DEF Placed
  <2>2. (e - 1) - z = (e - z) - 1
    OBVIOUS
  <2>. QED
    BY <2>1, <2>2
<1>9. ASSUME NEW j \in e - z .. e - 1 PROVE s[j] # NL
  <2>1. j - (e - z) + 1 \in 1 .. z
    BY <1>3, <1>5
  <2>2. PICK i \in 1 .. z : i = j - (e - z) + 1
    BY <2>1
  <2>3. (e - z) + i - 1 = j /\ i \in Nat /\ i > 0
    BY <2>2
  <2>4. s[j] = <<n, i, z>>
    BY <1>6, <2>3
  <2>. QED
    BY <2>3, <2>4, CharNumbers
<1>10. PieceStart(s, e - 1) = e - z
  BY <1>1, <1>7, <1>8, <1>9, PieceStartIs
<1>11. n \in Nat /\ z \in 1 .. e - 1
  BY <1>3, <1>5
<1>12. IsCut(s, e, n, z)
  BY <1>5, <1>6, <1>10 DEF IsCut
<1>. QED
  BY <1>11, <1>12

\* and the last the greatest.
LEMMA LastIs ==
  ASSUME NEW S \in SUBSET Nat, IsFiniteSet(S), S # {}
  PROVE  \E p \in S : \A i \in S : i <= p
<1> DEFINE n == Cardinality(S)
<1>1. n \in Nat /\ n # 0
  BY FS_CardinalityType, FS_EmptySet
<1>2. Nth(S, n) \in S /\ Rank(S, Nth(S, n)) = n
  BY <1>1, NthIs
<1>3. PICK p \in S : p = Nth(S, n)
  BY <1>2
<1>4. ASSUME NEW i \in S, p < i PROVE FALSE
  <2>1. n < Rank(S, i) /\ Rank(S, i) \in 1 .. n
    BY <1>2, <1>3, <1>4, RankRises, RankIs
  <2> HIDE DEF n
  <2>. QED
    BY <1>1, <2>1
<1>. QED
  BY <1>3, <1>4

\* Every character is in a piece, which begins after a newline or with the string.
LEMMA PieceStarts ==
  ASSUME NEW s, NEW i \in Nat
  PROVE  \E p \in 1 .. i + 1 :
           /\ PieceStart(s, i) = p /\ (p = 1 \/ s[p - 1] = NL)
           /\ \A j \in p .. i : s[j] # NL
<1> SUFFICES \E p \in 1 .. i + 1 : (p = 1 \/ s[p - 1] = NL) /\ \A j \in p .. i : s[j] # NL
  BY PieceStartIs
<1> DEFINE C == {j \in 1 .. i : s[j] = NL}
<1>1. CASE C = {}
  <2>1. 1 \in 1 .. i + 1 /\ \A j \in 1 .. i : s[j] # NL
    BY <1>1
  <2>. QED
    BY <2>1
<1>2. CASE C # {}
  <2>1. C \in SUBSET (1 .. i) /\ IsFiniteSet(1 .. i) /\ \A j \in 1 .. i : j \in Nat
    BY FS_Interval
  <2>2. \E m \in C : \A j \in C : j <= m
    <3> HIDE DEF C
    <3>1. C \in SUBSET Nat /\ IsFiniteSet(C)
      BY <2>1, FS_Subset
    <3>. QED
      BY <1>2, <3>1, LastIs
  <2>3. PICK m \in 1 .. i : s[m] = NL /\ \A j \in C : j <= m
    BY <2>2
  <2>4. m + 1 \in 1 .. i + 1 /\ (m + 1) - 1 = m
    OBVIOUS
  <2>5. ASSUME NEW j \in m + 1 .. i PROVE s[j] # NL
    <3>1. j \in 1 .. i /\ ~(j <= m)
      OBVIOUS
    <3>. QED
      BY <2>3, <3>1
  <2>. QED
    BY <2>3, <2>4, <2>5
<1>. QED
  BY <1>1, <1>2

\* Characters, and sequences of them.
Chars == Nat \X Nat \X Nat
Line(x, n) == x # <<>> /\ x[1][1] = n /\ Whole(x)

\* Piece x of s: characters a to b.
LEMMA PieceIs ==
  ASSUME NEW s \in Seq(Chars), NEW a \in 1 .. Len(s) + 1, NEW b \in 0 .. Len(s), a <= b + 1
  PROVE  /\ SubSeq(s, a, b) \in Seq(Chars) /\ Len(SubSeq(s, a, b)) = b - a + 1
         /\ \A i \in 1 .. b - a + 1 : SubSeq(s, a, b)[i] = s[a + i - 1]
<1>1. Len(s) \in Nat
  OBVIOUS
<1>2. \A i \in a .. b : i \in 1 .. Len(s)
  BY <1>1
<1>. QED
  BY <1>1, <1>2, SubSeqProperties

\* A piece with the characters of a line is that line.
LEMMA PieceIsLine ==
  ASSUME NEW x \in Seq(Chars), NEW n \in Nat, NEW z \in Nat \ {0}, Len(x) = z,
         \A i \in 1 .. z : x[i] = <<n, i, z>>
  PROVE  Line(x, n)
<1>1. x[1] = <<n, 1, z>> /\ DOMAIN x = 1 .. z
  OBVIOUS
<1>2. x[1][1] = n
  BY <1>1, CharNumbers
<1>3. x # <<>>
  BY <1>1
<1>. QED
  BY <1>1, <1>2, <1>3 DEF Line, Whole

\* What is cut out of a text at the end of a line is the whole line.
LEMMA CutIsLine ==
  ASSUME NEW s \in Seq(Chars), Text(s, Len(s)), NEW e \in 2 .. Len(s), s[e] = NL, s[e - 1] # NL
  PROVE  /\ SubSeq(s, PieceStart(s, e - 1), e - 1) \in Seq(Chars)
         /\ Line(SubSeq(s, PieceStart(s, e - 1), e - 1), s[e - 1][1])
<1> DEFINE l == Len(s)
<1>1. l \in Nat
  OBVIOUS
<1>2. PICK n \in Nat, z \in 1 .. e - 1 : IsCut(s, e, n, z)
  <2>1. Text(s, l) /\ e \in 2 .. l
    OBVIOUS
  <2> HIDE DEF l
  <2>. QED
    BY <1>1, <2>1, CutIs
<1> DEFINE a == e - z
           x == SubSeq(s, a, e - 1)
<1>3. a \in 1 .. l + 1 /\ e - 1 \in 0 .. l /\ a <= (e - 1) + 1 /\ (e - 1) - a + 1 = z /\ z \in Nat \ {0}
  BY <1>1
<1>4. x \in Seq(Chars) /\ Len(x) = (e - 1) - a + 1 /\ \A i \in 1 .. (e - 1) - a + 1 : x[i] = s[a + i - 1]
  <2> HIDE DEF a
  <2>. QED
    BY <1>3, PieceIs
<1>5. x \in Seq(Chars) /\ Len(x) = z /\ \A i \in 1 .. z : x[i] = <<n, i, z>>
  <2> HIDE DEF x
  <2>. QED
    BY <1>2, <1>3, <1>4 DEF IsCut
<1>6. Line(x, n)
  <2> HIDE DEF x
  <2>. QED
    BY <1>3, <1>5, PieceIsLine
<1>. QED
  BY <1>2, <1>5, <1>6 DEF IsCut

\* Where the k-th line ends.
LineEnd(s, k) == Nth(LineEnds(s), k)

\* The lines of a text are whole, and in the order in which they end.
LEMMA LinesAre ==
  ASSUME NEW s \in Seq(Chars), Text(s, Len(s))
  PROVE  /\ Lines(s) \in Seq(Seq(Chars))
         /\ \A k \in 1 .. Len(Lines(s)) :
              /\ LineEnd(s, k) \in 2 .. Len(s)
              /\ s[LineEnd(s, k)] = NL /\ s[LineEnd(s, k) - 1] # NL
              /\ Line(Lines(s)[k], s[LineEnd(s, k) - 1][1])
         /\ \A k, m \in 1 .. Len(Lines(s)) : k < m => LineEnd(s, k) < LineEnd(s, m)
<1> DEFINE S == LineEnds(s)
           N == Cardinality(S)
           At(k) == SubSeq(s, PieceStart(s, Nth(S, k) - 1), Nth(S, k) - 1)
<1>1. S \in SUBSET Nat /\ IsFiniteSet(S) /\ N \in Nat
  <2>1. S \in SUBSET (1 .. Len(s)) /\ Len(s) \in Nat
    BY DEF LineEnds
  <2>2. IsFiniteSet(1 .. Len(s))
    BY <2>1, FS_Interval
  <2>3. \A i \in 1 .. Len(s) : i \in Nat
    OBVIOUS
  <2> HIDE DEF S
  <2>. QED
    BY <2>1, <2>2, <2>3, FS_Subset, FS_CardinalityType
<1>2. Lines(s) = [k \in 1 .. N |-> At(k)]
  BY DEF Lines
<1>3. ASSUME NEW k \in 1 .. N
      PROVE  /\ LineEnd(s, k) \in 2 .. Len(s) /\ s[LineEnd(s, k)] = NL /\ s[LineEnd(s, k) - 1] # NL
             /\ At(k) \in Seq(Chars) /\ Line(At(k), s[LineEnd(s, k) - 1][1])
  <2>1. Nth(S, k) \in S
    <3> HIDE DEF S
    <3>. QED
      BY <1>1, NthIs DEF N
  <2>2. PICK e \in 2 .. Len(s) : e = Nth(S, k) /\ s[e] = NL /\ s[e - 1] # NL
    BY <2>1 DEF LineEnds
  <2>3. e = LineEnd(s, k)
    BY <2>2 DEF LineEnd
  <2> DEFINE c == SubSeq(s, PieceStart(s, e - 1), e - 1)
  <2>4. c \in Seq(Chars) /\ Line(c, s[e - 1][1])
    BY <2>2, CutIsLine
  <2>5. At(k) = c
    BY <2>2
  <2> HIDE DEF c, At
  <2>. QED
    BY <2>2, <2>3, <2>4, <2>5
<1>4. \A k, m \in 1 .. N : k < m => LineEnd(s, k) < LineEnd(s, m)
  <2> HIDE DEF S
  <2>. QED
    BY <1>1, NthAscends DEF LineEnd, N, S
<1> HIDE DEF At, N
<1>5. Lines(s) \in Seq(Seq(Chars)) /\ Len(Lines(s)) = N /\ \A k \in 1 .. N : Lines(s)[k] = At(k)
  <2>1. \A k \in 1 .. N : At(k) \in Seq(Chars)
    BY <1>3
  <2> HIDE DEF S
  <2>. QED
    BY <1>1, <1>2, <2>1
<1>. QED
  BY <1>3, <1>4, <1>5

\* r is what follows the first m characters of s.
Drops(s, r, m) ==
  /\ m \in 0 .. Len(s) /\ r \in Seq(Chars) /\ Len(r) = Len(s) - m
  /\ \A i \in 1 .. Len(s) - m : r[i] = s[i + m]
AtBreak(s, m) == m = 0 \/ s[m] = NL

LEMMA SuffixDrops ==
  ASSUME NEW s \in Seq(Chars), NEW p \in 1 .. Len(s) + 1
  PROVE  Drops(s, SubSeq(s, p, Len(s)), p - 1)
<1>1. Len(s) \in Nat
  OBVIOUS
<1>2. p \in 1 .. Len(s) + 1 /\ Len(s) \in 0 .. Len(s) /\ p <= Len(s) + 1
  BY <1>1
<1>3. /\ SubSeq(s, p, Len(s)) \in Seq(Chars) /\ Len(SubSeq(s, p, Len(s))) = Len(s) - p + 1
      /\ \A i \in 1 .. Len(s) - p + 1 : SubSeq(s, p, Len(s))[i] = s[p + i - 1]
  BY <1>2, PieceIs
<1>4. Len(s) - p + 1 = Len(s) - (p - 1) /\ p - 1 \in 0 .. Len(s)
  BY <1>1
<1>5. \A i \in 1 .. Len(s) - (p - 1) : p + i - 1 = i + (p - 1)
  OBVIOUS
<1>. QED
  BY <1>3, <1>4, <1>5 DEF Drops

\* Remainder drops the lines, Lstrip the leading newlines.
LEMMA RemainderIs ==
  ASSUME NEW s \in Seq(Chars)
  PROVE  \E m \in 0 .. Len(s) :
           /\ Drops(s, Remainder(s), m) /\ AtBreak(s, m)
           /\ \A j \in m + 1 .. Len(s) : s[j] # NL
<1> DEFINE l == Len(s)
<1>1. l \in Nat
  OBVIOUS
<1>2. PICK p \in 1 .. l + 1 :
        /\ PieceStart(s, l) = p /\ (p = 1 \/ s[p - 1] = NL)
        /\ \A j \in p .. l : s[j] # NL
  <2> HIDE DEF l
  <2>. QED
    BY <1>1, PieceStarts
<1>3. Drops(s, Remainder(s), p - 1)
  BY <1>2, SuffixDrops DEF Remainder
<1>4. p - 1 \in 0 .. l /\ (p - 1) + 1 = p /\ (p = 1 => p - 1 = 0)
  BY <1>1
<1>. QED
  BY <1>2, <1>3, <1>4 DEF AtBreak

LEMMA LstripIs ==
  ASSUME NEW s \in Seq(Chars)
  PROVE  \E m \in 0 .. Len(s) :
           /\ Drops(s, Lstrip(s), m) /\ AtBreak(s, m)
           /\ Len(s) > 0 /\ s[1] # NL => m = 0
<1> DEFINE C == {i \in DOMAIN s : s[i] # NL}
           l == Len(s)
<1>1. l \in Nat /\ DOMAIN s = 1 .. l
  OBVIOUS
<1>2. CASE C = {}
  <2>1. Lstrip(s) = <<>>
    BY <1>2 DEF Lstrip
  <2>2. Drops(s, <<>>, l)
    BY <1>1 DEF Drops
  <2>3. AtBreak(s, l) /\ l \in 0 .. l /\ (l > 0 => s[1] = NL)
    BY <1>1, <1>2 DEF AtBreak
  <2>. QED
    BY <2>1, <2>2, <2>3
<1>3. CASE C # {}
  <2>1. C \in SUBSET (1 .. l)
    BY <1>1
  <2>2. C \in SUBSET Nat /\ IsFiniteSet(C)
    <3>1. IsFiniteSet(1 .. l) /\ \A i \in 1 .. l : i \in Nat
      BY <1>1, FS_Interval
    <3> HIDE DEF C
    <3>. QED
      BY <2>1, <3>1, FS_Subset
  <2>3. Nth(C, 1) \in C /\ \A i \in C : Nth(C, 1) <= i
    <3> HIDE DEF C
    <3>. QED
      BY <1>3, <2>2, FirstIs
  <2>4. PICK p \in 1 .. l : p = Nth(C, 1) /\ s[p] # NL /\ \A i \in C : p <= i
    BY <1>1, <2>3
  <2>5. Lstrip(s) = SubSeq(s, p, l)
    BY <1>3, <2>4 DEF Lstrip
  <2>6. p \in 1 .. l + 1 /\ p - 1 \in 0 .. l
    BY <1>1
  <2>7. Drops(s, Lstrip(s), p - 1)
    BY <2>5, <2>6, SuffixDrops
  <2>8. AtBreak(s, p - 1)
    <3> SUFFICES ASSUME p - 1 # 0, s[p - 1] # NL PROVE FALSE
      BY DEF AtBreak
    <3>1. p - 1 \in C /\ ~(p <= p - 1)
      BY <1>1
    <3>. QED
      BY <2>4, <3>1
  <2>9. ASSUME s[1] # NL PROVE p - 1 = 0
    <3>1. 1 \in C
      BY <1>1, <2>9
    <3>2. p <= 1
      BY <2>4, <3>1
    <3>. QED
      BY <3>2
  <2>. QED
    BY <2>6, <2>7, <2>8, <2>9
<1>. QED
  BY <1>2, <1>3

-----------------------------------------------------------------------------
\* What is received and what is under way after it.  Every number received is below
\* every number that follows, and none is above the count.
Precedes(g, s) ==
  \A j \in 1 .. Len(s) : s[j] # NL => \A i \in 1 .. Len(g) : g[i][1][1] < s[j][1]
Received(g, c) == \A i \in 1 .. Len(g) : g[i] # <<>> /\ g[i][1][1] \in 0 .. c
ComesAfter(g, s, c) == Below(s, Len(s), c) /\ Precedes(g, s) /\ Received(g, c)
Flows(g, s, c) == Text(s, Len(s)) /\ Ended(s, Len(s)) /\ ComesAfter(g, s, c)

\* What comes after the lines received still does when some of it is dropped;
LEMMA AfterDrops ==
  ASSUME NEW g, NEW s \in Seq(Chars), NEW r, NEW c \in Nat, NEW m \in Nat, ComesAfter(g, s, c), Drops(s, r, m)
  PROVE  ComesAfter(g, r, c)
<1> DEFINE l == Len(s)
           h == Len(r)
<1>1. l \in Nat /\ m \in 0 .. l /\ h = l - m /\ \A i \in 1 .. h : r[i] = s[i + m]
  BY DEF Drops
<1>2. ASSUME NEW j \in 1 .. h PROVE j + m \in 1 .. l /\ r[j] = s[j + m]
  <2> HIDE DEF l, h
  <2>. QED
    BY <1>1
<1>3. Below(r, h, c)
  <2>1. Below(s, l, c)
    BY DEF ComesAfter
  <2> HIDE DEF l, h
  <2>. QED
    BY <1>2, <2>1 DEF Below
<1>4. Precedes(g, r)
  <2>1. \A j \in 1 .. l : s[j] # NL => \A i \in 1 .. Len(g) : g[i][1][1] < s[j][1]
    BY DEF ComesAfter, Precedes
  <2> SUFFICES ASSUME NEW j \in 1 .. h, r[j] # NL PROVE \A i \in 1 .. Len(g) : g[i][1][1] < r[j][1]
    BY DEF Precedes
  <2> HIDE DEF l, h
  <2>. QED
    BY <1>2, <2>1
<1>. QED
  BY <1>3, <1>4 DEF ComesAfter

\* and when that ends at the end of a line, the rest is again a text of lines.
LEMMA FlowDrops ==
  ASSUME NEW g, NEW s \in Seq(Chars), NEW r, NEW c \in Nat, NEW m \in Nat,
         Flows(g, s, c), Drops(s, r, m), AtBreak(s, m)
  PROVE  Flows(g, r, c)
<1> DEFINE l == Len(s)
           h == Len(r)
<1>1. l \in Nat /\ m \in 0 .. l /\ h = l - m /\ \A i \in 1 .. h : r[i] = s[i + m]
  BY DEF Drops
<1>2. Text(s, l) /\ Ended(s, l)
  BY DEF Flows
<1>3. Text(r, h) /\ Ended(r, h)
  <2> HIDE DEF l, h
  <2>1. \A i \in 1 .. l - m : r[i] = s[i + m]
    BY <1>1
  <2>2. Text(r, l - m)
    BY <1>1, <1>2, <2>1, TextDrops DEF AtBreak
  <2>3. h > 0 => h \in 1 .. h /\ h + m = l /\ l # 0
    BY <1>1
  <2>4. h = 0 \/ h > 0
    BY <1>1
  <2>5. Ended(r, h)
    BY <1>1, <1>2, <2>3, <2>4 DEF Ended
  <2>. QED
    BY <1>1, <2>2, <2>5
<1>. QED
  BY <1>3, AfterDrops DEF Flows

\* Whole lines, and more of them with greater numbers.
LEMMA LinesJoin ==
  ASSUME NEW g \in Seq(Seq(Chars)), NEW h \in Seq(Seq(Chars)), LinesWhole(g), LinesWhole(h),
         \A i \in 1 .. Len(g) : \A j \in 1 .. Len(h) : g[i][1][1] < h[j][1][1]
  PROVE  LinesWhole(g \o h)
<1> DEFINE a == Len(g)
           b == Len(h)
           u == g \o h
<1>1. /\ a \in Nat /\ b \in Nat /\ DOMAIN u = 1 .. a + b
      /\ \A i \in 1 .. a : u[i] = g[i]
      /\ \A i \in a + 1 .. a + b : u[i] = h[i - a]
  OBVIOUS
<1>2. DOMAIN g = 1 .. a /\ DOMAIN h = 1 .. b
  OBVIOUS
<1> HIDE DEF a, b, u
<1>3. \A i \in a + 1 .. a + b : i - a \in 1 .. b
  BY <1>1
<1>4. ASSUME NEW i \in DOMAIN u PROVE Whole(u[i])
  <2>1. i \in 1 .. a \/ i \in a + 1 .. a + b
    BY <1>1
  <2>. QED
    BY <1>1, <1>2, <1>3, <2>1 DEF LinesWhole
<1>5. ASSUME NEW i \in DOMAIN u, NEW j \in DOMAIN u, i < j PROVE u[i][1][1] < u[j][1][1]
  <2>1. CASE j <= a
    <3>1. i \in 1 .. a /\ j \in 1 .. a
      BY <1>1, <1>5, <2>1
    <3>. QED
      BY <1>1, <1>2, <1>5, <3>1 DEF LinesWhole
  <2>2. CASE i <= a /\ a < j
    <3>1. i \in 1 .. a /\ j \in a + 1 .. a + b
      BY <1>1, <2>2
    <3>2. u[i] = g[i] /\ u[j] = h[j - a] /\ j - a \in 1 .. b
      BY <1>1, <1>3, <3>1
    <3>. QED
      BY <3>1, <3>2 DEF a, b
  <2>3. CASE a < i
    <3>1. i \in a + 1 .. a + b /\ j \in a + 1 .. a + b /\ i - a < j - a
      BY <1>1, <1>5, <2>3
    <3>2. u[i] = h[i - a] /\ u[j] = h[j - a] /\ i - a \in 1 .. b /\ j - a \in 1 .. b
      BY <1>1, <1>3, <3>1
    <3>. QED
      BY <1>2, <3>1, <3>2 DEF LinesWhole
  <2>. QED
    BY <1>1, <2>1, <2>2, <2>3
<1>. QED
  BY <1>4, <1>5 DEF LinesWhole, u

\* Lines that are taken from what is under way.
EndsBy(x, s, m) ==
  \E e \in 2 .. Len(s) :
    e <= m /\ s[e] = NL /\ s[e - 1] # NL /\ x # <<>> /\ x[1][1] = s[e - 1][1]

LEMMA TakesLines ==
  ASSUME NEW g \in Seq(Seq(Chars)), NEW h \in Seq(Seq(Chars)), NEW s \in Seq(Chars), NEW r, NEW c \in Nat,
         NEW m \in Nat, Flows(g, s, c), LinesWhole(g), LinesWhole(h), Drops(s, r, m), AtBreak(s, m),
         \A k \in 1 .. Len(h) : EndsBy(h[k], s, m)
  PROVE  LinesWhole(g \o h) /\ Flows(g \o h, r, c)
<1> DEFINE a == Len(g)
           b == Len(h)
           u == g \o h
           l == Len(s)
<1>1. /\ a \in Nat /\ b \in Nat /\ Len(u) = a + b
      /\ \A i \in 1 .. a : u[i] = g[i]
      /\ \A i \in a + 1 .. a + b : u[i] = h[i - a]
  OBVIOUS
<1>2. l \in Nat /\ m \in 0 .. l
  BY DEF Drops
<1>3. ASSUME NEW k \in 1 .. b
      PROVE  /\ h[k] # <<>> /\ h[k][1][1] \in 0 .. c
             /\ \A i \in 1 .. a : g[i][1][1] < h[k][1][1]
             /\ \A j \in m + 1 .. l : s[j] # NL => h[k][1][1] < s[j][1]
  <2>1. PICK e \in 2 .. l : e <= m /\ s[e] = NL /\ s[e - 1] # NL /\ h[k] # <<>> /\ h[k][1][1] = s[e - 1][1]
    BY DEF EndsBy
  <2>2. e - 1 \in 1 .. l
    OBVIOUS
  <2>3. Text(s, l) /\ Below(s, l, c) /\ Precedes(g, s)
    BY DEF Flows, ComesAfter
  <2> HIDE DEF l
  <2>4. s[e - 1][1] \in Nat /\ s[e - 1][1] <= c
    BY <1>2, <2>1, <2>2, <2>3, NumberIs DEF Below
  <2>5. \A i \in 1 .. a : g[i][1][1] < s[e - 1][1]
    BY <2>1, <2>2, <2>3 DEF Precedes, a, l
  <2>6. ASSUME NEW j \in m + 1 .. l, s[j] # NL PROVE s[e - 1][1] < s[j][1]
    <3>1. j \in 1 .. l /\ e - 1 < j /\ e \in e - 1 .. j
      BY <1>2, <2>1
    <3>2. TwoInTurn(s, e - 1, j)
      BY <2>2, <2>3, <3>1 DEF Text, InTurn
    <3>. QED
      BY <2>1, <2>6, <3>1, <3>2 DEF TwoInTurn
  <2>. QED
    BY <2>1, <2>4, <2>5, <2>6
<1>4. LinesWhole(u)
  <2>1. \A i \in 1 .. Len(g) : \A j \in 1 .. Len(h) : g[i][1][1] < h[j][1][1]
    BY <1>3
  <2>. QED
    BY <2>1, LinesJoin
<1>5. Flows(g, r, c)
  BY FlowDrops
<1>6. \A i \in a + 1 .. a + b : i - a \in 1 .. b
  BY <1>1
<1>7. \A i \in 1 .. a + b : i \in 1 .. a \/ i \in a + 1 .. a + b
  BY <1>1
<1>8. Received(u, c)
  <2>1. \A i \in 1 .. a : g[i] # <<>> /\ g[i][1][1] \in 0 .. c
    BY <1>5 DEF Flows, ComesAfter, Received
  <2> HIDE DEF a, b, u
  <2>2. ASSUME NEW i \in 1 .. a + b PROVE u[i] # <<>> /\ u[i][1][1] \in 0 .. c
    BY <1>1, <1>3, <1>6, <1>7, <2>1
  <2>. QED
    BY <1>1, <2>2 DEF Received
<1>9. Precedes(u, r)
  <2> SUFFICES ASSUME NEW j \in 1 .. Len(r), r[j] # NL, NEW i \in 1 .. a + b PROVE u[i][1][1] < r[j][1]
    BY <1>1 DEF Precedes
  <2>1. Len(r) = l - m /\ r[j] = s[j + m]
    BY DEF Drops
  <2>2. j + m \in m + 1 .. l
    <3> HIDE DEF l
    <3>. QED
      BY <1>2, <2>1
  <2>3. \A n \in 1 .. a : g[n][1][1] < r[j][1]
    BY <1>5 DEF Flows, ComesAfter, Precedes
  <2> HIDE DEF a, b, u, l
  <2>. QED
    BY <1>1, <1>3, <1>6, <1>7, <2>1, <2>2, <2>3
<1>. QED
  BY <1>4, <1>5, <1>8, <1>9 DEF Flows, ComesAfter

\* The lines of the server's end.
LEMMA LinesFlow ==
  ASSUME NEW g \in Seq(Seq(Chars)), NEW s \in Seq(Chars), NEW x \in Seq(Chars), NEW r, NEW c \in Nat,
         NEW m \in 0 .. Len(x), Flows(g, s, c), LinesWhole(g), Len(x) <= Len(s),
         \A i \in 1 .. Len(x) : x[i] = s[i], Drops(s, r, m), AtBreak(x, m),
         \A j \in m + 1 .. Len(x) : x[j] # NL
  PROVE  LinesWhole(g \o Lines(x)) /\ Flows(g \o Lines(x), r, c)
<1> DEFINE l == Len(s)
           z == Len(x)
           h == Lines(x)
<1>1. l \in Nat /\ z \in Nat /\ z \in 0 .. l /\ m \in Nat
  OBVIOUS
<1>2. Text(x, z)
  <2>1. Text(s, l)
    BY DEF Flows
  <2>2. \A i \in 1 .. z : x[i] = s[i]
    OBVIOUS
  <2> HIDE DEF l, z
  <2>3. Text(s, z)
    BY <1>1, <2>1, TextPrefix
  <2>. QED
    BY <1>1, <2>2, <2>3, TextStays
<1>3. /\ h \in Seq(Seq(Chars))
      /\ \A k \in 1 .. Len(h) :
           /\ LineEnd(x, k) \in 2 .. z
           /\ x[LineEnd(x, k)] = NL /\ x[LineEnd(x, k) - 1] # NL
           /\ Line(h[k], x[LineEnd(x, k) - 1][1])
      /\ \A k, n \in 1 .. Len(h) : k < n => LineEnd(x, k) < LineEnd(x, n)
  BY <1>2, LinesAre
<1>4. AtBreak(s, m)
  <2>1. m = 0 \/ m \in 1 .. z
    BY <1>1
  <2>. QED
    BY <2>1 DEF AtBreak
<1> DEFINE n == Len(h)
<1>5. n \in Nat /\ DOMAIN h = 1 .. n
  BY <1>3
<1>6. ASSUME NEW k \in 1 .. n
      PROVE  \E e \in 2 .. z : e = LineEnd(x, k) /\ x[e] = NL /\ x[e - 1] # NL /\ Line(h[k], x[e - 1][1])
  BY <1>3
<1>7. ASSUME NEW k \in 1 .. n PROVE EndsBy(h[k], s, m)
  <2>1. PICK e \in 2 .. z : e = LineEnd(x, k) /\ x[e] = NL /\ x[e - 1] # NL /\ Line(h[k], x[e - 1][1])
    BY <1>6
  <2>2. e <= m
    <3> SUFFICES ASSUME ~(e <= m) PROVE FALSE
      OBVIOUS
    <3>1. e \in m + 1 .. z
      BY <1>1
    <3>. QED
      BY <2>1, <3>1
  <2>3. e \in 2 .. l /\ e \in 1 .. z /\ e - 1 \in 1 .. z
    BY <1>1
  <2>4. s[e] = x[e] /\ s[e - 1] = x[e - 1]
    BY <2>3
  <2>. QED
    BY <2>1, <2>2, <2>3, <2>4 DEF EndsBy, Line
<1>8. LinesWhole(h)
  <2>1. ASSUME NEW k \in 1 .. n PROVE Whole(h[k])
    BY <1>6 DEF Line
  <2>2. ASSUME NEW k \in 1 .. n, NEW i \in 1 .. n, k < i PROVE h[k][1][1] < h[i][1][1]
    <3>1. PICK e \in 2 .. z : e = LineEnd(x, k) /\ x[e] = NL /\ x[e - 1] # NL /\ Line(h[k], x[e - 1][1])
      BY <1>6
    <3>2. PICK f \in 2 .. z : f = LineEnd(x, i) /\ x[f] = NL /\ x[f - 1] # NL /\ Line(h[i], x[f - 1][1])
      BY <1>6
    <3>3. e < f
      BY <1>3, <2>2, <3>1, <3>2
    <3>4. e # f - 1
      BY <3>1, <3>2
    <3>5. e - 1 \in 1 .. z /\ f - 1 \in 1 .. z /\ e - 1 < f - 1 /\ e \in e - 1 .. f - 1
      BY <3>3, <3>4
    <3>6. TwoInTurn(x, e - 1, f - 1)
      BY <1>2, <3>5 DEF Text, InTurn
    <3>7. x[e - 1][1] < x[f - 1][1]
      BY <3>1, <3>2, <3>5, <3>6 DEF TwoInTurn
    <3>. QED
      BY <3>1, <3>2, <3>7 DEF Line
  <2> HIDE DEF h, n
  <2>. QED
    BY <1>5, <2>1, <2>2 DEF LinesWhole
<1>9. \A k \in 1 .. Len(h) : EndsBy(h[k], s, m)
  BY <1>7
<1> HIDE DEF h
<1>. QED
  BY <1>1, <1>3, <1>4, <1>8, <1>9, TakesLines DEF h

-----------------------------------------------------------------------------
\* Sequences one after the other.
LEMMA JoinIs ==
  ASSUME NEW x \in Seq(Chars), NEW t \in Seq(Chars)
  PROVE  /\ x \o t \in Seq(Chars) /\ Len(x \o t) = Len(x) + Len(t)
         /\ \A i \in 1 .. Len(x) : (x \o t)[i] = x[i]
         /\ \A i \in 1 .. Len(t) : (x \o t)[Len(x) + i] = t[i]
<1>1. Len(x) \in Nat /\ Len(t) \in Nat
  OBVIOUS
<1>2. \A i \in 1 .. Len(t) : Len(x) + i > Len(x) /\ (Len(x) + i) - Len(x) = i
  BY <1>1
<1>. QED
  BY <1>1, <1>2, ConcatProperties

\* What is dropped of the first of two sequences is dropped of both.
LEMMA DropsBefore ==
  ASSUME NEW x \in Seq(Chars), NEW y, NEW m \in Nat, Drops(x, y, m), NEW t \in Seq(Chars)
  PROVE  Drops(x \o t, y \o t, m)
<1> DEFINE a == Len(x)
           b == Len(y)
           e == Len(t)
           u == x \o t
           v == y \o t
<1>1. /\ y \in Seq(Chars) /\ a \in Nat /\ b \in Nat /\ e \in Nat /\ m \in 0 .. a /\ b = a - m
      /\ \A i \in 1 .. a - m : y[i] = x[i + m]
  BY DEF Drops
<1>2. /\ u \in Seq(Chars) /\ Len(u) = a + e
      /\ \A i \in 1 .. a : u[i] = x[i]
      /\ \A i \in 1 .. e : u[a + i] = t[i]
  BY JoinIs
<1>3. /\ v \in Seq(Chars) /\ Len(v) = b + e
      /\ \A i \in 1 .. b : v[i] = y[i]
      /\ \A i \in 1 .. e : v[b + i] = t[i]
  BY <1>1, JoinIs
<1> HIDE DEF a, b, e, u, v
<1>4. ASSUME NEW i \in 1 .. (a + e) - m PROVE v[i] = u[i + m]
  <2>1. CASE i <= b
    <3>1. i \in 1 .. b /\ i \in 1 .. a - m /\ i + m \in 1 .. a
      BY <1>1, <2>1
    <3>. QED
      BY <1>1, <1>2, <1>3, <3>1
  <2>2. CASE i > b
    <3>1. i - b \in 1 .. e /\ b + (i - b) = i /\ a + (i - b) = i + m
      BY <1>1, <2>2
    <3>2. PICK h \in 1 .. e : h = i - b
      BY <3>1
    <3>3. v[b + h] = t[h] /\ u[a + h] = t[h]
      BY <1>2, <1>3
    <3>. QED
      BY <3>1, <3>2, <3>3
  <2>. QED
    BY <1>1, <2>1, <2>2
<1>5. m \in 0 .. Len(u) /\ Len(v) = Len(u) - m
  BY <1>1, <1>2, <1>3
<1>. QED
  BY <1>2, <1>3, <1>4, <1>5 DEF Drops, u, v

LEMMA JoinAgain ==
  ASSUME NEW x \in Seq(Chars), NEW y \in Seq(Chars), NEW z \in Seq(Chars)
  PROVE  (x \o y) \o z = x \o (y \o z)
OBVIOUS

\* The two parts of a sequence.
LEMMA CutInTwo ==
  ASSUME NEW s \in Seq(Chars), NEW k \in 0 .. Len(s)
  PROVE  /\ SubSeq(s, 1, k) \in Seq(Chars) /\ SubSeq(s, k + 1, Len(s)) \in Seq(Chars)
         /\ Len(SubSeq(s, 1, k)) = k /\ Len(SubSeq(s, k + 1, Len(s))) = Len(s) - k
         /\ \A i \in 1 .. k : SubSeq(s, 1, k)[i] = s[i]
         /\ \A i \in 1 .. Len(s) - k : SubSeq(s, k + 1, Len(s))[i] = s[i + k]
         /\ SubSeq(s, 1, k) \o SubSeq(s, k + 1, Len(s)) = s
<1> DEFINE a == SubSeq(s, 1, k)
           b == SubSeq(s, k + 1, Len(s))
           l == Len(s)
<1>1. l \in Nat /\ k \in 0 .. l
  OBVIOUS
<1>2. 1 \in 1 .. l + 1 /\ k \in 0 .. l /\ 1 <= k + 1 /\ k + 1 \in 1 .. l + 1 /\ l \in 0 .. l /\ k + 1 <= l + 1
  BY <1>1
<1>3. a \in Seq(Chars) /\ Len(a) = k - 1 + 1 /\ \A i \in 1 .. k - 1 + 1 : a[i] = s[1 + i - 1]
  BY <1>2, PieceIs
<1>4. b \in Seq(Chars) /\ Len(b) = l - (k + 1) + 1 /\ \A i \in 1 .. l - (k + 1) + 1 : b[i] = s[(k + 1) + i - 1]
  BY <1>2, PieceIs
<1> HIDE DEF a, b
<1>5. a \in Seq(Chars) /\ Len(a) = k /\ \A i \in 1 .. k : a[i] = s[i]
  BY <1>1, <1>3
<1>6. b \in Seq(Chars) /\ Len(b) = l - k /\ \A i \in 1 .. l - k : b[i] = s[i + k]
  <2>1. l - (k + 1) + 1 = l - k /\ \A i \in 1 .. l - k : (k + 1) + i - 1 = i + k
    BY <1>1
  <2>. QED
    BY <1>4, <2>1
<1>7. a \o b = s
  <2> DEFINE u == a \o b
  <2>1. /\ u \in Seq(Chars) /\ Len(u) = k + (l - k)
        /\ \A i \in 1 .. k : u[i] = a[i]
        /\ \A i \in 1 .. l - k : u[k + i] = b[i]
    BY <1>5, <1>6, JoinIs
  <2> HIDE DEF u
  <2>2. ASSUME NEW i \in 1 .. l PROVE u[i] = s[i]
    <3>1. CASE i <= k
      BY <1>1, <1>5, <2>1, <3>1
    <3>2. CASE i > k
      <4>1. i - k \in 1 .. l - k /\ k + (i - k) = i /\ (i - k) + k = i
        BY <1>1, <3>2
      <4>. QED
        BY <1>6, <2>1, <4>1
    <3>. QED
      BY <1>1, <3>1, <3>2
  <2>3. Len(u) = l
    BY <1>1, <2>1
  <2>. QED
    BY <2>1, <2>2, <2>3, SeqEqual DEF u
<1>. QED
  BY <1>5, <1>6, <1>7 DEF a, b

LEMMA NoneDropped ==
  ASSUME NEW s \in Seq(Chars), NEW r, Drops(s, r, 0)
  PROVE  r = s
<1>1. r \in Seq(Chars) /\ Len(r) = Len(s) - 0 /\ \A i \in 1 .. Len(s) - 0 : r[i] = s[i + 0]
  BY DEF Drops
<1>2. Len(r) = Len(s) /\ \A i \in 1 .. Len(s) : r[i] = s[i]
  BY <1>1
<1>. QED
  BY <1>1, <1>2, SeqEqual

LEMMA TextBegins ==
  ASSUME NEW s \in Seq(Chars), NEW x \in Seq(Chars), Text(s, Len(s)), Len(x) <= Len(s),
         \A i \in 1 .. Len(x) : x[i] = s[i]
  PROVE  Text(x, Len(x))
<1> DEFINE l == Len(s)
           z == Len(x)
<1>1. l \in Nat /\ z \in 0 .. l /\ z \in Nat /\ Text(s, l) /\ \A i \in 1 .. z : x[i] = s[i]
  OBVIOUS
<1> HIDE DEF l, z
<1>2. Text(s, z)
  BY <1>1, TextPrefix
<1>3. Text(x, z)
  BY <1>1, <1>2, TextStays
<1>. QED
  BY <1>3 DEF z

\* A chunk is read at the server: p is what it has of a line, s the stream, r what is
\* left to send.
LEMMA ServerReadsLines ==
  ASSUME NEW p \in Seq(Chars), NEW s \in Seq(Chars), NEW r \in Seq(Chars),
         NEW g \in Seq(Seq(Chars)), NEW c \in Nat, NEW k \in 1 .. Len(s), p = <<>> \/ s[1] # NL,
         Flows(g, p \o (s \o r), c), LinesWhole(g),
         NEW x, x = p \o Lstrip(SubSeq(s, 1, k))
  PROVE  /\ x \in Seq(Chars) /\ Lines(x) \in Seq(Seq(Chars)) /\ Remainder(x) \in Seq(Chars)
         /\ LinesWhole(g \o Lines(x))
         /\ Flows(g \o Lines(x), Remainder(x) \o (SubSeq(s, k + 1, Len(s)) \o r), c)
<1> DEFINE chunk == SubSeq(s, 1, k)
           s2 == SubSeq(s, k + 1, Len(s))
           t == s2 \o r
           y == Lstrip(chunk)
           F == p \o (s \o r)
<1>1. k \in 0 .. Len(s) /\ k > 0 /\ k \in Nat
  OBVIOUS
<1>2. /\ chunk \in Seq(Chars) /\ s2 \in Seq(Chars) /\ Len(chunk) = k
      /\ chunk[1] = s[1] /\ chunk \o s2 = s
  BY <1>1, CutInTwo
<1>3. PICK q \in Nat : /\ Drops(chunk, y, q) /\ AtBreak(chunk, q) /\ q \in 0 .. k
                       /\ chunk[1] # NL => q = 0
  <2> HIDE DEF chunk
  <2>1. \E q \in 0 .. Len(chunk) : /\ Drops(chunk, Lstrip(chunk), q) /\ AtBreak(chunk, q)
                                   /\ Len(chunk) > 0 /\ chunk[1] # NL => q = 0
    BY <1>2, LstripIs
  <2>2. PICK q \in 0 .. k : /\ Drops(chunk, Lstrip(chunk), q) /\ AtBreak(chunk, q)
                            /\ Len(chunk) > 0 /\ chunk[1] # NL => q = 0
    BY <1>2, <2>1
  <2>. QED
    BY <1>1, <1>2, <2>2
<1>4. y \in Seq(Chars) /\ t \in Seq(Chars)
  <2>1. y \in Seq(Chars)
    BY <1>3 DEF Drops
  <2> HIDE DEF y, s2
  <2>. QED
    BY <1>2, <2>1, JoinIs, ZenonT(30)
<1>5. s \o r = chunk \o t
  <2> HIDE DEF chunk, s2
  <2>1. (chunk \o s2) \o r = chunk \o (s2 \o r)
    BY <1>2, JoinAgain, ZenonT(30)
  <2>. QED
    BY <1>2, <2>1
<1>6. F \in Seq(Chars) /\ chunk \o t \in Seq(Chars)
  BY <1>2, <1>4, <1>5, JoinIs
<1>7. x \in Seq(Chars)
  <2> HIDE DEF y
  <2>. QED
    BY <1>4, JoinIs DEF y
<1>8. Drops(F, x \o t, q) /\ AtBreak(F, q)
  <2>1. CASE p = <<>>
    <3> HIDE DEF chunk, t, y
    <3>1. F = chunk \o t /\ x = y
      <4>1. <<>> \o (chunk \o t) = chunk \o t /\ <<>> \o y = y
        BY <1>4, <1>6
      <4>. QED
        BY <1>5, <2>1, <4>1 DEF y, chunk
    <3>2. Drops(chunk \o t, y \o t, q)
      BY <1>2, <1>3, <1>4, DropsBefore
    <3>3. q = 0 \/ (chunk \o t)[q] = chunk[q]
      BY <1>2, <1>3, <1>4, JoinIs
    <3>. QED
      BY <1>3, <3>1, <3>2, <3>3 DEF AtBreak
  <2>2. CASE p # <<>>
    <3>1. q = 0
      BY <1>2, <1>3, <2>2
    <3>2. y = chunk
      <4> HIDE DEF chunk, y
      <4>. QED
        BY <1>2, <1>3, <3>1, NoneDropped
    <3>3. x \o t = F
      <4>1. (p \o chunk) \o t = p \o (chunk \o t)
        <5> HIDE DEF chunk, t
        <5>. QED
          BY <1>2, <1>4, JoinAgain, ZenonT(30)
      <4>2. x = p \o y
        OBVIOUS
      <4> HIDE DEF chunk, t, y
      <4>. QED
        BY <1>5, <3>2, <4>1, <4>2
    <3> HIDE DEF F, t
    <3>4. Drops(F, F, 0)
      BY <1>6 DEF Drops
    <3>. QED
      BY <3>1, <3>3, <3>4 DEF AtBreak
  <2>. QED
    BY <2>1, <2>2
<1> DEFINE G == x \o t
<1>9. /\ G \in Seq(Chars) /\ Len(x) <= Len(G)
      /\ \A i \in 1 .. Len(x) : x[i] = G[i]
  <2> HIDE DEF t
  <2>1. Len(x) \in Nat /\ Len(t) \in Nat
    BY <1>4, <1>7
  <2>. QED
    BY <1>4, <1>7, <2>1, JoinIs
<1>10. Flows(g, G, c)
  <2> HIDE DEF F, G
  <2>. QED
    BY <1>3, <1>6, <1>8, FlowDrops DEF F, G
<1>11. Text(x, Len(x))
  <2>1. Text(G, Len(G))
    BY <1>10 DEF Flows
  <2> HIDE DEF G
  <2>. QED
    BY <1>7, <1>9, <2>1, TextBegins
<1>12. PICK m \in 0 .. Len(x) : /\ Drops(x, Remainder(x), m) /\ AtBreak(x, m)
                                /\ \A j \in m + 1 .. Len(x) : x[j] # NL
  BY <1>7, <1>11, RemainderIs
<1>13. Remainder(x) \in Seq(Chars) /\ m \in Nat
  BY <1>7, <1>12 DEF Drops
<1>14. Drops(G, Remainder(x) \o t, m)
  <2> HIDE DEF t
  <2>. QED
    BY <1>4, <1>7, <1>12, <1>13, DropsBefore
<1>15. Lines(x) \in Seq(Seq(Chars))
  BY <1>7, <1>11, LinesAre
<1>16. LinesWhole(g \o Lines(x)) /\ Flows(g \o Lines(x), Remainder(x) \o t, c)
  <2> HIDE DEF G, t
  <2>. QED
    BY <1>7, <1>9, <1>10, <1>12, <1>14, LinesFlow
<1>. QED
  BY <1>7, <1>13, <1>15, <1>16

\* A line is read at the client: only its last character can be a newline.
LEMMA OneLine ==
  ASSUME NEW x \in Seq(Chars), Text(x, Len(x)), Len(x) > 1, x[Len(x)] = NL,
         \A i \in 1 .. Len(x) - 1 : x[i] # NL
  PROVE  /\ SubSeq(x, 1, Len(x) - 1) \in Seq(Chars)
         /\ Line(SubSeq(x, 1, Len(x) - 1), x[Len(x) - 1][1])
<1> DEFINE l == Len(x)
<1>1. l \in Nat /\ l \in 2 .. l /\ l - 1 \in Nat /\ 1 \in 1 .. (l - 1) + 1 /\ l - 1 \in 1 .. l - 1
  OBVIOUS
<1>2. PieceStart(x, l - 1) = 1
  <2>1. \A i \in 1 .. l - 1 : x[i] # NL
    OBVIOUS
  <2> HIDE DEF l
  <2>. QED
    BY <1>1, <2>1, PieceStartIs
<1>3. x[l - 1] # NL
  BY <1>1
<1>4. /\ SubSeq(x, PieceStart(x, l - 1), l - 1) \in Seq(Chars)
      /\ Line(SubSeq(x, PieceStart(x, l - 1), l - 1), x[l - 1][1])
  BY <1>1, <1>3, CutIsLine
<1>. QED
  BY <1>2, <1>4

\* Only the last character of what the client has read can be a newline.
LEMMA OnlyLast ==
  ASSUME NEW p \in Seq(Chars), NEW s \in Seq(Chars), NEW k \in 1 .. Len(s),
         \A i \in 1 .. Len(p) : p[i] # NL, \A i \in 1 .. k - 1 : SubSeq(s, 1, k)[i] # NL,
         NEW x, x = p \o SubSeq(s, 1, k)
  PROVE  /\ Len(x) \in Nat /\ Len(x) > 0 /\ x \in Seq(Chars)
         /\ \A i \in 1 .. Len(x) - 1 : x[i] # NL
<1> DEFINE d == SubSeq(s, 1, k)
           l == Len(x)
           a == Len(p)
<1>1. k \in 0 .. Len(s) /\ k > 0 /\ k \in Nat
  OBVIOUS
<1>2. d \in Seq(Chars) /\ Len(d) = k
  BY <1>1, CutInTwo
<1>4. /\ x \in Seq(Chars) /\ l = a + k /\ a \in Nat
      /\ \A i \in 1 .. a : x[i] = p[i]
      /\ \A i \in 1 .. k : x[a + i] = d[i]
  <2> DEFINE w == p \o d
  <2>1. x = w
    OBVIOUS
  <2>2. /\ w \in Seq(Chars) /\ Len(w) = a + Len(d)
        /\ \A i \in 1 .. a : w[i] = p[i]
        /\ \A i \in 1 .. Len(d) : w[a + i] = d[i]
    <3> HIDE DEF d
    <3>. QED
      BY <1>2, JoinIs
  <2>3. a \in Nat
    OBVIOUS
  <2> HIDE DEF w, d, a
  <2>. QED
    BY <1>2, <2>1, <2>2, <2>3
<1>5. l \in Nat /\ l > 0
  BY <1>1, <1>4
<1>6. ASSUME NEW i \in 1 .. l - 1 PROVE x[i] # NL
  <2> HIDE DEF l
  <2>1. CASE i <= a
    <3>1. i \in 1 .. a
      BY <2>1
    <3>. QED
      BY <1>4, <3>1 DEF a
  <2>2. CASE i > a
    <3>1. i - a \in 1 .. k - 1 /\ i - a \in 1 .. k /\ a + (i - a) = i
      BY <1>1, <1>4, <2>2
    <3>2. x[a + (i - a)] = d[i - a] /\ d[i - a] # NL
      BY <1>4, <3>1
    <3>. QED
      BY <3>1, <3>2
  <2>. QED
    BY <1>4, <2>1, <2>2
<1>. QED
  BY <1>4, <1>5, <1>6

\* A part of a line is read at the client.
LEMMA ClientReadsLine ==
  ASSUME NEW p \in Seq(Chars), NEW s \in Seq(Chars), NEW r \in Seq(Chars),
         NEW g \in Seq(Seq(Chars)), NEW c \in Nat, NEW k \in 1 .. Len(s),
         \A i \in 1 .. Len(p) : p[i] # NL, \A i \in 1 .. k - 1 : SubSeq(s, 1, k)[i] # NL,
         Flows(g, p \o (s \o r), c), LinesWhole(g),
         NEW x, x = p \o SubSeq(s, 1, k)
  PROVE  /\ x \in Seq(Chars)
         /\ x[Len(x)] = NL /\ Len(x) > 1 =>
              /\ SubSeq(x, 1, Len(x) - 1) \in Seq(Chars)
              /\ LinesWhole(Append(g, SubSeq(x, 1, Len(x) - 1)))
              /\ Flows(Append(g, SubSeq(x, 1, Len(x) - 1)), <<>> \o (SubSeq(s, k + 1, Len(s)) \o r), c)
         /\ x[Len(x)] = NL => Flows(g, <<>> \o (SubSeq(s, k + 1, Len(s)) \o r), c)
         /\ x[Len(x)] # NL => Flows(g, x \o (SubSeq(s, k + 1, Len(s)) \o r), c)
<1> DEFINE d == SubSeq(s, 1, k)
           s2 == SubSeq(s, k + 1, Len(s))
           t == s2 \o r
           l == Len(x)
           G == x \o t
<1>1. k \in 0 .. Len(s) /\ k > 0 /\ k \in Nat
  OBVIOUS
<1>2. d \in Seq(Chars) /\ s2 \in Seq(Chars) /\ Len(d) = k /\ d \o s2 = s
  BY <1>1, CutInTwo
<1>3. t \in Seq(Chars)
  <2> HIDE DEF s2
  <2>. QED
    BY <1>2, JoinIs
<1>4. x \in Seq(Chars) /\ l \in Nat /\ l > 0 /\ \A i \in 1 .. l - 1 : x[i] # NL
  BY OnlyLast
<1>5. l \in Nat /\ l > 0
  BY <1>4
<1>6. ASSUME NEW i \in 1 .. l - 1 PROVE x[i] # NL
  BY <1>4
<1>7. p \o (s \o r) = G
  <2>1. x = p \o d
    OBVIOUS
  <2>2. (d \o s2) \o r = d \o (s2 \o r)
    <3> HIDE DEF d, s2
    <3>. QED
      BY <1>2, JoinAgain, ZenonT(30)
  <2>3. (p \o d) \o t = p \o (d \o t)
    <3> HIDE DEF d, t
    <3>. QED
      BY <1>2, <1>3, JoinAgain, ZenonT(30)
  <2> HIDE DEF d, s2
  <2>. QED
    BY <1>2, <2>1, <2>2, <2>3
<1>8. Flows(g, G, c)
  BY <1>7
<1>9. /\ G \in Seq(Chars) /\ l <= Len(G) /\ Len(G) \in Nat
      /\ \A i \in 1 .. l : x[i] = G[i]
  <2> HIDE DEF t
  <2>1. Len(t) \in Nat
    BY <1>3
  <2>. QED
    BY <1>3, <1>4, <1>5, <2>1, JoinIs
<1>10. Text(x, l)
  <2>1. Text(G, Len(G))
    BY <1>8 DEF Flows
  <2> HIDE DEF G
  <2>. QED
    BY <1>4, <1>9, <2>1, TextBegins
<1>11. CASE x[l] # NL
  BY <1>4, <1>8, <1>11
<1>12. CASE x[l] = NL
  <2>1. Drops(G, <<>> \o t, l)
    <3>1. Drops(x, <<>>, l)
      BY <1>4, <1>5 DEF Drops
    <3> HIDE DEF t, l
    <3>. QED
      BY <1>3, <1>4, <1>5, <3>1, DropsBefore
  <2>2. AtBreak(x, l) /\ AtBreak(G, l)
    <3>1. G[l] = x[l]
      BY <1>5, <1>9
    <3>. QED
      BY <1>12, <3>1 DEF AtBreak
  <2>3. Flows(g, <<>> \o t, c)
    <3> HIDE DEF G, l, t
    <3>. QED
      BY <1>5, <1>8, <1>9, <2>1, <2>2, FlowDrops
  <2>4. ASSUME l > 1
        PROVE  /\ SubSeq(x, 1, l - 1) \in Seq(Chars)
               /\ LinesWhole(Append(g, SubSeq(x, 1, l - 1)))
               /\ Flows(Append(g, SubSeq(x, 1, l - 1)), <<>> \o t, c)
    <3> DEFINE h == SubSeq(x, 1, l - 1)
    <3>1. h \in Seq(Chars) /\ Line(h, x[l - 1][1])
      BY <1>4, <1>6, <1>10, <1>12, <2>4, OneLine
    <3>2. EndsBy(h, G, l)
      <4>1. l \in 2 .. Len(G) /\ l \in 1 .. l /\ l - 1 \in 1 .. l /\ l - 1 \in 1 .. l - 1 /\ l <= l
        <5> HIDE DEF G, l
        <5>. QED
          BY <1>5, <1>9, <2>4
      <4>2. G[l] = NL /\ G[l - 1] = x[l - 1] /\ x[l - 1] # NL
        BY <1>6, <1>9, <1>12, <4>1
      <4> HIDE DEF h, G, l
      <4>. QED
        BY <3>1, <4>1, <4>2 DEF EndsBy, Line
    <3> HIDE DEF h
    <3>3. <<h>> \in Seq(Seq(Chars)) /\ Len(<<h>>) = 1 /\ LinesWhole(<<h>>)
      BY <3>1 DEF LinesWhole, Line
    <3>4. \A i \in 1 .. Len(<<h>>) : EndsBy(<<h>>[i], G, l)
      BY <3>2
    <3>5. LinesWhole(g \o <<h>>) /\ Flows(g \o <<h>>, <<>> \o t, c)
      <4> HIDE DEF G, l, t
      <4>. QED
        BY <1>5, <1>8, <1>9, <2>1, <2>2, <3>3, <3>4, TakesLines
    <3>6. g \o <<h>> = Append(g, h)
      BY <3>1
    <3>. QED
      BY <3>1, <3>5, <3>6 DEF h
  <2>. QED
    BY <1>4, <1>12, <2>3, <2>4
<1>. QED
  BY <1>11, <1>12

-----------------------------------------------------------------------------
\* A line as it is sent, and what is left of one.
LEMMA LineOfIs ==
  ASSUME NEW t \in Tasks, NEW n \in Nat
  PROVE  /\ Size(t) \in Nat /\ LineOf(n, t) \in Seq(Chars) /\ Len(LineOf(n, t)) = Size(t) + 1
         /\ LineOf(n, t)[Size(t) + 1] = NL
         /\ \A i \in 1 .. Size(t) : LineOf(n, t)[i] = <<n, i, Size(t)>>
<1> DEFINE z == Size(t)
           f == [k \in 1 .. z |-> <<n, k, z>>]
<1>1. z \in Nat
  BY DEF Size, Tasks
<1> HIDE DEF z
<1>2. \A k \in 1 .. z : <<n, k, z>> \in Chars
  BY <1>1 DEF Chars
<1>3. f \in Seq(Chars) /\ Len(f) = z /\ \A i \in 1 .. z : f[i] = <<n, i, z>>
  BY <1>1, <1>2
<1>4. LineOf(n, t) = Append(f, NL)
  BY DEF LineOf, z
<1>5. NL \in Chars
  BY DEF NL, Chars
<1> HIDE DEF f
<1>6. /\ Append(f, NL) \in Seq(Chars) /\ Len(Append(f, NL)) = z + 1 /\ Append(f, NL)[z + 1] = NL
      /\ \A i \in 1 .. z : Append(f, NL)[i] = f[i]
  BY <1>1, <1>3, <1>5
<1>. QED
  BY <1>1, <1>3, <1>4, <1>6 DEF z

Suffix(l) ==
  l = <<>> \/ \E n \in Nat, z \in Nat : \E b \in 0 .. z :
    /\ n > 0 /\ Len(l) = z - b + 1 /\ l[z - b + 1] = NL
    /\ \A i \in 1 .. z - b : l[i] = <<n, b + i, z>>

\* The whole line is what is left of it at first, and sending leaves the rest of it.
LEMMA LineIsSuffix ==
  ASSUME NEW t \in Tasks, NEW n \in Nat, n > 0
  PROVE  Suffix(LineOf(n, t))
<1> DEFINE l == LineOf(n, t)
<1>1. PICK z \in Nat : z = Size(t)
  BY LineOfIs
<1>2. Len(l) = z + 1 /\ l[z + 1] = NL /\ \A i \in 1 .. z : l[i] = <<n, i, z>>
  BY <1>1, LineOfIs
<1> HIDE DEF l
<1>3. z - 0 + 1 = z + 1 /\ z - 0 = z /\ 0 \in 0 .. z /\ \A i \in 1 .. z : 0 + i = i
  OBVIOUS
<1>4. Len(l) = z - 0 + 1 /\ l[z - 0 + 1] = NL /\ \A i \in 1 .. z - 0 : l[i] = <<n, 0 + i, z>>
  BY <1>2, <1>3
<1>. QED
  BY <1>3, <1>4 DEF Suffix, l

LEMMA SuffixLeft ==
  ASSUME NEW l \in Seq(Chars), Suffix(l), NEW k \in 1 .. Len(l)
  PROVE  Suffix(SubSeq(l, k + 1, Len(l)))
<1> DEFINE r == SubSeq(l, k + 1, Len(l))
<1>0. l # <<>>
  OBVIOUS
<1>1. PICK n \in Nat, z \in Nat : \E b \in 0 .. z :
        /\ n > 0 /\ Len(l) = z - b + 1 /\ l[z - b + 1] = NL
        /\ \A i \in 1 .. z - b : l[i] = <<n, b + i, z>>
  BY <1>0 DEF Suffix
<1>2. PICK b \in 0 .. z :
        /\ n > 0 /\ Len(l) = z - b + 1 /\ l[z - b + 1] = NL
        /\ \A i \in 1 .. z - b : l[i] = <<n, b + i, z>>
  BY <1>1
<1>3. k \in 0 .. Len(l)
  OBVIOUS
<1>4. /\ r \in Seq(Chars) /\ Len(r) = Len(l) - k
      /\ \A i \in 1 .. Len(l) - k : r[i] = l[i + k]
  BY <1>3, CutInTwo
<1> HIDE DEF r
<1>5. CASE k = Len(l)
  <2>1. Len(r) = 0
    BY <1>4, <1>5
  <2>2. r = <<>>
    BY <1>4, <2>1, EmptySeq
  <2>. QED
    BY <2>2 DEF Suffix, r
<1>6. CASE k # Len(l)
  <2>1. /\ b + k \in 0 .. z /\ Len(l) - k = z - (b + k) + 1
        /\ z - (b + k) + 1 \in 1 .. Len(l) - k /\ (z - (b + k) + 1) + k = z - b + 1
    BY <1>2, <1>6
  <2>2. PICK e \in 0 .. z : e = b + k
    BY <2>1
  <2>3. Len(r) = z - e + 1 /\ r[z - e + 1] = NL
    BY <1>2, <1>4, <2>1, <2>2
  <2>4. ASSUME NEW i \in 1 .. z - e PROVE r[i] = <<n, e + i, z>>
    <3>1. i \in 1 .. Len(l) - k /\ i + k \in 1 .. z - b /\ b + (i + k) = e + i
      BY <1>2, <2>1, <2>2
    <3>. QED
      BY <1>2, <1>4, <3>1
  <2>. QED
    BY <1>2, <2>3, <2>4 DEF Suffix, r
<1>. QED
  BY <1>5, <1>6

\* A line is begun when all others have ended.
LEMMA LineFlows ==
  ASSUME NEW g, NEW s \in Seq(Chars), NEW y \in Seq(Chars), NEW c \in Nat, NEW z \in Nat,
         Len(y) = z + 1, y[z + 1] = NL, \A i \in 1 .. z : y[i] = <<c + 1, i, z>>,
         Flows(g, s, c)
  PROVE  Flows(g, s \o y, c + 1)
<1> DEFINE l == Len(s)
           u == s \o y
           m == l + z + 1
<1>1. /\ l \in Nat /\ u \in Seq(Chars) /\ Len(u) = l + (z + 1)
      /\ \A i \in 1 .. l : u[i] = s[i]
      /\ \A i \in 1 .. z + 1 : u[l + i] = y[i]
  <2>1. /\ u \in Seq(Chars) /\ Len(u) = l + Len(y)
        /\ \A i \in 1 .. l : u[i] = s[i]
        /\ \A i \in 1 .. Len(y) : u[l + i] = y[i]
    BY JoinIs
  <2>2. l \in Nat
    OBVIOUS
  <2> HIDE DEF l, u
  <2>. QED
    BY <2>1, <2>2
<1>2. Text(s, l) /\ Ended(s, l) /\ Below(s, l, c)
  BY DEF Flows, ComesAfter
<1>3. \A j \in 1 .. l : s[j] # NL => \A i \in 1 .. Len(g) : g[i][1][1] < s[j][1]
  BY DEF Flows, ComesAfter, Precedes
<1>4. \A i \in 1 .. Len(g) : g[i] # <<>> /\ g[i][1][1] \in 0 .. c
  BY DEF Flows, ComesAfter, Received
<1> HIDE DEF l, u
<1>5. Len(u) = m /\ m \in Nat /\ m = l + (z + 1)
  BY <1>1
<1>6. \A i \in 1 .. z : u[l + i] = <<c + 1, i, z>>
  <2>1. \A i \in 1 .. z : i \in 1 .. z + 1
    OBVIOUS
  <2>. QED
    BY <1>1, <2>1
<1>7. u[m] = NL
  <2>1. z + 1 \in 1 .. z + 1
    OBVIOUS
  <2>2. u[l + (z + 1)] = y[z + 1]
    BY <1>1, <2>1
  <2>. QED
    BY <1>5, <2>2
<1>8. Text(u, m) /\ Ended(u, m) /\ Below(u, m, c + 1)
  <2>1. \A i \in 1 .. l : u[i] = s[i]
    BY <1>1
  <2>2. m = l + z + 1
    OBVIOUS
  <2> HIDE DEF m
  <2>. QED
    BY <1>1, <1>2, <1>5, <1>6, <1>7, <2>1, <2>2, TextGrows
<1>9. Precedes(g, u)
  <2> SUFFICES ASSUME NEW j \in 1 .. m, u[j] # NL, NEW i \in 1 .. Len(g) PROVE g[i][1][1] < u[j][1]
    BY <1>5 DEF Precedes
  <2>1. CASE j <= l
    <3>1. j \in 1 .. l
      BY <1>1, <1>5, <2>1
    <3>. QED
      BY <1>1, <1>3, <3>1
  <2>2. CASE j > l
    <3>1. j # m
      BY <1>7
    <3>2. j - l \in 1 .. z /\ l + (j - l) = j
      BY <1>1, <1>5, <2>2, <3>1
    <3>3. PICK h \in 1 .. z : h = j - l
      BY <3>2
    <3>4. u[j] = <<c + 1, h, z>>
      BY <1>6, <3>2, <3>3
    <3>5. u[j][1] = c + 1
      BY <3>4, CharNumbers
    <3>. QED
      BY <1>4, <3>5
  <2>. QED
    BY <1>1, <1>5, <2>1, <2>2
<1>10. Received(g, c + 1)
  <2>1. \A i \in 1 .. Len(g) : g[i][1][1] \in 0 .. c + 1
    BY <1>4
  <2>. QED
    BY <1>4, <2>1 DEF Received
<1>. QED
  BY <1>5, <1>8, <1>9, <1>10 DEF Flows, ComesAfter, u

\* The first line after nothing.
LEMMA TextAlone ==
  ASSUME NEW s, NEW y, NEW e \in Nat, NEW q \in Nat, NEW m \in Nat, m = q + 1, y[m] = NL,
         \A i \in 1 .. q : y[i] = <<e + 1, i, q>>
  PROVE  Text(y, m) /\ Ended(y, m)
<1>1. PICK l \in Nat : l = 0
  OBVIOUS
<1>2. Text(s, l) /\ Ended(s, l) /\ Below(s, l, e)
  BY <1>1 DEF Text, InPlace, Complete, InTurn, Ended, Below
<1>3. m = l + q + 1 /\ y[m] = NL
  BY <1>1
<1>4. \A i \in 1 .. q : l + i = i
  BY <1>1
<1>5. \A i \in 1 .. q : y[l + i] = <<e + 1, i, q>>
  BY <1>4
<1>6. \A i \in 1 .. l : y[i] = s[i]
  BY <1>1
<1>. QED
  BY <1>2, <1>3, <1>5, <1>6, TextGrows

\* What a line of which nothing has been sent brings to a new connection.
LEMMA UnsentFlows ==
  ASSUME NEW g, NEW y \in Seq(Chars), NEW c \in Nat, Suffix(y), Unsent(y), ComesAfter(g, y, c)
  PROVE  Flows(g, y, c)
<1>1. CASE y = <<>>
  <2>1. Text(y, 0) /\ Ended(y, 0)
    BY DEF Text, InPlace, Complete, InTurn, Ended
  <2>2. Len(y) = 0
    BY <1>1
  <2>. QED
    BY <2>1, <2>2 DEF Flows
<1>2. CASE y # <<>>
  <2>1. PICK n \in Nat, z \in Nat : \E b \in 0 .. z :
          /\ n > 0 /\ Len(y) = z - b + 1 /\ y[z - b + 1] = NL
          /\ \A i \in 1 .. z - b : y[i] = <<n, b + i, z>>
    BY <1>2 DEF Suffix
  <2>2. PICK b \in 0 .. z :
          /\ n > 0 /\ Len(y) = z - b + 1 /\ y[z - b + 1] = NL
          /\ \A i \in 1 .. z - b : y[i] = <<n, b + i, z>>
    BY <2>1
  <2>3. b = z \/ b = 0
    <3> SUFFICES ASSUME b # z PROVE b = 0
      OBVIOUS
    <3>1. 1 \in 1 .. z - b /\ b + 1 \in Nat /\ b + 1 > 0
      OBVIOUS
    <3>2. y[1] = <<n, b + 1, z>>
      BY <2>2, <3>1
    <3>3. y[1] # NL /\ y[1][2] = b + 1
      BY <3>1, <3>2, CharNumbers
    <3>4. b + 1 = 1
      BY <1>2, <3>3 DEF Unsent
    <3>. QED
      BY <3>4
  <2>4. \E q \in Nat : /\ Len(y) = q + 1 /\ y[q + 1] = NL
                       /\ \A i \in 1 .. q : y[i] = <<n, i, q>>
    <3>1. CASE b = z
      <4>1. z - b = 0
        BY <3>1
      <4>. QED
        BY <2>2, <4>1
    <3>2. CASE b = 0
      <4>1. z - b = z /\ \A i \in 1 .. z : b + i = i
        BY <3>2
      <4>. QED
        BY <2>2, <4>1
    <3>. QED
      BY <2>3, <3>1, <3>2
  <2>5. PICK q \in Nat : /\ Len(y) = q + 1 /\ y[q + 1] = NL
                         /\ \A i \in 1 .. q : y[i] = <<n, i, q>>
    BY <2>4
  <2>6. PICK e \in Nat : e + 1 = n
    <3>1. n - 1 \in Nat /\ (n - 1) + 1 = n
      BY <2>2
    <3>. QED
      BY <3>1
  <2>7. PICK m \in Nat : m = q + 1
    OBVIOUS
  <2>8. Text(y, m) /\ Ended(y, m)
    <3>1. y[m] = NL /\ \A i \in 1 .. q : y[i] = <<e + 1, i, q>>
      BY <2>5, <2>6, <2>7
    <3>. QED
      BY <2>7, <3>1, TextAlone
  <2>. QED
    BY <2>5, <2>7, <2>8 DEF Flows
<1>. QED
  BY <1>1, <1>2

\* Whatever is read.
LEMMA ReadIs ==
  ASSUME NEW s \in Seq(Chars)
  PROVE  /\ Lines(s) \in Seq(Seq(Chars)) /\ Remainder(s) \in Seq(Chars) /\ Lstrip(s) \in Seq(Chars)
         /\ \A i \in 1 .. Len(Remainder(s)) : Remainder(s)[i] # NL
<1>1. Lstrip(s) \in Seq(Chars)
  BY LstripIs DEF Drops
<1>2. PICK m \in 0 .. Len(s) : /\ Drops(s, Remainder(s), m)
                               /\ \A j \in m + 1 .. Len(s) : s[j] # NL
  BY RemainderIs
<1>3. Remainder(s) \in Seq(Chars) /\ \A i \in 1 .. Len(Remainder(s)) : Remainder(s)[i] # NL
  <2> DEFINE l == Len(s)
             r == Remainder(s)
  <2>1. r \in Seq(Chars) /\ Len(r) = l - m /\ l \in Nat /\ \A i \in 1 .. l - m : r[i] = s[i + m]
    BY <1>2 DEF Drops
  <2> HIDE DEF r
  <2>2. \A i \in 1 .. l - m : i + m \in m + 1 .. l
    <3> HIDE DEF l
    <3>. QED
      BY <2>1
  <2>3. \A i \in 1 .. l - m : r[i] # NL
    BY <1>2, <2>1, <2>2
  <2>. QED
    BY <2>1, <2>3 DEF r
<1>4. Lines(s) \in Seq(Seq(Chars))
  <2> DEFINE S == LineEnds(s)
             N == Cardinality(S)
             At(k) == SubSeq(s, PieceStart(s, Nth(S, k) - 1), Nth(S, k) - 1)
  <2>1. S \in SUBSET Nat /\ IsFiniteSet(S) /\ N \in Nat
    <3>1. S \in SUBSET (1 .. Len(s)) /\ Len(s) \in Nat
      BY DEF LineEnds
    <3>2. IsFiniteSet(1 .. Len(s)) /\ \A i \in 1 .. Len(s) : i \in Nat
      BY <3>1, FS_Interval
    <3> HIDE DEF S
    <3>. QED
      BY <3>1, <3>2, FS_Subset, FS_CardinalityType
  <2>2. Lines(s) = [k \in 1 .. N |-> At(k)]
    BY DEF Lines
  <2>3. ASSUME NEW k \in 1 .. N PROVE At(k) \in Seq(Chars)
    <3>1. Nth(S, k) \in S
      <4> HIDE DEF S
      <4>. QED
        BY <2>1, NthIs DEF N
    <3>2. PICK e \in 2 .. Len(s) : e = Nth(S, k)
      BY <3>1 DEF LineEnds
    <3>3. e - 1 \in Nat /\ e - 1 \in 0 .. Len(s) /\ (e - 1) + 1 = e
      OBVIOUS
    <3>4. PICK p \in 1 .. (e - 1) + 1 : PieceStart(s, e - 1) = p
      BY <3>3, PieceStarts
    <3>5. p \in 1 .. Len(s) + 1 /\ p <= (e - 1) + 1
      BY <3>3
    <3>6. SubSeq(s, p, e - 1) \in Seq(Chars)
      BY <3>3, <3>5, PieceIs
    <3>7. At(k) = SubSeq(s, p, e - 1)
      BY <3>2, <3>4
    <3>. QED
      BY <3>6, <3>7
  <2> HIDE DEF S, N, At
  <2>. QED
    BY <2>1, <2>2, <2>3
<1>. QED
  BY <1>1, <1>3, <1>4

-----------------------------------------------------------------------------
\* What is under way in direction d, from the reader's part of a line to the writer's.
Rest(d) == IF lock[d] = Free THEN <<>> ELSE todo[d][lock[d]]
Flow(d) == partial[d] \o (stream[d] \o Rest(d))

FramesTypeOK ==
  /\ open \in BOOLEAN /\ count \in [Dirs -> Nat]
  /\ todo \in [Dirs -> [Tasks -> Seq(Chars)]] /\ lock \in [Dirs -> Tasks \cup {Free}]
  /\ stream \in [Dirs -> Seq(Chars)] /\ partial \in [Dirs -> Seq(Chars)]
  /\ got \in [Dirs -> Seq(Seq(Chars))] /\ tidy \in [Dirs -> BOOLEAN]

\* One task is in _send in each direction: the one that holds the lock.
OneSends == \A d \in Dirs : \A t \in Tasks : (todo[d][t] # <<>> <=> lock[d] = t) /\ Suffix(todo[d][t])
Away == ~open => (\A d \in Dirs : stream[d] = <<>>) /\ lock["up"] = Free
PartOfLine == \A d \in Dirs : \A i \in 1 .. Len(partial[d]) : partial[d][i] # NL

Good(d) ==
  tidy[d] =>
    /\ LinesWhole(got[d])
    /\ open => Flows(got[d], Flow(d), count[d])
    /\ ~open => ComesAfter(got[d], Rest(d), count[d])

FramesInv == FramesTypeOK /\ OneSends /\ Away /\ PartOfLine /\ \A d \in Dirs : Good(d)

\* A direction that a step does not touch.
LEMMA GoodStays ==
  ASSUME NEW d \in Dirs, Good(d), open' = open, partial'[d] = partial[d], stream'[d] = stream[d],
         todo'[d] = todo[d], lock'[d] = lock[d], got'[d] = got[d], count'[d] = count[d], tidy'[d] = tidy[d]
  PROVE  Good(d)'
<1>1. Rest(d)' = Rest(d)
  BY DEF Rest
<1>2. Flow(d)' = Flow(d)
  BY <1>1 DEF Flow
<1>3. CASE tidy[d]
  <2>1. CASE open
    BY <1>2, <1>3, <2>1 DEF Good
  <2>2. CASE ~open
    BY <1>1, <1>3, <2>2 DEF Good
  <2>. QED
    BY <2>1, <2>2
<1>. QED
  BY <1>3 DEF Good

\* The rest of the line that is being sent.
LEMMA RestIs ==
  ASSUME FramesTypeOK, OneSends, NEW d \in Dirs
  PROVE  /\ Rest(d) \in Seq(Chars) /\ Suffix(Rest(d))
         /\ \A t \in Tasks : lock[d] = t => Rest(d) = todo[d][t]
         /\ lock[d] = Free => Rest(d) = <<>> /\ \A t \in Tasks : todo[d][t] = <<>>
<1>1. \A t \in Tasks : t # Free
  BY DEF Tasks, Free
<1>2. <<>> \in Seq(Chars) /\ Suffix(<<>>)
  BY DEF Suffix
<1>3. CASE lock[d] = Free
  BY <1>1, <1>2, <1>3 DEF Rest, OneSends
<1>4. CASE lock[d] # Free
  <2>1. PICK t \in Tasks : lock[d] = t
    BY <1>4 DEF FramesTypeOK
  <2>2. Rest(d) = todo[d][t]
    BY <1>4, <2>1 DEF Rest
  <2>3. todo[d][t] \in Seq(Chars) /\ Suffix(todo[d][t])
    BY DEF FramesTypeOK, OneSends
  <2>. QED
    BY <1>4, <2>1, <2>2, <2>3
<1>. QED
  BY <1>3, <1>4

\* _send is called: its line is put behind all that is under way.
LEMMA BeginFrames ==
  ASSUME FramesInv, NEW d \in Dirs, NEW t \in Tasks, Begin(d, t)
  PROVE  FramesInv'
<1>0. FramesTypeOK /\ OneSends /\ Away /\ PartOfLine /\ \A e \in Dirs : Good(e)
  BY DEF FramesInv
<1>1. PICK n \in Nat : n = count[d]
  BY <1>0 DEF FramesTypeOK
<1>2. PICK y \in Seq(Chars) : y = LineOf(n + 1, t)
  BY LineOfIs
<1>3. /\ open /\ todo[d][t] = <<>> /\ lock[d] = Free
      /\ lock' = [lock EXCEPT ![d] = t]
      /\ count' = [count EXCEPT ![d] = n + 1]
      /\ todo' = [todo EXCEPT ![d][t] = y]
      /\ open' = open /\ stream' = stream /\ partial' = partial /\ got' = got /\ tidy' = tidy
  BY <1>1, <1>2 DEF Begin, Takes
<1>4. FramesTypeOK'
  BY <1>0, <1>1, <1>2, <1>3 DEF FramesTypeOK
<1>5. PICK z \in Nat : /\ Len(y) = z + 1 /\ y[z + 1] = NL
                       /\ \A i \in 1 .. z : y[i] = <<n + 1, i, z>>
  <2>1. PICK z \in Nat : z = Size(t)
    BY LineOfIs
  <2>2. PICK m \in Nat : m = n + 1
    OBVIOUS
  <2>3. /\ Len(LineOf(m, t)) = z + 1 /\ LineOf(m, t)[z + 1] = NL
        /\ \A i \in 1 .. z : LineOf(m, t)[i] = <<m, i, z>>
    BY <2>1, LineOfIs
  <2>4. y = LineOf(m, t)
    BY <1>2, <2>2
  <2>5. /\ Len(y) = z + 1 /\ y[z + 1] = NL
        /\ \A i \in 1 .. z : y[i] = <<m, i, z>>
    BY <2>3, <2>4
  <2>. QED
    BY <2>2, <2>5
<1>6. y # <<>> /\ Suffix(y)
  <2>1. y # <<>>
    BY <1>5
  <2>2. Suffix(y)
    BY <1>2, LineIsSuffix
  <2>. QED
    BY <2>1, <2>2
<1>7. /\ todo'[d][t] = y /\ lock'[d] = t /\ count'[d] = n + 1
      /\ \A u \in Tasks \ {t} : todo'[d][u] = todo[d][u]
      /\ \A e \in Dirs \ {d} : todo'[e] = todo[e] /\ lock'[e] = lock[e] /\ count'[e] = count[e]
  BY <1>0, <1>3 DEF FramesTypeOK
<1>8. \A u \in Tasks : u # Free
  BY DEF Tasks, Free
<1>9. OneSends'
  <2> SUFFICES ASSUME NEW e \in Dirs, NEW u \in Tasks
               PROVE  (todo'[e][u] # <<>> <=> lock'[e] = u) /\ Suffix(todo'[e][u])
    BY DEF OneSends
  <2>1. CASE e # d
    BY <1>0, <1>7, <2>1 DEF OneSends
  <2>2. CASE e = d /\ u = t
    BY <1>6, <1>7, <2>2
  <2>3. CASE e = d /\ u # t
    <3>1. todo'[e][u] = todo[e][u] /\ lock'[e] # u /\ lock[e] # u
      BY <1>3, <1>7, <1>8, <2>3
    <3>. QED
      BY <1>0, <3>1 DEF OneSends
  <2>. QED
    BY <2>1, <2>2, <2>3
<1>10. Away' /\ PartOfLine'
  BY <1>0, <1>3 DEF Away, PartOfLine
<1>11. ASSUME NEW e \in Dirs PROVE Good(e)'
  <2>1. CASE e # d
    BY <1>0, <1>3, <1>7, <2>1, GoodStays
  <2>2. CASE e = d
    <3> SUFFICES ASSUME tidy[d] PROVE LinesWhole(got[d]) /\ Flows(got[d], Flow(d)', n + 1)
      BY <1>3, <1>7, <2>2 DEF Good
    <3>1. PICK p \in Seq(Chars), s \in Seq(Chars), g \in Seq(Seq(Chars)) : p = partial[d] /\ s = stream[d] /\ g = got[d]
      BY <1>0 DEF FramesTypeOK
    <3>2. LinesWhole(g) /\ Flows(g, Flow(d), n)
      BY <1>0, <1>1, <1>3, <3>1 DEF Good
    <3>3. Flow(d) = p \o (s \o <<>>)
      BY <1>3, <3>1 DEF Flow, Rest
    <3>4. Flow(d)' = p \o (s \o y)
      BY <1>3, <1>7, <1>8, <3>1 DEF Flow, Rest
    <3>5. p \o s \in Seq(Chars) /\ p \o (s \o <<>>) = p \o s /\ p \o (s \o y) = (p \o s) \o y
      <4>1. p \o s \in Seq(Chars)
        BY JoinIs
      <4>2. s \o <<>> = s
        OBVIOUS
      <4>3. p \o (s \o y) = (p \o s) \o y
        BY JoinAgain, ZenonT(30)
      <4>. QED
        BY <4>1, <4>2, <4>3
    <3>6. PICK f \in Seq(Chars) : f = p \o s
      BY <3>5
    <3>7. Flows(g, f, n)
      BY <3>2, <3>3, <3>5, <3>6
    <3>8. Flows(g, f \o y, n + 1)
      BY <1>5, <3>7, LineFlows
    <3>. QED
      BY <3>1, <3>2, <3>4, <3>5, <3>6, <3>8
  <2>. QED
    BY <2>1, <2>2
<1>. QED
  BY <1>4, <1>9, <1>10, <1>11 DEF FramesInv

\* _send goes on: what is under way is the same.
LEMMA SendSomeFrames ==
  ASSUME FramesInv, NEW d \in Dirs, NEW t \in Tasks, SendSome(d, t)
  PROVE  FramesInv'
<1>0. FramesTypeOK /\ OneSends /\ Away /\ PartOfLine /\ \A e \in Dirs : Good(e)
  BY DEF FramesInv
<1>1. PICK l \in Seq(Chars), s \in Seq(Chars), p \in Seq(Chars), g \in Seq(Seq(Chars)) :
        l = todo[d][t] /\ s = stream[d] /\ p = partial[d] /\ g = got[d]
  BY <1>0 DEF FramesTypeOK
<1>2. PICK k \in 1 .. Len(l) :
        /\ stream' = [stream EXCEPT ![d] = s \o SubSeq(l, 1, k)]
        /\ todo' = [todo EXCEPT ![d][t] = SubSeq(l, k + 1, Len(l))]
        /\ lock' = [lock EXCEPT ![d] = IF k = Len(l) THEN Free ELSE lock[d]]
  BY <1>1 DEF SendSome
<1>3. /\ open /\ open' = open /\ count' = count /\ partial' = partial /\ got' = got /\ tidy' = tidy
  BY DEF SendSome
<1>4. k \in 0 .. Len(l) /\ Len(l) > 0 /\ Len(l) \in Nat
  OBVIOUS
<1> DEFINE a == SubSeq(l, 1, k)
           b == SubSeq(l, k + 1, Len(l))
<1>5. a \in Seq(Chars) /\ b \in Seq(Chars) /\ Len(b) = Len(l) - k /\ a \o b = l
  BY <1>4, CutInTwo
<1>7. Suffix(l) => Suffix(b)
  BY SuffixLeft
<1>8. b = <<>> <=> k = Len(l)
  <2>1. PICK n \in Nat : n = Len(l) /\ k \in 0 .. n
    BY <1>4
  <2>2. Len(b) = n - k
    BY <1>5, <2>1
  <2> HIDE DEF b
  <2>3. CASE k = n
    BY <1>5, <2>1, <2>2, <2>3, EmptySeq
  <2>4. CASE k # n
    <3>1. n - k # 0
      BY <2>1, <2>4
    <3>2. b # <<>>
      BY <2>2, <3>1
    <3>. QED
      BY <2>1, <2>4, <3>2
  <2>. QED
    BY <2>3, <2>4
<1>9. PICK s2 \in Seq(Chars) : s2 = s \o a
  <2> HIDE DEF a
  <2>. QED
    BY <1>5, JoinIs
<1>6. l # <<>> /\ Suffix(l) /\ lock[d] = t
  <2>1. l # <<>>
    BY <1>4
  <2>. QED
    BY <1>0, <1>1, <2>1 DEF OneSends
<1>10. PICK h \in Tasks \cup {Free} : h = (IF b = <<>> THEN Free ELSE t)
  OBVIOUS
<1>11. /\ stream' = [stream EXCEPT ![d] = s2] /\ todo' = [todo EXCEPT ![d][t] = b]
       /\ lock' = [lock EXCEPT ![d] = h]
  <2>1. h = IF k = Len(l) THEN Free ELSE lock[d]
    BY <1>6, <1>8, <1>10
  <2>. QED
    BY <1>2, <1>9, <2>1
<1> HIDE DEF a, b
<1>12. FramesTypeOK'
  BY <1>0, <1>3, <1>5, <1>11 DEF FramesTypeOK
<1>13. /\ todo'[d][t] = b /\ lock'[d] = h /\ stream'[d] = s2
       /\ \A u \in Tasks \ {t} : todo'[d][u] = todo[d][u]
       /\ \A e \in Dirs \ {d} : todo'[e] = todo[e] /\ lock'[e] = lock[e] /\ stream'[e] = stream[e]
  BY <1>0, <1>11 DEF FramesTypeOK
<1>14. \A u \in Tasks : u # Free
  BY DEF Tasks, Free
<1>15. OneSends'
  <2> SUFFICES ASSUME NEW e \in Dirs, NEW u \in Tasks
               PROVE  (todo'[e][u] # <<>> <=> lock'[e] = u) /\ Suffix(todo'[e][u])
    BY DEF OneSends
  <2>1. CASE e # d
    BY <1>0, <1>13, <2>1 DEF OneSends
  <2>2. CASE e = d /\ u = t
    <3>1. todo'[e][u] = b /\ lock'[e] = h /\ (b # <<>> <=> h = t)
      BY <1>10, <1>13, <1>14, <2>2
    <3>. QED
      BY <1>6, <1>7, <2>2, <3>1
  <2>3. CASE e = d /\ u # t
    <3>1. todo'[e][u] = todo[e][u] /\ lock'[e] # u /\ lock[e] # u
      BY <1>6, <1>10, <1>13, <1>14, <2>3
    <3>. QED
      BY <1>0, <3>1 DEF OneSends
  <2>. QED
    BY <2>1, <2>2, <2>3
<1>16. Away' /\ PartOfLine'
  BY <1>0, <1>3 DEF Away, PartOfLine
<1>17. ASSUME NEW e \in Dirs PROVE Good(e)'
  <2>1. CASE e # d
    BY <1>0, <1>3, <1>13, <2>1, GoodStays
  <2>2. CASE e = d
    <3>1. Flow(d) = p \o (s \o l)
      BY <1>1, <1>6, <1>14 DEF Flow, Rest
    <3>2. Rest(d)' = b
      BY <1>10, <1>13, <1>14 DEF Rest
    <3>3. Flow(d)' = p \o (s2 \o b)
      BY <1>1, <1>3, <1>13, <3>2 DEF Flow
    <3>4. (s \o a) \o b = s \o (a \o b)
      BY <1>5, JoinAgain, ZenonT(30)
    <3>5. Flow(d)' = Flow(d)
      BY <1>5, <1>9, <3>1, <3>3, <3>4
    <3>. QED
      BY <1>0, <1>3, <2>2, <3>5 DEF Good
  <2>. QED
    BY <2>1, <2>2
<1>. QED
  BY <1>12, <1>15, <1>16, <1>17 DEF FramesInv

\* What is left of a line follows what is received.
LEMMA RestFollows ==
  ASSUME FramesInv, NEW d \in Dirs, tidy[d]
  PROVE  LinesWhole(got[d]) /\ ComesAfter(got[d], Rest(d), count[d])
<1>0. FramesTypeOK /\ OneSends /\ Good(d)
  BY DEF FramesInv
<1>1. PICK r \in Seq(Chars), s \in Seq(Chars), p \in Seq(Chars), g \in Seq(Seq(Chars)), c \in Nat :
        r = Rest(d) /\ s = stream[d] /\ p = partial[d] /\ g = got[d] /\ c = count[d]
  BY <1>0, RestIs DEF FramesTypeOK
<1>2. CASE ~open
  BY <1>0, <1>2 DEF Good
<1>3. CASE open
  <2>1. LinesWhole(g) /\ Flows(g, p \o (s \o r), c)
    BY <1>0, <1>1, <1>3 DEF Good, Flow
  <2>2. PICK q \in Seq(Chars) : q = p \o s
    BY JoinIs
  <2>3. (p \o s) \o r = p \o (s \o r)
    BY JoinAgain, ZenonT(30)
  <2>4. PICK f \in Seq(Chars) : f = q \o r
    BY JoinIs
  <2>5. ComesAfter(g, f, c)
    BY <2>1, <2>2, <2>3, <2>4 DEF Flows
  <2>6. PICK m \in Nat : m = Len(q)
    OBVIOUS
  <2>7. Drops(q, <<>>, m)
    <3>1. m \in 0 .. Len(q) /\ Len(q) - m = 0
      BY <2>6
    <3>. QED
      BY <3>1 DEF Drops
  <2>8. Drops(f, <<>> \o r, m)
    BY <2>4, <2>7, DropsBefore
  <2>9. <<>> \o r = r
    OBVIOUS
  <2>10. ComesAfter(g, r, c)
    BY <2>5, <2>8, <2>9, AfterDrops
  <2>. QED
    BY <1>1, <2>1, <2>10
<1>. QED
  BY <1>2, <1>3

LEMMA NothingFollows ==
  ASSUME NEW g, NEW s, NEW c, ComesAfter(g, s, c)
  PROVE  ComesAfter(g, <<>>, c)
BY DEF ComesAfter, Below, Precedes

\* The connection ends, and with it what is left to send in directions D.
LEMMA EndFrames ==
  ASSUME FramesInv, NEW D \in SUBSET Dirs, "up" \in D,
         open' = FALSE, stream' = [d \in Dirs |-> <<>>],
         count' = count, partial' = partial, got' = got, tidy' = tidy,
         todo' = [d \in Dirs |-> IF d \in D THEN [t \in Tasks |-> <<>>] ELSE todo[d]],
         lock' = [d \in Dirs |-> IF d \in D THEN Free ELSE lock[d]]
  PROVE  FramesInv'
<1>0. FramesTypeOK /\ OneSends /\ Away /\ PartOfLine /\ \A e \in Dirs : Good(e)
  BY DEF FramesInv
<1>1. <<>> \in Seq(Chars) /\ Suffix(<<>>)
  BY DEF Suffix
<1>2. [t \in Tasks |-> <<>>] \in [Tasks -> Seq(Chars)]
  BY <1>1
<1>3. todo' \in [Dirs -> [Tasks -> Seq(Chars)]]
  BY <1>0, <1>2 DEF FramesTypeOK
<1>4. FramesTypeOK'
  BY <1>0, <1>1, <1>3 DEF FramesTypeOK
<1>5. \A u \in Tasks : u # Free
  BY DEF Tasks, Free
<1>6. OneSends'
  <2> SUFFICES ASSUME NEW e \in Dirs, NEW u \in Tasks
               PROVE  (todo'[e][u] # <<>> <=> lock'[e] = u) /\ Suffix(todo'[e][u])
    BY DEF OneSends
  <2>1. CASE e \in D
    <3>1. todo'[e][u] = <<>> /\ lock'[e] = Free
      BY <2>1
    <3>. QED
      BY <1>1, <1>5, <3>1
  <2>2. CASE e \notin D
    <3>1. todo'[e] = todo[e] /\ lock'[e] = lock[e]
      BY <2>2
    <3>. QED
      BY <1>0, <3>1 DEF OneSends
  <2>. QED
    BY <2>1, <2>2
<1>7. Away' /\ PartOfLine'
  BY <1>0 DEF Away, PartOfLine, Dirs
<1>8. ASSUME NEW e \in Dirs PROVE Good(e)'
  <2> SUFFICES ASSUME tidy[e] PROVE LinesWhole(got[e]) /\ ComesAfter(got[e], Rest(e)', count[e])
    BY DEF Good
  <2>1. LinesWhole(got[e]) /\ ComesAfter(got[e], Rest(e), count[e])
    BY RestFollows
  <2>2. CASE e \in D
    <3>1. Rest(e)' = <<>>
      BY <2>2 DEF Rest
    <3>. QED
      BY <2>1, <3>1, NothingFollows
  <2>3. CASE e \notin D
    <3>1. Rest(e)' = Rest(e)
      BY <2>3 DEF Rest
    <3>. QED
      BY <2>1, <3>1
  <2>. QED
    BY <2>2, <2>3
<1>. QED
  BY <1>4, <1>6, <1>7, <1>8 DEF FramesInv

LEMMA CutFrames ==
  ASSUME FramesInv, Cut
  PROVE  FramesInv'
<1>1. todo \in [Dirs -> [Tasks -> Seq(Chars)]] /\ lock \in [Dirs -> Tasks \cup {Free}]
  BY DEF FramesInv, FramesTypeOK
<1> DEFINE D == {"up"}
<1>2. D \in SUBSET Dirs /\ "up" \in D
  BY DEF Dirs
<1>3. /\ open' = FALSE /\ stream' = [d \in Dirs |-> <<>>]
      /\ count' = count /\ partial' = partial /\ got' = got /\ tidy' = tidy
  BY DEF Cut, Breaks
<1>4. todo' = [d \in Dirs |-> IF d \in D THEN [t \in Tasks |-> <<>>] ELSE todo[d]]
  BY <1>1 DEF Cut
<1>5. lock' = [d \in Dirs |-> IF d \in D THEN Free ELSE lock[d]]
  BY <1>1 DEF Cut
<1> HIDE DEF D
<1>. QED
  BY <1>2, <1>3, <1>4, <1>5, EndFrames

LEMMA SSendFailsFrames ==
  ASSUME FramesInv, NEW t \in Tasks, SSendFails(t)
  PROVE  FramesInv'
<1> DEFINE D == Dirs
<1>2. D \in SUBSET Dirs /\ "up" \in D
  BY DEF Dirs
<1>3. /\ open' = FALSE /\ stream' = [d \in Dirs |-> <<>>]
      /\ count' = count /\ partial' = partial /\ got' = got /\ tidy' = tidy
  BY DEF SSendFails, Breaks
<1>4. todo' = [d \in Dirs |-> IF d \in D THEN [u \in Tasks |-> <<>>] ELSE todo[d]]
  BY DEF SSendFails
<1>5. lock' = [d \in Dirs |-> IF d \in D THEN Free ELSE lock[d]]
  BY DEF SSendFails
<1> HIDE DEF D
<1>. QED
  BY <1>2, <1>3, <1>4, <1>5, EndFrames

\* A task of the server ends: what was left of its line is not sent.
LEMMA DiesFrames ==
  ASSUME FramesInv, NEW t \in Tasks, Dies(t)
  PROVE  FramesInv'
<1>0. FramesTypeOK /\ OneSends /\ Away /\ PartOfLine /\ \A e \in Dirs : Good(e)
  BY DEF FramesInv
<1>1. <<>> \in Seq(Chars) /\ Suffix(<<>>) /\ "down" \in Dirs
  BY DEF Suffix, Dirs
<1>2. PICK l \in Seq(Chars) : l = <<>>
  BY <1>1
<1>3. /\ ~open /\ todo["down"][t] # <<>>
      /\ todo' = [todo EXCEPT !["down"][t] = l] /\ lock' = [lock EXCEPT !["down"] = Free]
      /\ open' = open /\ count' = count /\ stream' = stream /\ partial' = partial
      /\ got' = got /\ tidy' = tidy
  BY <1>2 DEF Dies
<1>4. FramesTypeOK'
  BY <1>0, <1>3 DEF FramesTypeOK
<1>5. /\ todo'["down"][t] = l /\ lock'["down"] = Free /\ lock["down"] = t
      /\ \A u \in Tasks \ {t} : todo'["down"][u] = todo["down"][u]
      /\ todo'["up"] = todo["up"] /\ lock'["up"] = lock["up"]
  BY <1>0, <1>1, <1>3 DEF FramesTypeOK, OneSends, Dirs
<1>6. \A u \in Tasks : u # Free
  BY DEF Tasks, Free
<1>7. \A e \in Dirs : e = "up" \/ e = "down"
  BY DEF Dirs
<1>8. OneSends'
  <2> SUFFICES ASSUME NEW e \in Dirs, NEW u \in Tasks
               PROVE  (todo'[e][u] # <<>> <=> lock'[e] = u) /\ Suffix(todo'[e][u])
    BY DEF OneSends
  <2>1. CASE e = "up"
    BY <1>0, <1>5, <2>1 DEF OneSends
  <2>2. CASE e = "down" /\ u = t
    BY <1>1, <1>2, <1>5, <1>6, <2>2
  <2>3. CASE e = "down" /\ u # t
    <3>1. todo'[e][u] = todo[e][u] /\ lock'[e] # u /\ lock[e] # u
      BY <1>5, <1>6, <2>3
    <3>. QED
      BY <1>0, <3>1 DEF OneSends
  <2>. QED
    BY <1>7, <2>1, <2>2, <2>3
<1>9. Away' /\ PartOfLine'
  BY <1>0, <1>3, <1>5 DEF Away, PartOfLine
<1>10. ASSUME NEW e \in Dirs PROVE Good(e)'
  <2>1. CASE e = "up"
    BY <1>0, <1>3, <1>5, <2>1, GoodStays
  <2>2. CASE e = "down"
    <3> SUFFICES ASSUME tidy[e] PROVE LinesWhole(got[e]) /\ ComesAfter(got[e], Rest(e)', count[e])
      BY <1>3 DEF Good
    <3>1. Rest(e)' = <<>>
      BY <1>5, <2>2 DEF Rest
    <3>2. LinesWhole(got[e]) /\ ComesAfter(got[e], Rest(e), count[e])
      BY RestFollows
    <3>. QED
      BY <3>1, <3>2, NothingFollows
  <2>. QED
    BY <1>7, <2>1, <2>2
<1>. QED
  BY <1>4, <1>8, <1>9, <1>10 DEF FramesInv

\* A new connection begins with what is kept of the old one.
LEMMA ReopenFrames ==
  ASSUME FramesInv, Reopen
  PROVE  FramesInv'
<1>0. FramesTypeOK /\ OneSends /\ Away /\ PartOfLine /\ \A e \in Dirs : Good(e)
  BY DEF FramesInv
<1>1. PICK l \in Seq(Chars) : l = <<>>
  <2>1. <<>> \in Seq(Chars)
    OBVIOUS
  <2>. QED
    BY <2>1
<1>2. /\ ~open /\ open' = TRUE /\ partial' = [partial EXCEPT !["down"] = l]
      /\ count' = count /\ todo' = todo /\ lock' = lock /\ stream' = stream /\ got' = got
      /\ tidy' = [up   |-> tidy["up"] /\ partial["up"] = <<>>,
                  down |-> tidy["down"] /\ \A t \in Tasks : Unsent(todo["down"][t])]
  BY <1>1 DEF Reopen, Kept
<1>3. \A e \in Dirs : e = "up" \/ e = "down"
  BY DEF Dirs
<1>4. /\ tidy'["up"] => tidy["up"] /\ partial["up"] = <<>>
      /\ tidy'["down"] => tidy["down"] /\ \A t \in Tasks : Unsent(todo["down"][t])
      /\ tidy' \in [Dirs -> BOOLEAN]
  <2>1. tidy["up"] \in BOOLEAN /\ tidy["down"] \in BOOLEAN
    BY <1>0 DEF FramesTypeOK, Dirs
  <2>2. PICK x \in BOOLEAN, y \in BOOLEAN :
          /\ x <=> tidy["up"] /\ partial["up"] = <<>>
          /\ y <=> tidy["down"] /\ \A t \in Tasks : Unsent(todo["down"][t])
    OBVIOUS
  <2>3. tidy' = [up |-> x, down |-> y]
    BY <1>2, <2>2
  <2>4. tidy'["up"] = x /\ tidy'["down"] = y
    BY <2>3
  <2>5. [up |-> x, down |-> y] \in [Dirs -> BOOLEAN]
    BY DEF Dirs
  <2>. QED
    BY <2>2, <2>3, <2>4, <2>5
<1>5. FramesTypeOK'
  BY <1>0, <1>2, <1>4 DEF FramesTypeOK
<1>6. /\ partial'["down"] = <<>> /\ partial'["up"] = partial["up"]
  BY <1>0, <1>1, <1>2 DEF FramesTypeOK, Dirs
<1>7. OneSends' /\ Away'
  BY <1>0, <1>2 DEF OneSends, Away
<1>8. PartOfLine'
  <2> SUFFICES ASSUME NEW e \in Dirs, NEW i \in 1 .. Len(partial'[e]) PROVE partial'[e][i] # NL
    BY DEF PartOfLine
  <2>1. CASE e = "up"
    BY <1>0, <1>6, <2>1 DEF PartOfLine
  <2>2. CASE e = "down"
    BY <1>6, <2>2
  <2>. QED
    BY <1>3, <2>1, <2>2
<1>9. ASSUME NEW e \in Dirs PROVE Good(e)'
  <2> SUFFICES ASSUME tidy'[e] PROVE LinesWhole(got[e]) /\ Flows(got[e], Flow(e)', count[e])
    BY <1>2 DEF Good
  <2>1. tidy[e] /\ partial'[e] = <<>>
    BY <1>3, <1>4, <1>6
  <2>2. PICK r \in Seq(Chars), g \in Seq(Seq(Chars)), c \in Nat :
          r = Rest(e) /\ g = got[e] /\ c = count[e] /\ Suffix(r)
    BY <1>0, RestIs DEF FramesTypeOK
  <2>3. LinesWhole(g) /\ ComesAfter(g, r, c)
    BY <2>1, <2>2, RestFollows
  <2>4. Unsent(r)
    <3>1. CASE e = "up"
      <4>1. r = <<>>
        BY <1>0, <1>2, <2>2, <3>1 DEF Away, Rest
      <4>. QED
        BY <4>1 DEF Unsent
    <3>2. CASE e = "down"
      <4>1. \A t \in Tasks : Unsent(todo[e][t])
        BY <1>4, <3>2
      <4>2. lock[e] = Free \/ lock[e] \in Tasks
        BY <1>0 DEF FramesTypeOK
      <4>3. r = <<>> \/ \E t \in Tasks : r = todo[e][t]
        BY <1>0, <2>2, <4>2, RestIs
      <4>4. Unsent(<<>>)
        BY DEF Unsent
      <4>. QED
        BY <4>1, <4>3, <4>4
    <3>. QED
      BY <1>3, <3>1, <3>2
  <2>5. Flows(g, r, c)
    BY <2>2, <2>3, <2>4, UnsentFlows
  <2>6. Flow(e)' = <<>> \o (<<>> \o r)
    <3>1. Rest(e)' = Rest(e)
      BY <1>2 DEF Rest
    <3>2. stream'[e] = <<>>
      BY <1>0, <1>2 DEF Away
    <3>. QED
      BY <2>1, <2>2, <3>1, <3>2 DEF Flow
  <2>7. <<>> \o (<<>> \o r) = r
    OBVIOUS
  <2>. QED
    BY <2>2, <2>3, <2>5, <2>6, <2>7
<1>. QED
  BY <1>5, <1>7, <1>8, <1>9 DEF FramesInv

\* The readers take whole lines from the front of what is under way.
LEMMA SReadFrames ==
  ASSUME FramesInv, SRead
  PROVE  FramesInv'
<1>0. FramesTypeOK /\ OneSends /\ Away /\ PartOfLine /\ \A e \in Dirs : Good(e)
  BY DEF FramesInv
<1>1. "up" \in Dirs /\ "down" \in Dirs /\ \A e \in Dirs : e = "up" \/ e = "down"
  BY DEF Dirs
<1>2. PICK s \in Seq(Chars), p \in Seq(Chars), g \in Seq(Seq(Chars)), c \in Nat, r \in Seq(Chars) :
        s = stream["up"] /\ p = partial["up"] /\ g = got["up"] /\ c = count["up"] /\ r = Rest("up")
  BY <1>0, <1>1, RestIs DEF FramesTypeOK
<1>3. PICK k \in 1 .. Len(s) :
        LET chunk == SubSeq(s, 1, k)
            x     == p \o Lstrip(chunk) IN
        /\ stream'  = [stream EXCEPT !["up"] = SubSeq(s, k + 1, Len(s))]
        /\ got'     = [got EXCEPT !["up"] = g \o Lines(x)]
        /\ partial' = [partial EXCEPT !["up"] = Remainder(x)]
        /\ tidy'    = [tidy EXCEPT !["up"] = @ /\ (p = <<>> \/ chunk[1] # NL)]
  BY <1>2 DEF SRead
<1>4. /\ SubSeq(s, 1, k) \in Seq(Chars) /\ SubSeq(s, k + 1, Len(s)) \in Seq(Chars)
      /\ SubSeq(s, 1, k)[1] = s[1]
  <2>1. k \in 0 .. Len(s) /\ 1 \in 1 .. k
    OBVIOUS
  <2>. QED
    BY <2>1, CutInTwo
<1>5. PICK y \in Seq(Chars) : y = Lstrip(SubSeq(s, 1, k))
  BY <1>4, ReadIs
<1>6. PICK x \in Seq(Chars) : x = p \o y
  BY JoinIs
<1>7. PICK ls \in Seq(Seq(Chars)), q \in Seq(Chars), s2 \in Seq(Chars) :
        /\ ls = Lines(x) /\ q = Remainder(x) /\ s2 = SubSeq(s, k + 1, Len(s))
        /\ \A i \in 1 .. Len(q) : q[i] # NL
  BY <1>4, ReadIs
<1>8. PICK g2 \in Seq(Seq(Chars)) : g2 = g \o ls
  <2>1. g \o ls \in Seq(Seq(Chars))
    BY ConcatProperties
  <2>. QED
    BY <2>1
<1>9. PICK b \in BOOLEAN : b <=> tidy["up"] /\ (p = <<>> \/ s[1] # NL)
  OBVIOUS
<1>10. /\ stream' = [stream EXCEPT !["up"] = s2] /\ got' = [got EXCEPT !["up"] = g2]
       /\ partial' = [partial EXCEPT !["up"] = q]
  BY <1>3, <1>5, <1>6, <1>7, <1>8
<1>11. tidy' = [tidy EXCEPT !["up"] = b]
  <2>1. tidy["up"] \in BOOLEAN
    BY <1>0, <1>1 DEF FramesTypeOK
  <2>2. tidy' = [tidy EXCEPT !["up"] = tidy["up"] /\ (p = <<>> \/ SubSeq(s, 1, k)[1] # NL)]
    BY <1>3
  <2>3. (tidy["up"] /\ (p = <<>> \/ SubSeq(s, 1, k)[1] # NL)) = b
    BY <1>4, <1>9, <2>1
  <2>. QED
    BY <2>2, <2>3
<1>12. /\ open /\ open' = open /\ count' = count /\ todo' = todo /\ lock' = lock
  BY DEF SRead
<1>13. FramesTypeOK'
  BY <1>0, <1>10, <1>11, <1>12 DEF FramesTypeOK
<1>14. /\ stream'["up"] = s2 /\ got'["up"] = g2 /\ partial'["up"] = q /\ tidy'["up"] = b
       /\ stream'["down"] = stream["down"] /\ got'["down"] = got["down"]
       /\ partial'["down"] = partial["down"] /\ tidy'["down"] = tidy["down"]
  BY <1>0, <1>1, <1>10, <1>11 DEF FramesTypeOK
<1>15. OneSends' /\ Away'
  BY <1>0, <1>12 DEF OneSends, Away
<1>16. PartOfLine'
  <2> SUFFICES ASSUME NEW e \in Dirs, NEW i \in 1 .. Len(partial'[e]) PROVE partial'[e][i] # NL
    BY DEF PartOfLine
  <2>1. CASE e = "up"
    BY <1>7, <1>14, <2>1
  <2>2. CASE e = "down"
    BY <1>0, <1>14, <2>2 DEF PartOfLine
  <2>. QED
    BY <1>1, <2>1, <2>2
<1>17. ASSUME NEW e \in Dirs PROVE Good(e)'
  <2>1. CASE e = "down"
    BY <1>0, <1>12, <1>14, <2>1, GoodStays
  <2>2. CASE e = "up"
    <3> SUFFICES ASSUME b PROVE LinesWhole(g2) /\ Flows(g2, Flow(e)', c)
      BY <1>2, <1>12, <1>14, <2>2 DEF Good
    <3>1. LinesWhole(g) /\ Flows(g, Flow(e), c)
      BY <1>0, <1>2, <1>9, <1>12, <2>2 DEF Good
    <3>2. Flow(e) = p \o (s \o r)
      BY <1>2, <2>2 DEF Flow
    <3>3. Rest(e)' = r
      BY <1>2, <1>12, <2>2 DEF Rest
    <3>4. Flow(e)' = q \o (s2 \o r)
      BY <1>14, <2>2, <3>3 DEF Flow
    <3>5. LinesWhole(g \o Lines(x)) /\ Flows(g \o Lines(x), Remainder(x) \o (SubSeq(s, k + 1, Len(s)) \o r), c)
      <4>1. Flows(g, p \o (s \o r), c) /\ (p = <<>> \/ s[1] # NL) /\ x = p \o Lstrip(SubSeq(s, 1, k))
        BY <1>5, <1>6, <1>9, <3>1, <3>2
      <4>. QED
        BY <3>1, <4>1, ServerReadsLines
    <3>. QED
      BY <1>7, <1>8, <3>4, <3>5
  <2>. QED
    BY <1>1, <2>1, <2>2
<1>. QED
  BY <1>13, <1>15, <1>16, <1>17 DEF FramesInv

LEMMA CReadFrames ==
  ASSUME FramesInv, CRead
  PROVE  FramesInv'
<1>0. FramesTypeOK /\ OneSends /\ Away /\ PartOfLine /\ \A e \in Dirs : Good(e)
  BY DEF FramesInv
<1>1. "up" \in Dirs /\ "down" \in Dirs /\ \A e \in Dirs : e = "up" \/ e = "down"
  BY DEF Dirs
<1>2. PICK s \in Seq(Chars), p \in Seq(Chars), g \in Seq(Seq(Chars)), c \in Nat, r \in Seq(Chars) :
        s = stream["down"] /\ p = partial["down"] /\ g = got["down"] /\ c = count["down"] /\ r = Rest("down")
  BY <1>0, <1>1, RestIs DEF FramesTypeOK
<1>3. PICK k \in 1 .. Len(s) :
        LET d    == SubSeq(s, 1, k)
            line == p \o d IN
        /\ \A i \in 1 .. k - 1 : d[i] # NL
        /\ stream' = [stream EXCEPT !["down"] = SubSeq(s, k + 1, Len(s))]
        /\ IF line[Len(line)] = NL
           THEN /\ partial' = [partial EXCEPT !["down"] = <<>>]
                /\ got' = IF Len(line) > 1
                          THEN [got EXCEPT !["down"] = Append(g, SubSeq(line, 1, Len(line) - 1))]
                          ELSE got
           ELSE /\ partial' = [partial EXCEPT !["down"] = line]
                /\ UNCHANGED got
  BY <1>2 DEF CRead
<1>4. SubSeq(s, 1, k) \in Seq(Chars) /\ SubSeq(s, k + 1, Len(s)) \in Seq(Chars)
  <2>1. k \in 0 .. Len(s)
    OBVIOUS
  <2>. QED
    BY <2>1, CutInTwo
<1>5. PICK x \in Seq(Chars), s2 \in Seq(Chars) : x = p \o SubSeq(s, 1, k) /\ s2 = SubSeq(s, k + 1, Len(s))
  BY <1>4, JoinIs
<1>6. /\ stream' = [stream EXCEPT !["down"] = s2]
      /\ IF x[Len(x)] = NL
         THEN /\ partial' = [partial EXCEPT !["down"] = <<>>]
              /\ got' = IF Len(x) > 1
                        THEN [got EXCEPT !["down"] = Append(g, SubSeq(x, 1, Len(x) - 1))]
                        ELSE got
         ELSE /\ partial' = [partial EXCEPT !["down"] = x]
              /\ UNCHANGED got
  BY <1>3, <1>5
<1>7. open /\ open' = open /\ count' = count /\ todo' = todo /\ lock' = lock /\ tidy' = tidy
  BY DEF CRead
<1>8. SubSeq(x, 1, Len(x) - 1) \in Seq(Chars)
  OBVIOUS
<1>9. PICK q \in Seq(Chars), g2 \in Seq(Seq(Chars)) :
        /\ partial' = [partial EXCEPT !["down"] = q] /\ got' = [got EXCEPT !["down"] = g2]
        /\ x[Len(x)] # NL => q = x /\ g2 = g
        /\ x[Len(x)] = NL => q = <<>>
        /\ x[Len(x)] = NL /\ Len(x) > 1 => g2 = Append(g, SubSeq(x, 1, Len(x) - 1))
        /\ x[Len(x)] = NL /\ ~(Len(x) > 1) => g2 = g
  <2>1. got = [got EXCEPT !["down"] = g]
    BY <1>0, <1>2 DEF FramesTypeOK
  <2>2. Append(g, SubSeq(x, 1, Len(x) - 1)) \in Seq(Seq(Chars)) /\ <<>> \in Seq(Chars)
    BY <1>8
  <2>3. CASE x[Len(x)] # NL
    BY <1>6, <2>1, <2>3
  <2>4. CASE x[Len(x)] = NL /\ Len(x) > 1
    BY <1>6, <2>2, <2>4
  <2>5. CASE x[Len(x)] = NL /\ ~(Len(x) > 1)
    BY <1>6, <2>1, <2>2, <2>5
  <2>. QED
    BY <2>3, <2>4, <2>5
<1>10. FramesTypeOK'
  BY <1>0, <1>6, <1>7, <1>9 DEF FramesTypeOK
<1>11. /\ stream'["down"] = s2 /\ got'["down"] = g2 /\ partial'["down"] = q
       /\ stream'["up"] = stream["up"] /\ got'["up"] = got["up"] /\ partial'["up"] = partial["up"]
  BY <1>0, <1>1, <1>6, <1>9 DEF FramesTypeOK
<1>12. OneSends' /\ Away'
  BY <1>0, <1>7 DEF OneSends, Away
<1>13. /\ \A i \in 1 .. Len(p) : p[i] # NL
       /\ \A i \in 1 .. k - 1 : SubSeq(s, 1, k)[i] # NL
  BY <1>0, <1>1, <1>2, <1>3 DEF PartOfLine
<1>14. ASSUME x[Len(x)] # NL, NEW i \in 1 .. Len(x) PROVE x[i] # NL
  <2>1. Len(x) \in Nat /\ \A j \in 1 .. Len(x) - 1 : x[j] # NL
    BY <1>5, <1>13, OnlyLast
  <2>2. i = Len(x) \/ i \in 1 .. Len(x) - 1
    BY <2>1
  <2>. QED
    BY <1>14, <2>1, <2>2
<1>15. PartOfLine'
  <2> SUFFICES ASSUME NEW e \in Dirs, NEW i \in 1 .. Len(partial'[e]) PROVE partial'[e][i] # NL
    BY DEF PartOfLine
  <2>1. CASE e = "up"
    BY <1>0, <1>11, <2>1 DEF PartOfLine
  <2>2. CASE e = "down"
    BY <1>9, <1>11, <1>14, <2>2
  <2>. QED
    BY <1>1, <2>1, <2>2
<1>16. ASSUME NEW e \in Dirs PROVE Good(e)'
  <2>1. CASE e = "up"
    BY <1>0, <1>7, <1>11, <2>1, GoodStays
  <2>2. CASE e = "down"
    <3> SUFFICES ASSUME tidy[e] PROVE LinesWhole(g2) /\ Flows(g2, Flow(e)', c)
      BY <1>2, <1>7, <1>11, <2>2 DEF Good
    <3>1. LinesWhole(g) /\ Flows(g, Flow(e), c)
      BY <1>0, <1>2, <1>7, <2>2 DEF Good
    <3>2. Flow(e) = p \o (s \o r)
      BY <1>2, <2>2 DEF Flow
    <3>3. Rest(e)' = r
      BY <1>2, <1>7, <2>2 DEF Rest
    <3>4. Flow(e)' = q \o (s2 \o r)
      BY <1>11, <2>2, <3>3 DEF Flow
    <3>5. Flows(g, p \o (s \o r), c) /\ LinesWhole(g) /\ x = p \o SubSeq(s, 1, k)
      BY <1>5, <3>1, <3>2
    <3>6. /\ x[Len(x)] = NL /\ Len(x) > 1 =>
               /\ LinesWhole(Append(g, SubSeq(x, 1, Len(x) - 1)))
               /\ Flows(Append(g, SubSeq(x, 1, Len(x) - 1)), <<>> \o (s2 \o r), c)
          /\ x[Len(x)] = NL => Flows(g, <<>> \o (s2 \o r), c)
          /\ x[Len(x)] # NL => Flows(g, x \o (s2 \o r), c)
      BY <1>5, <1>13, <3>5, ClientReadsLine
    <3>7. CASE x[Len(x)] # NL
      BY <1>9, <3>1, <3>4, <3>6, <3>7
    <3>8. CASE x[Len(x)] = NL /\ Len(x) > 1
      BY <1>9, <3>4, <3>6, <3>8
    <3>9. CASE x[Len(x)] = NL /\ ~(Len(x) > 1)
      BY <1>9, <3>1, <3>4, <3>6, <3>9
    <3>. QED
      BY <3>7, <3>8, <3>9
  <2>. QED
    BY <1>1, <2>1, <2>2
<1>. QED
  BY <1>10, <1>12, <1>15, <1>16 DEF FramesInv

\* Before anything is sent.
LEMMA InitFrames == Init => FramesInv
<1> SUFFICES ASSUME Init PROVE FramesInv
  OBVIOUS
<1>1. <<>> \in Seq(Chars) /\ <<>> \in Seq(Seq(Chars)) /\ Suffix(<<>>)
  BY DEF Suffix
<1>2. FramesTypeOK
  BY <1>1 DEF Init, FramesTypeOK
<1>3. OneSends
  <2>1. \A t \in Tasks : t # Free
    BY DEF Tasks, Free
  <2>. QED
    BY <1>1, <2>1 DEF Init, OneSends
<1>4. Away /\ PartOfLine
  BY DEF Init, Away, PartOfLine
<1>5. ASSUME NEW d \in Dirs PROVE Good(d)
  <2>1. open /\ got[d] = <<>> /\ count[d] = 0 /\ Flow(d) = <<>> \o (<<>> \o <<>>)
    BY DEF Init, Flow, Rest
  <2>2. LinesWhole(<<>>)
    BY DEF LinesWhole
  <2>3. ComesAfter(<<>>, <<>>, 0)
    BY DEF ComesAfter, Below, Precedes, Received
  <2>4. Flows(<<>>, <<>>, 0)
    BY <1>1, <2>3, UnsentFlows DEF Unsent
  <2>5. <<>> \o (<<>> \o <<>>) = <<>>
    OBVIOUS
  <2>. QED
    BY <2>1, <2>2, <2>4, <2>5 DEF Good
<1>. QED
  BY <1>2, <1>3, <1>4, <1>5 DEF FramesInv

LEMMA NextFrames == FramesInv /\ [Next]_vars => FramesInv'
<1> SUFFICES ASSUME FramesInv, [Next]_vars PROVE FramesInv'
  OBVIOUS
<1>1. ASSUME NEW d \in Dirs, NEW t \in Tasks, Begin(d, t) \/ SendSome(d, t) PROVE FramesInv'
  BY <1>1, BeginFrames, SendSomeFrames
<1>2. ASSUME NEW t \in Tasks, Dies(t) \/ SSendFails(t) PROVE FramesInv'
  BY <1>2, DiesFrames, SSendFailsFrames
<1>3. CASE Cut
  BY <1>3, CutFrames
<1>4. CASE Reopen
  BY <1>4, ReopenFrames
<1>5. CASE SRead
  BY <1>5, SReadFrames
<1>6. CASE CRead
  BY <1>6, CReadFrames
<1>7. CASE UNCHANGED vars
  BY <1>7 DEF vars, FramesInv, FramesTypeOK, OneSends, Away, PartOfLine, Good, Flow, Rest
<1>. QED
  BY <1>1, <1>2, <1>3, <1>4, <1>5, <1>6, <1>7 DEF Next

\* In whatever parts a socket takes and gives the lines, and wherever connections
\* break: each end receives whole lines, each once and in their order, but for the
\* three places that tidy names.
THEOREM LinesStayWhole == Spec => []WholeLines
<1>1. FramesInv => WholeLines
  BY DEF FramesInv, Good, WholeLines
<1>. QED
  BY InitFrames, NextFrames, <1>1, PTL DEF Spec

\* The rest of what LineFraming keeps: its counter of outages and the tasks that died.
LEMMA FramesTypes == Spec => []TypeOK
<1> DEFINE Counted == cuts \in Nat /\ dead \subseteq Tasks
<1>1. Init => Counted
  BY DEF Init
<1>2. Counted /\ [Next]_vars => Counted'
  <2> SUFFICES ASSUME Counted, [Next]_vars PROVE Counted'
    OBVIOUS
  <2>1. ASSUME NEW d \in Dirs, NEW t \in Tasks, Begin(d, t) \/ SendSome(d, t) PROVE Counted'
    BY <2>1 DEF Begin, SendSome
  <2>2. ASSUME NEW t \in Tasks, Dies(t) PROVE Counted'
    BY <2>2 DEF Dies
  <2>3. ASSUME Breaks PROVE Counted'
    BY <2>3 DEF Breaks
  <2>4. CASE Reopen \/ SRead \/ CRead \/ UNCHANGED vars
    BY <2>4 DEF Reopen, SRead, CRead, vars
  <2>. QED
    BY <2>1, <2>2, <2>3, <2>4 DEF Next, Cut, SSendFails
<1>3. ASSUME FramesInv, Counted PROVE TypeOK
  <2>1. ASSUME NEW d \in Dirs
        PROVE  /\ count[d] \in Nat /\ lock[d] \in Tasks \cup {Free}
               /\ \A t \in Tasks : todo[d][t] # <<>> => lock[d] = t
               /\ \A i \in DOMAIN partial[d] : partial[d][i] # NL
    <3>1. count[d] \in Nat /\ lock[d] \in Tasks \cup {Free} /\ partial[d] \in Seq(Chars)
      BY <1>3 DEF FramesInv, FramesTypeOK
    <3>2. \A t \in Tasks : todo[d][t] # <<>> => lock[d] = t
      BY <1>3 DEF FramesInv, OneSends
    <3>3. DOMAIN partial[d] = 1 .. Len(partial[d])
      BY <3>1
    <3>4. \A i \in DOMAIN partial[d] : partial[d][i] # NL
      BY <1>3, <3>3 DEF FramesInv, PartOfLine
    <3>. QED
      BY <3>1, <3>2, <3>4
  <2>. QED
    BY <1>3, <2>1 DEF FramesInv, FramesTypeOK, TypeOK
<1>. QED
  BY <1>1, <1>2, <1>3, InitFrames, NextFrames, PTL DEF Spec
=============================================================================
