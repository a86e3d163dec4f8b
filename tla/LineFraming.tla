---------------------------- MODULE LineFraming ----------------------------
(***************************************************************************)
(* How lines are put into the byte stream of the link and cut out of it    *)
(* again: _send, _readline and the locks of Client (iot/client.py), _send, *)
(* _read and _process_str of Connection (server.py).  A socket takes and   *)
(* gives any part of what it is offered or holds, and connections break.   *)
(*                                                                         *)
(* A character is <<n, k, size>>: character k of the size characters of    *)
(* the n-th line sent in its direction.  An acknowledgement has two        *)
(* characters, a message is given three, a keepalive none; a newline ends  *)
(* each.  The code sees only where newlines are and how long a line is.    *)
(***************************************************************************)
EXTENDS Integers, Sequences, FiniteSets

CONSTANTS
  MaxLines,  \* bound: lines sent in each direction
  MaxBytes,  \* bound: characters a socket holds before send() would block
  MaxCuts    \* bound: connections that break

ASSUME BoundsAssumption == MaxLines \in Nat /\ MaxBytes \in Nat /\ MaxCuts \in Nat

VARIABLES
  open,     \* both ends have a socket, of the same connection
  cuts,     \* how many of MaxCuts have happened
  count,    \* lines begun in each direction
  todo,     \* what is left of the line each task has in _send
  lock,     \* who holds _s_lock (up), _wlock (down)
  stream,   \* characters under way in each direction
  partial,  \* istr of Connection._read (up), line of Client._readline (down)
  got,      \* lines received, keepalives discarded
  dead,     \* tasks of the server ended by an exception in _send
  tidy      \* history, for each direction: see WholeLines

vars == <<open, cuts, count, todo, lock, stream, partial, got, dead, tidy>>

Dirs  == {"up", "down"}   \* to the server, to the client
Tasks == {"writer", "acker", "keeper"}
Free  == "free"

NL == <<0, 0, 0>>
Size(t) == CASE t = "writer" -> 3 [] t = "acker" -> 2 [] t = "keeper" -> 0
LineOf(n, t) == Append([k \in 1 .. Size(t) |-> <<n, k, Size(t)>>], NL)

\* A line as it was sent, and one of which nothing has been sent yet.
Whole(l) == \A i \in DOMAIN l : l[i] = <<l[1][1], i, Len(l)>>
Unsent(l) == l = <<>> \/ l[1] = NL \/ l[1][2] = 1

Init ==
  /\ open = TRUE /\ cuts = 0
  /\ count = [d \in Dirs |-> 0]
  /\ todo = [d \in Dirs |-> [t \in Tasks |-> <<>>]]
  /\ lock = [d \in Dirs |-> Free]
  /\ stream = [d \in Dirs |-> <<>>]
  /\ partial = [d \in Dirs |-> <<>>]
  /\ got = [d \in Dirs |-> <<>>]
  /\ dead = {}
  /\ tidy = [d \in Dirs |-> TRUE]

-----------------------------------------------------------------------------
\* Faulty variant of Takes: the lock is not asked for.
TakesAnyway(d, t) == UNCHANGED lock

\* async with the lock: it is free and now held.
Takes(d, t) == lock[d] = Free /\ lock' = [lock EXCEPT ![d] = t]

\* _send is called: by write, by a _sendack task, by _keepalive.  Each
\* acknowledgement is sent by a task of its own, so the next is not dead.
Begin(d, t) ==
  /\ open /\ todo[d][t] = <<>> /\ count[d] < MaxLines
  /\ d = "down" => t \notin dead \ {"acker"}
  /\ Takes(d, t)
  /\ count' = [count EXCEPT ![d] = @ + 1]
  /\ todo' = [todo EXCEPT ![d][t] = LineOf(count[d] + 1, t)]
  /\ UNCHANGED <<open, cuts, stream, partial, got, dead, tidy>>

\* One turn of the loop of _send: the socket takes part of what is left.  The
\* lock is released with the last of it.
SendSome(d, t) ==
  /\ open
  /\ \E k \in 1 .. Len(todo[d][t]) :
       /\ Len(stream[d]) + k <= MaxBytes
       /\ stream' = [stream EXCEPT ![d] = @ \o SubSeq(todo[d][t], 1, k)]
       /\ todo' = [todo EXCEPT ![d][t] = SubSeq(@, k + 1, Len(@))]
       /\ lock' = [lock EXCEPT ![d] = IF k = Len(todo[d][t]) THEN Free ELSE @]
  /\ UNCHANGED <<open, cuts, count, partial, got, dead, tidy>>

\* The connection breaks.  What is under way is lost (what was to arrive has
\* arrived before), and every _send of the client fails.
Breaks ==
  /\ open /\ cuts < MaxCuts
  /\ open' = FALSE /\ cuts' = cuts + 1
  /\ stream' = [d \in Dirs |-> <<>>]
  /\ UNCHANGED <<count, partial, got, dead, tidy>>

\* Both ends find out; a _send of the server that sleeps does not notice.
Cut ==
  /\ Breaks
  /\ todo' = [todo EXCEPT !["up"] = [t \in Tasks |-> <<>>]]
  /\ lock' = [lock EXCEPT !["up"] = Free]

\* _send of the server meets the error, or its timeout, and closes: it returns
\* False and _vwrite sends the line again, whole.
SSendFails(t) ==
  /\ Breaks
  /\ todo["down"][t] # <<>>
  /\ todo' = [d \in Dirs |-> [u \in Tasks |-> <<>>]]
  /\ lock' = [d \in Dirs |-> Free]

\* _send of the server wakes and has no socket: self._sock is None, an
\* exception that nobody catches ends the task and releases the lock.
Dies(t) ==
  /\ ~open /\ todo["down"][t] # <<>>
  /\ todo' = [todo EXCEPT !["down"][t] = <<>>]
  /\ lock' = [lock EXCEPT !["down"] = Free]
  /\ dead' = dead \cup {t}
  /\ UNCHANGED <<open, cuts, count, stream, partial, got, tidy>>

\* What is left of a line when the connection is made again: the reader of the
\* client is a new one, with an empty line; istr of the server is kept.
KeptBoth == partial
Kept == [partial EXCEPT !["down"] = <<>>]

\* The client connects again.
Reopen ==
  /\ ~open
  /\ open' = TRUE
  /\ partial' = Kept
  /\ tidy' = [up   |-> tidy["up"] /\ partial["up"] = <<>>,
              down |-> tidy["down"] /\ \A t \in Tasks : Unsent(todo["down"][t])]
  /\ UNCHANGED <<cuts, count, todo, lock, stream, got, dead>>

-----------------------------------------------------------------------------
\* The k-th smallest of a set of numbers.
Nth(S, k) == CHOOSE i \in S : Cardinality({j \in S : j <= i}) = k

\* split at the newlines: where the piece begins that the i-th character is in, the
\* lines, of which the empty ones are discarded, and what follows the last.
PieceStart(s, i) ==
  CHOOSE p \in 1 .. i + 1 : (p = 1 \/ s[p - 1] = NL) /\ \A j \in p .. i : s[j] # NL
LineEnds(s) == {e \in 2 .. Len(s) : s[e] = NL /\ s[e - 1] # NL}
Lines(s) ==
  [k \in 1 .. Cardinality(LineEnds(s)) |->
     LET e == Nth(LineEnds(s), k) IN SubSeq(s, PieceStart(s, e - 1), e - 1)]
Remainder(s) == SubSeq(s, PieceStart(s, Len(s)), Len(s))

\* bytes.lstrip(b'\n')
Lstrip(s) ==
  LET C == {i \in DOMAIN s : s[i] # NL} IN
  IF C = {} THEN <<>> ELSE SubSeq(s, Nth(C, 1), Len(s))

\* Connection._read: recv gives a chunk, any part of what the socket holds.
SRead ==
  /\ open
  /\ \E k \in 1 .. Len(stream["up"]) :
       LET chunk == SubSeq(stream["up"], 1, k)
           istr  == partial["up"] \o Lstrip(chunk) IN
       /\ stream'  = [stream EXCEPT !["up"] = SubSeq(@, k + 1, Len(@))]
       /\ got'     = [got EXCEPT !["up"] = @ \o Lines(istr)]
       /\ partial' = [partial EXCEPT !["up"] = Remainder(istr)]
       /\ tidy'    = [tidy EXCEPT !["up"] = @ /\ (partial["up"] = <<>> \/ chunk[1] # NL)]
  /\ UNCHANGED <<open, cuts, count, todo, lock, dead>>

\* Client._readline: readline of the socket gives part of a line, at most up
\* to its newline.
CRead ==
  /\ open
  /\ \E k \in 1 .. Len(stream["down"]) :
       LET d    == SubSeq(stream["down"], 1, k)
           line == partial["down"] \o d IN
       /\ \A i \in 1 .. k - 1 : d[i] # NL
       /\ stream' = [stream EXCEPT !["down"] = SubSeq(@, k + 1, Len(@))]
       /\ IF line[Len(line)] = NL
          THEN /\ partial' = [partial EXCEPT !["down"] = <<>>]
               /\ got' = IF Len(line) > 1
                         THEN [got EXCEPT !["down"] = Append(@, SubSeq(line, 1, Len(line) - 1))]
                         ELSE got
          ELSE /\ partial' = [partial EXCEPT !["down"] = line]
               /\ UNCHANGED got
  /\ UNCHANGED <<open, cuts, count, todo, lock, dead, tidy>>

Next ==
  \/ \E d \in Dirs, t \in Tasks : Begin(d, t) \/ SendSome(d, t)
  \/ \E t \in Tasks : Dies(t) \/ SSendFails(t)
  \/ Cut \/ Reopen \/ SRead \/ CRead

Spec == Init /\ [][Next]_vars

-----------------------------------------------------------------------------
TypeOK ==
  /\ open \in BOOLEAN /\ cuts \in Nat /\ dead \subseteq Tasks
  /\ \A d \in Dirs :
       /\ count[d] \in Nat /\ lock[d] \in Tasks \cup {Free}
       /\ \A t \in Tasks : todo[d][t] # <<>> => lock[d] = t
       /\ \A i \in DOMAIN partial[d] : partial[d][i] # NL

\* Lines are received whole, each once, in the order they were sent.
LinesWhole(ls) ==
  /\ \A i \in DOMAIN ls : Whole(ls[i])
  /\ \A i, j \in DOMAIN ls : i < j => ls[i][1][1] < ls[j][1][1]

\* The server receives whole lines only, unless a chunk has begun with the
\* newline of a line whose text came before (server.py:292), or a connection
\* has broken in the middle of a line (istr is kept, server.py:299).  So does
\* the client, unless a _send of the server has slept through an outage and
\* gone on with the next connection (server.py:382).
WholeLines == \A d \in Dirs : tidy[d] => LinesWhole(got[d])

\* server.py:292 "Discard leading KA's", 296 "Add to any partial message": while
\* the connection holds, the server receives the lines that were sent.
ChunksDoNotMatter == cuts = 0 => LinesWhole(got["up"])
=============================================================================
