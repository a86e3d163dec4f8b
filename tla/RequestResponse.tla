-------------------------- MODULE RequestResponse --------------------------
(***************************************************************************)
(* What the two applications do over the link: the buttons of the GUI put  *)
(* commands in a queue; the connection manager (gui.py) writes them to the *)
(* microcontroller and matches what comes back with the requests it has    *)
(* recorded; the microcontroller (main.py) carries them out one at a time  *)
(* and writes the responses.                                               *)
(*                                                                         *)
(* A step is what one asyncio task does between two awaits, or one slot of *)
(* the Qt thread.  The link is taken from ReliableLink: message n from the *)
(* GUI is clicks[n], message n from the microcontroller is results[n].     *)
(***************************************************************************)
EXTENDS Integers, SequencesExt

CONSTANTS
  CopiMax,    \* capacity of copi_queue, requests (10 in the code)
  CipoMax,    \* capacity of cipo_queue, results (1 in the code)
  Readable,   \* registers whose name ends in R or RW: they get a Read button
  Writable,   \* registers whose name ends in W or RW
  AtReset,    \* what the registers hold at first
  Leds,       \* REG_LEDS_RW
  Lit,        \* what flash_leds leaves in it
  Values,     \* what the user writes to a register
  Fifos,      \* fifo_id typed by the user; only 0 is set up
  Groups,     \* numbers of word groups the test_size typed amounts to
  MaxClicks   \* bound: buttons pressed

ASSUME CapacityAssumption == CopiMax \in Nat \ {0} /\ CipoMax \in Nat \ {0}
ASSUME CommandAssumption ==
  /\ AtReset \in [Readable \cup Writable -> Nat] /\ Leds \in Readable \cup Writable
  /\ Lit \in Nat /\ Values \subseteq Nat
  /\ Fifos \subseteq Nat /\ Groups \subseteq Nat
  /\ MaxClicks \in Nat

VARIABLES
  \* The GUI: buttons, writer, reader, response_handler.
  clicks,     \* every command put in unsent_queue, in order
  disabled,   \* register buttons waiting for their response
  inFlight,   \* unresponded_queue: which clicks await a response
  arrived,    \* cipo_queue of the GUI
  blocked,    \* response_handler waits in unresponded_queue.get()
  unhandled,  \* unhandled_cipo_data
  bulk,       \* bulk_data_cipo_storage
  bulkDue,    \* bulk_data_expected
  answers,    \* what was emitted to the senders, in order
  shown,      \* how many of these the Qt thread has handled
  \* The microcontroller: recv_from_server_to, register_io, send_to_server_from.
  received,   \* the line read and not yet put in copi_queue
  requests,   \* copi_queue
  job,        \* how many requests register_io has taken
  todo,       \* what register_io has still to put for the last of them
  registers,  \* of the FPGA
  queued,     \* cipo_queue of the microcontroller
  results,    \* every line written to the GUI, in order
  \* The link, each way; see ReliableLink.
  dWritten, dReturned, dHeld, dGot,
  uWritten, uReturned, uHeld, uGot

gui    == <<clicks, disabled, inFlight, arrived, blocked, unhandled, bulk, bulkDue, answers, shown>>
mcu    == <<received, requests, job, todo, registers, queued, results>>
dnLink == <<dWritten, dReturned, dHeld, dGot>>
upLink == <<uWritten, uReturned, uHeld, uGot>>
vars == <<gui, mcu, dnLink, upLink>>

Dn == INSTANCE ReliableLink WITH
  MayDrop <- FALSE, MayRepeat <- FALSE,
  written <- dWritten, returned <- dReturned, held <- dHeld, got <- dGot

Up == INSTANCE ReliableLink WITH
  MayDrop <- FALSE, MayRepeat <- FALSE,
  written <- uWritten, returned <- uReturned, held <- uHeld, got <- uGot

-----------------------------------------------------------------------------
\* The dictionaries the buttons send.
Read(r)     == [request |-> "read_register", reg_address |-> r]
Write(r, v) == [request |-> "write_register", reg_address |-> r, write_value |-> v]
Flash == [request |-> "flash_leds"]
Test(f, g) == [request |-> "test_fifo", fifo_id |-> f, test_size |-> g]

Commands ==
  {Flash} \cup {Read(r) : r \in Readable} \cup {Write(r, v) : r \in Writable, v \in Values}
          \cup {Test(f, g) : f \in Fifos, g \in Groups}

\* Only the buttons of registers are disabled until they are answered.
OfRegister(c) == c.request \in {"read_register", "write_register"}
Button(c)   == [request |-> c.request, reg_address |-> c.reg_address]
Disables(c) == IF OfRegister(c) THEN {Button(c)} ELSE {}

\* What register_io puts in cipo_queue for a request: kind and value of each
\* result.  A result that is not "bulk" is the request's own dictionary, with
\* a response added.
One(v) == <<[kind |-> "done", val |-> v]>>
Bulk(g) == [i \in 1 .. g |-> [kind |-> "bulk", val |-> i - 1]]

Outputs(c, regs) ==
  CASE c.request = "read_register"  -> One(regs[c.reg_address])
    [] c.request = "write_register" -> One(c.write_value)
    [] c.request = "flash_leds"     -> One(Lit)
    [] c.request = "test_fifo" /\ c.fifo_id # 0 -> <<>>
    [] OTHER -> <<[kind |-> "arriving", val |-> 0]>> \o Bulk(c.test_size)
                  \o <<[kind |-> "finished", val |-> 0]>>

\* Faulty variant of Effect: the LEDs are left as they were.
EffectNotOfFlash(c, regs) ==
  IF c.request = "write_register" THEN [regs EXCEPT ![c.reg_address] = c.write_value] ELSE regs

\* The registers after the request.
Effect(c, regs) ==
  CASE c.request = "write_register" -> [regs EXCEPT ![c.reg_address] = c.write_value]
    [] c.request = "flash_leds"     -> [regs EXCEPT ![Leds] = Lit]
    [] OTHER -> regs

\* job tells dictionaries apart (and, once sent, is history: no guard reads it).
Message(j, c, x) == [job |-> j, cmd |-> c, kind |-> x.kind, val |-> x.val]

Init ==
  /\ clicks = <<>> /\ disabled = {} /\ inFlight = <<>> /\ arrived = <<>>
  /\ blocked = FALSE /\ unhandled = <<>> /\ bulk = <<>> /\ bulkDue = FALSE
  /\ answers = <<>> /\ shown = 0
  /\ received = <<>> /\ requests = <<>> /\ job = 0 /\ todo = <<>> /\ registers = AtReset
  /\ queued = <<>> /\ results = <<>>
  /\ Dn!Init /\ Up!Init

-----------------------------------------------------------------------------
(***************************************************************************)
(* From a button to the registers of the FPGA.                             *)
(***************************************************************************)
\* A button is clicked: send_cmd puts the command in unsent_queue, the button
\* of a register is disabled.
Click(c) ==
  /\ Len(clicks) < MaxClicks
  /\ Disables(c) \cap disabled = {}
  /\ clicks' = Append(clicks, c)
  /\ disabled' = disabled \cup Disables(c)
  /\ UNCHANGED <<inFlight, arrived, blocked, unhandled, bulk, bulkDue, answers, shown>>
  /\ UNCHANGED <<mcu, dnLink, upLink>>

\* writer: the next command is taken and conn.write called.
GWrite ==
  /\ dWritten < Len(clicks)
  /\ Dn!Write
  /\ UNCHANGED <<gui, mcu, upLink>>

\* writer: conn.write returns, the request is recorded.
GRecord ==
  /\ Dn!Return
  /\ inFlight' = Append(inFlight, dWritten)
  /\ UNCHANGED <<clicks, disabled, arrived, blocked, unhandled, bulk, bulkDue, answers, shown>>
  /\ UNCHANGED <<mcu, upLink>>

\* recv_from_server_to: a line is read; it is put in copi_queue when there is
\* room.
MReceive ==
  /\ received = <<>>
  /\ \E n \in 1 .. dHeld : Dn!Read(n) /\ received' = <<clicks[n]>>
  /\ UNCHANGED <<requests, job, todo, registers, queued, results>>
  /\ UNCHANGED <<gui, upLink>>

MEnqueue ==
  /\ received # <<>> /\ Len(requests) < CopiMax
  /\ requests' = Append(requests, Head(received))
  /\ received' = <<>>
  /\ UNCHANGED <<job, todo, registers, queued, results>>
  /\ UNCHANGED <<gui, dnLink, upLink>>

\* register_io: a request is taken and carried out; what it puts is put next.
MTake ==
  /\ todo = <<>> /\ requests # <<>>
  /\ requests' = Tail(requests)
  /\ job' = job + 1
  /\ LET c == Head(requests) IN
       /\ registers' = Effect(c, registers)
       /\ todo' = LET out == Outputs(c, registers) IN [i \in DOMAIN out |-> Message(job + 1, c, out[i])]
  /\ UNCHANGED <<received, queued, results>>
  /\ UNCHANGED <<gui, dnLink, upLink>>

\* The dictionary of a request is in the queue itself, not a copy of it: a new
\* response is seen in every place that holds it.
Assigned(q, next) ==
  IF next = <<>> \/ Head(next).kind = "bulk" THEN q
  ELSE [i \in DOMAIN q |->
          IF q[i].job = Head(next).job /\ q[i].kind # "bulk" THEN Head(next) ELSE q[i]]

\* Faulty variant of MPut: the queue has no limit.
MPutUnbounded ==
  /\ todo # <<>>
  /\ queued' = Assigned(Append(queued, Head(todo)), Tail(todo))
  /\ todo' = Tail(todo)
  /\ UNCHANGED <<received, requests, job, registers, results>>
  /\ UNCHANGED <<gui, dnLink, upLink>>

\* register_io: a result is put in cipo_queue, and the next response assigned.
MPut ==
  /\ todo # <<>> /\ Len(queued) < CipoMax
  /\ queued' = Assigned(Append(queued, Head(todo)), Tail(todo))
  /\ todo' = Tail(todo)
  /\ UNCHANGED <<received, requests, job, registers, results>>
  /\ UNCHANGED <<gui, dnLink, upLink>>

\* send_to_server_from: a result is taken and written; write returns.
MWrite ==
  /\ queued # <<>>
  /\ Up!Write
  /\ results' = Append(results, Head(queued))
  /\ queued' = Tail(queued)
  /\ UNCHANGED <<received, requests, job, todo, registers>>
  /\ UNCHANGED <<gui, dnLink>>

MWritten == Up!Return /\ UNCHANGED <<gui, mcu, dnLink>>

\* The link brings a message to the other end.
DnHold == Dn!Hold /\ UNCHANGED <<gui, mcu, upLink>>
UpHold == Up!Hold /\ UNCHANGED <<gui, mcu, dnLink>>

-----------------------------------------------------------------------------
(***************************************************************************)
(* From the results back to the button.                                    *)
(***************************************************************************)
\* reader: a line is read and put in the GUI's cipo_queue.
GRead ==
  /\ \E n \in 1 .. uHeld : Up!Read(n) /\ arrived' = Append(arrived, results[n])
  /\ UNCHANGED <<clicks, disabled, inFlight, blocked, unhandled, bulk, bulkDue, answers, shown>>
  /\ UNCHANGED <<mcu, dnLink>>

\* Faulty variant of IsAnswer: any response answers any request.
IsAnswerAny(k, m) == TRUE

\* is_subdict(sent, got): the request comes back inside its response.
IsAnswer(k, m) == clicks[k] = m.cmd

\* One turn of the loop of response_handler: the request at the head of
\* unresponded_queue is compared with the unhandled responses.  The first that
\* answers it ends the comparison, and only the ones before it are kept.
Inspect(s, turn) ==
  IF turn - 1 > Len(s.inFlight) THEN s ELSE
  LET k    == Head(s.inFlight)
      rest == Tail(s.inFlight)
      hits == {i \in DOMAIN s.unhandled : IsAnswer(k, s.unhandled[i])} IN
    IF hits = {} THEN [s EXCEPT !.inFlight = Append(rest, k)]
    ELSE [inFlight  |-> rest,
          unhandled |-> SubSeq(s.unhandled, 1, Min(hits) - 1),
          answers   |-> Append(s.answers, [click |-> k, msg |-> s.unhandled[Min(hits)]])]

\* The loop, from a state in which inFlight is not empty.
AfterTurns(start, turns) ==
  LET after[turn \in 0 .. turns] ==
        IF turn = 0 THEN start ELSE Inspect(after[turn - 1], turn)
  IN  after[turns]

MatchWith(responses) ==
  LET start == [inFlight |-> inFlight, unhandled |-> responses, answers |-> answers]
      end   == AfterTurns(start, Len(inFlight) + 1)
  IN  /\ inFlight' = end.inFlight
      /\ unhandled' = end.unhandled
      /\ answers' = end.answers

\* response_handler takes bulk data from cipo_queue.
HBulk ==
  /\ ~blocked /\ arrived # <<>> /\ Head(arrived).kind = "bulk"
  /\ bulkDue   \* the assert; BulkIsDue says it never fails
  /\ arrived' = Tail(arrived)
  /\ bulk' = Append(bulk, Head(arrived))
  /\ UNCHANGED <<clicks, disabled, inFlight, blocked, unhandled, bulkDue, answers, shown>>
  /\ UNCHANGED <<mcu, dnLink, upLink>>

\* With no request in flight the handler waits for one, the responses at hand.
\* (In the faulty variant it goes on to the next response.)
MatchAtOnce(responses) ==
  IF inFlight = <<>> THEN unhandled' = responses /\ UNCHANGED <<inFlight, answers, blocked>>
  ELSE MatchWith(responses) /\ UNCHANGED blocked
MatchOrWait(responses) ==
  IF inFlight = <<>> THEN unhandled' = responses /\ blocked' = TRUE /\ UNCHANGED <<inFlight, answers>>
  ELSE MatchWith(responses) /\ UNCHANGED blocked

\* bulk_data_cipo_storage after a response.  (Faulty variant: it is not reset.)
BulkNotReset(m) == bulk
BulkAfter(m) == IF m.kind = "finished" THEN <<>> ELSE bulk

\* response_handler takes a response and looks for its request.
HResponse ==
  /\ ~blocked /\ arrived # <<>> /\ Head(arrived).kind # "bulk"
  /\ arrived' = Tail(arrived)
  /\ LET m   == Head(arrived)
         new == CASE m.kind = "arriving" -> <<>>
                  [] m.kind = "finished" -> <<[m EXCEPT !.val = bulk]>>
                  [] OTHER               -> <<m>> IN
       /\ bulkDue' = (m.kind = "arriving" \/ (bulkDue /\ m.kind # "finished"))
       /\ bulk' = BulkAfter(m)
       /\ MatchOrWait(unhandled \o new)
  /\ UNCHANGED <<clicks, disabled, shown>>
  /\ UNCHANGED <<mcu, dnLink, upLink>>

HResume ==
  /\ blocked /\ inFlight # <<>>
  /\ blocked' = FALSE
  /\ MatchWith(unhandled)
  /\ UNCHANGED <<clicks, disabled, arrived, bulk, bulkDue, shown>>
  /\ UNCHANGED <<mcu, dnLink, upLink>>

\* recieve_result in the Qt thread: the button is enabled again.
Show ==
  /\ shown < Len(answers)
  /\ shown' = shown + 1
  /\ disabled' = disabled \ Disables(clicks[answers[shown + 1].click])
  /\ UNCHANGED <<clicks, inFlight, arrived, blocked, unhandled, bulk, bulkDue, answers>>
  /\ UNCHANGED <<mcu, dnLink, upLink>>

-----------------------------------------------------------------------------
System ==
  \/ GWrite \/ GRecord \/ MReceive \/ MEnqueue \/ MTake \/ MPut \/ MWrite \/ MWritten
  \/ DnHold \/ UpHold \/ GRead \/ HBulk \/ HResponse \/ HResume \/ Show

Next == (\E c \in Commands : Click(c)) \/ System

Spec == Init /\ [][Next]_vars

\* The two event loops, the link and the Qt thread do not all stop while one of
\* them has something to do.  Nothing makes the user click.
FairSpec == Spec /\ WF_vars(System)

-----------------------------------------------------------------------------
TypeOK ==
  /\ clicks \in Seq(Commands) /\ disabled \subseteq UNION {Disables(c) : c \in Commands}
  /\ inFlight \in Seq(1 .. Len(clicks))
  /\ blocked \in BOOLEAN /\ bulkDue \in BOOLEAN
  /\ shown \in 0 .. Len(answers)
  /\ Len(received) <= 1 /\ Len(requests) <= CopiMax /\ Len(queued) <= CipoMax
  /\ job \in Nat /\ registers \in [Readable \cup Writable -> Nat]
  /\ dWritten <= Len(clicks) /\ uWritten = Len(results)

\* Bulk data comes only while it is due (assert at gui.py:144): "arriving" is
\* never overwritten by "finished" in the queue of the microcontroller.
BulkIsDue == ~blocked /\ arrived # <<>> /\ Head(arrived).kind = "bulk" => bulkDue

\* A test of the FIFO is answered with all of its groups, in order and of that
\* very test (assert at function_tab/__init__.py:87).
BulkIsWhole ==
  \A i \in DOMAIN answers :
    LET a == answers[i] IN
    a.msg.kind = "finished" =>
      /\ Len(a.msg.val) = clicks[a.click].test_size
      /\ \A g \in DOMAIN a.msg.val : a.msg.val[g].val = g - 1 /\ a.msg.val[g].job = a.msg.job

\* The responses reach the buttons in the order of the clicks: the i-th goes to
\* the sender of the i-th command.  (Of two equal commands in flight either
\* record may be taken for the other: they have the same sender.)
AnsweredInOrder ==
  \A i \in DOMAIN answers :
    answers[i].msg.job = i /\ clicks[answers[i].click] = clicks[i]

\* What a read shows is what that register was last given before the click.
Gives(c, r) == (c.request = "write_register" /\ c.reg_address = r) \/ (c = Flash /\ r = Leds)

Latest(r, k) ==
  LET given == {j \in 1 .. k : Gives(clicks[j], r)}
      last  == clicks[Max(given)] IN
  IF given = {} THEN AtReset[r] ELSE IF last = Flash THEN Lit ELSE last.write_value

ReadsLatest ==
  \A i \in DOMAIN answers :
    LET c == clicks[answers[i].click] IN
    c.request = "read_register" => answers[i].msg.val = Latest(c.reg_address, answers[i].click)

\* A response that has been taken is handed to a sender or kept for the next
\* time ("put back to check next time", gui.py:141).
Taken == {results[uGot[i]] : i \in 1 .. Len(uGot) - Len(arrived)}
Kept  == ToSet(unhandled) \cup {answers[i].msg : i \in DOMAIN answers}

NoResponseDropped ==
  \A m \in Taken : m.kind \in {"done", "finished"} => \E x \in Kept : x.job = m.job

\* No click stays without an answer: whenever the user pauses, the answers
\* catch up with the clicks.
Answered == []<>(shown = Len(clicks))
=============================================================================
