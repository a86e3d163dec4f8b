----------------------- MODULE RequestResponseProofs -----------------------
(***************************************************************************)
(* The responses reach the buttons in the order of the clicks, whole and   *)
(* up to date: for every number of clicks, every set of registers and      *)
(* values, and queues of every size.                                       *)
(***************************************************************************)
EXTENDS RequestResponse, SequenceTheorems, NaturalsInduction, WellFoundedInduction, TLAPS

\* Only the FIFO that is set up is tested (main.py:80 skips any other), and a test
\* has no fewer groups than the queue has places: else its dictionary is still in
\* the queue when the next response is assigned to it (main.py:103).
OnlyFifo0 == Fifos \subseteq {0}
TestsFillQueue == \A g \in Groups : CipoMax <= g

-----------------------------------------------------------------------------
(* Types                                                                   *)

Kinds == {"done", "arriving", "bulk", "finished"}
Messages == [job : Nat, cmd : Commands, kind : Kinds, val : Nat]

\* A response as it is handed to a sender: with what the test has read.
Handed ==
  [job : Nat, cmd : Commands, kind : {"done"}, val : Nat]
    \cup [job : Nat, cmd : Commands, kind : {"finished"}, val : Seq(Messages)]

Registers == Readable \cup Writable

Types ==
  /\ clicks \in Seq(Commands) /\ disabled \subseteq UNION {Disables(c) : c \in Commands}
  /\ inFlight \in Seq(Nat) /\ arrived \in Seq(Messages) /\ blocked \in BOOLEAN
  /\ unhandled \in Seq(Handed) /\ bulk \in Seq(Messages) /\ bulkDue \in BOOLEAN
  /\ answers \in Seq([click : Nat, msg : Handed]) /\ shown \in Nat
  /\ received \in Seq(Commands) /\ requests \in Seq(Commands) /\ job \in Nat
  /\ todo \in Seq(Messages) /\ registers \in [Registers -> Nat]
  /\ queued \in Seq(Messages) /\ results \in Seq(Messages)

\* What either direction of the link promises.
LinkInv(written, returned, held, got) ==
  /\ {written, returned, held} \subseteq Nat /\ got \in Seq(Nat)
  /\ returned <= held /\ held <= written /\ written <= returned + 1
  /\ Len(got) <= held /\ \A i \in 1 .. Len(got) : got[i] = i

-----------------------------------------------------------------------------
(* The microcontroller                                                     *)

\* The commands between the link and register_io.
DownInv ==
  /\ LinkInv(dWritten, dReturned, dHeld, dGot) /\ dWritten <= Len(clicks)
  /\ Len(received) <= 1 /\ Len(requests) <= CopiMax
  /\ Len(dGot) = job + Len(requests) + Len(received)
  /\ \A i \in 1 .. Len(requests) : requests[i] = clicks[job + i]
  /\ received # <<>> => received[1] = clicks[Len(dGot)]

\* The results of all requests in a row: written, queued, and still to be put.
Stream == results \o (queued \o todo)

\* Latest, Fits and the like speak of the first clicks only: the sequence is a
\* parameter here.
LatestOf(cs, r, k) ==
  LET given == {j \in 1 .. k : Gives(cs[j], r)}
      last  == cs[Max(given)] IN
  IF given = {} THEN AtReset[r] ELSE IF last = Flash THEN Lit ELSE last.write_value

Ends(m) == m.kind \in {"done", "finished"}
Tests(c) == c.request = "test_fifo"

\* The first result of request j, and the one that follows another.
Opens(cs, m, j) == m.job = j /\ m.kind = IF Tests(cs[j]) THEN "arriving" ELSE "done"
GroupsSo(m) == IF m.kind = "arriving" THEN 0 ELSE m.val + 1
Follows(cs, n, m) ==
  IF Ends(m) THEN Opens(cs, n, m.job + 1)
  ELSE /\ n.job = m.job
       /\ IF GroupsSo(m) < m.cmd.test_size THEN n.kind = "bulk" /\ n.val = GroupsSo(m)
          ELSE n.kind = "finished"

\* What is true of each result of the first jb requests: of its command, and of
\* what a read has read.
Fits(cs, jb, m) ==
  /\ m.job \in 1 .. jb /\ m.cmd = cs[m.job]
  /\ m.kind = "done" <=> ~Tests(m.cmd)
  /\ m.kind = "bulk" => m.val < m.cmd.test_size
  /\ m.cmd.request = "read_register" => m.val = LatestOf(cs, m.cmd.reg_address, m.job)

\* The groups of a test stand right before its last response.
GroupsBefore(out, i) ==
  out[i].kind = "finished" =>
    \A k \in 1 .. out[i].cmd.test_size : i - k >= 1 /\ out[i - k].kind = "bulk"

StreamInv(cs, jb, out) ==
  /\ \A i \in 1 .. Len(out) : Fits(cs, jb, out[i]) /\ GroupsBefore(out, i)
  /\ \A i \in 1 .. Len(out) - 1 : Follows(cs, out[i + 1], out[i])
  /\ Len(out) > 0 => Opens(cs, out[1], 1) /\ out[Len(out)].job = jb /\ Ends(out[Len(out)])
  /\ Len(out) = 0 => jb = 0

UpInv ==
  /\ LinkInv(uWritten, uReturned, uHeld, uGot) /\ uWritten = Len(results)
  /\ Len(queued) <= CipoMax
  /\ StreamInv(clicks, job, Stream)
  /\ \A i \in 1 .. Len(todo) : todo[i].job = job

RegistersInv == \A r \in Registers : registers[r] = LatestOf(clicks, r, job)

-----------------------------------------------------------------------------
(* The GUI                                                                 *)

\* How many results response_handler has taken, and how many requests are over
\* with them.
Handled == Len(uGot) - Len(arrived)
Due(h)  == h > 0 /\ ~Ends(results[h])
Over(h) == IF h = 0 THEN 0 ELSE IF Due(h) THEN results[h].job - 1 ELSE results[h].job

\* A response to request j, whole and up to date.
Answer(cs, m, j) ==
  /\ m.job = j /\ m.cmd = cs[j]
  /\ m.kind = "finished" =>
       Tests(m.cmd) /\ Len(m.val) = m.cmd.test_size
       /\ \A g \in 1 .. Len(m.val) : m.val[g].val = g - 1 /\ m.val[g].job = j
  /\ m.cmd.request = "read_register" => m.val = LatestOf(cs, m.cmd.reg_address, j)

BulkInv(h) ==
  IF h > 0 /\ results[h].kind = "bulk"
  THEN /\ Len(bulk) = results[h].val + 1
       /\ \A g \in 1 .. Len(bulk) : bulk[g].val = g - 1 /\ bulk[g].job = results[h].job
  ELSE bulk = <<>>

TakenInv ==
  /\ Len(arrived) <= Len(uGot)
  /\ \A i \in 1 .. Len(arrived) : arrived[i] = results[Handled + i]
  /\ bulkDue = Due(Handled) /\ BulkInv(Handled)

AnswersInv ==
  /\ ~blocked => unhandled = <<>>
  /\ Len(unhandled) <= 1 /\ Len(answers) + Len(unhandled) = Over(Handled)
  /\ unhandled # <<>> => Answer(clicks, unhandled[1], Over(Handled))
  /\ \A i \in 1 .. Len(answers) : Answer(clicks, answers[i].msg, i)

\* The requests in flight are those not answered, up to equal commands: each
\* stands for one of them.
Stands(cs, q, flight, waiting) ==
  /\ q \in [flight -> waiting]
  /\ \A k \in flight : cs[q[k]] = cs[k]
  /\ \A k, l \in flight : q[k] = q[l] => k = l
  /\ \A j \in waiting : \E k \in flight : q[k] = j

Elements(s) == {s[i] : i \in 1 .. Len(s)}
Distinct(s) == \A i, j \in 1 .. Len(s) : s[i] = s[j] => i = j

FlightInv ==
  /\ Distinct(inFlight) /\ Elements(inFlight) \subseteq 1 .. dReturned
  /\ Len(answers) <= dReturned
  /\ \E q \in [Elements(inFlight) -> Len(answers) + 1 .. dReturned] :
       Stands(clicks, q, Elements(inFlight), Len(answers) + 1 .. dReturned)
  /\ \A k \in Elements(inFlight) : OfRegister(clicks[k]) => k > Len(answers)
  /\ \A i \in 1 .. Len(answers) :
       LET k == answers[i].click IN
       k \in 1 .. dReturned /\ clicks[k] = clicks[i] /\ (OfRegister(clicks[i]) => k = i)

\* The buttons of registers whose answer has not been shown are disabled, and no
\* two of them are the same.
ButtonsInv ==
  /\ shown <= Len(answers)
  /\ \A j \in shown + 1 .. Len(clicks) : Disables(clicks[j]) \subseteq disabled
  /\ \A j, k \in shown + 1 .. Len(clicks) :
       Disables(clicks[j]) \cap Disables(clicks[k]) # {} => j = k

IInv == Types /\ DownInv /\ UpInv /\ RegistersInv /\ TakenInv /\ AnswersInv /\ FlightInv /\ ButtonsInv

-----------------------------------------------------------------------------
(* Induction.  The library states it for an operator, which the provers     *)
(* cannot instantiate; a set of numbers they can.                           *)

\* A set of natural numbers that has some has a least one.
LEMMA LeastNumber ==
  ASSUME NEW S, S \subseteq Nat, S # {}
  PROVE  \E n \in S : \A m \in S : n <= m
<1> DEFINE R == {p \in Nat \X Nat : p[1] < p[2]}
<1>1. IsWellFoundedOn(R, Nat)
  BY NatLessThanWellFounded DEF OpToRel
<1>2. PICK n \in S : \A m \in S : ~(<<m, n>> \in R)
  <2> HIDE DEF R
  <2>. QED
    BY <1>1, WFMin
<1>3. \A m \in S : ~(m < n)
  BY <1>2
<1>. QED
  BY <1>3

\* What holds of 0 and of n + 1 with n holds of every natural number.
LEMMA Induction ==
  ASSUME NEW S, 0 \in S, \A n \in Nat : n \in S => n + 1 \in S
  PROVE  \A n \in Nat : n \in S
<1> SUFFICES ASSUME Nat \ S # {} PROVE FALSE
  OBVIOUS
<1>1. PICK n \in Nat \ S : \A m \in Nat \ S : n <= m
  BY LeastNumber
<1>2. n - 1 \in Nat /\ n - 1 \in S
  BY <1>1
<1>. QED
  BY <1>1, <1>2

\* A finite set of numbers has a greatest one.
LEMMA GreatestNumber ==
  ASSUME NEW k \in Nat, NEW S, S \subseteq 0 .. k, S # {}
  PROVE  Max(S) \in S /\ \A m \in S : m <= Max(S)
<1> DEFINE T == {k - m : m \in S}
<1>1. T \subseteq Nat
  OBVIOUS
<1>0. T # {}
  <2>1. PICK m \in S : TRUE
    OBVIOUS
  <2>2. k - m \in T
    OBVIOUS
  <2>. QED
    BY <2>2
<1>2. PICK n \in T : \A m \in T : n <= m
  BY <1>0, <1>1, LeastNumber
<1>3. k - n \in S /\ \A m \in S : m <= k - n
  <2>1. PICK l \in S : n = k - l
    BY <1>2
  <2>2. k - n = l
    BY <2>1
  <2>3. \A m \in S : n <= k - m
    BY <1>2
  <2>. QED
    BY <2>1, <2>2, <2>3
<1>. QED
  BY <1>3 DEF Max

-----------------------------------------------------------------------------
(* The loop of response_handler                                            *)

\* The states of the loop, one turn after the other.
LEMMA Turns ==
  ASSUME NEW start, NEW n \in Nat
  PROVE  \E f : /\ f[0] = start /\ AfterTurns(start, n) = f[n]
                /\ \A turn \in 1 .. n : f[turn] = Inspect(f[turn - 1], turn)
<1> DEFINE Step(g, turn) == IF turn = 0 THEN start ELSE Inspect(g[turn - 1], turn)
           Runs(g, k) == g = [turn \in 0 .. k |-> Step(g, turn)]
           S == {k \in Nat : \E g : Runs(g, k)}
<1>1. 0 \in S
  <2>1. Runs([turn \in 0 .. 0 |-> start], 0)
    OBVIOUS
  <2>. QED
    BY <2>1
<1>2. ASSUME NEW k \in Nat, k \in S PROVE k + 1 \in S
  <2>1. PICK g : Runs(g, k)
    BY <1>2
  <2> DEFINE h == [turn \in 0 .. k + 1 |-> IF turn = k + 1 THEN Inspect(g[k], k + 1) ELSE g[turn]]
  <2>2. ASSUME NEW turn \in 0 .. k + 1 PROVE h[turn] = Step(h, turn)
    <3>1. CASE turn = k + 1
      BY <3>1
    <3>2. CASE turn \in 1 .. k
      <4>1. h[turn] = g[turn] /\ h[turn - 1] = g[turn - 1]
        BY <3>2
      <4>2. g[turn] = Inspect(g[turn - 1], turn)
        BY <2>1, <3>2
      <4>. QED
        BY <3>2, <4>1, <4>2
    <3>3. CASE turn = 0
      BY <2>1, <3>3
    <3>. QED
      BY <3>1, <3>2, <3>3
  <2>3. Runs(h, k + 1)
    BY <2>2
  <2>. HIDE DEF h, Runs
  <2>. QED
    BY <2>3
<1>3. \E g : Runs(g, n)
  <2> HIDE DEF Runs
  <2>1. n \in S
    BY <1>1, <1>2, Induction
  <2>. QED
    BY <2>1
<1> DEFINE f == CHOOSE g : Runs(g, n)
<1>4. Runs(f, n)
  <2> HIDE DEF Runs
  <2>. QED
    BY <1>3
<1>5. AfterTurns(start, n) = f[n]
  BY DEF AfterTurns
<1> HIDE DEF f
<1>6. f[0] = start /\ \A turn \in 1 .. n : f[turn] = Inspect(f[turn - 1], turn)
  BY <1>4
<1>. QED
  BY <1>5, <1>6
-----------------------------------------------------------------------------
(* Commands and what they give                                             *)

\* The fields a command has by its kind, and the button it keeps disabled.
LEMMA CommandFacts ==
  ASSUME NEW c \in Commands
  PROVE  /\ c.request \in {"flash_leds", "read_register", "write_register", "test_fifo"}
         /\ c.request = "flash_leds" => c = Flash
         /\ c.request = "read_register" => c.reg_address \in Registers
         /\ c.request = "write_register" => c.reg_address \in Registers /\ c.write_value \in Nat
         /\ c.request = "test_fifo" =>
              c.fifo_id \in Fifos /\ c.test_size \in Groups /\ c.test_size \in Nat
         /\ Disables(c) # {} <=> OfRegister(c)
<1>1. c = Flash \/ (\E r \in Readable : c = Read(r))
        \/ (\E r \in Writable, v \in Values : c = Write(r, v))
        \/ (\E f \in Fifos, g \in Groups : c = Test(f, g))
  BY DEF Commands
<1>2. Groups \subseteq Nat /\ Values \subseteq Nat
  BY CommandAssumption
<1>. QED
  BY <1>1, <1>2 DEF Flash, Read, Write, Test, Disables, OfRegister, Registers

LEMMA LatestIs ==
  ASSUME NEW r, NEW k
  PROVE  Latest(r, k) = LatestOf(clicks, r, k)
BY DEF Latest, LatestOf

\* What a register was last given, one request further.
LEMMA LatestStep ==
  ASSUME NEW cs, NEW r, NEW k \in Nat
  PROVE  LatestOf(cs, r, k + 1) =
           IF ~Gives(cs[k + 1], r) THEN LatestOf(cs, r, k)
           ELSE IF cs[k + 1] = Flash THEN Lit ELSE cs[k + 1].write_value
<1> DEFINE G(n) == {j \in 1 .. n : Gives(cs[j], r)}
           L(S) == LET last == cs[Max(S)] IN
                   IF S = {} THEN AtReset[r] ELSE IF last = Flash THEN Lit ELSE last.write_value
<1>1. LatestOf(cs, r, k + 1) = L(G(k + 1)) /\ LatestOf(cs, r, k) = L(G(k))
  BY DEF LatestOf
<1>2. CASE ~Gives(cs[k + 1], r)
  <2>1. G(k + 1) = G(k)
    BY <1>2
  <2>. QED
    BY <1>1, <1>2, <2>1
<1>3. CASE Gives(cs[k + 1], r)
  <2>1. k + 1 \in G(k + 1) /\ G(k + 1) \subseteq 0 .. k + 1 /\ G(k + 1) # {}
    BY <1>3
  <2>2. Max(G(k + 1)) = k + 1
    <3> HIDE DEF G
    <3>1. Max(G(k + 1)) \in G(k + 1) /\ \A m \in G(k + 1) : m <= Max(G(k + 1))
      BY <2>1, GreatestNumber
    <3>. QED
      BY <2>1, <3>1
  <2>. QED
    BY <1>1, <1>3, <2>1, <2>2
<1>. QED
  BY <1>2, <1>3

\* It does not depend on later clicks.
LEMMA LatestOfFirst ==
  ASSUME NEW cs \in Seq(Commands), NEW c \in Commands, NEW r, NEW k \in 0 .. Len(cs)
  PROVE  LatestOf(Append(cs, c), r, k) = LatestOf(cs, r, k)
<1> DEFINE ds == Append(cs, c)
           G(s) == {j \in 1 .. k : Gives(s[j], r)}
           L(s) == LET last == s[Max(G(s))] IN
                   IF G(s) = {} THEN AtReset[r] ELSE IF last = Flash THEN Lit ELSE last.write_value
<1>1. \A j \in 1 .. k : ds[j] = cs[j]
  BY AppendProperties
<1>2. LatestOf(ds, r, k) = L(ds) /\ LatestOf(cs, r, k) = L(cs)
  BY DEF LatestOf
<1>3. G(ds) = G(cs)
  BY <1>1
<1>4. G(cs) # {} => ds[Max(G(cs))] = cs[Max(G(cs))]
  <2>1. G(cs) \subseteq 1 .. k /\ G(cs) \subseteq 0 .. k
    OBVIOUS
  <2>2. G(cs) # {} => Max(G(cs)) \in G(cs)
    <3> HIDE DEF G
    <3>. QED
      BY <2>1, GreatestNumber
  <2>. QED
    BY <1>1, <2>1, <2>2
<1>5. L(ds) = L(cs)
  <2> HIDE DEF G, ds
  <2>. QED
    BY <1>3, <1>4
<1> HIDE DEF L
<1>. QED
  BY <1>2, <1>5

-----------------------------------------------------------------------------
(* The results of one request                                              *)

\* A function on the first numbers is a sequence.
LEMMA FirstNumbers ==
  ASSUME NEW S, NEW n \in Nat, NEW f \in [1 .. n -> S]
  PROVE  f \in Seq(S) /\ Len(f) = n
<1>1. f \in Seq(S)
  BY SeqDef
<1>2. DOMAIN f = 1 .. n /\ DOMAIN f = 1 .. Len(f) /\ Len(f) \in Nat
  BY <1>1, LenProperties
<1>. QED
  BY <1>1, <1>2

\* What register_io puts for request j: the kinds and values, in order.
IsOutput(put, c, regs, j) ==
  /\ put \in Seq(Messages) /\ Len(put) = IF Tests(c) THEN c.test_size + 2 ELSE 1
  /\ \A i \in 1 .. Len(put) : put[i].job = j /\ put[i].cmd = c
  /\ ~Tests(c) => put[1].kind = "done"
  /\ c.request = "read_register" => put[1].val = regs[c.reg_address]
  /\ Tests(c) =>
       /\ put[1].kind = "arriving" /\ put[c.test_size + 2].kind = "finished"
       /\ \A i \in 2 .. c.test_size + 1 : put[i].kind = "bulk" /\ put[i].val = i - 2

LEMMA OutputsFacts ==
  ASSUME OnlyFifo0, NEW c \in Commands, NEW regs \in [Registers -> Nat], NEW j \in Nat
  PROVE  LET out == Outputs(c, regs) IN
         IsOutput([i \in DOMAIN out |-> Message(j, c, out[i])], c, regs, j)
<1> DEFINE out == Outputs(c, regs)
           put == [i \in DOMAIN out |-> Message(j, c, out[i])]
           P == [kind : Kinds, val : Nat]
<1>1. CASE ~Tests(c)
  <2>1. PICK v \in Nat : out = One(v) /\ (c.request = "read_register" => v = regs[c.reg_address])
    BY <1>1, CommandFacts, CommandAssumption DEF Outputs, Tests
  <2>2. Len(out) = 1 /\ DOMAIN out = 1 .. 1 /\ out[1] = [kind |-> "done", val |-> v]
    BY <2>1 DEF One
  <2>3. put = <<Message(j, c, out[1])>>
    BY <2>2
  <2>4. Message(j, c, out[1]) \in Messages
    BY <2>2 DEF Message, Messages, Kinds
  <2>. QED
    BY <1>1, <2>1, <2>2, <2>3, <2>4 DEF Message, Tests, IsOutput
<1>2. CASE Tests(c)
  <2> DEFINE g == c.test_size
             a == <<[kind |-> "arriving", val |-> 0]>>
             z == <<[kind |-> "finished", val |-> 0]>>
  <2>0. g \in Nat
    BY <1>2, CommandFacts DEF Tests
  <2>1. out = (a \o Bulk(g)) \o z
    BY <1>2, CommandFacts DEF Outputs, Tests, OnlyFifo0
  <2>2. a \in Seq(P) /\ z \in Seq(P) /\ Len(a) = 1 /\ Len(z) = 1
    BY DEF Kinds
  <2>3. Bulk(g) \in Seq(P) /\ Len(Bulk(g)) = g
    <3>1. Bulk(g) \in [1 .. g -> P]
      BY <2>0 DEF Bulk, Kinds
    <3>. QED
      BY <2>0, <3>1, FirstNumbers
  <2> DEFINE b == a \o Bulk(g)
  <2>4. /\ b \in Seq(P) /\ Len(b) = g + 1
        /\ \A i \in 1 .. g + 1 : b[i] = IF i = 1 THEN a[1] ELSE Bulk(g)[i - 1]
    BY <2>0, <2>2, <2>3, ConcatProperties
  <2>5. /\ out \in Seq(P) /\ Len(out) = g + 2
        /\ \A i \in 1 .. g + 2 : out[i] = IF i <= g + 1 THEN b[i] ELSE z[i - (g + 1)]
    <3>1. out = b \o z
      BY <2>1
    <3>2. Len(b) + Len(z) = g + 2 /\ Len(b) = g + 1
      BY <2>0, <2>2, <2>4
    <3>3. b \in Seq(P) /\ z \in Seq(P)
      BY <2>2, <2>4
    <3> HIDE DEF a, z, g, P, out, b, put
    <3>4. /\ b \o z \in Seq(P) /\ Len(b \o z) = Len(b) + Len(z)
          /\ \A i \in 1 .. Len(b) + Len(z) : (b \o z)[i] = IF i <= Len(b) THEN b[i] ELSE z[i - Len(b)]
      BY <3>3, ConcatProperties
    <3>. QED
      BY <3>1, <3>2, <3>4
  <2>6. /\ out[1].kind = "arriving" /\ out[g + 2].kind = "finished"
        /\ \A i \in 2 .. g + 1 : out[i].kind = "bulk" /\ out[i].val = i - 2
    <3>1. 1 \in 1 .. g + 1 /\ g + 2 \in 1 .. g + 2 /\ ~(g + 2 <= g + 1) /\ g + 2 - (g + 1) = 1
      BY <2>0
    <3>2. out[1] = a[1] /\ out[g + 2] = z[1]
      <4> HIDE DEF a, z, g, out, b
      <4>. QED
        BY <2>0, <2>4, <2>5, <3>1
    <3>3. ASSUME NEW i \in 2 .. g + 1
          PROVE  out[i] = Bulk(g)[i - 1] /\ i - 1 \in 1 .. g
      <4> HIDE DEF a, z, g, out, b
      <4>. QED
        BY <2>0, <2>4, <2>5
    <3>4. a[1].kind = "arriving" /\ z[1].kind = "finished"
      OBVIOUS
    <3>. HIDE DEF a, z, g, out, b, put
    <3>5. \A i \in 1 .. g : Bulk(g)[i].kind = "bulk" /\ Bulk(g)[i].val = i - 1
      BY DEF Bulk
    <3>6. ASSUME NEW i \in 2 .. g + 1
          PROVE  out[i].kind = "bulk" /\ out[i].val = i - 2
      BY <2>0, <3>3, <3>5
    <3>. QED
      BY <3>2, <3>4, <3>6
  <2>7. \A i \in 1 .. g + 2 : out[i] \in P
    <3> HIDE DEF out, P, g
    <3>. QED
      BY <2>5, ElementOfSeq
  <2>8. DOMAIN out = 1 .. g + 2
    <3> HIDE DEF out, P, g
    <3>. QED
      BY <2>5, LenProperties
  <2> HIDE DEF out
  <2>9. \A i \in 1 .. g + 2 : put[i] \in Messages
    BY <2>7, <2>8 DEF Message, Messages
  <2>10. put \in Seq(Messages) /\ Len(put) = g + 2
    <3>1. put \in [1 .. g + 2 -> Messages]
      BY <2>8, <2>9
    <3>. HIDE DEF put, g
    <3>. QED
      BY <2>0, <3>1, FirstNumbers
  <2>11. \A i \in 1 .. g + 2 :
           put[i].job = j /\ put[i].cmd = c /\ put[i].kind = out[i].kind /\ put[i].val = out[i].val
    BY <2>8 DEF Message
  <2>12. c.request # "read_register"
    BY <1>2 DEF Tests
  <2>. HIDE DEF put, g
  <2>13. put[1].kind = "arriving" /\ put[g + 2].kind = "finished"
    <3>1. 1 \in 1 .. g + 2 /\ g + 2 \in 1 .. g + 2
      BY <2>0
    <3>. QED
      BY <2>6, <2>11, <3>1
  <2>14. \A i \in 2 .. g + 1 : put[i].kind = "bulk" /\ put[i].val = i - 2
    <3>1. \A i \in 2 .. g + 1 : i \in 1 .. g + 2
      BY <2>0
    <3>. QED
      BY <2>6, <2>11, <3>1
  <2>15. IsOutput(put, c, regs, j)
    BY <1>2, <2>10, <2>11, <2>12, <2>13, <2>14 DEF IsOutput, g
  <2>. QED
    BY <2>15 DEF put, out
<1>. QED
  BY <1>1, <1>2
-----------------------------------------------------------------------------
(* The results of all requests in a row                                    *)

LEMMA Concat3 ==
  ASSUME NEW S, NEW a \in Seq(S), NEW b \in Seq(S), NEW c \in Seq(S)
  PROVE  LET s == a \o (b \o c) IN
         /\ s \in Seq(S) /\ Len(s) = Len(a) + Len(b) + Len(c)
         /\ \A i \in 1 .. Len(a) : s[i] = a[i]
         /\ \A i \in 1 .. Len(b) : s[Len(a) + i] = b[i]
         /\ \A i \in 1 .. Len(c) : s[Len(a) + Len(b) + i] = c[i]
<1> DEFINE t == b \o c
           s == a \o t
<1>1. Len(a) \in Nat /\ Len(b) \in Nat /\ Len(c) \in Nat
  BY LenProperties
<1>2. /\ t \in Seq(S) /\ Len(t) = Len(b) + Len(c)
      /\ \A i \in 1 .. Len(b) + Len(c) : t[i] = IF i <= Len(b) THEN b[i] ELSE c[i - Len(b)]
  BY ConcatProperties
<1>t. t \in Seq(S)
  BY <1>2
<1> HIDE DEF t
<1>3. /\ s \in Seq(S) /\ Len(s) = Len(a) + Len(t)
      /\ \A i \in 1 .. Len(a) + Len(t) : s[i] = IF i <= Len(a) THEN a[i] ELSE t[i - Len(a)]
  BY <1>t, ConcatProperties
<1> HIDE DEF s
<1>4. \A i \in 1 .. Len(a) : s[i] = a[i]
  BY <1>1, <1>2, <1>3
<1>5. \A i \in 1 .. Len(b) : s[Len(a) + i] = b[i]
  <2> TAKE i \in 1 .. Len(b)
  <2>1. Len(a) + i \in 1 .. Len(a) + Len(t) /\ ~(Len(a) + i <= Len(a)) /\ Len(a) + i - Len(a) = i
    BY <1>1, <1>2
  <2>2. i \in 1 .. Len(b) + Len(c) /\ i <= Len(b)
    BY <1>1
  <2>. QED
    BY SMTT(20), <1>2, <1>3, <2>1, <2>2
<1>6. \A i \in 1 .. Len(c) : s[Len(a) + Len(b) + i] = c[i]
  <2> TAKE i \in 1 .. Len(c)
  <2> DEFINE k == Len(a) + Len(b) + i
  <2>1. k \in 1 .. Len(a) + Len(t) /\ ~(k <= Len(a)) /\ k - Len(a) = Len(b) + i
    BY <1>1, <1>2
  <2>2. Len(b) + i \in 1 .. Len(b) + Len(c) /\ ~(Len(b) + i <= Len(b)) /\ Len(b) + i - Len(b) = i
    BY <1>1
  <2> HIDE DEF k
  <2>3. s[k] = t[k - Len(a)]
    BY <1>3, <2>1
  <2>4. t[Len(b) + i] = c[i]
    BY <1>2, <2>2
  <2>5. s[k] = c[i]
    BY <2>1, <2>3, <2>4
  <2>. QED
    BY <2>5 DEF k
<1>7. s \in Seq(S) /\ Len(s) = Len(a) + Len(b) + Len(c)
  BY <1>1, <1>2, <1>3
<1>. QED
  BY <1>4, <1>5, <1>6, <1>7, Zenon DEF s, t

\* Where a result is.
LEMMA StreamFacts ==
  ASSUME Types
  PROVE  /\ Stream \in Seq(Messages)
         /\ Len(Stream) = Len(results) + Len(queued) + Len(todo)
         /\ \A i \in 1 .. Len(results) : Stream[i] = results[i]
         /\ \A i \in 1 .. Len(queued) : Stream[Len(results) + i] = queued[i]
         /\ \A i \in 1 .. Len(todo) : Stream[Len(results) + Len(queued) + i] = todo[i]
         /\ Len(results) \in Nat /\ Len(queued) \in Nat /\ Len(todo) \in Nat
BY Concat3, LenProperties DEF Types, Stream

\* A later click changes nothing about the results of the first requests.
LEMMA StreamClick ==
  ASSUME NEW cs \in Seq(Commands), NEW c \in Commands, NEW jb \in 0 .. Len(cs),
         NEW out \in Seq(Messages), StreamInv(cs, jb, out)
  PROVE  StreamInv(Append(cs, c), jb, out)
<1> DEFINE ds == Append(cs, c)
<1>0. Len(cs) \in Nat /\ Len(out) \in Nat
  BY LenProperties
<1>1. \A j \in 1 .. jb : ds[j] = cs[j]
  BY <1>0, AppendProperties
<1>2. \A r : \A j \in 1 .. jb : LatestOf(ds, r, j) = LatestOf(cs, r, j)
  BY <1>0, LatestOfFirst
<1>3. \A i \in 1 .. Len(out) : out[i].job \in 1 .. jb /\ Fits(ds, jb, out[i])
  <2> HIDE DEF ds
  <2>. QED
    BY <1>1, <1>2 DEF StreamInv, Fits
<1>4. \A i \in 1 .. Len(out) - 1 : Follows(ds, out[i + 1], out[i])
  <2> TAKE i \in 1 .. Len(out) - 1
  <2>1. i \in 1 .. Len(out) /\ i + 1 \in 1 .. Len(out) /\ Follows(cs, out[i + 1], out[i])
    BY <1>0 DEF StreamInv
  <2>2. out[i].job \in 1 .. jb /\ out[i + 1].job \in 1 .. jb
    BY <1>3, <2>1
  <2> HIDE DEF ds
  <2>. QED
    BY <1>1, <2>1, <2>2 DEF Follows, Opens
<1>5. Len(out) > 0 => Opens(ds, out[1], 1)
  <2>1. SUFFICES ASSUME Len(out) > 0 PROVE Opens(ds, out[1], 1)
    OBVIOUS
  <2>2. out[1].job \in 1 .. jb /\ Opens(cs, out[1], 1)
    BY <1>0, <1>3, <2>1 DEF StreamInv
  <2> HIDE DEF ds
  <2>. QED
    BY <1>1, <2>2 DEF Opens
<1>. QED
  BY <1>3, <1>4, <1>5 DEF StreamInv

\* The next request puts its results behind those of the first.
LEMMA StreamTake ==
  ASSUME NEW cs \in Seq(Commands), NEW jb \in Nat, jb + 1 \in 1 .. Len(cs),
         NEW regs \in [Registers -> Nat], \A r \in Registers : regs[r] = LatestOf(cs, r, jb),
         NEW out \in Seq(Messages), StreamInv(cs, jb, out),
         NEW put, IsOutput(put, cs[jb + 1], regs, jb + 1)
  PROVE  StreamInv(cs, jb + 1, out \o put)
<1> DEFINE c == cs[jb + 1]
           s == out \o put
           n == Len(out)
           g == c.test_size
<1>0. n \in Nat /\ c \in Commands /\ put \in Seq(Messages) /\ Len(put) \in Nat /\ Len(put) >= 1
  <2>1. c \in Commands
    BY ElementOfSeq
  <2>2. Tests(c) => g \in Nat
    BY <2>1, CommandFacts DEF Tests
  <2> HIDE DEF c
  <2>. QED
    BY <2>1, <2>2, LenProperties DEF IsOutput, c
<1>1. Tests(c) => g \in Nat /\ Len(put) = g + 2
  BY <1>0, CommandFacts DEF Tests, IsOutput
<1>2. ~Tests(c) => Len(put) = 1
  BY DEF IsOutput
<1>3. /\ s \in Seq(Messages) /\ Len(s) = n + Len(put)
      /\ \A i \in 1 .. n : s[i] = out[i]
      /\ \A i \in 1 .. Len(put) : s[n + i] = put[i]
  <2>1. /\ s \in Seq(Messages) /\ Len(s) = Len(out) + Len(put)
        /\ \A i \in 1 .. Len(out) + Len(put) : s[i] = IF i <= Len(out) THEN out[i] ELSE put[i - Len(out)]
    BY <1>0, ConcatProperties
  <2> HIDE DEF s, c
  <2>2. \A i \in 1 .. n : s[i] = out[i]
    BY <1>0, <2>1
  <2>3. ASSUME NEW i \in 1 .. Len(put) PROVE s[n + i] = put[i]
    <3>1. n + i \in 1 .. Len(out) + Len(put) /\ ~(n + i <= Len(out)) /\ n + i - Len(out) = i
      BY <1>0
    <3>. QED
      BY <2>1, <3>1
  <2>. QED
    BY <2>1, <2>2, <2>3
<1>4. IsOutput(put, c, regs, jb + 1)
  OBVIOUS
<1>5. LatestOf(cs, c.reg_address, jb + 1) = LatestOf(cs, c.reg_address, jb) \/ c.request # "read_register"
  <2>1. c.request = "read_register" => ~Gives(c, c.reg_address)
    BY DEF Gives, Flash
  <2>. QED
    BY <2>1, LatestStep
<1>6. c.request = "read_register" => c.reg_address \in Registers
  BY <1>0, CommandFacts
<1>7. \A i \in 1 .. Len(put) : Fits(cs, jb + 1, put[i])
  <2> TAKE i \in 1 .. Len(put)
  <2>1. put[i].job = jb + 1 /\ put[i].cmd = c
    BY <1>4 DEF IsOutput
  <2>2. put[i].kind = "done" <=> ~Tests(c)
    <3>1. CASE Tests(c)
      <4>1. i = 1 \/ i = g + 2 \/ i \in 2 .. g + 1
        BY <1>1, <3>1
      <4> HIDE DEF c
      <4>. QED
        BY <1>4, <3>1, <4>1 DEF IsOutput
    <3>2. CASE ~Tests(c)
      BY <1>2, <1>4, <3>2 DEF IsOutput
    <3>. QED
      BY <3>1, <3>2
  <2>3. put[i].kind = "bulk" => put[i].val < g
    <3>1. CASE Tests(c)
      <4>1. i = 1 \/ i = g + 2 \/ i \in 2 .. g + 1
        BY <1>1, <3>1
      <4>2. i \in 2 .. g + 1 => i - 2 < g
        BY <1>1, <3>1
      <4> HIDE DEF c, g
      <4>. QED
        BY <1>4, <3>1, <4>1, <4>2 DEF IsOutput, g
    <3>. QED
      BY <2>2, <3>1
  <2>4. c.request = "read_register" => put[i].val = LatestOf(cs, c.reg_address, jb + 1)
    <3>1. SUFFICES ASSUME c.request = "read_register"
                   PROVE  put[i].val = LatestOf(cs, c.reg_address, jb + 1)
      OBVIOUS
    <3>2. ~Tests(c)
      BY <3>1 DEF Tests
    <3>3. i = 1
      <4>1. Len(put) = 1
        BY <1>2, <3>2
      <4>. QED
        BY <4>1
    <3> HIDE DEF c
    <3>. QED
      BY <1>4, <1>5, <1>6, <3>1, <3>3 DEF IsOutput
  <2> HIDE DEF c
  <2>5. c = cs[jb + 1] /\ jb + 1 \in 1 .. jb + 1
    BY DEF c
  <2>. QED
    BY <2>1, <2>2, <2>3, <2>4, <2>5 DEF Fits
<1>8. \A i \in 1 .. n : Fits(cs, jb + 1, out[i])
  BY <1>0 DEF StreamInv, Fits
<1>9. \A i \in 1 .. n + Len(put) : i \in 1 .. n \/ \E k \in 1 .. Len(put) : i = n + k
  <2> TAKE i \in 1 .. n + Len(put)
  <2>1. i \in 1 .. n \/ (i - n \in 1 .. Len(put) /\ i = n + (i - n))
    BY <1>0
  <2>. QED
    BY <2>1
<1>10. \A i \in 1 .. Len(s) : Fits(cs, jb + 1, s[i])
  <2> HIDE DEF s
  <2>. QED
    BY <1>3, <1>7, <1>8, <1>9
<1>11. ASSUME NEW i \in 1 .. Len(s) PROVE GroupsBefore(s, i)
  <2>1. CASE i \in 1 .. n
    <3>1. GroupsBefore(out, i) /\ s[i] = out[i]
      BY <1>3, <2>1 DEF StreamInv
    <3>2. ASSUME out[i].kind = "finished", NEW k \in 1 .. out[i].cmd.test_size
          PROVE  i - k >= 1 /\ s[i - k].kind = "bulk"
      <4>1. i - k >= 1 /\ out[i - k].kind = "bulk" /\ k \in Int /\ k >= 1
        BY <3>1, <3>2 DEF GroupsBefore
      <4>2. i - k \in 1 .. n
        BY <1>0, <2>1, <4>1
      <4>. QED
        BY <1>3, <4>1, <4>2
    <3> HIDE DEF s
    <3>. QED
      BY <3>1, <3>2 DEF GroupsBefore
  <2>2. ASSUME NEW k \in 1 .. Len(put), i = n + k, s[i].kind = "finished" PROVE GroupsBefore(s, i)
    <3>1. put[k].kind = "finished" /\ s[i].cmd = c
      BY <1>3, <1>4, <2>2 DEF IsOutput
    <3>2. Tests(c)
      <4> HIDE DEF c, s
      <4>. QED
        BY <1>2, <1>4, <3>1, <1>0 DEF IsOutput
    <3>3. k = g + 2
      <4>1. k = 1 \/ k = g + 2 \/ k \in 2 .. g + 1
        BY <1>1, <3>2
      <4> HIDE DEF c, s
      <4>. QED
        BY <1>4, <3>1, <3>2, <4>1 DEF IsOutput
    <3>4. ASSUME NEW l \in 1 .. g PROVE i - l >= 1 /\ s[i - l].kind = "bulk"
      <4>1. g + 2 - l \in 2 .. g + 1 /\ g + 2 - l \in 1 .. Len(put) /\ i - l = n + (g + 2 - l) /\ i - l >= 1
        <5> DEFINE m == Len(put)
        <5>1. g \in Nat /\ m = g + 2 /\ n \in Nat
          BY <1>0, <1>1, <3>2
        <5>2. i = n + k /\ i \in 1 .. Len(s) /\ l \in 1 .. g
          BY <2>2, <3>4
        <5> HIDE DEF c, g, s, n, m
        <5>3. g + 2 - l \in 2 .. g + 1 /\ g + 2 - l \in 1 .. m
          BY <5>1, <5>2
        <5>4. i = n + (g + 2)
          BY <3>3, <5>2
        <5>5. i - l = n + (g + 2 - l) /\ i - l >= 1
          BY <5>1, <5>2, <5>4
        <5>. QED
          BY <5>3, <5>5 DEF m
      <4>2. put[g + 2 - l].kind = "bulk"
        <5> HIDE DEF c
        <5>. QED
          BY <1>4, <3>2, <4>1 DEF IsOutput
      <4> HIDE DEF s, n, c
      <4>. QED
        BY <1>3, <4>1, <4>2
    <3> HIDE DEF s, c
    <3>. QED
      BY <3>1, <3>4 DEF GroupsBefore
  <2> HIDE DEF s, n
  <2>3. s[i].kind # "finished" => GroupsBefore(s, i)
    BY DEF GroupsBefore
  <2>. QED
    BY <1>3, <1>9, <2>1, <2>2, <2>3
<1>12. ASSUME NEW i \in 1 .. Len(s) - 1 PROVE Follows(cs, s[i + 1], s[i])
  <2>1. CASE i + 1 \in 1 .. n
    <3>1. i \in 1 .. n /\ i \in 1 .. n - 1
      BY <1>0, <2>1
    <3>. QED
      BY <1>3, <2>1, <3>1 DEF StreamInv
  <2>2. CASE i = n
    <3>1. s[i] = out[n] /\ s[i + 1] = put[1] /\ n > 0 /\ out[n].job = jb /\ Ends(out[n])
      <4>1. n > 0 /\ n \in 1 .. n /\ 1 \in 1 .. Len(put)
        BY <1>0, <2>2
      <4>. QED
        BY <1>3, <2>2, <4>1 DEF StreamInv
    <3>2. Opens(cs, put[1], jb + 1)
      <4> HIDE DEF c
      <4>. QED
        BY <1>0, <1>4 DEF IsOutput, Opens, c
    <3> HIDE DEF s
    <3>. QED
      BY <3>1, <3>2 DEF Follows
  <2>3. ASSUME NEW k \in 1 .. Len(put) - 1, i = n + k PROVE Follows(cs, s[i + 1], s[i])
    <3>1. s[i] = put[k] /\ s[i + 1] = put[k + 1]
      <4>1. k \in 1 .. Len(put) /\ k + 1 \in 1 .. Len(put) /\ i + 1 = n + (k + 1)
        BY <1>0, <2>3
      <4> HIDE DEF s, n
      <4>. QED
        BY <1>3, <2>3, <4>1
    <3>2. Tests(c)
      <4>1. Len(put) >= 2
        BY <1>0, <2>3
      <4>2. ASSUME ~Tests(c) PROVE FALSE
        <5>1. Len(put) = 1
          BY <1>2, <4>2
        <5>. QED
          BY <4>1, <5>1
      <4>. QED
        BY <4>2
    <3>3. k \in 1 .. g + 1 /\ g \in Nat
      BY SMTT(20), <1>1, <2>3, <3>2
    <3> DEFINE m == put[k]
               l == put[k + 1]
    <3>4. m.job = jb + 1 /\ m.cmd = c /\ l.job = jb + 1
      <4>1. k \in 1 .. Len(put) /\ k + 1 \in 1 .. Len(put)
        BY <1>0, <2>3
      <4>. QED
        BY <1>4, <4>1 DEF IsOutput
    <3>5. IF k = 1 THEN m.kind = "arriving" ELSE m.kind = "bulk" /\ m.val = k - 2
      <4>1. k = 1 \/ k \in 2 .. g + 1
        BY <3>3
      <4> HIDE DEF c
      <4>. QED
        BY <1>4, <3>2, <4>1 DEF IsOutput
    <3>6. IF k = g + 1 THEN l.kind = "finished" ELSE l.kind = "bulk" /\ l.val = k - 1
      <4>1. k = g + 1 \/ k + 1 \in 2 .. g + 1
        <5> HIDE DEF g
        <5>. QED
          BY <3>3
      <4>2. g + 1 + 1 = g + 2 /\ k + 1 - 2 = k - 1
        BY <3>3
      <4> HIDE DEF c
      <4>. QED
        BY <1>4, <3>2, <4>1, <4>2 DEF IsOutput
    <3>7. ~Ends(m) /\ GroupsSo(m) = k - 1
      <4> HIDE DEF m
      <4>. QED
        BY <3>3, <3>5 DEF Ends, GroupsSo
    <3>8. k - 1 < g <=> k # g + 1
      BY <3>3
    <3> HIDE DEF m, l, c
    <3>9. Follows(cs, l, m)
      BY <3>4, <3>6, <3>7, <3>8 DEF Follows, g
    <3>. QED
      BY <3>1, <3>9 DEF m, l
  <2>4. i + 1 \in 1 .. n \/ i = n \/ (i - n \in 1 .. Len(put) - 1 /\ i = n + (i - n))
    BY <1>0, <1>3
  <2>. QED
    BY <2>1, <2>2, <2>3, <2>4
<1>13. /\ Opens(cs, s[1], 1) /\ Len(s) > 0
       /\ s[Len(s)].job = jb + 1 /\ Ends(s[Len(s)])
  <2>1. s[Len(s)] = put[Len(put)] /\ Len(s) > 0
    <3>1. Len(put) \in 1 .. Len(put)
      BY <1>0
    <3> HIDE DEF s, n
    <3>. QED
      BY <1>0, <1>3, <3>1
  <2>2. put[Len(put)].job = jb + 1 /\ Ends(put[Len(put)])
    <3>1. Len(put) \in 1 .. Len(put)
      BY <1>0
    <3> HIDE DEF c
    <3>. QED
      BY <1>1, <1>2, <1>4, <3>1 DEF IsOutput, Ends, g
  <2>3. CASE n > 0
    <3>1. s[1] = out[1] /\ Opens(cs, out[1], 1)
      BY <1>0, <1>3, <2>3 DEF StreamInv
    <3>. QED
      BY <2>1, <2>2, <3>1
  <2>4. CASE n = 0
    <3>1. s[1] = put[1] /\ jb = 0
      <4>1. 1 \in 1 .. Len(put) /\ n + 1 = 1
        BY <1>0, <2>4
      <4>2. jb = 0
        BY <2>4 DEF StreamInv
      <4> HIDE DEF s, n
      <4>. QED
        BY <1>3, <4>1, <4>2
    <3>2. Opens(cs, put[1], jb + 1)
      <4> HIDE DEF c
      <4>. QED
        BY <1>0, <1>4 DEF IsOutput, Opens, c
    <3> HIDE DEF s
    <3>. QED
      BY <2>1, <2>2, <3>1, <3>2
  <2>. QED
    BY <1>0, <2>3, <2>4
<1>. QED
  BY <1>10, <1>11, <1>12, <1>13 DEF StreamInv
-----------------------------------------------------------------------------
(* What each part of the invariant depends on                              *)

LEMMA SameDown ==
  ASSUME DownInv, UNCHANGED <<dnLink, clicks, received, requests, job>>
  PROVE  DownInv'
BY DEF DownInv, dnLink, LinkInv

LEMMA SameUp ==
  ASSUME UpInv, UNCHANGED <<upLink, clicks, queued, results, todo, job>>
  PROVE  UpInv'
BY DEF UpInv, upLink, LinkInv, Stream

LEMMA SameRegisters ==
  ASSUME RegistersInv, UNCHANGED <<registers, clicks, job>>
  PROVE  RegistersInv'
BY DEF RegistersInv

LEMMA SameTaken ==
  ASSUME TakenInv, UNCHANGED <<uGot, arrived, results, bulkDue, bulk>>
  PROVE  TakenInv'
BY DEF TakenInv, Handled, Due, BulkInv

LEMMA SameAnswers ==
  ASSUME AnswersInv, UNCHANGED <<uGot, arrived, results, blocked, unhandled, answers, clicks>>
  PROVE  AnswersInv'
BY DEF AnswersInv, Handled, Due, Over

LEMMA SameFlight ==
  ASSUME FlightInv, UNCHANGED <<inFlight, dReturned, answers, clicks>>
  PROVE  FlightInv'
BY DEF FlightInv

LEMMA SameButtons ==
  ASSUME ButtonsInv, UNCHANGED <<shown, answers, clicks, disabled>>
  PROVE  ButtonsInv'
BY DEF ButtonsInv

\* How far each part is.  The lemmas are small: the provers lose their way among
\* many lengths.
LEMMA JobFar ==
  ASSUME IInv
  PROVE  /\ job \in Nat /\ Len(clicks) \in Nat /\ Len(requests) \in Nat /\ Len(received) \in Nat
         /\ job + Len(requests) + Len(received) <= Len(clicks)
<1>1. /\ Len(clicks) \in Nat /\ Len(requests) \in Nat /\ Len(received) \in Nat /\ job \in Nat
  BY LenProperties DEF IInv, Types
<1>2. /\ dHeld \in Nat /\ dWritten \in Nat
      /\ Len(dGot) = job + Len(requests) + Len(received)
      /\ Len(dGot) <= dHeld /\ dHeld <= dWritten /\ dWritten <= Len(clicks)
  BY DEF IInv, DownInv, LinkInv
<1>. QED
  BY <1>1, <1>2

LEMMA GotFar ==
  ASSUME IInv
  PROVE  /\ Len(dGot) \in Nat /\ Len(received) \in Nat /\ Len(dGot) <= Len(clicks)
         /\ received # <<>> => Len(received) >= 1
         /\ received # <<>> => Len(dGot) \in 1 .. Len(clicks)
<1>1. Len(dGot) \in Nat
  BY LenProperties DEF IInv, DownInv, LinkInv
<1>2. Len(dGot) = job + Len(requests) + Len(received)
  BY DEF IInv, DownInv
<1>3. Len(dGot) <= Len(clicks)
  BY <1>2, JobFar
<1>4. received # <<>> => Len(received) >= 1
  BY EmptySeq DEF IInv, Types
<1>5. received # <<>> => Len(dGot) >= 1
  BY <1>2, <1>4, JobFar
<1>. QED
  BY <1>1, <1>3, <1>4, <1>5, JobFar

LEMMA ReturnFar ==
  ASSUME IInv
  PROVE  /\ dReturned \in Nat /\ dHeld \in Nat /\ dWritten \in Nat /\ Len(clicks) \in Nat
         /\ dReturned <= dHeld /\ dHeld <= dWritten /\ dWritten <= Len(clicks)
BY JobFar DEF IInv, DownInv, LinkInv

LEMMA HandledFar ==
  ASSUME IInv
  PROVE  /\ Handled \in Nat /\ Len(arrived) \in Nat /\ Len(results) \in Nat
         /\ Handled + Len(arrived) <= Len(results)
<1>1. Len(arrived) \in Nat /\ Len(results) \in Nat /\ Len(uGot) \in Nat
  BY LenProperties DEF IInv, Types, UpInv, LinkInv
<1>2. uHeld \in Nat /\ Len(uGot) <= uHeld /\ uHeld <= Len(results)
  BY DEF IInv, UpInv, LinkInv
<1>3. Len(arrived) <= Len(uGot)
  BY DEF IInv, TakenInv
<1>. QED
  BY <1>1, <1>2, <1>3 DEF Handled

LEMMA AnswersFar ==
  ASSUME IInv
  PROVE  /\ Len(answers) \in Nat /\ Len(unhandled) \in Nat
         /\ Len(answers) + Len(unhandled) = Over(Handled) /\ Len(unhandled) <= 1
         /\ unhandled # <<>> => Len(unhandled) >= 1
<1>1. Len(answers) \in Nat /\ Len(unhandled) \in Nat
  BY LenProperties DEF IInv, Types
<1>2. Len(answers) + Len(unhandled) = Over(Handled) /\ Len(unhandled) <= 1
  BY DEF IInv, AnswersInv
<1>3. unhandled # <<>> => Len(unhandled) >= 1
  BY EmptySeq DEF IInv, Types
<1>. QED
  BY <1>1, <1>2, <1>3

LEMMA ShownFar ==
  ASSUME IInv
  PROVE  shown \in Nat /\ Len(answers) \in Nat /\ shown <= Len(answers)
BY LenProperties DEF IInv, Types, ButtonsInv

\* A result that has been written is one of them all.
LEMMA ResultFacts ==
  ASSUME IInv, NEW h \in 1 .. Len(results)
  PROVE  /\ results[h] \in Messages /\ results[h] = Stream[h] /\ h \in 1 .. Len(Stream)
         /\ Fits(clicks, job, results[h])
<1>1. Types
  BY DEF IInv
<1>2. results[h] \in Messages
  BY <1>1, ElementOfSeq DEF Types
<1>3. h \in 1 .. Len(Stream) /\ results[h] = Stream[h]
  BY <1>1, StreamFacts
<1>. QED
  BY <1>2, <1>3 DEF IInv, UpInv, StreamInv

\* Only requests that were carried out are over.
LEMMA OverFacts ==
  ASSUME IInv
  PROVE  /\ Over(Handled) \in 0 .. job /\ Over(Handled) \in 0 .. Len(clicks)
         /\ Len(answers) \in 0 .. Over(Handled)
         /\ unhandled # <<>> => Over(Handled) = Len(answers) + 1
         /\ unhandled = <<>> => Over(Handled) <= Len(answers)
<1>1. Over(Handled) \in 0 .. job
  <2>1. CASE Handled = 0
    BY <2>1, JobFar DEF Over
  <2>2. CASE Handled # 0
    <3>1. Handled \in 1 .. Len(results)
      BY <2>2, HandledFar
    <3>2. results[Handled].job \in 1 .. job /\ job \in Nat
      BY <3>1, ResultFacts, JobFar DEF Fits
    <3>. QED
      BY <2>2, <3>2 DEF Over
  <2>. QED
    BY <2>1, <2>2
<1>2. Over(Handled) \in 0 .. Len(clicks)
  BY <1>1, JobFar
<1>3. unhandled = <<>> => Len(unhandled) <= 0
  OBVIOUS
<1>. QED
  BY <1>1, <1>2, <1>3, AnswersFar

\* The message read is the next one.
LEMMA DnReads ==
  ASSUME LinkInv(dWritten, dReturned, dHeld, dGot), NEW n \in 1 .. dHeld, Dn!Read(n)
  PROVE  /\ n = Len(dGot) + 1 /\ dGot' = Append(dGot, n) /\ Len(dGot') = n
         /\ LinkInv(dWritten, dReturned, dHeld, dGot)'
         /\ UNCHANGED <<dWritten, dReturned, dHeld>>
<1>1. n = Dn!LastRead + 1 /\ dGot' = Append(dGot, n) /\ UNCHANGED <<dWritten, dReturned, dHeld>>
  BY DEF Dn!Read
<1>2. Len(dGot) \in Nat
  BY LenProperties DEF LinkInv
<1>3. Dn!LastRead = Len(dGot)
  <2>1. dGot # <<>> => Len(dGot) \in 1 .. Len(dGot)
    BY <1>2, EmptySeq DEF LinkInv
  <2>. QED
    BY <2>1 DEF Dn!LastRead, LinkInv
<1>4. n \in Nat
  BY DEF LinkInv
<1>5. /\ dGot' \in Seq(Nat) /\ Len(dGot') = n
      /\ \A i \in 1 .. Len(dGot) : dGot'[i] = dGot[i]
      /\ dGot'[Len(dGot) + 1] = n
  BY <1>1, <1>3, <1>4, AppendProperties DEF LinkInv
<1>6. \A i \in 1 .. n : dGot'[i] = i
  BY <1>1, <1>2, <1>3, <1>5 DEF LinkInv
<1>. QED
  BY <1>1, <1>3, <1>4, <1>5, <1>6 DEF LinkInv

LEMMA UpReads ==
  ASSUME LinkInv(uWritten, uReturned, uHeld, uGot), NEW n \in 1 .. uHeld, Up!Read(n)
  PROVE  /\ n = Len(uGot) + 1 /\ uGot' = Append(uGot, n) /\ Len(uGot') = n
         /\ LinkInv(uWritten, uReturned, uHeld, uGot)'
         /\ UNCHANGED <<uWritten, uReturned, uHeld>>
<1>1. n = Up!LastRead + 1 /\ uGot' = Append(uGot, n) /\ UNCHANGED <<uWritten, uReturned, uHeld>>
  BY DEF Up!Read
<1>2. Len(uGot) \in Nat
  BY LenProperties DEF LinkInv
<1>3. Up!LastRead = Len(uGot)
  <2>1. uGot # <<>> => Len(uGot) \in 1 .. Len(uGot)
    BY <1>2, EmptySeq DEF LinkInv
  <2>. QED
    BY <2>1 DEF Up!LastRead, LinkInv
<1>4. n \in Nat
  BY DEF LinkInv
<1>5. /\ uGot' \in Seq(Nat) /\ Len(uGot') = n
      /\ \A i \in 1 .. Len(uGot) : uGot'[i] = uGot[i]
      /\ uGot'[Len(uGot) + 1] = n
  BY <1>1, <1>3, <1>4, AppendProperties DEF LinkInv
<1>6. \A i \in 1 .. n : uGot'[i] = i
  BY <1>1, <1>2, <1>3, <1>5 DEF LinkInv
<1>. QED
  BY <1>1, <1>3, <1>4, <1>5, <1>6 DEF LinkInv

-----------------------------------------------------------------------------
(* From a button to the registers of the FPGA                              *)

LEMMA ClickHolds ==
  ASSUME IInv, NEW c \in Commands, Click(c)
  PROVE  IInv'
<1>0. /\ clicks' = Append(clicks, c) /\ disabled' = disabled \cup Disables(c)
      /\ Disables(c) \cap disabled = {}
      /\ UNCHANGED <<inFlight, arrived, blocked, unhandled, bulk, bulkDue, answers, shown>>
      /\ UNCHANGED <<mcu, dnLink, upLink>>
  BY DEF Click
<1>1. /\ clicks \in Seq(Commands) /\ clicks' \in Seq(Commands)
      /\ Len(clicks') <= Len(clicks) + 1 /\ Len(clicks) + 1 <= Len(clicks')
      /\ \A j \in 1 .. Len(clicks) : clicks'[j] = clicks[j]
      /\ clicks'[Len(clicks) + 1] = c
  BY <1>0, AppendProperties DEF IInv, Types
<1>2. \A r : \A k \in 0 .. Len(clicks) : LatestOf(clicks', r, k) = LatestOf(clicks, r, k)
  BY <1>0, <1>1, LatestOfFirst
<1>3. Types'
  BY <1>0, <1>1 DEF IInv, Types, mcu
<1>4. DownInv'
  <2>1. \A i \in 1 .. Len(requests) : job + i \in 1 .. Len(clicks)
    BY JobFar
  <2>2. received # <<>> => Len(dGot) \in 1 .. Len(clicks)
    BY GotFar
  <2>3. DownInv
    BY DEF IInv
  <2>4. dWritten <= Len(clicks')
    BY <1>1, ReturnFar
  <2>5. \A i \in 1 .. Len(requests) : requests[i] = clicks'[job + i]
    BY <1>1, <2>1, <2>3 DEF DownInv
  <2>6. received # <<>> => received[1] = clicks'[Len(dGot)]
    BY <1>1, <2>2, <2>3 DEF DownInv
  <2>. QED
    BY <1>0, <2>3, <2>4, <2>5, <2>6 DEF DownInv, LinkInv, mcu, dnLink
<1>5. UpInv'
  <2>1. Stream' = Stream /\ Stream \in Seq(Messages)
    BY <1>0, StreamFacts DEF Stream, mcu, IInv
  <2>2. StreamInv(clicks', job, Stream)
    <3>1. job \in 0 .. Len(clicks) /\ StreamInv(clicks, job, Stream)
      BY JobFar DEF IInv, UpInv
    <3>. QED
      BY <1>0, <1>1, <2>1, <3>1, StreamClick
  <2>. QED
    BY <1>0, <2>1, <2>2 DEF IInv, UpInv, LinkInv, mcu, upLink
<1>6. RegistersInv'
  BY <1>0, <1>2, JobFar DEF IInv, RegistersInv, mcu
<1>7. TakenInv'
  BY <1>0, SameTaken DEF IInv, upLink, mcu
<1>8. AnswersInv'
  <2>1. Handled' = Handled /\ Over(Handled)' = Over(Handled)
    BY <1>0 DEF Handled, Over, Due, upLink, mcu
  <2>2. ASSUME NEW m, NEW j \in 1 .. Len(clicks), Answer(clicks, m, j)
        PROVE  Answer(clicks', m, j)
    BY <1>1, <1>2, <2>2 DEF Answer
  <2>3. unhandled # <<>> => Over(Handled) \in 1 .. Len(clicks)
    BY OverFacts, AnswersFar
  <2>4. \A i \in 1 .. Len(answers) : i \in 1 .. Len(clicks)
    BY OverFacts, AnswersFar
  <2>. QED
    BY <1>0, <2>1, <2>2, <2>3, <2>4 DEF IInv, AnswersInv
<1>9. FlightInv'
  <2>1. dReturned \in 0 .. Len(clicks) /\ dReturned' = dReturned /\ Len(answers) <= dReturned
    BY <1>0, ReturnFar DEF dnLink, IInv, FlightInv
  <2> DEFINE E == Elements(inFlight)
             W == Len(answers) + 1 .. dReturned
  <2>2. E \subseteq 1 .. Len(clicks) /\ W \subseteq 1 .. Len(clicks)
    BY <2>1, AnswersFar, ReturnFar DEF IInv, FlightInv
  <2>3. PICK q \in [E -> W] : Stands(clicks, q, E, W)
    BY DEF IInv, FlightInv
  <2>4. Stands(clicks', q, E, W)
    BY <1>1, <2>2, <2>3 DEF Stands
  <2>5. E' = E /\ W' = W
    BY <1>0, <2>1
  <2>6. \A k \in E : OfRegister(clicks'[k]) => k > Len(answers)
    <3> HIDE DEF E
    <3>. QED
      BY <1>1, <2>2 DEF IInv, FlightInv, E
  <2>7. \A i \in 1 .. Len(answers) :
          LET k == answers[i].click IN
          k \in 1 .. dReturned /\ clicks'[k] = clicks'[i] /\ (OfRegister(clicks'[i]) => k = i)
    <3> TAKE i \in 1 .. Len(answers)
    <3>1. i \in 1 .. Len(clicks) /\ answers[i].click \in 1 .. Len(clicks)
      <4>1. answers[i].click \in 1 .. dReturned
        BY DEF IInv, FlightInv
      <4>. QED
        BY <2>1, <4>1, ReturnFar, AnswersFar
    <3>. QED
      BY <1>1, <3>1 DEF IInv, FlightInv
  <2>. QED
    BY <1>0, <2>1, <2>3, <2>4, <2>5, <2>6, <2>7 DEF IInv, FlightInv
<1>10. ButtonsInv'
  <2>1. shown \in Nat /\ Len(clicks) \in Nat /\ shown <= Len(answers)
    BY ShownFar, JobFar DEF IInv, ButtonsInv
  <2>2. \A j \in shown + 1 .. Len(clicks) + 1 : j \in shown + 1 .. Len(clicks) \/ j = Len(clicks) + 1
    BY <2>1
  <2>3. \A j \in shown + 1 .. Len(clicks) :
          clicks'[j] = clicks[j] /\ Disables(clicks[j]) \subseteq disabled
    BY <1>1, <2>1 DEF IInv, ButtonsInv
  <2>4. \A j, k \in shown + 1 .. Len(clicks) :
          Disables(clicks[j]) \cap Disables(clicks[k]) # {} => j = k
    BY DEF IInv, ButtonsInv
  <2>5. \A j \in shown + 1 .. Len(clicks) : Disables(clicks[j]) \cap Disables(c) = {}
    BY <1>0, <2>3
  <2>6. \A j \in shown + 1 .. Len(clicks) + 1 : Disables(clicks'[j]) \subseteq disabled'
    BY <1>0, <1>1, <2>2, <2>3
  <2>7. \A j, k \in shown + 1 .. Len(clicks) + 1 :
          Disables(clicks'[j]) \cap Disables(clicks'[k]) # {} => j = k
    BY <1>1, <2>2, <2>3, <2>4, <2>5
  <2>. QED
    <3>1. shown' = shown /\ answers' = answers /\ Len(clicks') \in Nat
      BY <1>0, <1>1, <2>1, LenProperties
    <3>2. Len(clicks') = Len(clicks) + 1
      BY <1>1, <2>1, <3>1
    <3> HIDE DEF Disables
    <3>. QED
      BY <2>1, <2>6, <2>7, <3>1, <3>2 DEF ButtonsInv
<1>. QED
  BY <1>3, <1>4, <1>5, <1>6, <1>7, <1>8, <1>9, <1>10 DEF IInv

LEMMA GWriteHolds ==
  ASSUME IInv, GWrite
  PROVE  IInv'
<1>0. /\ dWritten < Len(clicks) /\ dReturned = dWritten /\ dWritten' = dWritten + 1
      /\ UNCHANGED <<dReturned, dHeld, dGot>> /\ UNCHANGED <<gui, mcu, upLink>>
  BY DEF GWrite, Dn!Write
<1>1. Types'
  BY <1>0 DEF IInv, Types, gui, mcu
<1>2. DownInv'
  <2>1. dWritten' <= Len(clicks) /\ dWritten \in Nat
    BY <1>0, ReturnFar
  <2>. QED
    BY <1>0, <2>1 DEF IInv, DownInv, LinkInv, gui, mcu
<1>3. UpInv' /\ RegistersInv' /\ TakenInv' /\ AnswersInv'
  BY <1>0, SameUp, SameRegisters, SameTaken, SameAnswers DEF IInv, gui, mcu, upLink
<1>4. FlightInv' /\ ButtonsInv'
  BY <1>0, SameFlight, SameButtons DEF IInv, gui
<1>. QED
  BY <1>1, <1>2, <1>3, <1>4 DEF IInv

LEMMA DnHoldHolds ==
  ASSUME IInv, DnHold
  PROVE  IInv'
<1>0. /\ dHeld < dWritten /\ dHeld' = dHeld + 1
      /\ UNCHANGED <<dReturned, dWritten, dGot>> /\ UNCHANGED <<gui, mcu, upLink>>
  BY DEF DnHold, Dn!Hold
<1>1. Types'
  BY <1>0 DEF IInv, Types, gui, mcu
<1>2. DownInv'
  <2>1. Len(dGot) <= dHeld' /\ dHeld' \in Nat /\ dReturned <= dHeld' /\ dHeld' <= dWritten
    BY <1>0, GotFar, ReturnFar DEF IInv, DownInv, LinkInv
  <2>. QED
    BY <1>0, <2>1 DEF IInv, DownInv, LinkInv, gui, mcu
<1>3. UpInv' /\ RegistersInv' /\ TakenInv' /\ AnswersInv'
  BY <1>0, SameUp, SameRegisters, SameTaken, SameAnswers DEF IInv, gui, mcu, upLink
<1>4. FlightInv' /\ ButtonsInv'
  BY <1>0, SameFlight, SameButtons DEF IInv, gui
<1>. QED
  BY <1>1, <1>2, <1>3, <1>4 DEF IInv

LEMMA MReceiveHolds ==
  ASSUME IInv, MReceive
  PROVE  IInv'
<1>0. /\ received = <<>>
      /\ \E n \in 1 .. dHeld : Dn!Read(n) /\ received' = <<clicks[n]>>
      /\ UNCHANGED <<requests, job, todo, registers, queued, results>>
      /\ UNCHANGED <<gui, upLink>>
  BY DEF MReceive
<1>1. PICK n \in 1 .. dHeld : Dn!Read(n) /\ received' = <<clicks[n]>>
  BY <1>0
<1>2. /\ n = Len(dGot) + 1 /\ Len(dGot') = n
      /\ LinkInv(dWritten, dReturned, dHeld, dGot)'
      /\ UNCHANGED <<dWritten, dReturned, dHeld>>
  BY <1>1, DnReads DEF IInv, DownInv
<1>3. n \in 1 .. Len(clicks) /\ clicks[n] \in Commands
  <2>1. n \in 1 .. Len(clicks)
    BY ReturnFar
  <2>. QED
    BY <2>1, ElementOfSeq DEF IInv, Types
<1>4. received' \in Seq(Commands) /\ Len(received') <= 1 /\ Len(received') >= 1 /\ received'[1] = clicks[n]
  BY <1>1, <1>3
<1>5. Types'
  BY <1>0, <1>4 DEF IInv, Types, gui
<1>6. DownInv'
  <2>1. Len(received) <= 0 /\ Len(dGot) = job + Len(requests) + Len(received)
    BY <1>0 DEF IInv, DownInv
  <2>2. Len(dGot') = job + Len(requests) + Len(received')
    BY <1>2, <1>4, <2>1, JobFar
  <2>3. UNCHANGED <<requests, job, clicks, dWritten>>
    BY <1>0, <1>2 DEF gui
  <2>4. received'[1] = clicks'[Len(dGot')]
    BY <1>2, <1>4, <2>3
  <2>. QED
    BY <1>2, <1>4, <2>2, <2>3, <2>4 DEF IInv, DownInv
<1>7. UpInv' /\ RegistersInv' /\ TakenInv' /\ AnswersInv'
  BY <1>0, SameUp, SameRegisters, SameTaken, SameAnswers DEF IInv, gui, upLink
<1>8. FlightInv' /\ ButtonsInv'
  BY <1>0, <1>2, SameFlight, SameButtons DEF IInv, gui
<1>. QED
  BY <1>5, <1>6, <1>7, <1>8 DEF IInv

LEMMA MEnqueueHolds ==
  ASSUME IInv, MEnqueue
  PROVE  IInv'
<1>0. /\ received # <<>> /\ Len(requests) < CopiMax
      /\ requests' = Append(requests, Head(received)) /\ received' = <<>>
      /\ UNCHANGED <<job, todo, registers, queued, results>>
      /\ UNCHANGED <<gui, dnLink, upLink>>
  BY DEF MEnqueue
<1>1. Head(received) \in Commands /\ Head(received) = received[1]
  BY <1>0, HeadTailProperties DEF IInv, Types
<1>2. /\ requests' \in Seq(Commands)
      /\ Len(requests') <= Len(requests) + 1 /\ Len(requests) + 1 <= Len(requests')
      /\ \A i \in 1 .. Len(requests) : requests'[i] = requests[i]
      /\ requests'[Len(requests) + 1] = received[1]
  BY <1>0, <1>1, AppendProperties DEF IInv, Types
<1>3. Types'
  BY <1>0, <1>2 DEF IInv, Types, gui
<1>4. DownInv'
  <2>1. UNCHANGED <<dWritten, dReturned, dHeld, dGot, clicks, job>>
    BY <1>0 DEF gui, dnLink
  <2>2. /\ Len(received) <= 1 /\ Len(received) >= 1
        /\ Len(dGot) = job + Len(requests) + Len(received)
    BY <1>0, GotFar DEF IInv, DownInv
  <2>3. Len(dGot) = job + Len(requests') + Len(received')
    <3>1. Len(received') <= 0 /\ Len(received') >= 0
      BY <1>0
    <3>2. Len(requests') \in Nat
      BY <1>2, LenProperties
    <3>. QED
      BY <1>2, <2>2, <3>1, <3>2, JobFar
  <2>4. Len(requests') <= CopiMax
    BY <1>0, <1>2, JobFar, CapacityAssumption
  <2>5. requests'[Len(requests) + 1] = clicks[Len(dGot)] /\ Len(dGot) = job + (Len(requests) + 1)
    BY <1>0, <1>2, <2>2, JobFar DEF IInv, DownInv
  <2>6. \A i \in 1 .. Len(requests') : requests'[i] = clicks[job + i]
    <3> TAKE i \in 1 .. Len(requests')
    <3>1. i \in 1 .. Len(requests) \/ i = Len(requests) + 1
      BY <1>2, JobFar
    <3>2. \A j \in 1 .. Len(requests) : requests[j] = clicks[job + j]
      BY DEF IInv, DownInv
    <3>. QED
      BY <1>2, <2>5, <3>1, <3>2
  <2>7. Len(received') <= 1 /\ received' = <<>>
    BY <1>0
  <2>. QED
    BY <2>1, <2>3, <2>4, <2>6, <2>7 DEF IInv, DownInv, LinkInv
<1>5. UpInv' /\ RegistersInv' /\ TakenInv' /\ AnswersInv'
  BY <1>0, SameUp, SameRegisters, SameTaken, SameAnswers DEF IInv, gui, upLink
<1>6. FlightInv' /\ ButtonsInv'
  BY <1>0, SameFlight, SameButtons DEF IInv, gui, dnLink
<1>. QED
  BY <1>3, <1>4, <1>5, <1>6 DEF IInv

LEMMA MTakeHolds ==
  ASSUME OnlyFifo0, IInv, MTake
  PROVE  IInv'
<1> DEFINE c == Head(requests)
           out == Outputs(c, registers)
           put == [i \in DOMAIN out |-> Message(job + 1, c, out[i])]
<1>0. /\ todo = <<>> /\ requests # <<>> /\ requests' = Tail(requests) /\ job' = job + 1
      /\ registers' = Effect(c, registers) /\ todo' = put
      /\ UNCHANGED <<received, queued, results>>
      /\ UNCHANGED <<gui, dnLink, upLink>>
  BY DEF MTake
<1>1. /\ c \in Commands /\ c = requests[1] /\ requests' \in Seq(Commands)
      /\ Len(requests') <= Len(requests) - 1 /\ Len(requests) - 1 <= Len(requests')
      /\ Len(requests) >= 1
      /\ \A i \in 1 .. Len(requests') : requests'[i] = requests[i + 1]
  BY <1>0, HeadTailProperties, EmptySeq DEF IInv, Types
<1>2. c = clicks[job + 1] /\ job + 1 \in 1 .. Len(clicks) /\ job \in Nat
  <2>1. 1 \in 1 .. Len(requests) /\ job + 1 \in 1 .. Len(clicks) /\ job \in Nat
    BY <1>1, JobFar
  <2>. QED
    BY <1>1, <2>1 DEF IInv, DownInv
<1>3. registers \in [Registers -> Nat] /\ clicks \in Seq(Commands)
  BY DEF IInv, Types
<1>4. IsOutput(put, c, registers, job + 1)
  <2>1. job + 1 \in Nat
    BY <1>2
  <2> HIDE DEF c
  <2>. QED
    BY <1>1, <1>3, <2>1, OutputsFacts
<1> HIDE DEF c, put
<1>5. \A r \in Registers : registers[r] = LatestOf(clicks, r, job)
  BY DEF IInv, RegistersInv
<1>6. registers' \in [Registers -> Nat]
  BY <1>0, <1>1, <1>3, CommandFacts, CommandAssumption DEF Effect, Registers
<1>7. RegistersInv'
  <2>1. UNCHANGED clicks
    BY <1>0 DEF gui
  <2> SUFFICES ASSUME NEW r \in Registers
               PROVE  registers'[r] = LatestOf(clicks', r, job')
    BY DEF RegistersInv, Registers
  <2>2. LatestOf(clicks, r, job + 1) =
          IF ~Gives(c, r) THEN registers[r] ELSE IF c = Flash THEN Lit ELSE c.write_value
    BY <1>2, <1>5, LatestStep
  <2>3. registers'[r] = IF ~Gives(c, r) THEN registers[r] ELSE IF c = Flash THEN Lit ELSE c.write_value
    <3>1. CASE c.request = "flash_leds"
      BY <1>0, <1>1, <1>3, <3>1, CommandFacts, CommandAssumption DEF Effect, Gives, Flash
    <3>2. CASE c.request = "write_register"
      BY <1>0, <1>1, <1>3, <3>2, CommandFacts DEF Effect, Gives, Flash
    <3>3. CASE c.request \notin {"flash_leds", "write_register"}
      BY <1>0, <3>3 DEF Effect, Gives, Flash
    <3>. QED
      BY <3>1, <3>2, <3>3
  <2>. QED
    BY <1>0, <2>1, <2>2, <2>3
<1>8. put \in Seq(Messages)
  BY <1>4 DEF IsOutput
<1>9. Types'
  BY <1>0, <1>1, <1>2, <1>6, <1>8 DEF IInv, Types, gui
<1>10. DownInv'
  <2>1. UNCHANGED <<dWritten, dReturned, dHeld, dGot, clicks, received>>
    BY <1>0 DEF gui, dnLink
  <2>2. Len(requests') \in Nat
    BY <1>1, LenProperties
  <2>3. Len(dGot) = job' + Len(requests') + Len(received)
    <3>1. Len(dGot) = job + Len(requests) + Len(received)
      BY DEF IInv, DownInv
    <3>. QED
      BY <1>0, <1>1, <2>2, <3>1, JobFar
  <2>4. Len(requests') <= CopiMax
    <3>1. Len(requests) <= CopiMax
      BY DEF IInv, DownInv
    <3>. QED
      BY <1>1, <2>2, <3>1, JobFar, CapacityAssumption
  <2>5. \A i \in 1 .. Len(requests') : requests'[i] = clicks[job' + i]
    <3> TAKE i \in 1 .. Len(requests')
    <3>1. i + 1 \in 1 .. Len(requests) /\ job + (i + 1) = job' + i
      BY <1>0, <1>1, <1>2, <2>2, JobFar
    <3>2. requests[i + 1] = clicks[job + (i + 1)]
      BY <3>1 DEF IInv, DownInv
    <3>. QED
      BY <1>1, <3>1, <3>2
  <2>. QED
    BY <2>1, <2>3, <2>4, <2>5 DEF IInv, DownInv, LinkInv
<1>11. UpInv'
  <2>1. Types
    BY DEF IInv
  <2>2. Stream = results \o queued /\ Stream \in Seq(Messages)
    BY <1>0, <2>1, StreamFacts, ConcatEmptySeq DEF Types, Stream
  <2>3. Stream' = Stream \o put
    <3>1. results \in Seq(Messages) /\ queued \in Seq(Messages)
      BY <2>1 DEF Types
    <3>2. (results \o queued) \o put = results \o (queued \o put)
      BY <1>8, <3>1, ConcatAssociative
    <3>3. Stream' = results \o (queued \o put)
      BY <1>0 DEF Stream
    <3>. QED
      BY <2>2, <3>2, <3>3
  <2>4. StreamInv(clicks, job + 1, Stream \o put)
    <3>1. StreamInv(clicks, job, Stream)
      BY DEF IInv, UpInv
    <3>2. IsOutput(put, clicks[job + 1], registers, job + 1)
      BY <1>2, <1>4
    <3>. QED
      BY <1>2, <1>3, <1>5, <2>2, <3>1, <3>2, StreamTake
  <2>5. \A i \in 1 .. Len(put) : put[i].job = job + 1
    BY <1>4 DEF IsOutput
  <2>6. UNCHANGED <<clicks, results, queued, uWritten, uReturned, uHeld, uGot>>
    BY <1>0 DEF gui, upLink
  <2>. QED
    BY <1>0, <2>3, <2>4, <2>5, <2>6 DEF IInv, UpInv, LinkInv
<1>12. TakenInv' /\ AnswersInv' /\ FlightInv' /\ ButtonsInv'
  BY <1>0, SameTaken, SameAnswers, SameFlight, SameButtons DEF IInv, gui, dnLink, upLink
<1>. QED
  BY <1>7, <1>9, <1>10, <1>11, <1>12 DEF IInv

-----------------------------------------------------------------------------
(* From the registers of the FPGA to the GUI                               *)

\* Moving the first element of one sequence to the end of the one before it.
LEMMA MoveOne ==
  ASSUME NEW S, NEW a \in Seq(S), NEW b \in Seq(S), b # <<>>
  PROVE  Append(a, Head(b)) \o Tail(b) = a \o b
<1> DEFINE h == Head(b)
           t == Tail(b)
<1>1. h \in S /\ t \in Seq(S) /\ <<h>> \in Seq(S)
  BY HeadTailProperties
<1>2. Append(a, h) = a \o <<h>>
  BY <1>1, AppendIsConcat
<1>3. (a \o <<h>>) \o t = a \o (<<h>> \o t)
  BY <1>1, ConcatAssociative
<1>4. <<h>> \o t = b
  <2>1. /\ <<h>> \o t \in Seq(S)
        /\ Len(<<h>> \o t) = 1 + Len(t)
        /\ \A i \in 1 .. 1 + Len(t) : (<<h>> \o t)[i] = IF i <= 1 THEN h ELSE t[i - 1]
    BY <1>1, ConcatProperties
  <2>2. /\ Len(t) = Len(b) - 1 /\ Len(b) \in Nat /\ h = b[1]
        /\ \A i \in 1 .. Len(t) : t[i] = b[i + 1]
    BY HeadTailProperties, LenProperties
  <2> DEFINE s == <<h>> \o t
  <2> HIDE DEF h, t, s
  <2>3. Len(s) = Len(b)
    BY <2>1, <2>2 DEF s
  <2>4. ASSUME NEW i \in 1 .. Len(s) PROVE s[i] = b[i]
    <3>1. CASE i = 1
      BY <2>1, <2>2, <2>3, <3>1 DEF s
    <3>2. CASE i # 1
      <4>1. i - 1 \in 1 .. Len(t) /\ i \in 1 .. 1 + Len(t) /\ ~(i <= 1) /\ i - 1 + 1 = i
        BY <2>2, <2>3, <3>2
      <4>. QED
        BY <2>1, <2>2, <4>1 DEF s
    <3>. QED
      BY <3>1, <3>2
  <2>5. s \in Seq(S)
    BY <2>1 DEF s
  <2>6. s = b
    BY <2>3, <2>4, <2>5, SeqEqual
  <2>. QED
    BY <2>6 DEF s
<1>. QED
  BY <1>2, <1>3, <1>4

LEMMA GroupAt ==
  ASSUME NEW out, NEW i, GroupsBefore(out, i), out[i].kind = "finished",
         NEW k \in 1 .. out[i].cmd.test_size
  PROVE  i - k >= 1 /\ out[i - k].kind = "bulk"
BY DEF GroupsBefore

\* The queue holds no copy of the dictionary to which the next response is
\* assigned: either the next is bulk data too, or only bulk data is in the queue.
LEMMA AssignedElsewhere ==
  ASSUME TestsFillQueue, IInv, todo # <<>>, Len(queued) < CipoMax
  PROVE  LET q == Append(queued, Head(todo)) IN Assigned(q, Tail(todo)) = q
<1> DEFINE q == Append(queued, Head(todo))
           next == Tail(todo)
           B == Len(results) + Len(queued)
<1>0. Types
  BY DEF IInv
<1>1. /\ Head(todo) \in Messages /\ Head(todo) = todo[1] /\ next \in Seq(Messages)
      /\ Len(next) <= Len(todo) - 1 /\ Len(todo) - 1 <= Len(next)
      /\ \A i \in 1 .. Len(next) : next[i] = todo[i + 1]
  BY <1>0, HeadTailProperties DEF Types
<1>2. Len(todo) \in Nat /\ Len(queued) \in Nat /\ Len(results) \in Nat /\ Len(todo) >= 1
  BY <1>0, LenProperties, EmptySeq DEF Types
<1>3. /\ q \in Seq(Messages) /\ DOMAIN q = 1 .. Len(q)
      /\ Len(q) <= Len(queued) + 1 /\ Len(queued) + 1 <= Len(q)
      /\ \A i \in 1 .. Len(queued) : q[i] = queued[i]
      /\ q[Len(queued) + 1] = todo[1]
  BY <1>0, <1>1, AppendProperties, LenProperties DEF Types
<1> SUFFICES ASSUME next # <<>>, Head(next).kind # "bulk"
             PROVE  Assigned(q, next) = q
  BY DEF Assigned
<1>4. Head(next) = todo[2] /\ Len(todo) >= 2
  <2>1. Len(next) >= 1 /\ Head(next) = next[1]
    BY <1>1, HeadTailProperties, EmptySeq
  <2>2. Len(todo) >= 2 /\ 1 \in 1 .. Len(next)
    BY <1>1, <1>2, <2>1
  <2>3. next[1] = todo[1 + 1]
    BY <1>1, <2>2
  <2>. QED
    BY <2>1, <2>2, <2>3
<1>5. /\ Stream[B + 1] = todo[1] /\ Stream[B + 2] = todo[2]
      /\ B + 1 \in 1 .. Len(Stream) - 1 /\ B + 2 \in 1 .. Len(Stream)
      /\ \A i \in 1 .. Len(queued) : Stream[Len(results) + i] = queued[i]
  <2>1. 1 \in 1 .. Len(todo) /\ 2 \in 1 .. Len(todo)
    BY <1>2, <1>4
  <2>2. Len(Stream) = B + Len(todo)
    BY <1>0, StreamFacts
  <2>3. B + 1 \in 1 .. Len(Stream) - 1 /\ B + 2 \in 1 .. Len(Stream)
    BY <1>2, <1>4, <2>2
  <2>. QED
    BY <1>0, <2>1, <2>3, StreamFacts
<1>6. todo[1].job = job /\ todo[2].job = job
  BY <1>2, <1>4 DEF IInv, UpInv
<1>7. todo[2] \in Messages
  BY <1>0, <1>2, <1>4 DEF Types
<1>8. Follows(clicks, todo[2], todo[1]) /\ Fits(clicks, job, todo[2]) /\ GroupsBefore(Stream, B + 2)
  <2>1. StreamInv(clicks, job, Stream) /\ (B + 1) + 1 = B + 2
    BY <1>2 DEF IInv, UpInv
  <2> HIDE DEF B
  <2>2. Follows(clicks, Stream[B + 2], Stream[B + 1])
    BY <1>5, <2>1 DEF StreamInv
  <2>3. Fits(clicks, job, Stream[B + 2]) /\ GroupsBefore(Stream, B + 2)
    BY <1>5, <2>1 DEF StreamInv
  <2>. QED
    BY <1>5, <2>2, <2>3
<1>9. todo[2].kind = "finished"
  <2>1. ~Ends(todo[1])
    <3>1. Ends(todo[1]) => todo[2].job = job + 1
      BY <1>6, <1>8 DEF Follows, Opens
    <3>. QED
      BY <1>6, <3>1, JobFar
  <2>. QED
    BY <1>4, <1>8, <2>1 DEF Follows
<1>10. /\ todo[2].cmd.test_size \in Nat /\ CipoMax <= todo[2].cmd.test_size
  <2>1. todo[2].cmd \in Commands /\ Tests(todo[2].cmd)
    BY <1>7, <1>8, <1>9 DEF Fits, Messages
  <2>. QED
    BY <2>1, CommandFacts DEF Tests, TestsFillQueue
<1>11. \A i \in 1 .. Len(q) : q[i].kind = "bulk"
  <2> TAKE i \in 1 .. Len(q)
  <2> DEFINE k == Len(queued) + 2 - i
  <2>1. /\ k \in 1 .. todo[2].cmd.test_size /\ B + 2 - k = Len(results) + i
        /\ i \in 1 .. Len(queued) \/ i = Len(queued) + 1
    BY <1>2, <1>3, <1>10, CapacityAssumption
  <2>2. Stream[B + 2 - k].kind = "bulk"
    <3>1. /\ Stream[B + 2].kind = "finished" /\ k \in 1 .. Stream[B + 2].cmd.test_size
          /\ B \in Int /\ k \in Int
      BY <1>2, <1>5, <1>9, <2>1
    <3> DEFINE b == B + 2
    <3>2. GroupsBefore(Stream, b) /\ Stream[b].kind = "finished" /\ k \in 1 .. Stream[b].cmd.test_size
      BY <1>8, <3>1
    <3> HIDE DEF b
    <3>3. Stream[b - k].kind = "bulk"
      <4> HIDE DEF k, B, q, next
      <4>. QED
        BY <3>2, GroupAt
    <3>4. b - k = B + 2 - k
      BY <3>1 DEF b
    <3> HIDE DEF k, B, q, next
    <3>. QED
      BY <3>3, <3>4
  <2>3. Stream[Len(results) + i] = q[i]
    <3>1. CASE i \in 1 .. Len(queued)
      BY <1>3, <1>5, <3>1
    <3>2. CASE i = Len(queued) + 1
      <4>1. Len(results) + i = B + 1
        BY <1>2, <3>2
      <4>. QED
        BY <1>3, <1>5, <3>2, <4>1
    <3>. QED
      BY <2>1, <3>1, <3>2
  <2> HIDE DEF k, B, q
  <2>. QED
    BY <2>1, <2>2, <2>3
<1>12. [i \in DOMAIN q |-> IF q[i].job = Head(next).job /\ q[i].kind # "bulk" THEN Head(next) ELSE q[i]] = q
  <2> HIDE DEF q, next
  <2>1. q = [i \in DOMAIN q |-> q[i]]
    BY <1>3
  <2>. QED
    BY <1>3, <1>11, <2>1
<1>. QED
  BY <1>12 DEF Assigned

LEMMA MPutHolds ==
  ASSUME TestsFillQueue, IInv, MPut
  PROVE  IInv'
<1>0. /\ todo # <<>> /\ Len(queued) < CipoMax
      /\ queued' = Assigned(Append(queued, Head(todo)), Tail(todo)) /\ todo' = Tail(todo)
      /\ UNCHANGED <<received, requests, job, registers, results>>
      /\ UNCHANGED <<gui, dnLink, upLink>>
  BY DEF MPut
<1>1. queued' = Append(queued, Head(todo))
  BY <1>0, AssignedElsewhere
<1>2. /\ Head(todo) \in Messages /\ todo' \in Seq(Messages)
      /\ Len(todo') <= Len(todo) - 1 /\ \A i \in 1 .. Len(todo') : todo'[i] = todo[i + 1]
  BY <1>0, HeadTailProperties DEF IInv, Types
<1>3. queued' \in Seq(Messages) /\ Len(queued') <= Len(queued) + 1
  BY <1>1, <1>2, AppendProperties DEF IInv, Types
<1>4. Types'
  BY <1>0, <1>2, <1>3 DEF IInv, Types, gui
<1>5. UpInv'
  <2>1. Stream' = Stream
    <3>1. queued' \o todo' = queued \o todo
      BY <1>0, <1>1, MoveOne DEF IInv, Types
    <3>. QED
      BY <1>0, <3>1 DEF Stream
  <2>2. Len(queued') <= CipoMax
    <3>1. Len(queued) \in Nat /\ Len(queued') \in Nat
      BY <1>3, LenProperties DEF IInv, Types
    <3>. QED
      BY <1>0, <1>3, <3>1, CapacityAssumption
  <2>3. \A i \in 1 .. Len(todo') : todo'[i].job = job
    <3> TAKE i \in 1 .. Len(todo')
    <3>1. Len(todo) \in Nat /\ Len(todo') \in Nat
      BY <1>2, LenProperties DEF IInv, Types
    <3>2. i + 1 \in 1 .. Len(todo)
      BY <1>2, <3>1
    <3>. QED
      BY <1>2, <3>2 DEF IInv, UpInv
  <2>4. UNCHANGED <<clicks, job, results, uWritten, uReturned, uHeld, uGot>>
    BY <1>0 DEF gui, upLink
  <2>. QED
    BY <2>1, <2>2, <2>3, <2>4 DEF IInv, UpInv, LinkInv
<1>6. DownInv' /\ RegistersInv' /\ TakenInv' /\ AnswersInv'
  BY <1>0, SameDown, SameRegisters, SameTaken, SameAnswers DEF IInv, gui, upLink
<1>7. FlightInv' /\ ButtonsInv'
  BY <1>0, SameFlight, SameButtons DEF IInv, gui, dnLink
<1>. QED
  BY <1>4, <1>5, <1>6, <1>7 DEF IInv

LEMMA MWriteHolds ==
  ASSUME IInv, MWrite
  PROVE  IInv'
<1>0. /\ queued # <<>> /\ uReturned = uWritten /\ uWritten' = uWritten + 1
      /\ UNCHANGED <<uReturned, uHeld, uGot>>
      /\ results' = Append(results, Head(queued)) /\ queued' = Tail(queued)
      /\ UNCHANGED <<received, requests, job, todo, registers>>
      /\ UNCHANGED <<gui, dnLink>>
  BY DEF MWrite, Up!Write
<1>1. /\ Head(queued) \in Messages /\ queued' \in Seq(Messages)
      /\ Len(queued') <= Len(queued) - 1
  BY <1>0, HeadTailProperties DEF IInv, Types
<1>2. /\ results' \in Seq(Messages) /\ Len(results') = Len(results) + 1
      /\ \A i \in 1 .. Len(results) : results'[i] = results[i]
  BY <1>0, <1>1, AppendProperties DEF IInv, Types
<1>3. Types'
  BY <1>0, <1>1, <1>2 DEF IInv, Types, gui
<1>4. UpInv'
  <2>1. Stream' = Stream
    <3>1. /\ results \in Seq(Messages) /\ queued \in Seq(Messages) /\ todo \in Seq(Messages)
      BY DEF IInv, Types
    <3>2. results' \o queued' = results \o queued
      BY <1>0, <3>1, MoveOne
    <3>3. Stream = (results \o queued) \o todo
      BY <3>1, ConcatAssociative DEF Stream
    <3>4. Stream' = (results' \o queued') \o todo'
      BY SMTT(20), <1>0, <1>1, <1>2, <3>1, ConcatAssociative DEF Stream
    <3>. QED
      BY <1>0, <3>2, <3>3, <3>4
  <2>2. Len(queued') <= CipoMax
    <3>1. Len(queued) \in Nat /\ Len(queued') \in Nat /\ Len(queued) <= CipoMax
      BY <1>1, LenProperties DEF IInv, Types, UpInv
    <3>. QED
      BY <1>1, <3>1, CapacityAssumption
  <2>3. UNCHANGED <<clicks, job, todo>>
    BY <1>0 DEF gui
  <2>4. uWritten' = Len(results')
    BY <1>0, <1>2 DEF IInv, UpInv
  <2>5. LinkInv(uWritten, uReturned, uHeld, uGot)'
    BY <1>0 DEF IInv, UpInv, LinkInv
  <2>. QED
    BY <2>1, <2>2, <2>3, <2>4, <2>5 DEF IInv, UpInv
<1>5. UNCHANGED <<arrived, bulk, bulkDue, blocked, unhandled, answers, clicks>>
  BY <1>0 DEF gui
<1>6. Handled' = Handled /\ Handled \in 0 .. Len(results)
  BY <1>0, <1>5, HandledFar DEF Handled
<1>7. Handled > 0 => results'[Handled] = results[Handled]
  BY <1>2, <1>6
<1>8. Due(Handled)' = Due(Handled) /\ Over(Handled)' = Over(Handled) /\ BulkInv(Handled)' = BulkInv(Handled)
  <2>1. Due(Handled)' = Due(Handled)
    BY <1>6, <1>7 DEF Due
  <2>2. Over(Handled)' = Over(Handled)
    BY <1>6, <1>7, <2>1 DEF Over
  <2>3. BulkInv(Handled)' = BulkInv(Handled)
    BY <1>5, <1>6, <1>7 DEF BulkInv
  <2>. QED
    BY <2>1, <2>2, <2>3
<1>9. TakenInv'
  <2>1. \A i \in 1 .. Len(arrived) : arrived[i] = results'[Handled + i]
    <3> TAKE i \in 1 .. Len(arrived)
    <3>1. Handled + i \in 1 .. Len(results)
      BY HandledFar
    <3>. QED
      BY <1>2, <3>1 DEF IInv, TakenInv
  <2>. QED
    BY <1>0, <1>5, <1>6, <1>8, <2>1 DEF IInv, TakenInv
<1>10. AnswersInv'
  BY <1>5, <1>6, <1>8 DEF IInv, AnswersInv
<1>11. DownInv' /\ RegistersInv' /\ FlightInv' /\ ButtonsInv'
  BY <1>0, SameDown, SameRegisters, SameFlight, SameButtons DEF IInv, gui, dnLink
<1>. QED
  BY <1>3, <1>4, <1>9, <1>10, <1>11 DEF IInv

LEMMA MWrittenHolds ==
  ASSUME IInv, MWritten
  PROVE  IInv'
<1>0. /\ uReturned < uHeld /\ uReturned' = uReturned + 1
      /\ UNCHANGED <<uWritten, uHeld, uGot>> /\ UNCHANGED <<gui, mcu, dnLink>>
  BY DEF MWritten, Up!Return
<1>1. Types' /\ Stream' = Stream
  BY <1>0 DEF IInv, Types, gui, mcu, Stream
<1>2. LinkInv(uWritten, uReturned, uHeld, uGot)'
  BY <1>0 DEF IInv, UpInv, LinkInv
<1>3. UpInv'
  BY <1>0, <1>1, <1>2 DEF IInv, UpInv, gui, mcu
<1>4. DownInv' /\ RegistersInv' /\ TakenInv' /\ AnswersInv'
  BY <1>0, SameDown, SameRegisters, SameTaken, SameAnswers DEF IInv, gui, mcu
<1>5. FlightInv' /\ ButtonsInv'
  BY <1>0, SameFlight, SameButtons DEF IInv, gui, dnLink
<1>. QED
  BY <1>1, <1>3, <1>4, <1>5 DEF IInv

LEMMA UpHoldHolds ==
  ASSUME IInv, UpHold
  PROVE  IInv'
<1>0. /\ uHeld < uWritten /\ uHeld' = uHeld + 1
      /\ UNCHANGED <<uWritten, uReturned, uGot>> /\ UNCHANGED <<gui, mcu, dnLink>>
  BY DEF UpHold, Up!Hold
<1>1. Types' /\ Stream' = Stream
  BY <1>0 DEF IInv, Types, gui, mcu, Stream
<1>2. LinkInv(uWritten, uReturned, uHeld, uGot)'
  <2>1. Len(uGot) \in Nat
    BY LenProperties DEF IInv, UpInv, LinkInv
  <2>. QED
    BY <1>0, <2>1 DEF IInv, UpInv, LinkInv
<1>3. UpInv'
  BY <1>0, <1>1, <1>2 DEF IInv, UpInv, gui, mcu
<1>4. DownInv' /\ RegistersInv' /\ TakenInv' /\ AnswersInv'
  BY <1>0, SameDown, SameRegisters, SameTaken, SameAnswers DEF IInv, gui, mcu
<1>5. FlightInv' /\ ButtonsInv'
  BY <1>0, SameFlight, SameButtons DEF IInv, gui, dnLink
<1>. QED
  BY <1>1, <1>3, <1>4, <1>5 DEF IInv

LEMMA GReadHolds ==
  ASSUME IInv, GRead
  PROVE  IInv'
<1>0. /\ \E n \in 1 .. uHeld : Up!Read(n) /\ arrived' = Append(arrived, results[n])
      /\ UNCHANGED <<clicks, disabled, inFlight, blocked, unhandled, bulk, bulkDue, answers, shown>>
      /\ UNCHANGED <<mcu, dnLink>>
  BY DEF GRead
<1>1. PICK n \in 1 .. uHeld : Up!Read(n) /\ arrived' = Append(arrived, results[n])
  BY <1>0
<1>2. /\ n = Len(uGot) + 1 /\ Len(uGot') = n
      /\ LinkInv(uWritten, uReturned, uHeld, uGot)'
      /\ UNCHANGED <<uWritten, uReturned, uHeld>>
  BY <1>1, UpReads DEF IInv, UpInv
<1>3. n \in 1 .. Len(results) /\ results[n] \in Messages
  <2>1. n \in 1 .. Len(results)
    <3>1. uHeld \in Nat /\ uHeld <= Len(results)
      BY DEF IInv, UpInv, LinkInv
    <3>. QED
      BY <3>1
  <2>. QED
    BY <2>1, ResultFacts
<1>4. /\ arrived' \in Seq(Messages) /\ Len(arrived') = Len(arrived) + 1
      /\ \A i \in 1 .. Len(arrived) : arrived'[i] = arrived[i]
      /\ arrived'[Len(arrived) + 1] = results[n]
  BY <1>1, <1>3, AppendProperties DEF IInv, Types
<1>5. Types'
  BY <1>0, <1>4 DEF IInv, Types, mcu
<1>6. UpInv'
  <2>1. UNCHANGED <<clicks, job, queued, results, todo, Stream>>
    BY <1>0 DEF mcu, Stream
  <2>. QED
    BY <1>2, <2>1 DEF IInv, UpInv
<1>7. Handled' = Handled /\ Handled \in Nat /\ Len(arrived) \in Nat /\ n = Handled + (Len(arrived) + 1)
  <2>1. Len(uGot) \in Nat
    BY LenProperties DEF IInv, UpInv, LinkInv
  <2>. QED
    BY <1>2, <1>4, <2>1, HandledFar DEF Handled
<1>8. /\ Due(Handled)' = Due(Handled) /\ Over(Handled)' = Over(Handled)
      /\ BulkInv(Handled)' = BulkInv(Handled)
  BY <1>0, <1>7 DEF Due, Over, BulkInv, mcu
<1>9. TakenInv'
  <2>1. \A i \in 1 .. Len(arrived') : arrived'[i] = results[Handled + i]
    <3> TAKE i \in 1 .. Len(arrived')
    <3>1. i \in 1 .. Len(arrived) \/ i = Len(arrived) + 1
      BY <1>4, <1>7
    <3>2. \A j \in 1 .. Len(arrived) : arrived[j] = results[Handled + j]
      BY DEF IInv, TakenInv
    <3>. QED
      BY <1>4, <1>7, <3>1, <3>2
  <2>2. Len(arrived') <= Len(uGot')
    BY <1>2, <1>4, <1>7
  <2>3. UNCHANGED <<bulkDue, results>>
    BY <1>0 DEF mcu
  <2>. QED
    BY <1>7, <1>8, <2>1, <2>2, <2>3 DEF IInv, TakenInv
<1>10. AnswersInv'
  BY <1>0, <1>7, <1>8 DEF IInv, AnswersInv
<1>11. DownInv' /\ RegistersInv' /\ FlightInv' /\ ButtonsInv'
  BY <1>0, SameDown, SameRegisters, SameFlight, SameButtons DEF IInv, mcu, dnLink
<1>. QED
  BY <1>5, <1>6, <1>9, <1>10, <1>11 DEF IInv

-----------------------------------------------------------------------------
(* The loop of response_handler, turn by turn                              *)

\* A request that is not answered goes to the end of unresponded_queue, ...
LEMMA Rotated ==
  ASSUME NEW s \in Seq(Nat), s # <<>>, Distinct(s)
  PROVE  LET r == Append(Tail(s), Head(s)) IN
         /\ r \in Seq(Nat) /\ Len(r) = Len(s) /\ Distinct(r) /\ Elements(r) = Elements(s)
         /\ \A i \in 1 .. Len(s) : r[i] = IF i = Len(s) THEN s[1] ELSE s[i + 1]
<1> DEFINE r == Append(Tail(s), Head(s))
           n == Len(s)
<1>1. /\ Head(s) \in Nat /\ Head(s) = s[1] /\ Tail(s) \in Seq(Nat) /\ Len(Tail(s)) = n - 1
      /\ \A i \in 1 .. Len(Tail(s)) : Tail(s)[i] = s[i + 1]
  BY HeadTailProperties
<1>2. n \in Nat /\ n >= 1
  BY LenProperties, EmptySeq
<1>3. /\ r \in Seq(Nat) /\ Len(r) = Len(Tail(s)) + 1
      /\ \A i \in 1 .. Len(Tail(s)) : r[i] = Tail(s)[i]
      /\ r[Len(Tail(s)) + 1] = Head(s)
  BY <1>1, AppendProperties
<1> HIDE DEF r, n
<1>4. Len(r) = n
  BY <1>1, <1>2, <1>3
<1>5. ASSUME NEW i \in 1 .. n PROVE r[i] = IF i = n THEN s[1] ELSE s[i + 1]
  <2>1. CASE i = n
    BY <1>1, <1>2, <1>3, <2>1
  <2>2. CASE i # n
    <3>1. i \in 1 .. Len(Tail(s))
      BY <1>1, <1>2, <2>2
    <3>. QED
      BY <1>1, <1>3, <2>2, <3>1
  <2>. QED
    BY <2>1, <2>2
<1>6. Distinct(r)
  <2> SUFFICES ASSUME NEW i \in 1 .. n, NEW j \in 1 .. n, r[i] = r[j] PROVE i = j
    BY <1>4 DEF Distinct
  <2> DEFINE P(x) == IF x = n THEN 1 ELSE x + 1
  <2>1. P(i) \in 1 .. n /\ P(j) \in 1 .. n
    BY <1>2
  <2>2. r[i] = s[P(i)] /\ r[j] = s[P(j)]
    BY <1>5
  <2>3. P(i) = P(j)
    <3> HIDE DEF P
    <3>. QED
      BY <2>1, <2>2 DEF Distinct, n
  <2>. QED
    BY <1>2, <2>3
<1>7. Elements(r) = Elements(s)
  <2>1. ASSUME NEW i \in 1 .. n PROVE \E j \in 1 .. n : r[i] = s[j]
    <3>1. 1 \in 1 .. n /\ (i # n => i + 1 \in 1 .. n)
      BY <1>2
    <3>. QED
      BY <1>5, <3>1
  <2>2. ASSUME NEW i \in 1 .. n PROVE \E j \in 1 .. n : r[j] = s[i]
    <3>1. CASE i = 1
      <4>1. n \in 1 .. n
        BY <1>2
      <4>. QED
        BY <1>5, <3>1, <4>1
    <3>2. CASE i # 1
      <4>1. i - 1 \in 1 .. n /\ i - 1 # n /\ i - 1 + 1 = i
        BY <1>2, <3>2
      <4>. QED
        BY <1>5, <4>1
    <3>. QED
      BY <3>1, <3>2
  <2>3. Elements(r) = {r[i] : i \in 1 .. n} /\ Elements(s) = {s[i] : i \in 1 .. n}
    BY <1>4 DEF Elements, n
  <2>. QED
    BY <2>1, <2>2, <2>3
<1>. QED
  BY <1>3, <1>4, <1>5, <1>6, <1>7 DEF r, n

\* ... one that is answered is taken from it.
LEMMA Removed ==
  ASSUME NEW s \in Seq(Nat), s # <<>>, Distinct(s)
  PROVE  /\ Tail(s) \in Seq(Nat) /\ Len(Tail(s)) = Len(s) - 1 /\ Distinct(Tail(s))
         /\ Head(s) \in Elements(s) /\ Elements(Tail(s)) = Elements(s) \ {Head(s)}
<1> DEFINE r == Tail(s)
           n == Len(s)
<1>1. /\ Head(s) \in Nat /\ Head(s) = s[1] /\ r \in Seq(Nat) /\ Len(r) = n - 1
      /\ \A i \in 1 .. Len(r) : r[i] = s[i + 1]
  BY HeadTailProperties
<1>2. n \in Nat /\ n >= 1
  BY LenProperties, EmptySeq
<1> HIDE DEF r, n
<1>3. \A i \in 1 .. n - 1 : r[i] = s[i + 1] /\ i + 1 \in 1 .. n
  BY <1>1, <1>2
<1>4. \A i, j \in 1 .. n : s[i] = s[j] => i = j
  BY DEF Distinct, n
<1>5. Distinct(r)
  <2> SUFFICES ASSUME NEW i \in 1 .. n - 1, NEW j \in 1 .. n - 1, r[i] = r[j] PROVE i = j
    BY <1>1 DEF Distinct
  <2>1. i + 1 = j + 1
    BY <1>3, <1>4
  <2>. QED
    BY <1>2, <2>1
<1>6. Elements(r) = {r[i] : i \in 1 .. n - 1} /\ Elements(s) = {s[i] : i \in 1 .. n}
  BY <1>1 DEF Elements, n
<1>7. 1 \in 1 .. n
  BY <1>2
<1>8. ASSUME NEW i \in 1 .. n - 1 PROVE r[i] \in Elements(s) /\ r[i] # s[1]
  <2>1. i + 1 # 1
    BY <1>2
  <2>. QED
    BY <1>3, <1>4, <1>6, <1>7, <2>1
<1>9. ASSUME NEW i \in 1 .. n, s[i] # s[1] PROVE s[i] \in Elements(r)
  <2>1. i - 1 \in 1 .. n - 1 /\ i - 1 + 1 = i
    BY <1>2, <1>9
  <2>. QED
    BY <1>3, <1>6, <2>1
<1>. QED
  BY <1>1, <1>5, <1>6, <1>7, <1>8, <1>9 DEF r, n

\* The state of the loop: what is left of unresponded_queue, of the responses,
\* and the answers.
At(fl, un, an) == [inFlight |-> fl, unhandled |-> un, answers |-> an]

\* Whether request k is the one that the only response at hand answers.
Hit(un, k) == un # <<>> /\ clicks[k] = un[1].cmd

\* A turn of the loop, with one response at hand at most.
LEMMA Turn ==
  ASSUME NEW fl \in Seq(Nat), NEW un \in Seq(Handed), un = <<>> \/ un = <<un[1]>>, NEW an,
         NEW turn \in Nat \ {0}
  PROVE  /\ turn - 1 > Len(fl) => Inspect(At(fl, un, an), turn) = At(fl, un, an)
         /\ turn - 1 <= Len(fl) /\ ~Hit(un, Head(fl)) =>
              Inspect(At(fl, un, an), turn) = At(Append(Tail(fl), Head(fl)), un, an)
         /\ turn - 1 <= Len(fl) /\ Hit(un, Head(fl)) =>
              Inspect(At(fl, un, an), turn) =
                At(Tail(fl), <<>>, Append(an, [click |-> Head(fl), msg |-> un[1]]))
<1> DEFINE s == At(fl, un, an)
           k == Head(fl)
           hits == {i \in DOMAIN un : IsAnswer(k, un[i])}
           go == ~(turn - 1 > Len(fl))
<1>0. s.inFlight = fl /\ s.unhandled = un /\ s.answers = an
  BY DEF At
<1>1. Len(fl) \in Nat
  BY LenProperties
<1>2. go <=> turn - 1 <= Len(fl)
  BY <1>1
<1>3. Inspect(s, turn) =
        IF turn - 1 > Len(fl) THEN s
        ELSE IF hits = {} THEN [s EXCEPT !.inFlight = Append(Tail(fl), k)]
             ELSE [inFlight  |-> Tail(fl),
                   unhandled |-> SubSeq(un, 1, Min(hits) - 1),
                   answers   |-> Append(an, [click |-> k, msg |-> un[Min(hits)]])]
  BY <1>0 DEF Inspect
<1>4. [s EXCEPT !.inFlight = Append(Tail(fl), k)] = At(Append(Tail(fl), k), un, an)
  <2> DEFINE x == Append(Tail(fl), k)
  <2> HIDE DEF x
  <2>1. [s EXCEPT !.inFlight = x] = [inFlight |-> x, unhandled |-> un, answers |-> an]
    BY DEF At
  <2>. QED
    BY <2>1 DEF At, x
<1>5. ~Hit(un, k) => hits = {}
  <2>1. un = <<>> => DOMAIN un = {}
    OBVIOUS
  <2>2. un = <<un[1]>> => DOMAIN un = {1}
    OBVIOUS
  <2>. QED
    BY <2>1, <2>2 DEF Hit, IsAnswer
<1>6. Hit(un, k) => hits = {1}
  <2>2. un = <<un[1]>> => DOMAIN un = {1}
    OBVIOUS
  <2>. QED
    BY <2>2 DEF Hit, IsAnswer
<1>7. Min({1}) = 1
  BY DEF Min
<1>8. SubSeq(un, 1, 0) = <<>>
  BY SubSeqEmpty
<1> HIDE DEF hits, k, s
<1>9. Hit(un, k) => SubSeq(un, 1, Min(hits) - 1) = <<>> /\ un[Min(hits)] = un[1]
  <2>1. 1 - 1 = 0
    OBVIOUS
  <2>2. Hit(un, k) => Min(hits) = 1
    BY <1>6, <1>7
  <2>. QED
    BY <1>8, <2>1, <2>2, Zenon
<1>10. go /\ ~Hit(un, k) => Inspect(s, turn) = At(Append(Tail(fl), k), un, an)
  BY <1>3, <1>4, <1>5
<1>11. go /\ Hit(un, k) => Inspect(s, turn) = At(Tail(fl), <<>>, Append(an, [click |-> k, msg |-> un[1]]))
  <2>1. Hit(un, k) => hits # {}
    BY <1>6
  <2>. QED
    BY <1>3, <1>9, <2>1 DEF At
<1>. QED
  BY <1>2, <1>3, <1>10, <1>11 DEF s, k

\* The loop either finds no request for the response and leaves the requests as
\* they were but for their order, or hands the response to one that it answers.
LEMMA Loop ==
  ASSUME NEW fl \in Seq(Nat), fl # <<>>, Distinct(fl),
         NEW un \in Seq(Handed), un = <<>> \/ un = <<un[1]>>, NEW an
  PROVE  LET end == AfterTurns(At(fl, un, an), Len(fl) + 1) IN
         \/ /\ \A k \in Elements(fl) : ~Hit(un, k)
            /\ \E a \in Seq(Nat) :
                 end = At(a, un, an) /\ Distinct(a) /\ Elements(a) = Elements(fl)
         \/ \E k \in Elements(fl), a \in Seq(Nat) :
              /\ Hit(un, k) /\ end = At(a, <<>>, Append(an, [click |-> k, msg |-> un[1]]))
              /\ Distinct(a) /\ Elements(a) = Elements(fl) \ {k}
<1> DEFINE L == Len(fl)
           E == Elements(fl)
           After(k) == Append(an, [click |-> k, msg |-> un[1]])
           Unfound(t, a) ==
             /\ Distinct(a) /\ Elements(a) = E /\ Len(a) = L
             /\ \A i \in 1 .. L : (i <= t => ~Hit(un, fl[i])) /\ (t + i <= L => a[i] = fl[t + i])
           Found(k, a) == Hit(un, k) /\ Distinct(a) /\ Elements(a) = E \ {k} /\ Len(a) = L - 1
<1>0. L \in Nat /\ L >= 1
  BY LenProperties, EmptySeq
<1>1. PICK f : /\ f[0] = At(fl, un, an) /\ AfterTurns(At(fl, un, an), L + 1) = f[L + 1]
               /\ \A turn \in 1 .. L + 1 : f[turn] = Inspect(f[turn - 1], turn)
  <2>1. L + 1 \in Nat
    BY <1>0
  <2> HIDE DEF L
  <2>. QED
    BY <2>1, Turns
<1> DEFINE Good(t) == \/ \E a \in Seq(Nat) : f[t] = At(a, un, an) /\ Unfound(t, a)
                      \/ t >= 1 /\ \E k \in E, a \in Seq(Nat) : f[t] = At(a, <<>>, After(k)) /\ Found(k, a)
           S == {t \in Nat : t <= L + 1 => Good(t)}
<1>2. 0 \in S
  <2>1. Unfound(0, fl)
    <3>1. \A i \in 1 .. L : ~(i <= 0) /\ 0 + i = i
      OBVIOUS
    <3>. QED
      BY <3>1
  <2> HIDE DEF Unfound, Found
  <2>. QED
    BY <1>1, <2>1
<1> HIDE DEF L, E, After, Good, S
<1>3. ASSUME NEW t \in Nat, t <= L, Good(t) PROVE Good(t + 1)
  <2> DEFINE u == t + 1
  <2>0. f[u] = Inspect(f[t], u) /\ u \in Nat \ {0} /\ u - 1 = t /\ u >= 1
    <3>1. u \in 1 .. L + 1 /\ u - 1 = t
      BY <1>0, <1>3
    <3>. QED
      BY <1>1, <3>1
  <2>1. ASSUME NEW a \in Seq(Nat), f[t] = At(a, un, an), Unfound(t, a) PROVE Good(u)
    <3>0. a # <<>> /\ t <= Len(a) /\ Head(a) = a[1]
      <4>1. a = <<>> => Len(a) <= 0
        OBVIOUS
      <4>. QED
        BY <1>0, <1>3, <2>1, <4>1, HeadTailProperties
    <3> DEFINE r == Append(Tail(a), Head(a))
    <3>1. CASE ~Hit(un, Head(a))
      <4>1. f[u] = At(r, un, an)
        <5> HIDE DEF r, u, Unfound
        <5>1. Inspect(At(a, un, an), u) = At(r, un, an)
          BY <2>0, <3>0, <3>1, Turn DEF r
        <5>. QED
          BY <2>0, <2>1, <5>1
      <4>2. /\ r \in Seq(Nat) /\ Distinct(r) /\ Elements(r) = E /\ Len(r) = L
            /\ \A i \in 1 .. L : r[i] = IF i = L THEN a[1] ELSE a[i + 1]
        <5>1. Distinct(a) /\ Elements(a) = E /\ Len(a) = L
          BY <2>1
        <5> HIDE DEF Unfound
        <5>. QED
          BY <3>0, <5>1, Rotated
      <4> HIDE DEF r
      <4>3. ASSUME NEW i \in 1 .. L, i <= t + 1 PROVE ~Hit(un, fl[i])
        <5>1. CASE i <= t
          BY <2>1, <5>1
        <5>2. CASE i = t + 1
          <6>1. 1 \in 1 .. L /\ t + 1 <= L
            BY <1>0, <5>2
          <6>2. a[1] = fl[t + 1]
            BY <2>1, <6>1
          <6>. QED
            BY <3>0, <3>1, <5>2, <6>2
        <5>3. i <= t \/ i = t + 1
          BY <1>0, <4>3, SMTT(30)
        <5>. QED
          BY <5>1, <5>2, <5>3
      <4>4. ASSUME NEW i \in 1 .. L, t + 1 + i <= L PROVE r[i] = fl[t + 1 + i]
        <5>1. i # L /\ i + 1 \in 1 .. L /\ t + (i + 1) <= L /\ t + (i + 1) = t + 1 + i
          BY <1>0, <4>4
        <5>2. a[i + 1] = fl[t + (i + 1)]
          BY <2>1, <5>1
        <5>. QED
          BY <4>2, <5>1, <5>2
      <4>5. Unfound(u, r)
        BY <4>2, <4>3, <4>4
      <4> HIDE DEF Unfound, Found, u
      <4>. QED
        BY <4>1, <4>2, <4>5 DEF Good
    <3>2. CASE Hit(un, Head(a))
      <4>1. f[u] = At(Tail(a), <<>>, After(Head(a)))
        <5> HIDE DEF u, Unfound
        <5>1. Inspect(At(a, un, an), u) = At(Tail(a), <<>>, After(Head(a)))
          BY <2>0, <3>0, <3>2, Turn DEF After
        <5>. QED
          BY <2>0, <2>1, <5>1
      <4>2. /\ Tail(a) \in Seq(Nat) /\ Len(Tail(a)) = L - 1 /\ Distinct(Tail(a))
            /\ Head(a) \in E /\ Elements(Tail(a)) = E \ {Head(a)}
        <5>1. Distinct(a) /\ Elements(a) = E /\ Len(a) = L
          BY <2>1
        <5> HIDE DEF Unfound
        <5>. QED
          BY <3>0, <5>1, Removed
      <4>3. Found(Head(a), Tail(a))
        BY <3>2, <4>2
      <4> HIDE DEF Unfound, Found, u
      <4>. QED
        BY <2>0, <4>1, <4>2, <4>3 DEF Good
    <3>. QED
      BY <3>1, <3>2
  <2>2. ASSUME t >= 1, NEW k \in E, NEW a \in Seq(Nat), f[t] = At(a, <<>>, After(k)), Found(k, a)
        PROVE  Good(u)
    <3> DEFINE r == Append(Tail(a), Head(a))
    <3>0. <<>> \in Seq(Handed) /\ ~Hit(<<>>, Head(a))
      BY EmptySeq DEF Hit
    <3>1. CASE t > Len(a)
      <4>1. f[u] = f[t]
        <5> HIDE DEF u, Found
        <5>1. Inspect(At(a, <<>>, After(k)), u) = At(a, <<>>, After(k))
          BY <2>0, <3>0, <3>1, Turn
        <5>. QED
          BY <2>0, <2>2, <5>1
      <4> HIDE DEF Found, Unfound, u
      <4>. QED
        BY <2>0, <2>2, <4>1 DEF Good
    <3>2. CASE ~(t > Len(a))
      <4>1. t <= Len(a) /\ a # <<>>
        <5>1. Len(a) \in Nat
          BY LenProperties
        <5>2. a = <<>> => Len(a) <= 0
          OBVIOUS
        <5>. QED
          BY <2>2, <3>2, <5>1, <5>2
      <4>2. f[u] = At(r, <<>>, After(k))
        <5> HIDE DEF u, Found, r
        <5>1. Inspect(At(a, <<>>, After(k)), u) = At(r, <<>>, After(k))
          BY <2>0, <3>0, <4>1, Turn DEF r
        <5>. QED
          BY <2>0, <2>2, <5>1
      <4>3. r \in Seq(Nat) /\ Distinct(r) /\ Elements(r) = Elements(a) /\ Len(r) = Len(a)
        BY <2>2, <4>1, Rotated
      <4>4. Found(k, r)
        <5> HIDE DEF r
        <5>. QED
          BY <2>2, <4>3
      <4> HIDE DEF Found, Unfound, r, u
      <4>. QED
        BY <2>0, <4>2, <4>3, <4>4 DEF Good
    <3>. QED
      BY <3>1, <3>2
  <2> HIDE DEF Unfound, Found, u
  <2>3. Good(u)
    BY <1>3, <2>1, <2>2 DEF Good
  <2>. QED
    BY <2>3 DEF u
<1>4. Good(L + 1)
  <2> HIDE DEF Unfound, Found
  <2>1. ASSUME NEW t \in Nat, t \in S PROVE t + 1 \in S
    <3>1. CASE t <= L
      <4>1. Good(t)
        BY <1>0, <2>1, <3>1 DEF S
      <4>. QED
        BY <1>3, <3>1, <4>1 DEF S
    <3>2. CASE ~(t <= L)
      BY <1>0, <3>2 DEF S
    <3>. QED
      BY <3>1, <3>2
  <2>2. L + 1 \in S
    BY <1>0, <1>2, <2>1, Induction
  <2>. QED
    BY <1>0, <2>2 DEF S
<1>5. ASSUME NEW a, Unfound(L + 1, a) PROVE \A k \in E : ~Hit(un, k)
  <2>1. \A i \in 1 .. L : i <= L + 1
    BY <1>0
  <2>. QED
    BY <1>5, <2>1 DEF Elements, E, L
<1> DEFINE end == AfterTurns(At(fl, un, an), L + 1)
<1>6. CASE \E a \in Seq(Nat) : f[L + 1] = At(a, un, an) /\ Unfound(L + 1, a)
  <2>1. PICK a \in Seq(Nat) : f[L + 1] = At(a, un, an) /\ Unfound(L + 1, a)
    BY <1>6
  <2>2. Distinct(a) /\ Elements(a) = E /\ \A k \in E : ~Hit(un, k)
    BY <1>5, <2>1
  <2>3. end = At(a, un, an)
    BY <1>1, <2>1
  <2> HIDE DEF end
  <2>. QED
    BY <2>2, <2>3 DEF E, L, end
<1>7. CASE \E k \in E, a \in Seq(Nat) : f[L + 1] = At(a, <<>>, After(k)) /\ Found(k, a)
  <2>1. PICK k \in E, a \in Seq(Nat) : f[L + 1] = At(a, <<>>, After(k)) /\ Found(k, a)
    BY <1>7
  <2>2. Hit(un, k) /\ Distinct(a) /\ Elements(a) = E \ {k}
    BY <2>1
  <2>3. end = At(a, <<>>, After(k))
    BY <1>1, <2>1
  <2> HIDE DEF end
  <2>. QED
    BY <2>2, <2>3 DEF E, L, end, After
<1> HIDE DEF Unfound, Found
<1>. QED
  BY <1>4, <1>6, <1>7 DEF Good

-----------------------------------------------------------------------------
(* The requests in flight                                                  *)

\* Another request is recorded.
LEMMA StandsMore ==
  ASSUME NEW cs, NEW E, NEW W, NEW q \in [E -> W], Stands(cs, q, E, W), NEW n, n \notin E, n \notin W
  PROVE  \E p \in [E \cup {n} -> W \cup {n}] : Stands(cs, p, E \cup {n}, W \cup {n})
<1> DEFINE p == [k \in E \cup {n} |-> IF k = n THEN n ELSE q[k]]
<1>1. p \in [E \cup {n} -> W \cup {n}] /\ p[n] = n
  OBVIOUS
<1>2. \A k \in E : p[k] = q[k] /\ q[k] \in W /\ k # n /\ q[k] # n
  OBVIOUS
<1> HIDE DEF p
<1>3. \A k \in E \cup {n} : cs[p[k]] = cs[k]
  BY <1>1, <1>2 DEF Stands
<1>4. \A k, l \in E \cup {n} : p[k] = p[l] => k = l
  BY <1>1, <1>2 DEF Stands
<1>5. \A j \in W \cup {n} : \E k \in E \cup {n} : p[k] = j
  BY <1>1, <1>2 DEF Stands
<1>. QED
  BY <1>1, <1>3, <1>4, <1>5 DEF Stands

\* One is taken, and another that is the same command is answered: what stood
\* for the second now stands for the first.
LEMMA StandsLess ==
  ASSUME NEW cs, NEW E, NEW W, NEW q \in [E -> W], Stands(cs, q, E, W),
         NEW k \in E, NEW j \in W, cs[k] = cs[j]
  PROVE  \E p \in [E \ {k} -> W \ {j}] : Stands(cs, p, E \ {k}, W \ {j})
<1> DEFINE p == [x \in E \ {k} |-> IF q[x] = j THEN q[k] ELSE q[x]]
<1>1. \A x \in E \ {k} : q[x] # q[k] /\ q[x] \in W /\ q[k] \in W
  BY DEF Stands
<1>2. \A x \in E \ {k} : p[x] = IF q[x] = j THEN q[k] ELSE q[x]
  OBVIOUS
<1>3. p \in [E \ {k} -> W \ {j}]
  BY <1>1
<1> HIDE DEF p
<1>4. \A x \in E \ {k} : cs[p[x]] = cs[x]
  BY <1>2 DEF Stands
<1>5. \A x, y \in E \ {k} : p[x] = p[y] => x = y
  BY <1>1, <1>2 DEF Stands
<1>6. \A w \in W \ {j} : \E x \in E \ {k} : p[x] = w
  <2> TAKE w \in W \ {j}
  <2>1. PICK x \in E : q[x] = w
    BY DEF Stands
  <2>2. CASE x # k
    BY <1>2, <2>1, <2>2
  <2>3. CASE x = k
    <3>1. PICK y \in E : q[y] = j
      BY DEF Stands
    <3>2. y \in E \ {k}
      BY <2>1, <2>3, <3>1
    <3>. QED
      BY <1>2, <2>1, <2>3, <3>1, <3>2
  <2>. QED
    BY <2>2, <2>3
<1>. QED
  BY <1>3, <1>4, <1>5, <1>6 DEF Stands

LEMMA GRecordHolds ==
  ASSUME IInv, GRecord
  PROVE  IInv'
<1> DEFINE n == dReturned + 1
           E == Elements(inFlight)
           W == Len(answers) + 1 .. dReturned
<1>0. /\ dReturned < dHeld /\ dReturned' = n /\ inFlight' = Append(inFlight, dWritten)
      /\ UNCHANGED <<dWritten, dHeld, dGot>>
      /\ UNCHANGED <<clicks, disabled, arrived, blocked, unhandled, bulk, bulkDue, answers, shown>>
      /\ UNCHANGED <<mcu, upLink>>
  BY DEF GRecord, Dn!Return
<1>1. n = dWritten /\ n \in Nat /\ n <= dHeld /\ n <= Len(clicks)
  BY <1>0, ReturnFar DEF IInv, DownInv, LinkInv
<1>2. /\ inFlight \in Seq(Nat) /\ inFlight' \in Seq(Nat) /\ Len(inFlight') = Len(inFlight) + 1
      /\ \A i \in 1 .. Len(inFlight) : inFlight'[i] = inFlight[i]
      /\ inFlight'[Len(inFlight) + 1] = n
  <2>1. inFlight \in Seq(Nat) /\ inFlight' = Append(inFlight, n)
    BY <1>0, <1>1 DEF IInv, Types
  <2> HIDE DEF n
  <2>. QED
    BY <1>1, <2>1, AppendProperties
<1>3. Len(inFlight) \in Nat /\ Distinct(inFlight) /\ E \subseteq 1 .. dReturned
  BY <1>2, LenProperties DEF IInv, FlightInv
<1>4. Types'
  BY <1>0, <1>2 DEF IInv, Types, mcu
<1>5. DownInv'
  BY <1>0, <1>1, ReturnFar DEF IInv, DownInv, LinkInv, mcu
<1>6. UpInv' /\ RegistersInv' /\ TakenInv' /\ AnswersInv' /\ ButtonsInv'
  BY <1>0, SameUp, SameRegisters, SameTaken, SameAnswers, SameButtons DEF IInv, mcu, upLink
<1>7. Len(answers) \in Nat /\ Len(answers) <= dReturned
  BY AnswersFar DEF IInv, FlightInv
<1>8. dReturned \in Nat
  BY ReturnFar
<1>9. \A i \in 1 .. Len(inFlight') : i \in 1 .. Len(inFlight) \/ i = Len(inFlight) + 1
  BY <1>2, <1>3
<1>10. n \notin E /\ n \notin W
  BY <1>3, <1>8
<1>11. \A i \in 1 .. Len(inFlight) : inFlight[i] # n
  BY <1>10 DEF Elements
<1> DEFINE L == Len(inFlight)
<1>12. Distinct(inFlight')
  <2>1. \A i, j \in 1 .. L : inFlight[i] = inFlight[j] => i = j
    BY <1>3 DEF Distinct
  <2> HIDE DEF n, L
  <2>. QED
    BY <1>2, <1>9, <1>11, <2>1 DEF Distinct, L
<1>13. Elements(inFlight') = E \cup {n}
  <2>1. L \in Nat /\ Len(inFlight') = L + 1
    BY <1>2, <1>3
  <2>2. \A i \in 1 .. L : i \in 1 .. L + 1
    BY <2>1
  <2>3. L + 1 \in 1 .. L + 1
    BY <2>1
  <2>4. \A i \in 1 .. L : inFlight'[i] = inFlight[i]
    BY <1>2
  <2>5. inFlight'[L + 1] = n
    BY <1>2
  <2>6. \A i \in 1 .. L + 1 : i \in 1 .. L \/ i = L + 1
    BY <2>1
  <2> HIDE DEF n, L
  <2>7. Elements(inFlight') = {inFlight'[i] : i \in 1 .. L + 1}
    BY <2>1 DEF Elements
  <2>8. E = {inFlight[i] : i \in 1 .. L}
    BY DEF Elements, L
  <2> HIDE DEF E
  <2>. QED
    BY <2>2, <2>3, <2>4, <2>5, <2>6, <2>7, <2>8
<1>14. W \cup {n} = Len(answers) + 1 .. n /\ Len(answers) <= n
  BY <1>7, <1>8
<1>15. E \cup {n} \subseteq 1 .. n
  BY <1>3, <1>8
<1>16. \E p \in [E \cup {n} -> W \cup {n}] : Stands(clicks, p, E \cup {n}, W \cup {n})
  <2>1. PICK q \in [E -> W] : Stands(clicks, q, E, W)
    BY DEF IInv, FlightInv
  <2> HIDE DEF E, W, n
  <2>. QED
    BY <1>10, <2>1, StandsMore
<1>17. \A k \in E \cup {n} : OfRegister(clicks[k]) => k > Len(answers)
  BY <1>7, <1>8 DEF IInv, FlightInv
<1>18. \A i \in 1 .. Len(answers) :
         LET k == answers[i].click IN
         k \in 1 .. n /\ clicks[k] = clicks[i] /\ (OfRegister(clicks[i]) => k = i)
  <2> TAKE i \in 1 .. Len(answers)
  <2>1. answers[i].click \in 1 .. dReturned
    BY DEF IInv, FlightInv
  <2>2. answers[i].click \in 1 .. n
    BY <1>8, <2>1
  <2>. QED
    BY <2>2 DEF IInv, FlightInv
<1>19. FlightInv'
  <2>1. UNCHANGED <<clicks, answers>> /\ dReturned' = n
    BY <1>0
  <2> HIDE DEF E, W, n
  <2>. QED
    BY <1>12, <1>13, <1>14, <1>15, <1>16, <1>17, <1>18, <2>1 DEF FlightInv
<1>. QED
  BY <1>4, <1>5, <1>6, <1>19 DEF IInv

LEMMA ShowHolds ==
  ASSUME IInv, Show
  PROVE  IInv'
<1> DEFINE s == shown + 1
           D(j) == Disables(clicks[j])
<1>0. /\ shown < Len(answers) /\ shown' = s
      /\ disabled' = disabled \ Disables(clicks[answers[s].click])
      /\ UNCHANGED <<clicks, inFlight, arrived, blocked, unhandled, bulk, bulkDue, answers>>
      /\ UNCHANGED <<mcu, dnLink, upLink>>
  BY DEF Show
<1>1. shown \in Nat /\ s \in 1 .. Len(answers) /\ Len(answers) \in Nat
  BY <1>0, ShownFar
<1>2. Len(clicks) \in Nat /\ Len(answers) <= Len(clicks)
  BY JobFar, OverFacts
<1>3. disabled' = disabled \ D(s)
  <2>1. clicks[answers[s].click] = clicks[s]
    BY <1>1 DEF IInv, FlightInv
  <2>. QED
    BY <1>0, <2>1
<1>4. Types'
  BY <1>0, <1>1 DEF IInv, Types, mcu
<1>5. DownInv' /\ UpInv' /\ RegistersInv' /\ TakenInv' /\ AnswersInv' /\ FlightInv'
  BY <1>0, SameDown, SameUp, SameRegisters, SameTaken, SameAnswers, SameFlight
  DEF IInv, mcu, dnLink, upLink
<1>6. ButtonsInv'
  <2>1. \A j \in s + 1 .. Len(clicks) : j \in shown + 1 .. Len(clicks) /\ j # s
    BY <1>1
  <2>2. s \in shown + 1 .. Len(clicks)
    BY <1>1, <1>2
  <2>3. /\ \A j \in shown + 1 .. Len(clicks) : D(j) \subseteq disabled
        /\ \A j, k \in shown + 1 .. Len(clicks) : D(j) \cap D(k) # {} => j = k
    BY DEF IInv, ButtonsInv
  <2> HIDE DEF D
  <2>4. \A j \in s + 1 .. Len(clicks) : D(j) \subseteq disabled \ D(s)
    <3> TAKE j \in s + 1 .. Len(clicks)
    <3>1. D(j) \cap D(s) = {}
      BY <2>1, <2>2, <2>3
    <3>. QED
      BY <2>1, <2>3, <3>1
  <2>5. \A j, k \in s + 1 .. Len(clicks) : D(j) \cap D(k) # {} => j = k
    BY <2>1, <2>3
  <2>6. s <= Len(answers)
    BY <1>1
  <2> HIDE DEF s
  <2>. QED
    BY <1>0, <1>3, <2>4, <2>5, <2>6 DEF ButtonsInv, D
<1>. QED
  BY <1>4, <1>5, <1>6 DEF IInv

-----------------------------------------------------------------------------
(* The next result that response_handler takes                             *)

LEMMA Takes ==
  ASSUME IInv, arrived # <<>>
  PROVE  /\ Handled + 1 \in 1 .. Len(results) /\ Handled \in Nat
         /\ Head(arrived) = results[Handled + 1]
         /\ Tail(arrived) \in Seq(Messages) /\ Len(Tail(arrived)) <= Len(uGot)
         /\ Len(uGot) - Len(Tail(arrived)) = Handled + 1
         /\ \A i \in 1 .. Len(Tail(arrived)) : Tail(arrived)[i] = results[Handled + 1 + i]
<1> DEFINE t == Tail(arrived)
           h == Handled
<1>1. /\ Head(arrived) = arrived[1] /\ t \in Seq(Messages) /\ Len(t) = Len(arrived) - 1
      /\ \A i \in 1 .. Len(t) : t[i] = arrived[i + 1]
  BY HeadTailProperties DEF IInv, Types
<1>2. Len(arrived) \in Nat /\ Len(arrived) >= 1
  BY LenProperties, EmptySeq DEF IInv, Types
<1>3. Len(uGot) \in Nat /\ Len(arrived) <= Len(uGot) /\ h = Len(uGot) - Len(arrived)
  BY LenProperties DEF IInv, UpInv, LinkInv, TakenInv, Handled
<1>4. h \in Nat /\ h + 1 \in 1 .. Len(results)
  BY <1>2, HandledFar
<1>5. \A i \in 1 .. Len(arrived) : arrived[i] = results[h + i]
  BY DEF IInv, TakenInv
<1> HIDE DEF t, h
<1>6. arrived[1] = results[h + 1]
  BY <1>2, <1>5
<1>7. \A i \in 1 .. Len(t) : t[i] = results[h + 1 + i]
  <2> TAKE i \in 1 .. Len(t)
  <2>1. i + 1 \in 1 .. Len(arrived) /\ h + (i + 1) = h + 1 + i
    BY <1>1, <1>2, <1>4
  <2>. QED
    BY <1>1, <1>5, <2>1
<1>8. Len(t) <= Len(uGot) /\ Len(uGot) - Len(t) = h + 1
  BY <1>1, <1>2, <1>3
<1>. QED
  BY <1>1, <1>4, <1>6, <1>7, <1>8 DEF t, h

LEMMA NextResult ==
  ASSUME IInv, NEW h \in Nat, h + 1 \in 1 .. Len(results)
  PROVE  /\ results[h + 1] \in Messages /\ Fits(clicks, job, results[h + 1])
         /\ h = 0 => Opens(clicks, results[h + 1], 1)
         /\ h > 0 => /\ results[h] \in Messages /\ Fits(clicks, job, results[h])
                     /\ Follows(clicks, results[h + 1], results[h])
<1>1. results[h + 1] = Stream[h + 1] /\ h + 1 \in 1 .. Len(Stream)
  BY ResultFacts
<1>2. Len(results) \in Nat /\ Len(Stream) \in Nat
  BY StreamFacts, LenProperties DEF IInv
<1>3. StreamInv(clicks, job, Stream)
  BY DEF IInv, UpInv
<1>4. CASE h = 0
  <2>1. h + 1 = 1 /\ Len(Stream) > 0
    BY <1>1, <1>2, <1>4
  <2>2. Opens(clicks, Stream[1], 1)
    BY <1>3, <2>1 DEF StreamInv
  <2>. QED
    BY <1>1, <1>4, <2>1, <2>2, ResultFacts
<1>5. CASE h # 0
  <2>1. h \in 1 .. Len(results) /\ h \in 1 .. Len(Stream) - 1
    BY <1>1, <1>2, <1>5
  <2>2. results[h] = Stream[h]
    BY <2>1, ResultFacts
  <2>3. Follows(clicks, Stream[h + 1], Stream[h])
    BY <1>3, <2>1 DEF StreamInv
  <2>. QED
    BY <1>1, <1>5, <2>1, <2>2, <2>3, ResultFacts
<1>. QED
  BY <1>4, <1>5

\* Between requests the next result opens the next request.
LEMMA FirstResult ==
  ASSUME IInv, arrived # <<>>, ~Due(Handled)
  PROVE  /\ Opens(clicks, results[Handled + 1], Over(Handled) + 1)
         /\ bulk = <<>>
<1> DEFINE h == Handled
<1>1. h \in Nat /\ h + 1 \in 1 .. Len(results)
  BY Takes
<1>2. Opens(clicks, results[h + 1], Over(h) + 1)
  <2>1. CASE h = 0
    BY <1>1, <2>1, NextResult DEF Over
  <2>2. CASE h # 0
    <3>1. h > 0
      BY <1>1, <2>2
    <3>2. Ends(results[h]) /\ Over(h) = results[h].job
      BY <3>1 DEF Due, Over
    <3>3. Follows(clicks, results[h + 1], results[h])
      BY <1>1, <3>1, NextResult
    <3> HIDE DEF h
    <3>. QED
      BY <3>2, <3>3 DEF Follows
  <2>. QED
    BY <2>1, <2>2
<1>3. bulk = <<>>
  BY DEF Due, Ends, IInv, TakenInv, BulkInv
<1>. QED
  BY <1>2, <1>3

\* In a test it is the next group or, behind the last, the end.
LEMMA LaterResult ==
  ASSUME IInv, arrived # <<>>, Due(Handled)
  PROVE  LET m == results[Handled + 1] IN
         /\ m.job = Over(Handled) + 1 /\ Tests(m.cmd) /\ m.kind \in {"bulk", "finished"}
         /\ m.kind = "bulk" => Len(bulk) = m.val
         /\ m.kind = "finished" => Len(bulk) = m.cmd.test_size
         /\ \A g \in 1 .. Len(bulk) : bulk[g].val = g - 1 /\ bulk[g].job = m.job
<1> DEFINE h == Handled
           m == results[h + 1]
           p == results[h]
           G == m.cmd.test_size
<1>1. h \in Nat /\ h + 1 \in 1 .. Len(results) /\ h > 0
  BY Takes DEF Due
<1>2. /\ m \in Messages /\ Fits(clicks, job, m) /\ p \in Messages /\ Fits(clicks, job, p)
      /\ Follows(clicks, m, p)
  BY <1>1, NextResult
<1>3. ~Ends(p) /\ Over(h) = p.job - 1
  BY DEF Due, Over
<1> HIDE DEF m, p, h
<1>4. m.job = p.job /\ p.job \in Nat /\ m.cmd = p.cmd /\ p.kind \in {"arriving", "bulk"}
  BY <1>2, <1>3 DEF Follows, Fits, Ends, Messages, Kinds
<1>5. Tests(p.cmd)
  BY <1>2, <1>4 DEF Fits
<1>6. p.cmd \in Commands /\ G \in Nat /\ p.val \in Nat
  <2>1. p.cmd \in Commands /\ p.val \in Nat
    BY <1>2 DEF Messages
  <2>. QED
    BY <1>4, <1>5, <2>1, CommandFacts DEF Tests
<1>7. IF GroupsSo(p) < G THEN m.kind = "bulk" /\ m.val = GroupsSo(p) ELSE m.kind = "finished"
  BY <1>2, <1>3, <1>4 DEF Follows
<1>8. GroupsSo(p) <= G
  <2>1. p.kind = "bulk" => p.val < G
    BY <1>2, <1>4 DEF Fits
  <2>. QED
    BY <1>4, <1>6, <2>1 DEF GroupsSo
<1>9. /\ Len(bulk) = GroupsSo(p)
      /\ \A g \in 1 .. Len(bulk) : bulk[g].val = g - 1 /\ bulk[g].job = p.job
  <2>1. BulkInv(h)
    BY DEF IInv, TakenInv, h
  <2>2. CASE p.kind = "bulk"
    BY <1>1, <2>1, <2>2 DEF BulkInv, GroupsSo, p
  <2>3. CASE p.kind = "arriving"
    <3>1. bulk = <<>> /\ GroupsSo(p) = 0
      BY <2>1, <2>3 DEF BulkInv, GroupsSo, p
    <3>. QED
      BY <3>1
  <2>. QED
    BY <1>4, <2>2, <2>3
<1>10. m.kind = "finished" => GroupsSo(p) = G
  <2>1. GroupsSo(p) \in Nat
    BY <1>6 DEF GroupsSo
  <2>. QED
    BY <1>6, <1>7, <1>8, <2>1
<1>11. m.kind \in {"bulk", "finished"} /\ (m.kind = "bulk" => m.val = GroupsSo(p))
  BY <1>7
<1>12. m.job = Over(h) + 1
  BY <1>3, <1>4
<1>. QED
  BY <1>4, <1>5, <1>9, <1>10, <1>11, <1>12 DEF m, h

LEMMA HBulkHolds ==
  ASSUME IInv, HBulk
  PROVE  IInv'
<1>h. PICK h : h = Handled
  OBVIOUS
<1> DEFINE m == results[h + 1]
<1>0. /\ arrived # <<>> /\ Head(arrived).kind = "bulk"
      /\ arrived' = Tail(arrived) /\ bulk' = Append(bulk, Head(arrived))
      /\ UNCHANGED <<clicks, disabled, inFlight, blocked, unhandled, bulkDue, answers, shown>>
      /\ UNCHANGED <<mcu, dnLink, upLink>>
  BY DEF HBulk
<1>1. /\ h \in Nat /\ h + 1 \in 1 .. Len(results) /\ Head(arrived) = m
      /\ arrived' \in Seq(Messages) /\ Len(arrived') <= Len(uGot)
      /\ Len(uGot) - Len(arrived') = h + 1
      /\ \A i \in 1 .. Len(arrived') : arrived'[i] = results[h + 1 + i]
  BY <1>0, <1>h, Takes
<1>2. m.kind = "bulk" /\ m \in Messages /\ bulk \in Seq(Messages)
  BY <1>0, <1>1, NextResult DEF IInv, Types
<1>3. UNCHANGED <<uGot, results>>
  BY <1>0 DEF mcu, upLink
<1>4. Handled' = h + 1
  BY <1>1, <1>3, <1>h DEF Handled
<1>5. Due(h)
  <2>1. ~Due(h) => m.kind # "bulk"
    BY <1>0, <1>h, FirstResult DEF Opens
  <2>. QED
    BY <1>2, <2>1
<1>6. /\ m.job = Over(h) + 1 /\ Len(bulk) = m.val
      /\ \A g \in 1 .. Len(bulk) : bulk[g].val = g - 1 /\ bulk[g].job = m.job
  BY <1>0, <1>2, <1>5, <1>h, LaterResult
<1>7. Due(h + 1) /\ Over(h + 1) = Over(h)
  <2>1. Due(h + 1)
    BY <1>1, <1>2 DEF Due, Ends
  <2>2. Over(h + 1) = m.job - 1
    BY <1>1, <2>1 DEF Over
  <2>3. Over(h) \in Nat
    BY <1>h, OverFacts
  <2>. QED
    BY <1>6, <2>1, <2>2, <2>3
<1> HIDE DEF m
<1>8. /\ bulk' \in Seq(Messages) /\ Len(bulk') = Len(bulk) + 1
      /\ \A g \in 1 .. Len(bulk) : bulk'[g] = bulk[g]
      /\ bulk'[Len(bulk) + 1] = m
  BY <1>0, <1>1, <1>2, AppendProperties
<1>9. Len(bulk') = m.val + 1 /\ \A g \in 1 .. Len(bulk') : bulk'[g].val = g - 1 /\ bulk'[g].job = m.job
  <2>1. Len(bulk) \in Nat
    BY <1>2, LenProperties
  <2>2. \A g \in 1 .. Len(bulk) + 1 : g \in 1 .. Len(bulk) \/ g = Len(bulk) + 1
    BY <2>1
  <2>3. Len(bulk) + 1 - 1 = m.val
    BY <1>6, <2>1
  <2>. QED
    BY <1>6, <1>8, <2>2, <2>3
<1>10. BulkInv(h + 1)'
  <2>1. h + 1 > 0 /\ results'[h + 1] = m /\ m.kind = "bulk"
    BY <1>1, <1>2, <1>3 DEF m
  <2>. QED
    BY <1>9, <2>1 DEF BulkInv
<1>11. TakenInv'
  <2>1. bulkDue' = Due(h + 1)
    BY <1>0, <1>5, <1>7, <1>h DEF IInv, TakenInv
  <2>2. Due(Handled)' = Due(h + 1) /\ BulkInv(Handled)' = BulkInv(h + 1)'
    BY <1>3, <1>4 DEF Due, BulkInv
  <2>. QED
    BY <1>1, <1>3, <1>4, <1>10, <2>1, <2>2 DEF TakenInv
<1>12. AnswersInv'
  <2>1. Over(Handled)' = Over(h + 1)
    BY <1>3, <1>4 DEF Over, Due
  <2>2. Over(Handled)' = Over(Handled)
    BY <1>7, <1>h, <2>1
  <2>. QED
    BY <1>0, <2>2 DEF IInv, AnswersInv
<1>13. Types'
  BY <1>0, <1>1, <1>8 DEF IInv, Types, mcu
<1>14. DownInv' /\ UpInv' /\ RegistersInv' /\ FlightInv' /\ ButtonsInv'
  BY <1>0, SameDown, SameUp, SameRegisters, SameFlight, SameButtons DEF IInv, mcu, dnLink, upLink
<1>. QED
  BY <1>11, <1>12, <1>13, <1>14 DEF IInv

-----------------------------------------------------------------------------
(* Handing a response to its sender                                        *)

LEMMA MatchEffect ==
  ASSUME Types, Distinct(inFlight), inFlight # <<>>,
         NEW un \in Seq(Handed), un = <<>> \/ un = <<un[1]>>, MatchWith(un)
  PROVE  /\ inFlight' \in Seq(Nat) /\ Distinct(inFlight')
         /\ \/ /\ \A k \in Elements(inFlight) : ~Hit(un, k)
               /\ Elements(inFlight') = Elements(inFlight)
               /\ unhandled' = un /\ answers' = answers
            \/ \E k \in Elements(inFlight) :
                 /\ Hit(un, k) /\ Elements(inFlight') = Elements(inFlight) \ {k}
                 /\ unhandled' = <<>> /\ answers' = Append(answers, [click |-> k, msg |-> un[1]])
<1> DEFINE end == AfterTurns(At(inFlight, un, answers), Len(inFlight) + 1)
<1>1. inFlight' = end.inFlight /\ unhandled' = end.unhandled /\ answers' = end.answers
  BY DEF MatchWith, At
<1>2. inFlight \in Seq(Nat)
  BY DEF Types
<1>3. \/ /\ \A k \in Elements(inFlight) : ~Hit(un, k)
         /\ \E a \in Seq(Nat) :
              end = At(a, un, answers) /\ Distinct(a) /\ Elements(a) = Elements(inFlight)
      \/ \E k \in Elements(inFlight), a \in Seq(Nat) :
           /\ Hit(un, k) /\ end = At(a, <<>>, Append(answers, [click |-> k, msg |-> un[1]]))
           /\ Distinct(a) /\ Elements(a) = Elements(inFlight) \ {k}
  BY <1>2, Loop
<1> HIDE DEF end
<1>4. CASE /\ \A k \in Elements(inFlight) : ~Hit(un, k)
           /\ \E a \in Seq(Nat) :
                end = At(a, un, answers) /\ Distinct(a) /\ Elements(a) = Elements(inFlight)
  <2>1. PICK a \in Seq(Nat) : end = At(a, un, answers) /\ Distinct(a) /\ Elements(a) = Elements(inFlight)
    BY <1>4
  <2>2. inFlight' = a /\ unhandled' = un /\ answers' = answers
    BY <1>1, <2>1 DEF At
  <2>. QED
    BY <1>4, <2>1, <2>2
<1>5. CASE \E k \in Elements(inFlight), a \in Seq(Nat) :
             /\ Hit(un, k) /\ end = At(a, <<>>, Append(answers, [click |-> k, msg |-> un[1]]))
             /\ Distinct(a) /\ Elements(a) = Elements(inFlight) \ {k}
  <2>1. PICK k \in Elements(inFlight), a \in Seq(Nat) :
             /\ Hit(un, k) /\ end = At(a, <<>>, Append(answers, [click |-> k, msg |-> un[1]]))
             /\ Distinct(a) /\ Elements(a) = Elements(inFlight) \ {k}
    BY <1>5
  <2>2. inFlight' = a /\ unhandled' = <<>> /\ answers' = Append(answers, [click |-> k, msg |-> un[1]])
    BY <1>1, <2>1 DEF At
  <2>. QED
    BY <2>1, <2>2
<1>. QED
  BY <1>3, <1>4, <1>5

\* Two unanswered clicks on a button of a register are one.
LEMMA OnePerButton ==
  ASSUME IInv, NEW j \in Len(answers) + 1 .. Len(clicks), NEW k \in Len(answers) + 1 .. Len(clicks),
         clicks[j] = clicks[k], OfRegister(clicks[j])
  PROVE  j = k
<1>1. j \in shown + 1 .. Len(clicks) /\ k \in shown + 1 .. Len(clicks)
  BY ShownFar, JobFar
<1>2. Disables(clicks[j]) \cap Disables(clicks[k]) # {}
  BY DEF Disables
<1>. QED
  BY <1>1, <1>2 DEF IInv, ButtonsInv

\* While a request is in flight, the next response belongs to one of them.
LEMMA HitExists ==
  ASSUME IInv, inFlight # <<>>, NEW un, un # <<>>, un[1].cmd = clicks[Len(answers) + 1]
  PROVE  /\ Len(answers) + 1 \in 1 .. dReturned
         /\ \E k \in Elements(inFlight) : Hit(un, k)
<1> DEFINE E == Elements(inFlight)
           W == Len(answers) + 1 .. dReturned
<1>1. PICK q \in [E -> W] : Stands(clicks, q, E, W)
  BY DEF IInv, FlightInv
<1>2. inFlight[1] \in E
  <2>1. 1 \in 1 .. Len(inFlight)
    BY LenProperties, EmptySeq DEF IInv, Types
  <2>. QED
    BY <2>1 DEF Elements
<1>3. Len(answers) + 1 \in W /\ Len(answers) + 1 \in 1 .. dReturned
  <2>1. q[inFlight[1]] \in W
    <3> HIDE DEF E, W
    <3>. QED
      BY <1>2
  <2>. QED
    BY <2>1, AnswersFar, ReturnFar
<1> HIDE DEF E, W
<1>4. PICK k \in E : q[k] = Len(answers) + 1
  BY <1>1, <1>3 DEF Stands
<1>5. clicks[k] = clicks[Len(answers) + 1]
  BY <1>1, <1>4 DEF Stands
<1>. QED
  BY <1>3, <1>5 DEF Hit, E

LEMMA MatchHolds ==
  ASSUME IInv, inFlight # <<>>, NEW un \in Seq(Handed), MatchWith(un),
         un = <<>> \/ (un = <<un[1]>> /\ Answer(clicks, un[1], Len(answers) + 1)),
         UNCHANGED <<clicks, disabled, shown, dReturned>>
  PROVE  /\ inFlight' \in Seq(Nat) /\ unhandled' = <<>>
         /\ answers' \in Seq([click : Nat, msg : Handed])
         /\ Len(answers') = Len(answers) + IF un = <<>> THEN 0 ELSE 1
         /\ \A i \in 1 .. Len(answers') : Answer(clicks, answers'[i].msg, i)
         /\ FlightInv' /\ ButtonsInv'
<1> DEFINE E == Elements(inFlight)
           n == Len(answers) + 1
           W == n .. dReturned
<1>0. /\ Types /\ FlightInv /\ Distinct(inFlight) /\ E \subseteq 1 .. dReturned
      /\ un = <<>> \/ un = <<un[1]>>
  BY DEF IInv, FlightInv
<1>1. Len(answers) \in Nat /\ dReturned \in Nat /\ dReturned <= Len(clicks) /\ Len(clicks) \in Nat
  BY AnswersFar, ReturnFar
<1>2. /\ inFlight' \in Seq(Nat) /\ Distinct(inFlight')
      /\ \/ /\ \A k \in E : ~Hit(un, k)
            /\ Elements(inFlight') = E /\ unhandled' = un /\ answers' = answers
         \/ \E k \in E :
              /\ Hit(un, k) /\ Elements(inFlight') = E \ {k}
              /\ unhandled' = <<>> /\ answers' = Append(answers, [click |-> k, msg |-> un[1]])
  BY <1>0, MatchEffect
<1>3. CASE un = <<>>
  <2>1. \A k \in E : ~Hit(un, k)
    BY <1>3 DEF Hit
  <2>2. Elements(inFlight') = E /\ unhandled' = <<>> /\ answers' = answers
    BY <1>2, <1>3, <2>1
  <2>3. FlightInv'
    BY <1>0, <1>2, <2>2 DEF FlightInv
  <2>4. ButtonsInv'
    BY <2>2, SameButtons DEF IInv
  <2>5. \A i \in 1 .. Len(answers) : Answer(clicks, answers[i].msg, i)
    BY DEF IInv, AnswersInv
  <2>6. answers \in Seq([click : Nat, msg : Handed]) /\ Len(answers) = Len(answers) + 0
    BY <1>1 DEF IInv, Types
  <2>. QED
    BY <1>2, <1>3, <2>2, <2>3, <2>4, <2>5, <2>6
<1>4. CASE un # <<>>
  <2>0. Answer(clicks, un[1], n) /\ un[1].cmd = clicks[n]
    BY <1>4 DEF Answer
  <2>1. n \in 1 .. dReturned /\ \E k \in E : Hit(un, k)
    BY <1>4, <2>0, HitExists
  <2>2. PICK k \in E : /\ Hit(un, k) /\ Elements(inFlight') = E \ {k}
                       /\ unhandled' = <<>> /\ answers' = Append(answers, [click |-> k, msg |-> un[1]])
    BY <1>2, <2>1
  <2>3. clicks[k] = clicks[n] /\ k \in 1 .. dReturned /\ k \in Nat
    BY <1>0, <2>0, <2>2 DEF Hit
  <2>4. un[1] \in Handed
    <3>1. 1 \in 1 .. Len(un)
      BY <1>4, LenProperties, EmptySeq
    <3>. QED
      BY <3>1, ElementOfSeq
  <2> DEFINE A == [click : Nat, msg : Handed]
             x == [click |-> k, msg |-> un[1]]
  <2>5. x \in A /\ answers \in Seq(A) /\ x.click = k /\ x.msg = un[1]
    BY <2>3, <2>4 DEF IInv, Types
  <2>6. /\ answers' \in Seq(A) /\ Len(answers') = Len(answers) + 1
        /\ \A i \in 1 .. Len(answers) : answers'[i] = answers[i]
        /\ answers'[n] = x
    <3> HIDE DEF A, x
    <3>1. answers' = Append(answers, x)
      BY <2>2 DEF x
    <3>. QED
      BY <2>5, <3>1, AppendProperties
  <2> HIDE DEF A, x
  <2>7. \A i \in 1 .. n : i \in 1 .. Len(answers) \/ i = n
    BY <1>1
  <2>8. \A i \in 1 .. n : Answer(clicks, answers'[i].msg, i)
    <3>1. \A i \in 1 .. Len(answers) : Answer(clicks, answers[i].msg, i)
      BY DEF IInv, AnswersInv
    <3> HIDE DEF n
    <3>. QED
      BY <2>0, <2>5, <2>6, <2>7, <3>1
  <2>9. OfRegister(clicks[n]) => k = n
    <3>1. OfRegister(clicks[n]) => k > Len(answers)
      BY <1>0, <2>3 DEF FlightInv
    <3>2. k > Len(answers) => k \in n .. Len(clicks) /\ n \in n .. Len(clicks)
      BY <1>1, <2>1, <2>3
    <3>. QED
      BY <2>3, <3>1, <3>2, OnePerButton
  <2>10. \E p \in [E \ {k} -> W \ {n}] : Stands(clicks, p, E \ {k}, W \ {n})
    <3>1. PICK q \in [E -> W] : Stands(clicks, q, E, W)
      BY <1>0 DEF FlightInv
    <3>2. n \in W
      BY <1>1, <2>1
    <3> HIDE DEF E, W, n
    <3>. QED
      BY <2>3, <3>1, <3>2, StandsLess
  <2>11. W \ {n} = n + 1 .. dReturned
    BY <1>1
  <2>12. \A l \in E \ {k} : OfRegister(clicks[l]) => l > n
    <3> TAKE l \in E \ {k}
    <3>1. OfRegister(clicks[l]) => l > Len(answers)
      BY <1>0 DEF FlightInv
    <3>2. l \in 1 .. dReturned
      BY <1>0
    <3>3. l = n /\ OfRegister(clicks[l]) => l = k
      BY <2>9
    <3>. QED
      BY <1>1, <3>1, <3>2, <3>3
  <2>13. ASSUME NEW i \in 1 .. n
         PROVE  LET l == answers'[i].click IN
                l \in 1 .. dReturned /\ clicks[l] = clicks[i] /\ (OfRegister(clicks[i]) => l = i)
    <3>1. CASE i = n
      BY <2>3, <2>5, <2>6, <2>9, <3>1
    <3>2. CASE i \in 1 .. Len(answers)
      BY <1>0, <2>6, <3>2 DEF FlightInv
    <3>. QED
      BY <2>7, <3>1, <3>2
  <2>14. FlightInv'
    <3>1. Len(answers') = n /\ clicks' = clicks /\ dReturned' = dReturned
      BY <2>6
    <3>2. E \ {k} \subseteq 1 .. dReturned /\ n <= dReturned
      BY <1>0, <1>1, <2>1
    <3>3. \E p \in [E \ {k} -> n + 1 .. dReturned] : Stands(clicks, p, E \ {k}, n + 1 .. dReturned)
      BY <2>10, <2>11
    <3> HIDE DEF E, W, n
    <3>. QED
      BY <1>2, <2>2, <2>12, <2>13, <3>1, <3>2, <3>3 DEF FlightInv
  <2>15. ButtonsInv'
    <3>1. shown <= Len(answers')
      BY <1>1, <2>6, ShownFar
    <3>. QED
      BY <3>1 DEF IInv, ButtonsInv
  <2> HIDE DEF n
  <2>16. Len(answers') = n /\ n = Len(answers) + 1
    BY <2>6 DEF n
  <2>. QED
    BY <1>2, <1>4, <2>2, <2>6, <2>8, <2>14, <2>15, <2>16 DEF A
<1>. QED
  BY <1>3, <1>4

LEMMA Single ==
  ASSUME NEW S, NEW s \in Seq(S), s # <<>>, Len(s) <= 1
  PROVE  s = <<s[1]>>
<1> DEFINE t == <<s[1]>>
<1>1. Len(s) \in Nat /\ Len(s) >= 1 /\ 1 \in 1 .. Len(s)
  BY LenProperties, EmptySeq
<1>2. s[1] \in S
  BY <1>1, ElementOfSeq
<1>3. t \in Seq(S) /\ Len(t) = 1 /\ t[1] = s[1]
  BY <1>2
<1> HIDE DEF t
<1>4. Len(t) = Len(s) /\ \A i \in 1 .. Len(s) : i = 1
  BY <1>1, <1>3
<1>5. \A i \in 1 .. Len(s) : s[i] = t[i]
  BY <1>3, <1>4
<1>6. s = t
  BY <1>3, <1>4, <1>5, SeqEqual
<1>. QED
  BY <1>6 DEF t

LEMMA HResumeHolds ==
  ASSUME IInv, HResume
  PROVE  IInv'
<1>0. /\ inFlight # <<>> /\ blocked' = FALSE /\ MatchWith(unhandled)
      /\ UNCHANGED <<clicks, disabled, arrived, bulk, bulkDue, shown>>
      /\ UNCHANGED <<mcu, dnLink, upLink>>
  BY DEF HResume
<1>1. unhandled = <<>> \/ (unhandled = <<unhandled[1]>> /\ Answer(clicks, unhandled[1], Len(answers) + 1))
  <2>1. CASE unhandled # <<>>
    <3>1. unhandled \in Seq(Handed) /\ Len(unhandled) <= 1 /\ Len(unhandled) >= 1
      BY <2>1, AnswersFar DEF IInv, Types
    <3>2. unhandled = <<unhandled[1]>>
      BY <2>1, <3>1, Single
    <3>3. Over(Handled) = Len(answers) + 1
      BY <2>1, OverFacts
    <3>. QED
      BY <2>1, <3>2, <3>3 DEF IInv, AnswersInv
  <2>. QED
    BY <2>1
<1>2. unhandled \in Seq(Handed) /\ dReturned' = dReturned
  BY <1>0 DEF IInv, Types, dnLink
<1>3. /\ inFlight' \in Seq(Nat) /\ unhandled' = <<>>
      /\ answers' \in Seq([click : Nat, msg : Handed])
      /\ Len(answers') = Len(answers) + IF unhandled = <<>> THEN 0 ELSE 1
      /\ \A i \in 1 .. Len(answers') : Answer(clicks, answers'[i].msg, i)
      /\ FlightInv' /\ ButtonsInv'
  BY <1>0, <1>1, <1>2, MatchHolds
<1>4. Types'
  <2>1. <<>> \in Seq(Handed)
    BY EmptySeq
  <2>. QED
    BY <1>0, <1>3, <2>1 DEF IInv, Types, mcu
<1>5. DownInv' /\ UpInv' /\ RegistersInv' /\ TakenInv'
  BY <1>0, SameDown, SameUp, SameRegisters, SameTaken DEF IInv, mcu, dnLink, upLink
<1>6. AnswersInv'
  <2>1. Over(Handled)' = Over(Handled)
    BY <1>0 DEF Handled, Over, Due, upLink, mcu
  <2>2. Len(answers') = Over(Handled)
    <3>1. unhandled = <<>> => Len(answers) = Over(Handled)
      BY OverFacts
    <3>2. unhandled # <<>> => Len(answers) + 1 = Over(Handled)
      BY OverFacts
    <3>3. Len(answers) + 0 = Len(answers)
      BY AnswersFar
    <3>. QED
      BY <1>3, <3>1, <3>2, <3>3
  <2>3. Len(<<>>) <= 1 /\ Len(answers') + Len(<<>>) = Over(Handled)
    BY <1>3, <2>2, OverFacts
  <2>. QED
    BY <1>0, <1>3, <2>1, <2>3 DEF AnswersInv
<1>. QED
  BY <1>3, <1>4, <1>5, <1>6 DEF IInv

\* The response that response_handler hands on for the next result.
LEMMA NextAnswer ==
  ASSUME IInv, arrived # <<>>, NEW h, h = Handled, NEW m, m = results[h + 1], m.kind # "bulk"
  PROVE  /\ m \in Messages /\ m.kind \in {"arriving", "done", "finished"}
         /\ m.kind = "arriving" =>
              /\ Due(h + 1) /\ ~Due(h) /\ Over(h + 1) = Over(h)
         /\ m.kind = "done" =>
              /\ ~Due(h + 1) /\ ~Due(h) /\ Over(h + 1) = Over(h) + 1
              /\ m \in Handed /\ Answer(clicks, m, Over(h) + 1)
         /\ m.kind = "finished" =>
              /\ ~Due(h + 1) /\ Over(h + 1) = Over(h) + 1
              /\ [m EXCEPT !.val = bulk] \in Handed
              /\ Answer(clicks, [m EXCEPT !.val = bulk], Over(h) + 1)
         /\ m.kind # "finished" => bulk = <<>>
<1>1. h \in Nat /\ h + 1 \in 1 .. Len(results)
  BY Takes
<1>2. m \in Messages /\ Fits(clicks, job, m)
  BY <1>1, NextResult
<1>3. m.kind \in {"arriving", "done", "finished"}
  BY <1>2 DEF Messages, Kinds
<1>4. ~Due(h) => m.job = Over(h) + 1 /\ m.kind \in {"arriving", "done"} /\ bulk = <<>>
  BY FirstResult DEF Opens
<1>5. Due(h) => /\ m.job = Over(h) + 1 /\ Tests(m.cmd) /\ m.kind = "finished"
                /\ Len(bulk) = m.cmd.test_size
                /\ \A g \in 1 .. Len(bulk) : bulk[g].val = g - 1 /\ bulk[g].job = m.job
  BY LaterResult
<1>6. Due(h + 1) <=> m.kind = "arriving"
  BY <1>1, <1>3 DEF Due, Ends
<1>7. Over(h + 1) = IF m.kind = "arriving" THEN m.job - 1 ELSE m.job
  BY <1>1, <1>6 DEF Over
<1>8. Over(h) \in Nat
  BY OverFacts
<1>9. m.job = Over(h) + 1 /\ m.cmd = clicks[m.job] /\ m.cmd \in Commands /\ m.job \in Nat /\ m.val \in Nat
  BY <1>2, <1>4, <1>5 DEF Fits, Messages
<1>10. m.cmd.request = "read_register" => m.val = LatestOf(clicks, m.cmd.reg_address, m.job)
  BY <1>2 DEF Fits
<1>11. CASE m.kind = "arriving"
  BY <1>2, <1>4, <1>5, <1>6, <1>7, <1>8, <1>9, <1>11
<1>12. CASE m.kind = "done"
  <2>1. ~Due(h) /\ ~Due(h + 1) /\ Over(h + 1) = Over(h) + 1 /\ bulk = <<>>
    BY <1>4, <1>5, <1>6, <1>7, <1>9, <1>12
  <2>2. m \in Handed
    <3>1. m \in [job : Nat, cmd : Commands, kind : {"done"}, val : Nat]
      BY <1>2, <1>12 DEF Messages
    <3>. QED
      BY <3>1 DEF Handed
  <2>3. Answer(clicks, m, Over(h) + 1)
    BY <1>9, <1>10, <1>12 DEF Answer
  <2>. QED
    BY <1>2, <1>12, <2>1, <2>2, <2>3
<1>13. CASE m.kind = "finished"
  <2> DEFINE x == [m EXCEPT !.val = bulk]
  <2>1. Due(h)
    BY <1>4, <1>13
  <2>2. ~Due(h + 1) /\ Over(h + 1) = Over(h) + 1
    BY <1>6, <1>7, <1>9, <1>13
  <2>3. x.job = m.job /\ x.cmd = m.cmd /\ x.kind = "finished" /\ x.val = bulk
    BY <1>2, <1>13 DEF Messages
  <2>4. x \in Handed
    <3>1. bulk \in Seq(Messages)
      BY DEF IInv, Types
    <3>2. x \in [job : Nat, cmd : Commands, kind : {"finished"}, val : Seq(Messages)]
      BY <1>2, <1>13, <3>1 DEF Messages
    <3>. QED
      BY <3>2 DEF Handed
  <2>5. m.cmd.request # "read_register"
    BY <1>5, <2>1 DEF Tests
  <2> HIDE DEF x
  <2>6. Answer(clicks, x, Over(h) + 1)
    BY <1>5, <1>9, <2>1, <2>3, <2>5 DEF Answer
  <2>. QED
    BY <1>2, <1>13, <2>2, <2>4, <2>6 DEF x
<1>. QED
  BY <1>3, <1>11, <1>12, <1>13

LEMMA HResponseHolds ==
  ASSUME IInv, HResponse
  PROVE  IInv'
<1>h. PICK h : h = Handled
  OBVIOUS
<1> DEFINE m == results[h + 1]
           new == CASE m.kind = "arriving" -> <<>>
                    [] m.kind = "finished" -> <<[m EXCEPT !.val = bulk]>>
                    [] OTHER               -> <<m>>
<1>1. /\ ~blocked /\ arrived # <<>> /\ Head(arrived).kind # "bulk" /\ arrived' = Tail(arrived)
      /\ UNCHANGED <<clicks, disabled, shown>> /\ UNCHANGED <<mcu, dnLink, upLink>>
  BY DEF HResponse
<1>2. /\ h \in Nat /\ h + 1 \in 1 .. Len(results) /\ Head(arrived) = m
      /\ arrived' \in Seq(Messages) /\ Len(arrived') <= Len(uGot)
      /\ Len(uGot) - Len(arrived') = h + 1
      /\ \A i \in 1 .. Len(arrived') : arrived'[i] = results[h + 1 + i]
  BY <1>1, <1>h, Takes
<1>3. m.kind # "bulk"
  BY <1>1, <1>2
<1>4. /\ m \in Messages /\ m.kind \in {"arriving", "done", "finished"}
      /\ m.kind = "arriving" =>
           /\ Due(h + 1) /\ ~Due(h) /\ Over(h + 1) = Over(h)
      /\ m.kind = "done" =>
           /\ ~Due(h + 1) /\ ~Due(h) /\ Over(h + 1) = Over(h) + 1
           /\ m \in Handed /\ Answer(clicks, m, Over(h) + 1)
      /\ m.kind = "finished" =>
           /\ ~Due(h + 1) /\ Over(h + 1) = Over(h) + 1
           /\ [m EXCEPT !.val = bulk] \in Handed
           /\ Answer(clicks, [m EXCEPT !.val = bulk], Over(h) + 1)
      /\ m.kind # "finished" => bulk = <<>>
  BY <1>1, <1>3, <1>h, NextAnswer
<1>5. unhandled = <<>> /\ Over(h) = Len(answers) /\ Len(answers) \in Nat
  BY <1>1, <1>h, OverFacts, AnswersFar DEF IInv, AnswersInv
<1>6. /\ bulkDue' = (m.kind = "arriving" \/ (bulkDue /\ m.kind # "finished"))
      /\ bulk' = IF m.kind = "finished" THEN <<>> ELSE bulk
      /\ MatchOrWait(unhandled \o new)
  <2> HIDE DEF m
  <2>. QED
    BY <1>2 DEF HResponse, BulkAfter
<1> HIDE DEF m
<1>7. /\ new \in Seq(Handed)
      /\ IF m.kind = "arriving" THEN new = <<>>
         ELSE new = <<new[1]>> /\ Answer(clicks, new[1], Len(answers) + 1)
  <2>1. CASE m.kind = "arriving"
    BY <2>1, EmptySeq
  <2>2. CASE m.kind = "finished"
    <3>1. new = <<[m EXCEPT !.val = bulk]>>
      BY <2>2
    <3>. QED
      BY <1>4, <1>5, <2>2, <3>1
  <2>3. CASE m.kind = "done"
    <3>1. new = <<m>>
      BY <2>3
    <3>. QED
      BY <1>4, <1>5, <2>3, <3>1
  <2> HIDE DEF new
  <2>. QED
    BY <1>4, <2>1, <2>2, <2>3
<1> HIDE DEF new
<1>8. MatchOrWait(new) /\ (new = <<>> <=> m.kind = "arriving")
  <2>1. <<>> \o new = new
    BY <1>7, ConcatEmptySeq
  <2>2. m.kind # "arriving" => new # <<>>
    <3>1. new = <<new[1]>> => new # <<>>
      OBVIOUS
    <3>. QED
      BY <1>7, <3>1
  <2>. QED
    BY <1>5, <1>6, <1>7, <2>1, <2>2
<1>9. UNCHANGED <<uGot, results, dReturned>>
  BY <1>1 DEF mcu, upLink, dnLink
<1>10. Handled' = h + 1 /\ Due(Handled)' = Due(h + 1) /\ Over(Handled)' = Over(h + 1)
  <2>1. Handled' = h + 1
    BY <1>2, <1>9 DEF Handled
  <2>2. Due(Handled)' = Due(h + 1)
    BY <1>9, <2>1 DEF Due
  <2>. QED
    BY <1>9, <2>1, <2>2 DEF Over
<1>11. bulk' = <<>>
  BY <1>4, <1>6
<1>12. TakenInv'
  <2>1. bulkDue' = Due(h + 1)
    <3>1. bulkDue = Due(h)
      BY <1>h DEF IInv, TakenInv
    <3>2. bulkDue' = TRUE \/ bulkDue' = FALSE
      BY <1>6
    <3>3. bulkDue' <=> Due(h + 1)
      BY <1>4, <1>6, <3>1
    <3>4. CASE bulkDue' = TRUE
      <4>1. Due(h + 1) = TRUE
        BY <3>3, <3>4 DEF Due
      <4>. QED
        BY <3>4, <4>1
    <3>5. CASE bulkDue' = FALSE
      <4>1. Due(h + 1) = FALSE
        BY <3>3, <3>5 DEF Due
      <4>. QED
        BY <3>5, <4>1
    <3>. QED
      BY <3>2, <3>4, <3>5
  <2>2. BulkInv(Handled)'
    BY <1>3, <1>9, <1>10, <1>11 DEF BulkInv, m
  <2>. QED
    BY <1>2, <1>9, <1>10, <2>1, <2>2 DEF TakenInv
<1>13. DownInv' /\ UpInv' /\ RegistersInv'
  BY <1>1, SameDown, SameUp, SameRegisters DEF IInv, mcu, dnLink, upLink
<1>14. Over(h + 1) = Len(answers) + IF new = <<>> THEN 0 ELSE 1
  <2>1. Len(answers) + 0 = Len(answers)
    BY <1>5
  <2>. QED
    BY <1>4, <1>5, <1>8, <2>1
<1>15. bulk' \in Seq(Messages) /\ bulkDue' \in BOOLEAN
  BY <1>6, <1>11, EmptySeq
<1>16. CASE inFlight = <<>>
  <2>1. unhandled' = new /\ blocked' = TRUE /\ UNCHANGED <<inFlight, answers>>
    BY <1>8, <1>16 DEF MatchOrWait
  <2>2. Types'
    BY <1>1, <1>2, <1>7, <1>15, <2>1 DEF IInv, Types, mcu
  <2>3. AnswersInv'
    <3>1. Len(new) = IF new = <<>> THEN 0 ELSE 1
      <4>1. new = <<new[1]>> => Len(new) = 1
        OBVIOUS
      <4>. QED
        BY <1>7, <1>8, <4>1
    <3>2. Len(new) <= 1 /\ Len(answers) + Len(new) = Over(h + 1)
      BY <1>14, <3>1
    <3>3. new # <<>> => Answer(clicks, new[1], Over(h + 1))
      BY <1>7, <1>8, <1>14
    <3>4. \A i \in 1 .. Len(answers) : Answer(clicks, answers[i].msg, i)
      BY DEF IInv, AnswersInv
    <3>. QED
      BY <1>1, <1>10, <2>1, <3>2, <3>3, <3>4 DEF AnswersInv
  <2>4. FlightInv' /\ ButtonsInv'
    BY <1>1, <1>9, <2>1, SameFlight, SameButtons DEF IInv
  <2>. QED
    BY <1>12, <1>13, <2>2, <2>3, <2>4 DEF IInv
<1>17. CASE inFlight # <<>>
  <2>1. MatchWith(new) /\ blocked' = blocked
    BY <1>8, <1>17 DEF MatchOrWait
  <2>2. new = <<>> \/ (new = <<new[1]>> /\ Answer(clicks, new[1], Len(answers) + 1))
    BY <1>7
  <2>3. /\ inFlight' \in Seq(Nat) /\ unhandled' = <<>>
        /\ answers' \in Seq([click : Nat, msg : Handed])
        /\ Len(answers') = Len(answers) + IF new = <<>> THEN 0 ELSE 1
        /\ \A i \in 1 .. Len(answers') : Answer(clicks, answers'[i].msg, i)
        /\ FlightInv' /\ ButtonsInv'
    BY <1>1, <1>7, <1>9, <1>17, <2>1, <2>2, MatchHolds
  <2>4. Types'
    <3>1. <<>> \in Seq(Handed)
      BY EmptySeq
    <3>. QED
      BY <1>1, <1>2, <1>15, <2>1, <2>3, <3>1 DEF IInv, Types, mcu
  <2>5. AnswersInv'
    <3>1. Over(h + 1) \in Nat
      BY <1>5, <1>14
    <3>2. Len(<<>>) <= 1 /\ Len(answers') + Len(<<>>) = Over(h + 1)
      BY <1>14, <2>3, <3>1
    <3>. QED
      BY <1>1, <1>10, <2>3, <3>2 DEF AnswersInv
  <2>. QED
    BY <1>12, <1>13, <2>3, <2>4, <2>5 DEF IInv
<1>. QED
  BY <1>16, <1>17

-----------------------------------------------------------------------------
(* The theorems                                                            *)

LEMMA InitHolds == Init => IInv
<1> SUFFICES ASSUME Init PROVE IInv
  OBVIOUS
<1>0. /\ clicks = <<>> /\ disabled = {} /\ inFlight = <<>> /\ arrived = <<>>
      /\ blocked = FALSE /\ unhandled = <<>> /\ bulk = <<>> /\ bulkDue = FALSE
      /\ answers = <<>> /\ shown = 0
      /\ received = <<>> /\ requests = <<>> /\ job = 0 /\ todo = <<>> /\ registers = AtReset
      /\ queued = <<>> /\ results = <<>>
      /\ dWritten = 0 /\ dReturned = 0 /\ dHeld = 0 /\ dGot = <<>>
      /\ uWritten = 0 /\ uReturned = 0 /\ uHeld = 0 /\ uGot = <<>>
  BY DEF Init, Dn!Init, Up!Init
<1>1. Types
  <2>1. /\ <<>> \in Seq(Commands) /\ <<>> \in Seq(Nat) /\ <<>> \in Seq(Messages) /\ <<>> \in Seq(Handed)
        /\ <<>> \in Seq([click : Nat, msg : Handed])
    BY EmptySeq
  <2>. QED
    BY <1>0, <2>1, CommandAssumption DEF Types, Registers
<1>2. LinkInv(0, 0, 0, <<>>)
  BY EmptySeq DEF LinkInv
<1>3. DownInv
  <2>1. Len(<<>>) <= 1 /\ Len(<<>>) <= CopiMax /\ Len(<<>>) = 0 + Len(<<>>) + Len(<<>>) /\ 0 <= Len(<<>>)
    BY CapacityAssumption
  <2>. QED
    BY <1>0, <1>2, <2>1 DEF DownInv
<1>4. UpInv
  <2>1. Stream = <<>>
    <3>1. <<>> \in Seq(Nat)
      BY EmptySeq
    <3>2. <<>> \o <<>> = <<>>
      BY <3>1, ConcatEmptySeq
    <3>. QED
      BY <1>0, <3>2 DEF Stream
  <2>2. StreamInv(clicks, 0, <<>>)
    BY DEF StreamInv
  <2>3. 0 = Len(<<>>) /\ Len(<<>>) <= CipoMax
    BY CapacityAssumption
  <2>. QED
    BY <1>0, <1>2, <2>1, <2>2, <2>3 DEF UpInv
<1>5. RegistersInv
  <2> SUFFICES ASSUME NEW r \in Registers PROVE AtReset[r] = LatestOf(clicks, r, 0)
    BY <1>0 DEF RegistersInv
  <2>1. {j \in 1 .. 0 : Gives(clicks[j], r)} = {}
    OBVIOUS
  <2>. QED
    BY <2>1 DEF LatestOf
<1>6. Handled = 0
  BY <1>0 DEF Handled
<1>7. TakenInv
  <2>1. Due(0) = FALSE /\ BulkInv(0)
    BY <1>0 DEF Due, BulkInv
  <2>2. Len(<<>>) <= Len(<<>>) /\ \A i \in 1 .. Len(<<>>) : FALSE
    OBVIOUS
  <2>3. Len(arrived) <= Len(uGot) /\ \A i \in 1 .. Len(arrived) : arrived[i] = results[Handled + i]
    BY <1>0, <2>2
  <2>4. bulkDue = Due(0)
    BY <1>0, <2>1
  <2>. QED
    BY <1>6, <2>1, <2>3, <2>4 DEF TakenInv
<1>8. AnswersInv
  <2>1. Over(0) = 0 /\ Len(<<>>) <= 1 /\ Len(<<>>) + Len(<<>>) = 0
    BY DEF Over
  <2>. QED
    BY <1>0, <1>6, <2>1 DEF AnswersInv
<1>9. FlightInv
  <2>1. Elements(<<>>) = {} /\ Distinct(<<>>) /\ Len(<<>>) <= 0 /\ Len(<<>>) + 1 .. 0 = {}
    BY DEF Elements, Distinct
  <2>2. \E q \in [{} -> {}] : Stands(clicks, q, {}, {})
    <3>1. [x \in {} |-> x] \in [{} -> {}]
      OBVIOUS
    <3>2. Stands(clicks, [x \in {} |-> x], {}, {})
      BY DEF Stands
    <3>. QED
      BY <3>1, <3>2
  <2>3. \A i \in 1 .. Len(<<>>) : FALSE
    OBVIOUS
  <2>4. Elements(inFlight) = {} /\ Distinct(inFlight) /\ Len(answers) <= dReturned
    BY <1>0, <2>1
  <2>5. Len(answers) + 1 .. dReturned = {}
    BY <1>0, <2>1
  <2>6. \A i \in 1 .. Len(answers) : FALSE
    BY <1>0, <2>3
  <2> HIDE DEF Stands
  <2>. QED
    BY <2>2, <2>4, <2>5, <2>6 DEF FlightInv
<1>10. ButtonsInv
  BY <1>0 DEF ButtonsInv
<1>. QED
  BY <1>1, <1>3, <1>4, <1>5, <1>7, <1>8, <1>9, <1>10 DEF IInv

LEMMA NextHolds ==
  ASSUME OnlyFifo0, TestsFillQueue
  PROVE  IInv /\ [Next]_vars => IInv'
<1> SUFFICES ASSUME IInv, [Next]_vars PROVE IInv'
  OBVIOUS
<1>1. ASSUME NEW c \in Commands, Click(c) PROVE IInv'
  BY <1>1, ClickHolds
<1>2. CASE GWrite
  BY <1>2, GWriteHolds
<1>3. CASE GRecord
  BY <1>3, GRecordHolds
<1>4. CASE MReceive
  BY <1>4, MReceiveHolds
<1>5. CASE MEnqueue
  BY <1>5, MEnqueueHolds
<1>6. CASE MTake
  BY <1>6, MTakeHolds
<1>7. CASE MPut
  BY <1>7, MPutHolds
<1>8. CASE MWrite
  BY <1>8, MWriteHolds
<1>9. CASE MWritten
  BY <1>9, MWrittenHolds
<1>10. CASE DnHold
  BY <1>10, DnHoldHolds
<1>11. CASE UpHold
  BY <1>11, UpHoldHolds
<1>12. CASE GRead
  BY <1>12, GReadHolds
<1>13. CASE HBulk
  BY <1>13, HBulkHolds
<1>14. CASE HResponse
  BY <1>14, HResponseHolds
<1>15. CASE HResume
  BY <1>15, HResumeHolds
<1>16. CASE Show
  BY <1>16, ShowHolds
<1>17. CASE UNCHANGED vars
  <2>1. /\ UNCHANGED <<dnLink, upLink>>
        /\ UNCHANGED <<clicks, disabled, inFlight, arrived, blocked, unhandled, bulk, bulkDue, answers, shown>>
        /\ UNCHANGED <<received, requests, job, todo, registers, queued, results>>
    BY <1>17 DEF vars, gui, mcu
  <2>2. Types'
    BY <2>1 DEF IInv, Types
  <2>3. DownInv' /\ UpInv' /\ RegistersInv'
    BY <2>1, SameDown, SameUp, SameRegisters DEF IInv
  <2>4. TakenInv' /\ AnswersInv' /\ FlightInv' /\ ButtonsInv'
    BY <2>1, SameTaken, SameAnswers, SameFlight, SameButtons DEF IInv, dnLink, upLink
  <2>. QED
    BY <2>2, <2>3, <2>4 DEF IInv
<1>. QED
  BY <1>1, <1>2, <1>3, <1>4, <1>5, <1>6, <1>7, <1>8, <1>9, <1>10, <1>11, <1>12, <1>13, <1>14,
     <1>15, <1>16, <1>17 DEF Next, System

\* The invariant holds throughout: what is on its way from the buttons to the
\* registers, in register_io, in the queues and back in response_handler fits
\* together at every step.
THEOREM Invariance ==
  ASSUME OnlyFifo0, TestsFillQueue
  PROVE  Spec => []IInv
<1>1. Init => IInv
  BY InitHolds
<1>2. IInv /\ [Next]_vars => IInv'
  BY NextHolds
<1>. QED
  BY <1>1, <1>2, PTL DEF Spec

\* Bulk data comes only while it is due: the assert of response_handler
\* (gui.py:144) never fails.
THEOREM BulkOnlyWhenDue ==
  ASSUME OnlyFifo0, TestsFillQueue
  PROVE  Spec => []BulkIsDue
<1>1. IInv => BulkIsDue
  <2> SUFFICES ASSUME IInv, arrived # <<>>, Head(arrived).kind = "bulk" PROVE bulkDue
    BY DEF BulkIsDue
  <2>1. results[Handled + 1].kind = "bulk"
    BY Takes
  <2>2. Due(Handled)
    <3>1. ~Due(Handled) => results[Handled + 1].kind # "bulk"
      BY FirstResult DEF Opens
    <3>. QED
      BY <2>1, <3>1
  <2>. QED
    BY <2>2 DEF IInv, TakenInv
<1>. QED
  BY <1>1, Invariance, PTL

\* The responses reach the buttons in the order of the clicks, each the response
\* to the command that its own sender sent.
THEOREM AnswersInOrder ==
  ASSUME OnlyFifo0, TestsFillQueue
  PROVE  Spec => []AnsweredInOrder
<1>1. IInv => AnsweredInOrder
  <2> SUFFICES ASSUME IInv, NEW i \in DOMAIN answers
               PROVE  answers[i].msg.job = i /\ clicks[answers[i].click] = clicks[i]
    BY DEF AnsweredInOrder
  <2>1. i \in 1 .. Len(answers)
    BY LenProperties DEF IInv, Types
  <2>2. answers[i].msg.job = i
    BY <2>1 DEF IInv, AnswersInv, Answer
  <2>. QED
    BY <2>1, <2>2 DEF IInv, FlightInv
<1>. QED
  BY <1>1, Invariance, PTL

\* A test of the FIFO is answered with all of its groups, in order and of that
\* very test: the assert of the function tab never fails.
THEOREM WholeTests ==
  ASSUME OnlyFifo0, TestsFillQueue
  PROVE  Spec => []BulkIsWhole
<1>1. IInv => BulkIsWhole
  <2> SUFFICES ASSUME IInv, NEW i \in DOMAIN answers, answers[i].msg.kind = "finished"
               PROVE  /\ Len(answers[i].msg.val) = clicks[answers[i].click].test_size
                      /\ \A g \in DOMAIN answers[i].msg.val :
                           /\ answers[i].msg.val[g].val = g - 1
                           /\ answers[i].msg.val[g].job = answers[i].msg.job
    BY DEF BulkIsWhole
  <2> DEFINE m == answers[i].msg
  <2>1. i \in 1 .. Len(answers) /\ answers[i] \in [click : Nat, msg : Handed]
    <3>1. answers \in Seq([click : Nat, msg : Handed])
      BY DEF IInv, Types
    <3>2. i \in 1 .. Len(answers)
      BY <3>1, LenProperties
    <3>. QED
      BY <3>1, <3>2, ElementOfSeq
  <2>2. Answer(clicks, m, i) /\ m.kind = "finished"
    BY <2>1 DEF IInv, AnswersInv
  <2>3. clicks[answers[i].click] = clicks[i]
    BY <2>1 DEF IInv, FlightInv
  <2>4. DOMAIN m.val = 1 .. Len(m.val)
    <3>1. m \in Handed
      BY <2>1
    <3>2. m.val \in Seq(Messages)
      BY <2>2, <3>1 DEF Handed
    <3>. QED
      BY <3>2, LenProperties
  <2> HIDE DEF m
  <2>5. /\ Len(m.val) = clicks[i].test_size
        /\ \A g \in DOMAIN m.val : m.val[g].val = g - 1 /\ m.val[g].job = m.job
    BY <2>2, <2>4 DEF Answer
  <2>. QED
    BY <2>3, <2>5 DEF m
<1>. QED
  BY <1>1, Invariance, PTL

\* What a read shows is what that register was last given before the click.
THEOREM ReadsAreLatest ==
  ASSUME OnlyFifo0, TestsFillQueue
  PROVE  Spec => []ReadsLatest
<1>1. IInv => ReadsLatest
  <2> SUFFICES ASSUME IInv, NEW i \in DOMAIN answers,
                      clicks[answers[i].click].request = "read_register"
               PROVE  answers[i].msg.val =
                        Latest(clicks[answers[i].click].reg_address, answers[i].click)
    BY DEF ReadsLatest
  <2>1. i \in 1 .. Len(answers)
    BY LenProperties DEF IInv, Types
  <2>2. /\ clicks[answers[i].click] = clicks[i]
        /\ OfRegister(clicks[i]) => answers[i].click = i
    BY <2>1 DEF IInv, FlightInv
  <2>3. answers[i].click = i /\ clicks[i].request = "read_register"
    BY <2>2 DEF OfRegister
  <2>4. answers[i].msg.val = LatestOf(clicks, clicks[i].reg_address, i)
    BY <2>1, <2>3 DEF IInv, AnswersInv, Answer
  <2>. QED
    BY <2>3, <2>4, LatestIs
<1>. QED
  BY <1>1, Invariance, PTL
=============================================================================
