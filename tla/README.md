# Verification of amtest

amtest tests FPGA gateware from a desktop GUI.  The GUI talks over WiFi to a
microcontroller (ESP32, micropython), which talks over SPI to the FPGA.  This
directory holds TLA+ models of the program's own logic, the TLC runs that check
them, and the theorems that TLAPS proves about them.

In what follows `G` stands for `src/amtest/boards/ulx3s/gui_ui`, `C` for
`src/amtest/boards/ulx3s/common`, `SD` for
`G/fpga_gateware/test_sdram_n_fifo_interface_IS42S16160G`, `FEB` for
`src/tests2_feb2022`.

## 1. Inventory

| part | source | state | operations | interacts by | hard because |
|---|---|---|---|---|---|
| message identifiers | `iot/local.py`, `server.py:20-38` | next identifier; 32-byte record of identifiers seen | `gmid`, `isnew` | called by both ends of the link | one byte wraps; the record is cleared half a turn ahead |
| MCU end of the link | `G/mcu_firmware/source/iot/client.py` | socket, `_evok`, `_evfail`, `_acks_pend`, `_lineq`, record | `_run`, `_reader`, `_write`, `_do_qos`, `_sendack`, `_keepalive`, `readline` | TCP to the server; queue to the application | tasks interleave; outages; retransmission; full queue |
| GUI end of the link | `G/gui_software/source/server.py` | `_sock`, `_await_client`, `_wr_pause`, `_lines`, `_acks_pend`, record | `run`, `go`, `_read`, `_process_str`, `_readline`, `write`, `_waitack`, `_vwrite`, `_close` | TCP; list of lines to the application | reconnection before the old socket is seen dead; pauses; duplicates; a task that sleeps in `_send` through an outage dies |
| lines in the byte stream | `server.py:262-312`, `client.py:366-398` | partial line, locks | `_send`, `_read`, `_process_str`, `_readline` | under both ends | chunks end anywhere; outages cut lines |
| clocks of the link | `_keepalive`, timeouts of both ends, `client.py:310-320` | time since something was heard, or written | keepalive, time out, leave, return | the radio; the loop of the MCU | a loop that is held is late in everything |
| queue of the MCU | `iot/primitives/queue.py` | list, two events | `put`, `get`, `put_nowait`, `get_nowait` | between the MCU's tasks | several waiters wake on one place |
| MCU application | `G/mcu_firmware/source/main.py` | two queues, the result being built | `recv_from_server_to`, `send_to_server_from`, handlers | link on one side, SPI on the other | a result reused after it was queued; polling without await |
| SPI access | `G/mcu_firmware/source/fpga_io.py` | pins | `reg_io`, `read_fifo` | SPI to the FPGA | synchronisers, a bit more or less of delay |
| GUI connection manager | `G/gui_software/source/gui.py` | queues of commands, of requests in flight, of responses | `writer`, `reader`, `response_handler`, `send_cmd` | Qt signals; link | a response can come before its request is recorded |
| GUI tabs | `register_tab`, `function_tab` | widgets, wave data | `send_request`, `recieve_result` | Qt signals | bulk data has to be consecutive |
| analyser with a FIFO | `FEB/test3_fast_fifo_ila_gui.py` | state machine, FIFO of samples | trigger, capture, drain | registers and SPI share a chip select | triggered while it drains; a level that is clocks old |
| analyser with a memory | `test4_fpga_ila_to_gui_and_gtkwave.py` | state machine, memory | trigger, capture, read | the same | its simulation does not wait for the capture |
| FIFO behind registers | `SD/test2_uploadable_fifotests.py`, `fpga_io_sim.py` | FIFO, registers around it | `test_fifo` | register strobes | strobes come late, levels are old; more words than fit |
| FIFO in front of the SDRAM | `SD/test6_modified_ila_with_sdram_fifo.py:290-335` | a register in front of a FIFO | `r_en`, `w_en`, levels | two clock domains | it fetches by itself |
| SDRAM simulation model | `SD/test1_simulation.py` | bank states, timers, refresh count | activate, read, write, precharge, refresh | command bus | timing rules across commands |
| timers | `FEB/test1`, `test4` to `test7` | counters | delays, refresh requests, pulses | submodules, divided clocks | off by one |
| boot lines of the MCU | `C/upload.py:100-150` | `en`, `gpio0` | DTR, RTS, button | serial port of the host | two lines set one after the other; the output of `gpio0` is never enabled |
| PLL settings | `C/ECP5PLL.py`, `C/clks.py` | one dictionary | `compute_config` | called when a platform is built | quotients; every pair writes into the same dictionary |
| build tooling | `src/build.py` | what the host, the container, the FPGA and the MCU hold | `do_task` | processes | commands that fail without the words looked for; old outputs |
| shared declarations, generated files, copies | see section 11 | - | - | - | - |

What makes each part correct:

- link: each message written is read once, in order; a write returns only when
  the other end has its message; nothing written is stuck for ever once outages
  stop, unless an outage has met a task of the server asleep in `_send`, where it
  dies (`server.py:380`);
- framing: the lines read are lines that were written, whole;
- clocks: an end gives the other up only after an outage, and both do before they meet again;
- application: each request gets the responses to it, the last one marked as such;
- registers: a transfer reads and writes whole words of the register it names;
- analysers: the samples read are those of the latest trigger, in order;
- FIFOs: each word is taken once, in order, and nothing waits for ever;
- SDRAM model: it rejects what breaks a timing rule and returns what was asked for;
- timers: they fire after exactly the time asked for, at their limits too;
- boot lines: the MCU is reset when a tool or the button asks for it, once, and never otherwise;
- tooling: a task that says it is done has done it, but for failures of its own
  commands that do not print the words it looks for.

## 2. Modules

| modules | claim | checked by | proved |
|---|---|---|---|
| `MsgId` | identifiers and records never confuse consecutive messages | `uplink`, `downlink` | `MsgIdProofs` |
| `IotLink`, `IotLinkInv`, `ReliableLink` | the link implements two reliable one-way links | `uplink`, `downlink`, `duplex` | `IotLinkProofs` |
| `RequestResponse`, on top of `ReliableLink` | each request is answered, in order, with whole data | `requests` | `RequestResponseProofs` |
| `LineFraming` | lines survive chunks and outages, but for three cases | `tools` | `LinkLayersProofs` |
| `Keepalives` | timeouts fit each other | `tools` | `LinkLayersProofs` |
| `PowerCycles`, on `MsgId` | lives of the two ends are kept apart | `tools` | `LinkLayersProofs` |
| `SpiRegisters` | transfers are whole | `tools` | `ToolsProofs` |
| `IlaFifo`, `AsyncFifo` | captures are read, in order | `gateware` | `IlaFifoProofs` |
| `IlaMemory` | the same, for the analyser with a memory | `gateware` | `GatewareProofs` |
| `FifoRegisters`, `AsyncFifo` | a FIFO read and written through registers is one | `gateware` | `GatewareProofs` |
| `FifoBuffer` implements `WordFifo` | a register in front of a FIFO makes a FIFO | `gateware` | `GatewareProofs` |
| `SdramModel` | initialisation, banks, data read back | `sdram` | `SdramModelProofs` |
| `RefreshMonitor` | only whole refreshes count | `tools` | `ToolsProofs` |
| `FifoSim` | the simulation of the FIFO reads all it wrote | `tools` | `ToolsProofs` |
| `Delayer` | exact delays | `gateware` | `GatewareProofs` |
| `Timers` | three timers at their limits | `gateware` | `GatewareProofs` |
| `TimerTest` | a simulation across clock domains ends | `gateware` | `GatewareProofs` |
| `EspBoot` | the MCU is reset as often as it is asked to be, and runs its application | `tools` | `ToolsProofs` |
| `PllConfig` | dividers found fit each other | `tools` | `ToolsProofs` |
| `BuildTasks` | "done" means done, but for failures that are let pass | `tools` | `ToolsProofs` |

`IotLink` composes both ends of the link with `MsgId`; `RequestResponse` takes the
link as two instances of `ReliableLink`, which `IotLink` is shown to implement;
`IlaFifo` and `FifoRegisters` are built on `AsyncFifo`.  `LineFraming` and
`Keepalives` are the two layers `IotLink` abstracts from, what a line is and when
an end is taken for gone; `PowerCycles` is what follows when an end restarts.

`MCGateware` and `MCTools` each put several parts that have nothing to do with one
another into one run: a behaviour is a behaviour of one part (`part`), while the
others keep their initial state.  The states of the run are the sum, not the
product, of those of its parts, and each property is about one part.  `MCFair` is
the fairness of each part's own specification, for the part that runs.

### How the proofs are split

Each module of proofs is about one or a few of the modules above, and holds the
inductive invariant of each, the lemmas of its actions, and the theorems.  The
two that EXTEND a composition, `GatewareProofs` and `ToolsProofs`, end with a section
on the parts together: a step of the composition is a step of one part and leaves
the variables of the others as they are (`PartsStep`), so what is proved of each part
alone holds of all of them.  `GatewareProofs` takes the lemmas on shift registers and
on `AsyncFifo` from `IlaFifoProofs`, `ToolsProofs` what it says of lines, clocks and
restarts from `LinkLayersProofs`.

### Runs

| run | about |
|---|---|
| `uplink`, `downlink`, `duplex` | the link, section 3 |
| `first_message_twice`, `overflow_loses_acked` | findings 1 and 2 |
| `requests`, `skipped_request` | the applications, section 4; finding 3 |
| `chunks` | finding 4, section 5 |
| `sdram` | section 6 |
| `gateware` | sections 7 and 8 |
| `flush` | finding 5, section 7 |
| `tools` | sections 5, 6, 9, 10 |

## 3. The link

### Modules

- `MsgId` - `gmid` and `isnew`, over pairs of a record byte and a bit of it, the
  only way the code uses an identifier.  The code has `Half = 16`, `Bits = 8`;
  the runs use `Half = 1`, `Bits = 2`: four identifiers, two bytes in a record,
  so five messages already use an identifier for the second time, and each byte
  has been cleared by then.
- `IotLink` - both ends of the link and the connection between them.
- `ReliableLink` - what one direction promises.  It knows four things: what was
  written, what write has returned for, what has reached the other end, what was
  read.  `IotLink!UpImplements` and `IotLink!DnImplements` are its refinements.
- `IotLinkInv` - the inductive invariant; `MsgIdProofs`, `IotLinkProofs` - the
  proofs; `MCIotLink` - the module TLC runs.

### Correspondence

Each action is what one asyncio task does between two awaits.

| action | code |
|---|---|
| `CConnect`, `CRunFails` | `Client._run`: one turn of its loop up to the await of `_evfail`, and what follows |
| `CReaderFails`, `CSendFails` | the `except OSError` of `_reader`, `_write`, `_keepalive`, `_sendack` |
| `SGo`, `SGoGhost` | `run` accepts, `_readid` reads the name, `Connection.go` takes or refuses it |
| `SClose` | `_read` meets a timeout or the end of the stream, `Connection._close` |
| `CKeepalive`, `SKeepalive` | an empty line arrives |
| `SClientActive` | end of `_client_active` |
| `CWrite`, `CSend`, `CAwaitAck`, `CRepeat`, `CReturn` | `Client.write`, `_write`, `_do_qos` |
| `SWrite`, `SVwrite`, `SSend`, `SAwaitAck`, `SRepeat`, `SReturn` | `Connection.write`, `_vwrite`, `_waitack` |
| `SSendSleeps`, `SSendFails`, `SSendDies`, `SKeepaliveSent` | `Connection._send`, for the writer, `_keepalive` or a `_sendack` |
| `SReceive`, `SReceiveAck`, `SSendAck`, `SRead` | `_read` with `_process_str`, `_sendack`, one turn of `_readline` |
| `CReceive`, `CReceiveAck`, `CSendAck`, `CRead` | one turn of `_reader`, `_sendack`, `readline` |

The two byte streams are sequences of lines.  When an end leaves a connection
the other still uses, any suffix of what was under way may be lost, a prefix
arrives.  A connection the client gave up before the server looked at it stays
in the backlog as a ghost (`sGhost`), which the server will accept.  The number
`n` in a line is history: no guard reads it.  `sSeen`, `cSeen` (the last line
looked up in a record) are history too.

The server's three kinds of tasks that write share `_wlock` and may sleep while they
hold it, when the socket is full (`server.py:384`, `390`); `sTask` is the one that does.
The others wait, and the writer does so with what it has found out before (`"lock"`):
the connection and the pause may have changed when its turn comes.  One that
wakes may find a new connection, and goes on there; or none, and then
`self._sock.send` raises an `AttributeError`, which nobody catches: the task is
dead (`sDead`), only the lock is given back.  An ACK is lost by that, as by any
outage.  When it is `_keepalive`, the client no longer hears from a server that has
nothing to send, so its `_evok` stays clear and what it writes waits for ever.  When
it is the task that called `write`, its message is never sent again.

### Runs

| run | instance | shows |
|---|---|---|
| `uplink` | 5 messages up, 1 outage | `UpInOrder`, `UpAckedHeld`, `UpImplements`; with fairness `UpDelivered` |
| `downlink` | 5 messages down, 1 outage, queue of 2 | `IInv`, `DnInOrder`, `DnAckedSeen`, `DnImplements`, also when the queue overflows |
| `duplex` | 1 message each way, 1 outage, queue of 3 | `NothingBeforeAccepted`; with fairness `DnDelivered` |
| `first_message_twice` | 1 message up | `UpNoDuplicate` is violated: finding 1 |
| `overflow_loses_acked` | 2 messages down, queue of 1 | `DnAckedQueued` is violated: finding 2 |

Bounds.  `MaxUp`, `MaxDn`: messages written.  `MaxOutage`: failures of a
connection both ends use; a failure that follows from the other end having left
is free.  One outage already leads to several reconnections, refusals and
ghosts.  `MaxWire`: lines in a
socket before `send` blocks; a line taken in part counts as not taken
(`LineFraming` has the parts).  `MaxCopies`: a line
is not repeated while so many copies or acknowledgements are unread; one copy
unread and one under way is enough for an ACK that arrives after its write has
returned.  `QMax` is 20 in the code.  `DnDelivered` needs it to be large
enough: every repeat of the first message that meets a cleared record takes a
place (finding 1), so a small queue overflows, and a message that meets a full
queue is lost (finding 2).  The run of `DnDelivered` has a queue that its
bounds cannot fill.

Fairness (`Fairness`).  Weak fairness of each task's steps: both event loops run
each ready task in turn, and an `asyncio.Lock` is given to those who wait for it in
their order.  A sleep in `_send` ends (`SSendWakes`): the lines before are read, or the
connection is closed.  None of this is asked of a task that has died, whose steps
are not enabled.  Of the delivery of what a socket holds.  Of the
discovery that a peer has left: every read has a timeout, and keepalives stop.
Of the applications reading.  Nothing is assumed of outages, of new messages, or
of timeouts that are too early.

`UpDelivered` and `DnDelivered` are what the code can promise: each message is read
in the end, unless an outage has met a task in its sleep.  For what the MCU writes that
is `_keepalive` alone, and the death of the writer or of an ACK does not matter; for what the GUI
writes it is either of `_keepalive` and the writer.

### Findings

1. `server.py:257` (and `client.py:338`): identifier 0 is taken for a power
   cycle of the sender and clears the record, also when it is the first message
   sent again because its ACK was lost; the application is given it twice.
2. `client.py:343`: a full queue is found after the ACK task has been started and
   the identifier noted.  The message is lost while its sender is told that it
   arrived.

### Proofs

All are for every value of the constants that meet `HalfAssumption`,
`BitsAssumption` and `BoundsAssumption` (naturals, records of at least two
bytes, at least two identifiers per byte).

- `MsgIdProofs`: `isnew` and `gmid` keep the record's `Window`: no bit after the
  last identifier's, in its byte and the `Half` bytes after it.  Hence the next
  identifier is always new, and the last one never, unless it is zero.
- `TypeCorrect`, `InvariantHolds`: `IInv` (in `IotLinkInv`) is inductive.
  `UpInOrder` alone is not: it holds because nothing but the last message of a
  writer, and the one before it, is ever about.  `IInv` says so of every place a
  line can be in: the stream, the unread lines, the queue, the pending ACKs
  (`OutInv`, `HeldInv`, `BackInv`), that the identifiers of these two differ, and
  that each record is a `Window` of the last line looked up.
- `UplinkOrder`, `UplinkAcked`, `DownlinkOrder`, `DownlinkAcked`,
  `AcceptedFirst`: the invariants of the runs.
- `UplinkImplements`, `DownlinkImplements`: each step of `IotLink` is a step of
  `ReliableLink` or leaves its variables alone.

`IotLinkProofs` proves first what is true of one direction, over plain parameters,
so that up and down share the arguments, and then has one step per action.
Liveness under fairness is out of the prover's reach and only model-checked.

## 4. Requests and responses

### Modules and correspondence

`RequestResponse` models the two applications; `MCRequestResponse` is what TLC
runs.  Message `n` from the GUI is `clicks[n]`, message `n` from the
microcontroller is `results[n]`: the link itself is two instances of
`ReliableLink`, `Dn` and `Up`, whose actions are conjuncts of the actions here.

| action | code |
|---|---|
| `Click` | `handleButtonClicked`, `send_request` of the tabs, `connectionManager.send_cmd` |
| `GWrite`, `GRecord` | `connectionWorker.writer`, before and after the await of `conn.write` |
| `GRead` | `connectionWorker.reader` |
| `HBulk`, `HResponse`, `HResume` | `response_handler`: bulk data, another response, the end of the wait for a request |
| `Show` | the sender's `recieve_result`, in the Qt thread |
| `MReceive`, `MEnqueue` | `recv_from_server_to`: `readline`, `Queue.put` |
| `MTake`, `MPut` | `register_io` up to its first `put`; each `put` |
| `MWrite`, `MWritten` | `send_to_server_from`: `get` and `write`; `write` returns |
| `DnHold`, `UpHold` | the link |

`Inspect` is one turn of the loop in `response_handler`, `MatchWith` the whole
loop: what is kept, dropped and emitted by it is what most of the properties
are about.  `Assigned` is the aliasing in `register_io`: the dictionary in the
queue is the one the next response is written into.

### Runs

| run | instance | shows |
|---|---|---|
| `requests` | 3 clicks, two registers, queues of one place, tests of 2 groups | `BulkIsDue`, `BulkIsWhole`, `AnsweredInOrder`, `ReadsLatest`; with fairness `Answered` |
| `skipped_request` | 3 clicks, FIFO 1 | `NoResponseDropped` is violated: finding 3 |

Three clicks let a response arrive before its request is recorded while
another is in flight and a third is on its way.  Of the two registers the LEDs
are read, written and changed by `flash_leds`, the buttons of the board only
read: `ReadsLatest` tells a stale answer from a fresh one, and one register's
from the other's.  `CopiMax` is 10 in the code;
one place makes everyone upstream wait within three clicks.  `Groups = {2}`:
two groups are the fewest that can be out of order.

`CHECK_DEADLOCK FALSE`: the user may stop.  Fairness is `WF_vars(System)`: one
asyncio loop on each side, the Qt thread and the link do not all stand still
while one of them can go on.  So `Answered` is about links whose tasks have not died
(section 3).  The user is not part of `System`.

Two inputs are excluded from `requests`.  A `fifo_id` other than 0: finding 3.
A `test_size` of 0 (`Groups = {0}`): with no group between them "arriving" is
overwritten by "finished" in the queue, the GUI is given "finished" twice, and
the second stays in `unhandled` and answers a later request.

### Findings

3. `gui.py:133`: once a response answers a request, the responses behind it are
   neither compared nor kept, though line 141 says they are put back.  It takes
   a response left from an earlier round, which a skipped request (`main.py:80`)
   brings about.

### Proofs

`RequestResponseProofs`, for any number of clicks, any sizes of the queues and of
the tests, any set of values, and any link that keeps to `ReliableLink`.

- `Invariance`: `IInv` is inductive.  It follows every message from the click to
  the tab: which of the clicks are written, recorded, received, queued, taken and
  answered, in this order; that what the MCU has put and the GUI has not
  yet matched are responses to the requests still in flight, oldest first, each
  "arriving" before its groups and its "finished" behind them; and that what
  `response_handler` has put aside cannot be taken for the answer to a later
  request.  None of the four properties is inductive alone: each says what the last step
  of a request does, and depends on what everyone before it has queued.
- `AnswersInOrder`, `BulkOnlyWhenDue`, `WholeTests`, `ReadsAreLatest`: the
  invariants of the run.

The theorems have two hypotheses, for what the code gets wrong.  `OnlyFifo0`: no
test of another FIFO is clicked (finding 3).  `TestsFillQueue`: each test has at
least as many groups as the queue of results has places, so that "arriving" has left
the queue before its dictionary is written to again; with the queue's one place this
leaves out the test of size 0 only (see above).

Where an argument goes by induction, over the turns of the loop in
`response_handler` or over the results of a test, it is by the least number that
a claim would be false of: the induction theorems of the library take an
operator as a parameter, which the provers cannot instantiate.

### Abstractions

The user writes few values.  The FPGA is external here: it does what
`fpga_io.py` asks (`SpiRegisters` and `IlaFifo` are about that).  A `put` into a queue with room is a
step of its own.  The wait for the logic analyser is part of `MTake` (in `IlaFifo` it has its time).  The GUI
cannot send a command that `register_io` does not recognise.  Two `flash_leds`
queued at once would run back to back only if both lines had been read before
`register_io` woke; the GUI's wait for ACKs keeps them apart.

## 5. Below the link: lines and clocks

### Lines in the byte stream

`LineFraming` models `_send`, `_readline` and their locks at the microcontroller,
`_send`, `_read` and `_process_str` at the server, for lines that `IotLink` takes
to be whole.  A character knows the line it belongs to, its place and that
line's length; the code sees only newlines.  Three tasks send at either end.

| action | code |
|---|---|
| `Begin` | a task calls `_send` under the lock |
| `SendSome` | one turn of the loop in `_send`: the socket takes a part |
| `Cut`, `SSendFails` | the connection breaks; the server's `_send` finds out and closes |
| `Dies` | the server's `_send` wakes with `self._sock` being `None` (`server.py:380`) |
| `Reopen` | the client connects again; `istr` of the server is kept |
| `SRead`, `CRead` | a chunk is read and cut into lines |

Run `tools`, part `framing`: 2 lines each way, 3 bytes in a socket, 1 outage.
`WholeLines`: lines are received whole, each once and in order, but for three
cases, which are part of the property (`tidy`).  Up: a chunk that begins with
the newline of a line whose text came before (finding 4), or an outage in the
middle of a line.  Down: a `_send` of the server that sleeps through an outage
and sends the rest of its line on the next connection (`server.py:382`).  Each
of them alone breaks a line; the property says that nothing else does.

Proved (`LinkLayersProofs`, `LinesStayWhole`), for any number of lines, of characters
under way and of outages.  The invariant is about what flows in one direction, from
the part of a line that the reader has, through the stream, to the rest of the line
that the writer has (`Flow`): as long as the direction is tidy that is a text of
whole lines (`Text`: before each character are those before it in its line, and
before them a newline or nothing), their numbers ascend, and they come after all
that are received (`ComesAfter`).  Sending moves a part of the flow and leaves it as
it is; reading drops its front up to a newline (`TextDrops`), and what is cut out
of it there are whole lines (`CutIsLine`, `LinesAre`).  While there is no connection
only the rest of a line is known; it is the beginning of a text again if it is
the whole line (`UnsentFlows`), which is what `tidy` asks for.

Two lines are the fewest that can be glued together, three bytes make every
message take two sends.  All `_send`s of the client have failed before it
connects again: `client.py:315` sleeps for twice the timeout.  The name the
client sends first is not modelled here.

Run `chunks`, the same without an outage: `ChunksDoNotMatter` is violated.

4. `server.py:292`: every newline a chunk begins with is stripped, also the one
   that ends the partial line kept from the chunk before, whose text is then
   glued to the next line.

### Clocks

`Keepalives` is the one module with time.  A tick is half a second; what is under
way is known by its age, and neither end is ever later than the code makes it
(`OnSchedule`): the loop of the MCU is on time unless `flash_leds` holds it, the
server's and the network are late by `ServerLag` and `MaxDelay` at most.  The
radio fails and recovers at any time.

| action | code |
|---|---|
| `ClientWrites`, `ServerWrites` | a turn of `_keepalive`, or an ACK or result in its place |
| `ClientReads`, `ServerReads` | `_readline`, `_read`: what comes resets the timer |
| `ClientTimesOut`, `ServerTimesOut` | nothing heard for longer than the timeout (twice that for the first line, `client.py:321`) |
| `Leaves`, `ClientReturns` | `_run` after `_evfail`: WiFi is left, the sleep, and from the top |
| `FlashLeds` | `main.py:75`, which sleeps without awaiting |

Run `tools`, part `clocks`: the constants are the code's, in ticks, rounded to
the side that is worse for the link (a timeout of 6 s, keepalives after 1.5 s, 4 s of
flashing, 12 s away).  Counters stop when they are past every comparison, so the
state space is finite and nothing else is bounded.  `TimeoutsAreRight`: an end
gives the other up only after an outage, however long the LEDs flash, and when
the client returns the server has noticed that it had gone.

Proved (`LinkLayersProofs`, `TimeoutsFit`), for all times that meet `TimesFit`:
each end's longest silence, with the longest delay, is within the other's
timeout; and the server's timeout, or the two of its first line, with a delay, is over
before the client has slept and found the WiFi again.  The code's values meet it.
`KaInv` bounds the age of the last line that was written, is under way or was read
by the timers of both ends (`ServerHears`, `ClientHears`, with `Grace` for the
first line), unless there was an outage; and how far the server's timer is behind the
time the client has been away (`ServerForgets`).

### Restarts

`IotLink` and its proofs are about one life of each end.  `PowerCycles` takes the
messages of one direction, either one (`sender`), and lets both ends restart: the
identifiers of a sender begin at zero again, which clears the record of an end that
stayed up; the record of a receiver that restarted is empty.  A message is known by
the life of its sender and its number in that life, which the code does not see.

| action | code |
|---|---|
| `StartsWrite`, `SendsLine`, `Returns` | `write`, its line sent and sent again, and back once the ACK is in |
| `TakesAck`, `Arrives` | `_reader`, `_process_str`: the ACK of each line is a task of its own |
| `ReadsLine` | `Connection._readline`, when the application of the GUI asks; the MCU looks a line up as it arrives |
| `SendsAck` | `_sendack` |
| `LinkFails`, `Connects` | an outage noticed by both ends, and the next connection |
| `RestartsSender`, `RestartsReceiver` | `Client.__init__`, `Connection.__init__`: a new life, which ends the connection too |

Run `tools`, part `power`: identifiers of a record of two bytes with two bits each,
so that they go round within five messages; two restarts, one more outage, and at
most two lines and ACKs about at once.  `LivesAreApart`: a line is given to the
application just when its message is newer than any this life of the receiver has
had, or is the first of its life, whose identifier clears the record each time it
comes (finding 1); and `write` returns only when its message has arrived.

This holds until `stale`: an ACK that the GUI owes to a life of the MCU can outlive
it, when its task waits for `_wlock` behind a `_send` that sleeps (`server.py:315`,
`384-390`).  It then goes out on the next connection, and when the new life has the same
identifier pending, `write` returns for a message that may not have arrived.  If
that is the first one, the record is not cleared, and messages after it are taken
for duplicates.  Every other ACK dies with its connection, so `stale` never becomes true
when the MCU is the one that reads.  Each direction is modelled alone: they share the connection and
nothing of what a restart resets.

Proved (`LinkLayersProofs`, `LivesApart`), for any number of messages, restarts and
outages, any record, and either direction.  `Mids` are the identifiers that a
life of the sender gives its messages, one after the other; the identifier of message
`n` depends on `n` alone (`IdentifiersAgree`).  `LivesInv` says that, until `stale`, every line and
ACK that is about belongs to the last message or the one before it of the life
that is on (`WayIsOrdered`, `AcksAreOrdered`, `LinesFollow`), and that the record of
the receiver is a window behind the last line it looked up (`ReachedLately`).  `FirstIsNew`, `RepeatIsOld`
and `NextIsNew` are what `isnew` answers then.

What bounds the lines that are about is not the guard of `SendsLine` alone: a line that
arrives at the MCU becomes one to look up and an ACK.  `LivesRange` counts a line under way
twice, and this sum (`Weight`) never passes `2 * MaxAbout`; that at most one message is
pending at any time (`OnePending`) is also in it.

## 6. The SDRAM simulation model

`SdramModel` models the Python processes that stand for the chip when a
controller is simulated (`...IS42S16160G/test1_simulation.py`).  The controller
is the environment: it gives any command at any clock.

| action | code |
|---|---|
| `Clock` | the rising edge: command decoded, `ram_initialisation_monitor` runs |
| `Activate`, `StopIdle`, `StayIdle` | `bank_monitor`, state `IDLE` |
| `WaitOn`, `StopActivating`, `RowActivated` | its wait in `assert_idle_cmd_for`, a state of its own here |
| `Write`, `Read`, `StayActivated` | `ROW_ACTIVATED` |
| `ReadOn`, `ReadLast` | `READ` |
| `WriteOn`, `Precharged`, `WaitForPrecharge` | `WRITE` and its precharge |
| `Fall` | the falling edge: `propagate_i_dq_reads` |

The monitors of the banks run at each rising edge in any order (`pending`), since
the simulator fixes none; they share `reads_to_return`.  `due`, `overlap` and
`since` are history.

`sdram`: 2 banks, bursts of 4 words with latency 2 and of 2 with latency 3.  The
times are small but in the order the chip has them, with tRAS longer than
tRCD, a burst and tDAL together, so that it counts.  Nothing bounds the number
of commands: the state space is finite.  `CHECK_DEADLOCK FALSE`: an exception in
a monitor ends the simulation (`failed`).  It shows `ReadsAreReturned` (the bus
carries what was asked for, when it was), `NothingBeforeInit`, `WriteRecovers`,
`RowIsActive`.

Proved (`SdramModelProofs`), for any banks, rows, columns, times and bursts of
2, 4 or 8 words: `InitFirst`, `WriteRecovery`, `ActivationDelay`.  The code
counts clocks in each monitor, in variables it resets at different places; the
properties speak of clocks since an event (`since`).  `IInv` says that the two
agree, up to the one clock by which a monitor that has run at an edge is ahead
(`Counts`), and in which states they are meant to.

`BusCarriesReads` is `ReadsAreReturned`, for any of these.  Beside `IInv` it takes
`DataInv`: as long as no read has cut another's list, one bank at most is in a read, and
what it still has to schedule is what `due` holds behind the list, word by word, out
of what its row still holds (`Owes`).  A second read always finds a list that is too
long, so it sets `overlap`; and `overlap` ends only when both lists are empty, when no
bank reads.

What reading the code for this showed, and the model keeps:

- the mask `o_dqm` has no effect: `~` of a Python int is never false (lines 887, 915);
- a read in the middle of another bank's burst cuts the list of words, but the
  first bank goes on appending to it; `ReadsAreReturned` leaves this case out (`overlap`);
- an activation of a bank that is not idle is ignored;
- a bank that is read goes idle with no regard to tRAS, tRP or tRC;
- a burst of one word with auto precharge leaves the row active (line 861), so
  `ModeWords` has bursts of 2, 4 and 8;
- a word read twice, or never written, is an exception (`failed`).

Abstractions: a word is known by its place, so a word written again is the same;
`DESL` is `NOP`, and an illegal command does what `BST` does; the initialisation monitor runs with the clock; variables that are set again before
they are read are reset when a burst ends.

### Refreshes

`RefreshMonitor` is `refresh_monitor`, with any command at any clock
(`ChipClock`): a counter that loses one in a clock and gains by a refresh, and
the helper `assert_idle_cmd_for`, which is entered in the clock of the refresh
itself.  Run `tools`, part `monitor`: refreshes of 3 clocks that are worth 5, a
counter up to 15.  `OnlyWholeRefreshes`: the counter rises only when nothing
followed a refresh for its whole time.  `ToolsProofs` proves it
(`WholeRefreshesOnly`) for every length, gain and limit: `MonitorInv` says that
the helper has counted no more clocks than have passed since the last command,
which is the refresh.  `command` and `late` are history.

The monitor is lenient in one way the model keeps: while it waits after a refresh
for the next command, its counter stands still (`SD/test1_simulation.py:658`),
so a controller that refreshes once and then is silent is never told off.

### Words through the FIFO

`FifoSim` is `write_into_fifo` and `read_from_fifo`: a writer that stops when the
FIFO is full or its counter has run out, a reader at twice the rate that starts
13 us later and stops when there is nothing to read.  Between them is a
controller that is not in the repository (external): it has a word ready at any
clock it likes.  Part `sim` has the code's count and head start, and FIFOs of 100
and 1000 words, one filled and one not.  `AllReadInOrder`: each word is one more
than the one before, and the reader does not stop while the writer goes on.

Proved (`ToolsProofs`, `EveryWordIsRead`), for every count, size of the FIFO and pace of
the controller that meet `LongHeadStart`: the writer's counter runs out before the
head start is over, so the reader begins when nothing more is written.  `SimInv`: the
words in the FIFO are numbered from the one after the last read to the last written, and
the writer's count and the time passed go together.  The code's values (256 words,
520 clocks) meet it.

## 7. Analysers and FIFOs

Run `gateware`.  A step is a clock of the gateware, in which every register takes
what the others held before it, or a step of who drives it.  Depths, sizes and
times are the code's, so TLC walks through whole captures.

### Analyser with a FIFO

`IlaFifo` models `IntegratedLogicAnalyzer_with_FIFO` and the handler of
`test_fifo` at the MCU (`main.py:78-100`, `fpga_io.py`), down to the edges of
chip select.  `AsyncFifo` is Amaranth's buffered FIFO (external), with the clocks
its pointers take to cross, as the netlists beside the sources have them.

| action | code |
|---|---|
| `Idle`, `Capture`, `Readable` | the three states of the FSM, in `Clock` with the FIFO and the serial interface |
| `StartWrite`, `Trigger`, `EndWrite` | the handler writes the register that triggers |
| `StartPoll`, `Poll`, `EndPoll` | it polls, without awaiting, until complete is set |
| `ReadWord`, `EndRead` | `read_fifo` |
| `StartRegister`, `EndRegister` | any other access to a register, which selects the analyser anew when it ends |

Part `analyser`: three tests of 100 samples with any other accesses in between.
`InOrder` (in `CapturesAreRead`): what is read are the samples of this trigger,
from the first, in order; the first comes twice when the capture was still on as
the registers were let go.  `TestEnds`: the polling comes to an end.  `Gap`, the
clocks between two edges, is half a cycle of SPI.  Fairness: the clock runs, and
a handler that was started goes on.

Proved (`IlaFifoProofs`, `WordsInOrder`): `InOrder`, for every depth of a capture, size
of the FIFO, number of tests and distance of the edges, from three hypotheses on the
constants, which the code's values (100, 128, words numbered to 127, 12) meet:

- `Fits`: the FIFO has room for a capture, and the number of a word does not wrap within
  a capture.  Neither can be dropped: with a FIFO one place smaller, or a capture of
  127 samples, TLC finds words that are missing or out of order.  A capture has at least
  six samples, so that the level seen by the reader has caught up when it is over.
- `WholeTests`: a test reads as many words as a capture has (finding 5 is what follows when
  it reads fewer).
- `LongGap`: two edges are seven clocks apart, so that the synchronisers and the FIFO
  have settled before the next one.

`InOrder` is about the words the handler has, so `IlaInv` follows a capture from the trigger
to them.  `IlaStage` says for each stage of the handler where the analyser and the FIFO
are: `Quiet`, when nothing is stored or under way; `Filling`, which gives the state of the
machine, the words stored and every register of the pointers that cross the clocks as a
function of the clocks since the trigger (`age`); `Full`, with the first word on offer;
`Still` and `Taking`, between two words and in the clocks after the edge that takes one,
known by the clocks since the edge (`gap`).  `WordOf` is what word `j` of a test has to be,
which depends on whether the capture was still on as the registers were let go, for then the
first word comes twice (`ReadSince`).  `Numbered` ties the number that the
gateware sends with a word to the words taken.

Run `flush`: with tests of 60 and 100 samples `TriggerStarts` is violated.

5. `FEB/test3_fast_fifo_ila_gui.py:254`: in `READABLE` the trigger is not looked
   at, and only `IDLE` empties the FIFO.  After a test that read fewer words than
   a capture has, the next trigger is lost, complete is still set, and the test
   reads what the first left.

### Analyser with a memory

`IlaMemory` has the state machine without a FIFO and `spi_tests`, the process that
simulates it.  That process does not wait for the capture: it relies on a
transfer, or rather the 200 clocks of its command, after which the register interface
takes over the word it sends, being longer than a capture of 100.  `CaptureIsRead` (in
`CapturesAreRead`) holds for these, and with a `CommandClocks` of 20 it does not.

Proved (`GatewareProofs`, `WholeCaptures`): `CaptureIsRead` for every depth of the
memory, from `LongCommand`, that the command of a transfer lasts longer than a capture, and
`ClearEdges`, that two edges are two clocks apart; the registers that number the
words need these two.  The invariant `MemoryInv` follows one round: a capture fills the
memory one place a clock and is over before the command that asks for it
(`InTime`); the LEDs have counted all captures but the one that is not over
(`Counted`); and while words are read, the number of the next word runs ahead of the
word that is sent by the two clocks its registers take (`WordAt`).

Both analysers together are `CapturesAreRead`, which `CapturesRead` states of the whole of
`MCGateware`; `GatewareTypes` is its type invariant, from the same hypotheses and `TwoNumbers`
(words of the memory have two numbers at least).  That one is more than types: the FIFO of
the analyser holds no more than a capture and a word (`TypesFollow`), and the number of
the word that the memory gives out stays among those it has (`MemoryRange`).

### FIFO behind registers

`FifoRegisters`: a FIFO of 32 words, pushed and popped five clocks after the strobe
of a register, with ready, level and data registered once more, and the test
that writes and reads it.  Part `fifo`: tests of 10, 40 and 5 words, the second of
which does not fit.  `FifoReadsBack`: each word comes back once and in order,
also those an aborted test left behind; a test that ends has read all there
were; and each test ends, the one that does not fit by its timeout.  Fairness:
the clock, the test, and time.

Proved (`GatewareProofs`, `ReadsBackInOrder`): `ReadsInOrder` and `EndsWithAll`, the two
parts of `FifoReadsBack` that are safety, for every size of the FIFO and of the tests,
from `LongApart`, that 12 clocks lie between two transfers.  One strobe at a time goes
through the registers (`Strobes`), and how far it is follows from the clocks since
the transfer, `apart`: at 6 it is at the FIFO, at 9 a word that fell into an empty
one is given out, at 12 the registers show it (`Arrival`).  So the words inside, the one given
out and the one on its way make up what was written and not yet read
(`HeldInOrder`), at every clock, and a full FIFO is not written into, for room
that was seen does not go away but by a write.

### FIFO in front of the SDRAM

`FifoBuffer` models `AsyncFIFOBuffered_SDRAMtest`: a register in front of a FIFO of
the SDRAM controller.  `ReadClock` is a clock of the reader, `WriteWordIn` one of the
writer; `ShowWord` is the controller (external), which shows a word after a time of
its own.  `WordFifo` is what a FIFO promises.  Part `buffer`: two words, a
controller of three places.  `BufferImplements`: it is a FIFO of one word more, and
`r_level` never promises a word that is not there; `WordsAreOffered`, with
fairness of the controller and of the reader's clock but not of the reader: a
word is offered before anybody asks.

Proved (`GatewareProofs`), for every size and every set of words: `BufferTypes`
and `BufferIsFifo`.  Every step of the buffer is one of `WordFifo` or leaves its
variables alone; `InFront` and `HeadThenTail` say what a word in front of a
sequence does to it.

## 8. Timers

Run `gateware`.

### Delayer

`Delayer` models the timer of `tests2_feb2022/test7_...restructured.py` with the
`Testbench` that waits for it.  A step is a clock: every register takes what the
others held before it.  `Initial`, `Start` and `Done` are the states of
`testbench_fsm`, `Reset` the reset button.  `tb`, `ui` and `own` are the records
between the state that waits and the counter; `inactive`, which nothing reads,
is left out of them.

Part `delayer` runs every delay from 1 to 32 clocks (`MaxLoad = 24`): up to 8 the
shift register is used, from 9 the counter, with loads from 1 to 24.  It shows
`OnTime` and, with weak fairness of `Start` (the clock goes on), `Ends`.

Proved (`GatewareProofs`), for a counter of any width: `DelayerTypes`, and `Exact`,
that the state that waits lasts `clks - 1` clocks (one, for `clks = 1`).  `Way(t)`
says where the load, the count and the pulse are `t` clocks into the wait.

The formal test at line 246 asserts that the timer is done when `expected_clks`
clocks have passed; it is done at `clks - 2`, which makes the state that waits
last `clks - 1`, and the simulation, which counts its last clock twice, print
`clks`.  For more than 8 clocks the test's own assumption at line 244 (no load
while inactive) rules out every behaviour.  A state that waits a second time
without a reset waits for ever: `delay_fsm` stays in `DONE`, the shift register
stays empty.

### Three timers

`Timers` holds the timers of `FEB/test4`, `test5_..._2` and `test6_..._timer.py`, each a
part of the run.  `Clocky` (part `clocky`) with the code's 7 bits and top of 100, any
load and any reset: the asserts of its test are operators with the test's names.
`RefreshTimer` (part `refresh`), with `wait` set or not in each clock.  The
`Testbench` of `test6` (part `twice`): two waits in a row on one counter, each with
a `delay_fsm` of its own.

`AtTheirLimits`: the counter never passes its top, whatever it was loaded with,
and the asserts hold in every clock but the first (Amaranth's `Past` starts at
0, so in the first clock there is no past to speak of); the refresh timer pulses
just at the end of its period.  `WaitsInTurn`: each of two waits lasts its time
and four clocks, and both end (fairness: the clock).

Proved (`GatewareProofs`), for every top, width, period and delay:
`CountersAtTheirLimits`, and `TwoWaitsOnTime`, the safety half of `WaitsInTurn`.
`RefreshInv` is that what is left of a period and what has gone by make it up;
`Waiting(own, n)` says where the load, the count and the pulse are at each clock.

The other two tests of `test5` are a cover, and one that asks for a `done` of 5,
which a bit cannot be.

### A timer in a slow clock domain

`TimerTest` is the simulation of `FEB/test1_amlib_timers.py`: a domain whose clock is
divided (`add_clock`), the registers before and behind a timer of amlib
(external), and the process that starts it, waits for done and resets the
domain.  Part `timer`: the code's divisor, load and delays, three rounds.
`TimerTestEnds`: the process, which "often will hang if the design is broken",
ends, and each round takes the same time.  The register that resets the domain is
itself in it, so held at 1 it is 1 in every other clock (`NextRst`).

Proved (`GatewareProofs`, `RoundsAreAsLong`): the second half, for every divisor, load, delay
and number of rounds.  `RoundAt(t)` says where the start, the timer and its done are `t`
slow clocks after the strobe; `ProcStage`, that the strobe finds the timer loaded and nothing
under way, which the one slow clock of reset in each round leaves behind.  That the rounds
end is liveness.

## 9. Registers over SPI

`SpiRegisters` follows a transfer of `reg_io` bit by bit: the pins, two
synchronisers, the register interface of amlib (external; its state machine is in
the netlist of `test6`), and the output that `route_spi_signals` gives back one
cycle of sclk later.  `SpiClock` is a clock of the gateware; `reg_io`, `SclkFalls`,
`SclkRises`, `reg_io_ends` are changes of the pins, `HalfClocks` clocks apart.

Run `tools`, part `spi`: commands of 8 bits, words of 16, two registers, 1 and
65535 to write, 12 clocks in half a cycle (1 MHz).  Transfers
follow each other without end.  `TransfersWhole`: a read returns what the register
holds, not off by a bit, and a write changes that register and no other.
At 4 MHz half a cycle has three clocks, which are too few for the synchronisers.

Proved (`ToolsProofs`, `WholeTransfers`), for all numbers of bits of a command and of a
word, all registers and all words, if half a cycle has at least five clocks
(`LongHalf`; with four TLC finds a word off by a bit).  A word is in the model
the sequence of its bits, so nothing has to be said about powers of two.
`SpiInv` says where everything is as a function of three things: the state of `reg_io`,
the bit it is at, and the clocks since the pins changed.  `PinsPass`: which
synchroniser has the new pins and which the ones before; from this follows
(`Signals`) that the device sees an edge in exactly one clock.  `DevicePhase`: the state of the device
and its counter are fixed by how many bits it has seen (`Seen`) and, when the
command is complete, by the clocks since sclk fell (`Turning`), which go on into the
other half of the cycle when it is short.  `CommandHas`, `WordHas`, `SdoHas`,
`LastHas`, `CipoHas`, `GotHas`: each place on the way holds the bits of the frame
or of the answer that its turn is; `RegistersHave`: the registers are those of before
until the last bit has been shifted in, and those expected after it.  A clock and each
change of the pins keep these one by one (`PhaseStep`, `WordTurns`, `OutputStep`, ...).

## 10. Around the gateware

Run `tools`.

- `EspBoot`: `UploadBase` drives `en` and `gpio0` of the MCU from DTR and RTS.  The
  MCU and the tools on the host are external: the tools set the two lines one
  after the other, in the orders esptool, a hard reset, and the opening and
  closing of a port have.  Part `boot`: lines set together arrive up to two clocks
  apart, a reset takes five.  `gpio0` is declared without a direction
  (`upload.py:34`) and its output is never enabled, so its register reaches no pin:
  the pull-up holds it high, and what esptool sets to enter the loader ends in the
  application as well.  What is left to be right is `en`.  `StartsAsAsked`: when all is
  at rest the MCU runs its application, and since the last tool or press of the button
  it has started once if that was to reset it (a hard reset, the way into the loader,
  the button) and not at all if it was not (a port opened or closed): the lines in
  between neither reset it nor do it twice.  Proved (`ResetsAsAsked`) for all times of
  `EspBootAssumption`, which is that the delay between two lines is shorter, by two
  clocks, than a reset and than the rise of `en`.  `BootInv` says for each stage of a tool
  (`Started`, `Falling`, `Between`, `Loading`, `Blip`, `Rising`, `Resting`) how long `en`
  has been low or high, and how often the MCU has started by then.
- `PllConfig`: `register_clkin`, `create_clkout` and the search of `compute_config`,
  one pair of dividers a step.  Part `pll`: inputs of 5 and 25 MHz, the first out of
  range, one or two outputs of 25, 143, 100 and 500 MHz, the last out of range,
  dividers to 128.  `LockFits`: the dictionary that is returned, which every pair
  tried before has written to, holds the dividers of the last pair, and each clock
  is within 1 %.  (143 MHz beside 25 gets 425 / 3 = 141.67 MHz.)
  Proved (`DividersFit`) for every input, output and range of dividers.  `PllInv`: once
  the search has locked, the pair that was found is the pair last tried, its VCO is in
  range, and the divider kept of each output is one that fits that pair.  Phases and the
  primitive are left out; quotients are compared by multiplying.
- `BuildTasks`: the tasks of `src/build.py`, each a sequence of commands (`Commands`)
  with the assertions behind them, and what the host, the container, the FPGA
  and the MCU then hold, known by the version of the sources it is made of.  Any
  command may fail, the user edits and switches the board off at any time (one
  edit; the rest is finite).  Not every failure is noticed: the assertions look for words.
  A `SyntaxError` in the file that is started prints none of them (`build.py:152-153`,
  `180-181`), and for a build neither does a file that is missing; `generate` looks for nothing; the copies to
  the MCU are taken for done as soon as they have begun (`build.py:460`).  Such a
  failure sets `unnoticed`, which is history.  `DoneIsDone`: a task that says it is
  done has uploaded the sources that were sent, simulated them, generated from them
  or copied them, whatever failed in earlier tasks, unless one of its own commands
  failed and was let pass; a reflash has no such exception; and even an upload with one leaves
  in the FPGA the bitstream the host then has, so the two agree, though it may be an
  older one.  Proved (`DoneMeansDone`) for any number of edits: `BuildInv` says, for
  each task, what has been made of which version by the commands behind it.

`CHECK_DEADLOCK FALSE` in `tools`: a search that has found its dividers, a
simulation that has ended, and an alarm of the monitor stop.

Proved (`ToolsProofs`, `ToolsTypes`): the type invariant of all parts together, `ToolsTypeOK`,
for every value of the constants that meets `LongHalf`, `LongHeadStart` and `TimesFit`.

## 11. What the models leave out

Of the link and the applications:

- Restarts of an end, in `IotLink` and its proofs; `PowerCycles` has them, without the
  overflow of the queue and the pauses of the writers.
- Start-up failures (`bad_wifi`, `bad_server`).  The watchdog, which is off
  (`wdog=False`).
- A failure to send the name is `CConnect`, `CSendFails`, `CRunFails`.
- Several `_client_active` tasks count as one: they only end the pause.
- Each application writes one message at a time and awaits its ACK, as
  `main.py:162` and `gui.py:69` do.
- The start of the GUI: `send_cmd` uses the application of another thread before it
  exists, and `put_nowait` on an `asyncio.Queue` from the Qt thread (`gui.py:167`)
  need not wake the loop before the next click.  The drawing of widgets and the
  writing of wave files.
- `MicroPython` cuts a `write_value` of more than 16 bits; the models write values
  that fit.

Of the gateware:

- The SDRAM controller is not in the repository.  `SD/test6_modified_ila_with_sdram_fifo.py`
  cannot be elaborated (`init_sdram` uses `m` before it is assigned), so of its
  design only `AsyncFIFOBuffered_SDRAMtest` and `route_spi_signals` are modelled.
- In `test3_fast_fifo_ila_gui.py:428-434` and `test4_fpga_ila_to_gui_and_gtkwave.py:67-74`
  the registers drive the signals of a FIFO without the delay of
  `test2_uploadable_fifotests.py`, so the word pushed is the one written before;
  no test uses it.
- The analyser's counter that is reset on complete (`test4_...:145-147`): the reset
  never takes effect, for the assignment after it wins; the counter is only
  something to sample.
- The formal asserts of `test7` at lines 231-249 (see section 8) and its covers.

Not modelled at all:

- Shared declarations (`test_common`): constants.  Board resources and platforms: tables.
- Copies.  `src/tests1_jan2022` holds earlier copies of the gateware, file by file
  nearly identical; `src/amtest_build/build.py` is a copy of `src/build.py`;
  `SD/test5_modified_ila_with_fifo_backend.py`, `test3_from_luna_ila.py` (the analyser of
  LUNA with nothing around it), the analysers in `test6_modified_...`, and the boot lines in
  the older SPI tests repeat what is modelled where it is used.  They are about a third
  of the lines, and modelling them again would say nothing more.
- `FEB/test2_timer_test.py`, which cannot run: it names what its class does not have.
- `.vcd`, `.json`, `.il`, `.v`, `.config`: generated.

What is proved, for every value of the constants that meets the hypotheses named with
each theorem, are the safety properties of all modules: every invariant of the runs, the
type invariants among them, every action property, the three refinements, and the safety
halves of `FifoReadsBack`, `WaitsInTurn` and `TimerTestEnds`.  Only model-checked, within the
bounds above, is liveness: `UpDelivered`, `DnDelivered`, `Answered`, `Ends`, `TestEnds`,
`WordsAreOffered`, and that the tests of `FifoReadsBack`, both waits of `WaitsInTurn` and the
simulation of `TimerTestEnds` end.  It rests on fairness, which the prover cannot use.
