# Dash7 on the SX1231: a TLA+ model

This directory specifies the DASH7 stack of the repository (the code under
`src/src`, `src/include` and `src/waded_sx1231`, some two thousand lines of C
that run on the ChibiOS kernel) in TLA+, checks it with TLC on small instances
and proves theorems about it with TLAPS. `PROJECT.json` lists the runs, the
mutations that show each property can fail, the source lines of every
definition, the hazards and the findings.

## 1. The system

| Part | Source | State it keeps | Operations |
|---|---|---|---|
| Physical layer | `src/src/dash7/phy.c` | `phy_frame_buf`, `phy_frame_pos`, `phy_frame_filled`, `proc_event`, `phy_conf`, `phy_proc_mtx` | start/finish a procedure, configure, add frames, send a packet, receive a packet, get a frame |
| Data link layer | `src/src/dash7/data.c`, `data.h` | `data_conf`, `data_proc_conf` | CSMA and guard time, send, listen, dialogue, answer time, subnet filter, UID fields |
| Background frames | `src/src/dash7/bg_frame.c` | none of its own; changes `data_proc_conf` | advertise (`advp_send`), scan (`advp_scan`), reserve (`rsvp`) |
| Foreground frames | `src/src/dash7/fg_frame.c` | the caller's frame | build and read header, addresses, payload |
| Time units | `src/include/dash7/conf.h`, `src/src/sleep_until.c`, `chvt.h` | the 32-bit tick counter | conversions, sleep until a deadline |
| Random delay | `src/include/random.h` | the seed | `rand_init`, `random` |
| DIO lines | `src/src/dio.c`, `src/include/dio.h` | event sources, listeners, DIO mapping registers | ISR callbacks, wait for a line with and without timeout, wait for a message |
| Transceiver | `src/src/sx1231.c` | `last_mode`; registers, mode and FIFO of the chip | SPI transactions, mode changes, FIFO draining, the older `send_packet`/`receive_packet` |
| Whitening, CRC | `src/src/pn9.c`, `src/src/crc16.c` | shift registers | `pn9_calc`, `crc16_calc` |
| FRAM | `src/waded_sx1231/fram.c` | write-enable latch of the chip, `sleep_mode` | read, write, sleep, wake up |
| Kernel primitives | `src/ChibiOS/os/kernel/src/chmtx.c`, `chevents.c` | mutexes, event masks | lock, unlock with priority inheritance, broadcast, wait |
| USB, LED, board, boot | `waded_usb.c`, `led.c`, `board.c`, `dash7.c` | driver state | pure input/output |

The layers call downwards: background frames and the application call the data
link layer, which calls the physical layer, which drives the transceiver over
SPI and waits for its DIO lines; interrupts signal edges of those lines as
ChibiOS events. Nothing calls upwards. The state shared between threads is the
frame buffer and the two configuration records, guarded by `phy_proc_mtx`
between `phy_proc_start` and `phy_proc_finish`, and the SPI buses, each guarded
by the mutex of its driver for one transaction at a time.

What is hard about it:

* procedures of several threads interleave, and `phy_proc_start` touches shared
  state before it owns it;
* the buffer is one array for sending and receiving, and three counters say
  what it holds: errors in the middle of a packet, full buffers and busy
  channels leave them in states nobody wrote a test for;
* all timing is unsigned 32-bit (time) and 16-bit (DASH7 ticks) arithmetic, with
  subtractions of deadlines that may already have passed;
* the code waits for edges of lines whose meaning it changes at run time, and
  the events reach only the thread that registered for them;
* a write to the FRAM takes two bus transactions, each locked on its own.

What makes each part correct, in a sentence; the properties below say it in TLA+:

* physical layer: a packet carries the frames its procedure added, all of them,
  in order and nothing else; a caller gets the intact frames of the last packet;
* transceiver: the FIFO neither overruns nor keeps bytes from one operation to
  the next, the chip rests in standby, and every wait ends;
* background frames: the foreground packet starts when the advertisements said,
  and a node that heard one is listening then;
* FRAM: a call takes effect once, and a write that returned is in the memory;
* data link and time: no deadline is missed, or slept past, because a difference
  of times wrapped;
* frame formats, whitening, CRC: what is written into a frame is read back.

## 2. The modules

| Module | What it is |
|---|---|
| `PhyProc` | procedures of several threads on the buffer of `phy.c` |
| `PacketService` | what those procedures promise a sender; `PhyProc` implements it |
| `MCPhyProc` | the symmetry sets of the `PhyProc` runs |
| `PhyProcProofs` | theorems about `PhyProc` |
| `Fram` | the FRAM driver and its chip, called by several threads |
| `FramStore` | the memory the driver promises; `Fram` implements it |
| `FramProofs` | theorems about `Fram` |
| `Radio` | chip modes, FIFO and DIO lines under the sending, the reception and the channel assessments of `phy.c`, `data.c` and `sx1231.c` |
| `RadioProofs` | theorems about `Radio` |
| `Advp` | an advertising and a scanning node and their clock (`bg_frame.c`) |
| `AdvpProofs` | theorems about `Advp` |
| `DioWait` | how a thread waits for the lines: edges, interrupts, events, timers (`dio.c`, `dio.h`, `chevents.c`) |
| `DioWaitProofs` | theorems about `DioWait` |
| `TimeUnits` | the conversions between ticks, milliseconds and DASH7 ticks, with their widths |
| `DataSend` | `data_send_packet` on one node: CSMA, guard break, `Tca` |
| `Dialogue` | nodes that send, listen and answer: `DataSend` on each, with `data_dialogue` and `data_answer_time` |
| `MCDialogue` | the values the random generator really returns, for the run |
| `DialogueProofs` | theorems about `DataSend` and `Dialogue`, and lemmas about rounding, range and wrapping in `TimeUnits` |
| `Deadlines` | `sleepUntil` and `rsvp` against a clock that wraps |
| `DeadlinesProofs` | theorems about `Deadlines`, with the lemmas about wrapping it needs |
| `Frames` | the bytes of a packet, from the caller's frame on one node to the caller's frame on the other |
| `FramesProofs` | theorems about `Frames` |

They compose like this: `Dialogue` extends `DataSend`, which extends
`TimeUnits`, and `Deadlines` extends `TimeUnits`; `PhyProc` and `Fram` instantiate
the abstract `PacketService` and `FramStore` under a refinement mapping. What one
model takes as given another one checks: the waits that `Radio` polls are those
of `DioWait`, the channel assessments that `DataSend` leaves open are read in
`Radio`, the frames of `PhyProc` have their bytes in `Frames`, the procedure that
`Dialogue` gives up and takes again is that of `PhyProc`, and the delays of
`Advp`'s sendings are those of `DataSend`.

Variables that stand for program variables have their names (`proc_event`,
`phy_frame_pos`, `sleep_mode`). Variables marked "history" in the declarations
exist for the properties. Only one of them is read by guards, `added` of `PhyProc`,
and there it is what the caller has done so far: it sends when it has added
something. Operators named `Mut...` are
mutations of the operator they precede, used by nothing in the model.

### PhyProc

A thread is at one place (`pc`): outside, about to lock (`phy_proc_start` has
written `proc_event`), blocked, holding the mutex before the resets, in its
procedure, transmitting, receiving. `StartWrite` is `phy_proc_start` up to the
lock, which is where other threads can be harmed; `StartLock`, `StartReset` and `Finish`
are the rest, with the hand-over of `chMtxUnlock`. Inside a procedure there is
an action for `phy_config`, for each outcome of `phy_add_frame`, for the start,
each frame and the end of `phy_send_packet`, for a busy channel, for each way a
reception goes on or ends, and for each outcome of `phy_get_frame`.
`proc_event_handler` is part of the action that calls it. A row of the buffer
keeps its frame, its class, one bit for whitening, and who wrote it.

Callers are free: they may change the class at any point of a procedure, as
`advp_send` (lines 84 and 109 of `bg_frame.c`) and `rsvp` do with a refused frame
still in the buffer; they may add and send in pieces, and fetch frames after a
reception that failed as after one that did not. So are the peers: a packet may break
off in any row, and the last row may announce another frame, which the loop leaves with
`fi = N_FRAMES`. One thing is assumed: a caller sends only when it has added
something. `phy_conf.fec` and `PHY_SIZE_PROBLEM` are left out, since callers leave
`fec` at 0.

### Fram

A call of the driver is a thread that goes through its transactions: `WREN` and
`WRITE` for `fram_write`, `READ`, `SLEEP`. A transaction waits for the bus
(`Acquire` is `start_spi` up to the chip select), wakes the chip if `sleep_mode`
says so, transfers (`Send...`) and releases. `wel` and `power` are in the chip.
`fram_sleep` reads `sleep_mode` when it is called, before it has the bus. What
SLEEP does to the latch is not known, so both outcomes are possible.
`FramStore` says what this amounts to: each call takes effect at one moment, but
a write may be lost if the write or sleep of another thread took effect while it
was being made.

### Radio

Bytes are counted by origin: `air` bytes were received, `own` bytes belong to
the packet. `SetMode` is `sx_mode`; `DIO0` to `DIO4` give the levels a line can
have under the mapping last written; `Channel`, `Ready`, `AirByte` and `Shift`
are the world and the chip. The rest are the pieces of `phy_send_packet`,
`phy_receive_packet`, `data_listen`, `data_guard_break` and `empty_fifo` between
two waits. The chip itself is not in the repository. It is taken from its use:
the FIFO survives STDBY to TX and RX to STDBY, and may or may not survive other
mode changes. One assumption is about time: the next piece of a packet is
written before the FIFO runs dry.

### Advp

`clock` counts ticks and does not wrap; the sender reads it as `Now`, which stands
anywhere in its turn when the model starts (`Bases`). Its loop compares `Now` and
`end` as they are, so a counter that wraps before the end skips the loop, and one
that wraps under the last frame goes on with it. `due` is the end on the clock that
does not wrap; `due` and `called` are history. The scanner takes only differences of
times, so its own clock may stand anywhere. Whatever takes time (a transmission, a
configuration, the CSMA delay with the 10 ms of the receiver, turning the receiver
on) ends at a moment chosen when it starts, and `Tick` does not pass a moment at
which something is due. The sender follows `advp_send` statement by statement,
including the dropped errors; the scanner follows `advp_scan`. `SleepTime` and
`Ticks` wrap as the C expressions do, in arithmetic modulo `Modulus`, and the
conversions are those of `TimeUnits`, truncation included. `WindowsAssumption` says
what the constants of the protocol are for; it is what `Rendezvous` rests on.

### DioWait

`level` are the lines, `exti` the edges whose interrupt has not been served,
`epending` the `p_epending` of each thread. `Isr` is a `dioncb`: it sets the event
and makes the listener ready if it sleeps for it. A wait is a few places: `loop`
computes what is left, `sleep` has just looked at the line and is about to call
the kernel, `asleep`, `awake` (made ready, not running yet), `check`. An edge can
come between any two of them. `Sleep` is the part of `chEvtWait...` that runs with
interrupts locked; `Tick` is `chVTDoTickI` with the expiry of the timers. The
listeners have one `owner`, the thread that called `dio_init`; a thread that is
not the owner gets no events. `due` counts, apart from the program's arithmetic,
the ticks that are left to the caller.

### TimeUnits, DataSend, Dialogue

`clock` does not wrap, `Now` is what the code reads, and all differences are taken
modulo `Modulus`. Time goes in leaps to the next moment at which a node goes on
(`Elapse`), so that the durations can be those of the code: sleeps of hundreds of
ticks cost no more states than sleeps of two. `Sleeps` ends up to `MaxLate` ticks
late. `SendLoop` is one turn of the loop of `data_send_packet`; the loop that spins
when nothing is left for a delay (`Spins`) goes on when `Tca` is over. After the
guard break `phy_send_packet(0, TRUE)` turns the receiver on, and `sx_mode(RX)`
sleeps 10 ms for that before the channel is assessed: `ReceiverOn`, and then
`Assess`. The sends of `data_send_packet_protected` do not assess and do not sleep.
A node that divides by zero, or sleeps `MS2ST(0)`, is put into `hung`.

`Dialogue` follows `tests/data_test/main.c`: the starter sends and calls
`data_dialogue` (`Leave`, `Reenter`, `Listen`), the others receive and answer after
`data_answer_time` (`AnswerTime`). The test answers with
`data_send_packet_protected`; the comment in `data.h` says `data_send_packet`, so an
answer may be sent either way. Then the roles turn. The starter configures in each
turn of its loop, which restarts the generator; the others were configured once, before
the loop (line 61), and again only in `data_dialogue`.

Who listens calls `sx_mode(RX)` too: the receiver is on while it sleeps (`first`,
`again`), and the listening time begins after the sleep (`Ready`). On the air, a
packet is heard by whose receiver is on when it starts, and two that overlap are
lost; a packet that is over before the sleep is reported when the sleep is
(`BackAt`, and `heard.back`), so the answerer counts its time from there.
`WindowAssumption` says what the times of the protocol have to cover: `Tfsd` the
early wake-up and the lateness of the two nodes, `Tc` the early wake-up and the
turning on of the receiver, and a packet four late wake-ups. One run of the loop is
modelled: a node that has had no answer, or has sent and heard `MaxPackets` in all,
rests. So a node in `REPLY_MODE` does not come round to line 108 again with the
generator where `data_dialogue` left it. `random()` in the condition of that loop
draws from the copy of the generator that `random.h` gives to `main.c`, not from
that of `data.c`. `Works` and `Holds` are what a caller does between two calls, and
how long `phy_proc_start` makes it wait for the procedure of another thread.

### Deadlines

Two loops of one thread. `Work` and `SleepUntil` alternate; `due` is the end of the
period on the clock that does not wrap. `Configure`, `Flood` and `Return` are `rsvp`.

### Frames

One packet, as a sequence of bytes. The caller builds frames with the functions
of `fg_frame.c` (one action each), with those of `bg_frame.h`, or byte by byte as
the tests do; `AddFrame` writes the row and its CRC-16 into the array that
`phy_frame_buf` is; `SendPacket` whitens the rows with PN9 and puts them end to
end; at most one byte is damaged; `ReadFrame` and `GetFrame` are the other node.
CRC and PN9 are computed as in the source, so the wrap of a length byte, a CRC
that lands in the next row and rows left over are what they are in the code.
Shifts and masks are divisions and remainders, `^` is `Xor`, a sum over the bits of
two bytes. The loops of `phy_add_frame` and `pn9_calc` are recursive functions that
double: `run[d]` in `Crc` is over 2^d bytes of a frame, and in `Keystream` over the
register at 2^d bytes of a packet, so that TLC need not recurse once for each byte.

The addresses of `fg_frame.c` are modelled as written, with `&&` for `&`: any
control byte but zero has addresses, and any flags but zero a target.
`fg_set_payload` returns without writing when the payload is *shorter* than the
room for it, so the payloads set here are the ones it accepts.

## 3. The runs

| Run | Question | Instance |
|---|---|---|
| `phy_proc` | all safety properties of `PhyProc`, and that it implements `PacketService` | 2 threads, 2 rows, 2 frames, 4 calls in a procedure |
| `phy_live` | does everyone who starts a procedure get it | 3 threads, 1 row, 2 calls |
| `phy_start_race` | are all frames added sent (no) | 2 threads, 2 rows, 3 calls |
| `fram` | all properties of `Fram`, that it implements `FramStore`, that calls return | 3 threads: writer, writer and sleeper, sleeper; 2 addresses, 2 values |
| `fram_crossed` | does every write land (no) | 2 writers |
| `radio` | all properties of `Radio`, and that the waits without timeout end | FIFO of 6, threshold 3, frames of 1, 2 and 5 bytes, 2 frames in a packet |
| `radio_cca` | does "busy" mean a carrier (no) | the same |
| `advp` | all properties of `Advp` | windows of 3 and 2 ticks, at least 12 ticks of advertising, 30 ticks, a clock that starts at 0 or 20 ticks before its wrap |
| `dio_wait` | is an edge ever missed, does a wait give up early or not at all | 1 caller, which owns the listeners or not; 2 lines; timeouts 0 and 2; a clock that wraps at 9 |
| `dialogue` | is `Tca` kept, do answers come in their window and to someone who listens, do equal seeds collide | 3 nodes, 3 packets, times in ticks as in the test or near them, a clock that wraps at 10^6 |
| `deadlines` | do `sleepUntil` and `rsvp` keep their deadlines across the wrap | 4 calls; periods from 0 to just below a turn of the clock |
| `frames` | do fields read back as set, and packets decode to what was added | 2 rows; controls, flags and lengths on both sides of each limit; bytes damaged at 3 places, one of two bits |

What the properties say:

* `phy_proc`: `PacketIsOwn` and `BufferIsOwn`, a packet holds frames of its sender
  and no others, in order; `LostOnlyWhenOvertaken`; `ReceivedCount`,
  `DeliveredInOrder`, `DeliveredFromPacket`, what is fetched is what was received;
  `AirWhitened`, every row of a foreground packet on the air is whitened once, and
  of a background packet the first alone; `ProcedureExclusive`. `phy_live`:
  `StartEnters`.
* `fram`: `NeverTalksToSleeper`, `LandsUnlessCrossed`, `ImplementsStore`,
  `CallsReturn`.
* `radio`: `FifoFits`; `ForeignOnlyFromUnread`, received bytes are sent only after
  one of the two paths that forget them; `StandbyBetween`; `Returns`.
* `advp`: `StartsWhenAnnounced`, the packet goes out when the advertisements said,
  no earlier and later only by the last frame and the configuration, and exactly
  where a wrap of the counter makes it go out at once instead; `Rendezvous`;
  `OneFrame`.
* `dio_wait`: `NoLostWakeup`, the listener does not sleep on a line that has come
  unless an interrupt is on its way; `GivesUpRightly` and `QuietUntilTimeout`, a
  wait gives up only for its time or (in `wait_message`) for an event that came
  while it waited; `WaitsEnd`.
* `dialogue`: `ReturnsInTime`, `data_send_packet` comes to `phy_send_packet`, or
  returns, within `Tca`, and then takes no longer than the turning on of the
  receiver, which `Tca` does not count; `AnswersCollide`, which says of the code
  that nodes that answer the same packet with `data_send_packet` *do* begin within
  one packet of each other when nothing puts them off, whoever is first, because
  `data_proc_config` restarts the generator (there is a TODO in the code);
  `AnswerInWindow`, an answer is never let go before it is due, wrap or not, and not
  later than `Tl` after it; `AnswerHeard`, a prompt answer starts while its asker
  listens, although that one listens only for `Tfsd` and sleeps in between, unless a
  packet of a third node has ended its listening.
* `deadlines`: `OnTheGrid`, `FloodsUntilEnd`.
* `frames`: `FieldsKept`; `PacketDecodes`, an intact packet of the node's own subnet
  decodes to the frames added, and no damage but that of a length makes a frame
  nobody added.

Why the bounds are enough. Two threads show every pairwise interleaving; a third in
`phy_live` makes the queue of the mutex longer than one, and in `fram` lets a
sleeper run between a writer and another. Two rows and two frames are the least with
a first and a last row, order, and a full buffer; four calls are configure, two adds
and a send, or a busy send and its repetition. A FIFO of 6 with threshold 3 has
pieces of 2 bytes, so that frames of 1, 2 and 5 bytes are less than a piece, a
piece, and several with a rest. `advp` has room for four or more background packets
of 1 or 2 ticks and for every time left, from above the windows to below them; 30
ticks are past the last event of the longest advertisement. The clock of `Advp`
wraps in the middle of an advertisement (20 ticks after the start) or not at all: in
the first case it does so before the end, under the last frame or after the packet,
as the call comes later or earlier. Its modulus is a thousand times larger than the
longest time announced, as in the field. In the other modules too it is what must
wrap: in `dio_wait` the clock starts anywhere in its turn and a turn is a little
longer than two timeouts, the least that the signed difference allows; in
`deadlines` and `dialogue` it starts just before the wrap or far from it. `dialogue`
has three `Tca`: one at which everything fits and the guard break has room for two
attempts (30), one whose first delay is zero (90), and one that leaves nothing for
the delay (12); callers that are prompt (0), that call with time left (100), that
are late but within `Tl` (389), and later than `data_answer_time` accepts (400);
holds that bring the asker back before or after the answer is due; and three
packets, the least with which a third node's late answer can take the listening of
the asker. One caller is enough in `dio_wait`, since the threads share nothing there
but the lines; with the other thread as owner it is the one that no event reaches.
In `frames` two rows are enough for a first, a next and a last row; 253, 254 and 255
are the longest frame that fits with its CRC and the two that wrap; a damaged byte
in the length, in the control byte that announces another frame, and in the middle
are the ways a receiver can be misled. `MaxCalls`, `MaxFrames`, `MaxClock` and
`MaxPackets` are the only bounds in guards.

Deadlock is checked but in `advp`, `dialogue`, `deadlines` and `frames`, where the
functions return and the calls, packets or time are bounded. Symmetry is used in
`phy_proc` and in `dialogue`, among the nodes that do not start; what they check
besides invariants, a refinement and an action property, has no liveness part.

### Fairness

* `PhyProc`: weak fairness of `InProcedure`, everything a thread does but start
  a procedure. Each wait inside has a timeout or ends when the transmitter runs
  dry, and the callers in the repository finish what they start. No fairness of
  the lock is needed: `chMtxUnlock` hands the mutex to the head of its queue.
* `Fram`: weak fairness of the transfers, the wake-up and the release; strong
  fairness of `Acquire`, which stands for the queue of the bus mutex.
* `DioWait`: weak fairness of `InWait` and of each interrupt, strong fairness of
  `Tick`. A thread that can run gets to run, as the only thread of an application
  does; interrupts are served; and the tick of the kernel is an interrupt of its
  own, which cannot be kept away for ever although `MaxLate` may disable it for a
  moment. Edges are not fair.
* `Radio`: weak fairness of the running function, whose waits are polled by a
  scheduled thread, and of the transmitter. Nothing is assumed of the channel or
  of received bytes.

## 4. What is proved

The proofs hold for every value of the constants under the assumptions of the
modules: names that stand for "nobody" are not members of the sets; 1 to 255 rows,
as `conf.h` allows; a threshold that leaves room for at least one byte in the FIFO;
for `Advp` windows that cover what they are for, 16-bit times and a clock with the
ratio of the widths in the code, anywhere in its turn; for `DioWait` timeouts below
half a turn of the clock; for `DataSend` times of the protocol within their 16 bits
and the clamp, and no thread later than half a guard time (`LateAssumption`: without
it line 88 of `data.c` wraps); for `Dialogue` windows longer than what answers take,
and a packet longer than four late wake-ups (`WindowAssumption`); for `Deadlines`
periods below a turn; for `Frames` 1 to 255 rows, bytes and words where the code has
them, and frames of at least the four bytes that a caller writes.

| Theorem | Says |
|---|---|
| `PhyProcProofs!TypeCorrect` | the indices of the buffer stay in range |
| `PhyProcProofs!MutualExclusion` | one thread at a time is in a procedure, and the queue is exact |
| `PhyProcProofs!NothingElseLosesFrames` | frames are lost only to another `phy_proc_start` |
| `PhyProcProofs!BufferOwnership`, `PacketOwnership` | what will be sent and what is on the air are the sender's own frames, in order |
| `PhyProcProofs!FramesCounted` | a reception returns the number of frames it has read, one more when it broke off or when the last row announced another, modulo 256 |
| `PhyProcProofs!DeliveryInOrder`, `DeliveryFromPacket` | what is fetched is what was received, in order, and nothing else but for one row that a reception broke off in; for any caller |
| `PhyProcProofs!WhitenedOnce` | every row of a foreground packet, and the first alone of a background packet, goes out whitened exactly once, whatever class it was added under |
| `PhyProcProofs!ServiceImplemented` | `PhyProc` implements `PacketService` |
| `FramProofs!TypeCorrect`, and in `RadioProofs`, `AdvpProofs`, `DioWaitProofs`, `DialogueProofs` | each variable keeps its type |
| `FramProofs!ChipAwake` | no op-code goes to a sleeping chip |
| `FramProofs!WritesLand` | a write lands unless another thread came in between |
| `FramProofs!Memory` | `Fram` implements `FramStore` |
| `FramProofs!OneWriterLosesNothing` | with all writes and sleeps in one thread, every write lands |
| `RadioProofs!NoOverrun` | the FIFO does not overrun, whatever was left in it |
| `RadioProofs!ResidueCauses` | received bytes are sent only after one of two known paths |
| `RadioProofs!StandbyAtRest` | the chip rests in standby but after one known path |
| `AdvpProofs!StartsOnTime` | the foreground packet starts when the advertisements said, or at once when the counter wraps before |
| `AdvpProofs!SharedOnlyWhenRefused` | only a refused first frame shares its packet with another |
| `AdvpProofs!Meeting` | a scanner that heard a prompt advertisement is listening when the packet starts, unless the clock of the sender wraps |
| `DioWaitProofs!NothingMissed` | no edge falls between the look at a line and the sleep |
| `DioWaitProofs!TimedWaitGivesUpRightly` | `wait_dion_timeout` gives up when its time is over, across the wrap, and not on a line it has seen come |
| `DioWaitProofs!MessageGivesUpQuietly` | `wait_message` gives up early only for an event that came meanwhile |
| `DialogueProofs!SendReturnsInTime` | `data_send_packet` keeps `Tca`, and then the time to turn the receiver on, but for delays of zero |
| `DialogueProofs!AnswersOnTime` | answers are let go no earlier than `Tc` after the packet, wrap or not, and no later than `Tc + Tl` |
| `DialogueProofs!AnswersHeard` | a punctual answer sent at once begins while its asker listens, unless a third node has taken the listening |
| `DialogueProofs!AnswersAlwaysCollide` | punctual answers with `data_send_packet` to one packet begin within one packet of each other, four late wake-ups included |
| `DeadlinesProofs!SleepsToTheGrid` | `sleepUntil` keeps the grid across the wrap |
| `DeadlinesProofs!FloodsTheChannel` | `rsvp` sends until its deadline and announces it to a tick |
| `FramesProofs!TypeCorrect` | bytes are bytes, and the indices leave the buffer by one row at most |
| `FramesProofs!FieldsReadBack` | the fields of a frame are read back as they were set |
| `FramesProofs!CrcDetects` | the CRC tells apart any two frames that differ in one byte |
| `FramesProofs!PacketsDecode` | an undamaged packet decodes to the frames added, and one with a damaged byte, if it is not a length, to no others |

Each proof has an inductive invariant `IInv`.

`PhyProcProofs` conjoins the types, mutual exclusion and `PhaseInv`, which says what
the counters are worth at each place and for each `proc_event`: the bound of
`phy_frame_pos` holds only because a full buffer is refused in the SEND phase and
the position is reset on the way there. `KeepInv` and `OwnInv` are proved on top of
it: the first relates the position to the number of frames added, the second each
row below it to the frame added at the corresponding place; they need `IInv` to know
that the thread that moves is the one that owns the rows. Three more invariants
follow the data. `CountInv` relates the position, the count in `phy_receive_packet`
and the frames read so far, for each way a reception can end (`ended`), the overfull
packet and the wrap of the byte included. `DeliverInv` says of the rows of a packet
that each holds the frame read into it, under the class it will be checked with, and
of the frames fetched that they are the intact ones among the rows passed;
`IntactUpTo` counts those as a set, so that the order can be proved without
recursion. The code checks a frame by the class in force when it is fetched, so
`reclassed` remembers a change of class since the reception: after one, the order is
not promised, but `DeliveredFromPacket` still holds. `WhiteInv` says that the rows
to be sent are plain until the channel is found free, whatever class they were added
under and however often it was refused, and whitened by the class in force while
they go out. The refinement of `PacketService` maps the holder, the frames collected
and the packet on the air; each kind of step has a lemma of its own
(`ResetAcquires`, `AddCollects`, `SendTransmits`, ...), and the rest, which include
`StartWrite` of another thread, leave what is mapped alone.

`FramProofs` adds `CallsInv`, that a thread in a transaction has the arguments
it needs, and `LatchInv`, that the latch of a writer that nobody crossed is
still set when its WRITE goes out. The refinement is proved step by step: each
action of `Fram` is a step of `FramStore` or leaves its variables alone.

`RadioProofs` adds `ChipInv`, which ties the mode of the chip and the mapping of
DIO0 to the place in the code, `SentInv` for the end of a transmission, and
`UnreadInv`, a stronger form of `ForeignOnlyFromUnread` that also covers the
places in the middle of a function. Without the part about the mapping, a line
that reads low would say nothing about the FIFO.

In `AdvpProofs`, `OnTime` says that the clock does not pass what is due, and
`CallInv` ties `end`, which wraps, to `due`, which does not. `Compare` is the fact
about the loop: two wrapped times compare as the moments do when these lie in the
same turn, and the other way round when the later is past a wrap. So `OverInv` can
say what the end of the loop means: the time is up, or the counter has wrapped
before the end and nothing was announced. `LateInv` bounds how late the loop ends
while the clock of the sender does not wrap. `RowsInv` says what the first row of
the buffer announces, also when it is a frame refused before. `HeardInv` carries
that over to the scanner. `SenderInv` and `ScannerInv` bound, from one announced
moment, when the sender can start the packet and when the scanner can be listening;
`Meeting` is that the second interval covers the first. The step that takes the most
care is the one where the scanner goes to sleep: `SleepTicks` shows that neither
subtraction nor `MS2ST` wraps when the announced time is above the windows.

`DioWaitProofs` has `WatchInv`: whenever the owner is between its look and its
sleep, or sleeps, and the line has come, an event for it is pending in the
interrupt controller or in `epending`. `NoLostWakeup` alone is not inductive, for
it says nothing of the places before the sleep. `AsleepInv` says that a thread does
not sleep with an event for it, so that what is on its way must still be in the
interrupt controller. `TimeInv` ties the deadline, round the wrap, to the time left,
and `QuietInv` follows `wait_message` from the clearing of the events to its end.

`DialogueProofs` names, for each node in `data_send_packet`, the moment `s` on the
clock that does not wrap at which it began, and for one in the guard break the
moment `g` of that (`InTime`, `InGuardTime`): the readings `start` and
`guard.start` are those moments modulo `Modulus`, and the lemmas at the
start of the module show that a difference of readings is the difference of moments
as long as it is below a turn. `ReturnsInTime` is then a chain of inequalities
over the conversions, each of which rounds down. `AnswerInv` does the same for
the moment a packet was heard.

Two properties of `Dialogue` relate the histories of two nodes, and the proof goes
through one moment both know: `DueAt`, when the answer to the packet is due.
`HeardInv` says that who answers has sent nothing since it heard the packet and
sends no earlier than `DueAt`; `PunctualInv`, that a punctual answer sent at once is
not later than a late wake-up; `OpenedInv`, that the asker opens its window at most
`SAFE_SLEEP_WINDOW` early and keeps it for `Tfsd` unless it hears something;
`AskerInv`, that until then the asker has sent nothing else, so that its own time is
counted from the same packet: what it sends after it is an answer of its own, and
that is over later than `Tc` after the packet. `AnswersHeard` is then
`WindowAssumption`: `Tfsd` is longer than the window, the lag and two late wake-ups
together, and `Tc` leaves time to turn the receiver on. For `AnswersAlwaysCollide`,
`AloneInv` follows a node that nothing puts off through `data_send_packet`: the
generator was restarted (`Fresh`), so the first delay is `Delay`, the same at every
node; the packet begins `Wait` after the call, and each of the four sleeps on the
way (until the answer is due, the delay, the guard time, the turning on of the
receiver) adds at most one late wake-up: hence `4 * MaxLate < AIR`. `NothingLeft` is
the case that would break it: when the guard break gets no time at all the loop goes
on, but then `Tca` is over too, and the node does not draw again. TLC checked each
of these invariants on the instance of `dialogue` before it was proved. An earlier
`AnswerHeard` without `Taken` held with two packets and is false with three: a third
node's answer, late but within `Tl`, can reach the asker before the punctual one.
The code cannot tell the two apart, so the exception is stated.

`DeadlinesProofs` needs only that `previous` is the deadline modulo `Modulus`
(`Periodic`), and what `now` and `end` are worth (`Flooding`); the work is in the
case analysis of `MustDelay` over where the wrap falls among three readings.

`FramesProofs` begins with what the model computes. The library's induction theorems
take a predicate as a parameter, so `Induction` and `FiniteInduction` are stated for
sets, from the well-foundedness of the natural numbers, and `Recursion` says that
the functions defined by them exist. With those, `CrcIsRun` and its like say what
`Crc`, `Keystream` and `Sent` are. `CrcDetects` rests on two facts about
`crc16_calc`: two words never lead to the same word, nor do two bytes. Both follow
bit by bit, because a byte and itself shifted give back the byte. So a difference,
once there, stays to the end of the frame.

The invariant is `PacketInv`, of four parts. `TypeInv` is stronger than `TypeOK`:
while a packet is taken there is a row for its next frame. `SenderInv` says that row
i of the sender is `CodedAs` of frame i as far as its 255 bytes reach, whatever the
next row has overwritten of the CRC behind them. It also says that every frame but
the last announces another. `GotInv` bounds what was taken out. `AirInv` says where
each row begins in the packet (`Layout`) and that the packet, whitened again, is the
rows but for one place; and, if the lengths are read as sent, `ReceiverInv`: each
row taken is a row of the sender but for one byte (`RowsRead`), the receiver is at
the first byte of a row (`AtRow`), and what it has taken out was added (`Genuine`),
in order (`Sound`). `PacketDecodes` alone says nothing of the rows, so no step
preserves it by itself. The steps that need most are `ReadFrameAir`, where a row is
complete, cut off by a flag that was damaged or past the end of the packet, and
`DecodeRow`, where `CrcDetects` is used: a row that differs from the sender's in one
byte of the frame or of the CRC has a CRC that does not match.

`FieldsInv`, for `FieldsReadBack`, says which fields can be there at each place, and
of each on its own when it is kept: the header and the control of the addresses
always, an address if the flags say now that it is virtual (only those do not
overlap, nor reach into the payload), the payload if its length fits in the byte.

An earlier `PacketDecodes` without `LengthsArrive` held on the instance of `frames`
and could not be proved: when the damaged byte is a length, the receiver looks for
the CRC at another place, and two bytes of data there may be the CRC of what is
before them. TLC finds it with the constants at which that happens (one row, subnet
210, a frame of 38 bytes, mask 33 on the first byte: the receiver takes out a frame
of 7 bytes). The code cannot tell, so the exception is stated.

Model-checked only: liveness (`StartEnters`, `CallsReturn`, `Returns`, `WaitsEnd`),
which is out of the prover's reach. Every other property of the passing runs is a
theorem.

## 5. What the runs found

Three runs end in a counterexample that is what the code does.

* `phy_proc_start` writes `proc_event` before it has the mutex. A thread that
  starts while another collects frames makes the other drop the frames it has
  (`phy_start_race`).
* The write enable of the FRAM does not survive another thread's write
  (`fram_crossed`).
* The line the CCA reads carries "RX ready", because the mapping is written to
  the wrong register (`radio_cca`).

Other departures are in the models as the code has them, and the properties
name them as their exceptions:

* a packet that fills the buffer and announces another frame is counted as one frame
  longer than the buffer, which `phy.c:144` calls "the number of frames read", and
  with `N_FRAMES` = 255 as empty (`ReceivedCount`; `GetBeyond` in `Frames`); after a
  timeout in the middle of a packet the row it stopped in is counted too, and may
  still hold a frame of an earlier packet (`DeliveredFromPacket`,
  `DeliveredInOrder`);
* a CCA, and a background reception that times out, leave what was received in the
  FIFO (`ForeignOnlyFromUnread`), the latter also the receiver on
  (`StandbyBetween`);
* `advp_send` compares absolute times: if the counter wraps before the end, the
  packet goes out at once, without a single advertisement (`StartsWhenAnnounced`);
  if it wraps under the last frame, the advertising goes on;
* `phy_send_packet(0, TRUE)` sleeps 10 ms before it looks at the channel, which
  `Tca` does not count (`ReturnsInTime`);
* the scanner subtracts its windows from an announcement that may be shorter, and
  sleeps for about 71 minutes then (`Rendezvous`);
* a thread that did not call `dio_init` sleeps through every event (`WaitsEnd`,
  `NoLostWakeup`), and any edge of DIO0 or DIO1 ends `wait_message` early
  (`QuietUntilTimeout`);
* with the repository's seed and `Tca` = 100 the first delay is always 80 ms, so an
  answer made with `data_send_packet` leaves long after `Tfsd`; with `Tca` = 90 the
  delay is zero, which sleeps `MS2ST(0)`, about 71 minutes, and with `Tca` = 12 the
  time for the delay converts to zero and is divided by (`hung`);
* an answer that falls due in the very tick of the call sleeps `MS2ST(0)`, and one
  that is compared across the wrap of the clock goes out at once or not at all
  (`AnswerInWindow`);
* `rsvp` compares absolute times, and does nothing or goes on when the clock wraps
  before its deadline (`FloodsUntilEnd`);
* the long addresses of a foreground frame overlap (`FieldsKept`);
* a frame of 254 bytes gets the length 0, is not sent, and `phy_send_packet` waits
  for ever (the place `stuck`); one of 255 gets the length 1; and a frame of length
  0 is given the CRC of nothing, 0xFFFF, in the first bytes of its row, from which a
  receiver can make a frame with a CRC that matches (`PacketDecodes`);
* the length of a frame is covered only by the CRC it locates, so that a damaged one
  can make a shorter frame that passes (`LengthsArrive` in `PacketDecodes`).

## 6. Plan

Done, in this order: `PhyProc` with `PacketService` and its proofs, the heart of
the stack; `Fram` with `FramStore` and its proofs; `Radio` and its proofs;
`Advp` and its proofs; `DioWait` and its proofs; `TimeUnits`, `DataSend` and
`Dialogue` with their proofs; `Deadlines` and its proofs; `Frames`, which also has
the whitening and the CRC, and its proofs.

Next:

1. `ChMutex`: the priority inheritance of the kernel mutex. No application of the
   repository has more than one thread, so nothing yet says which priorities to
   check it with.

## 7. Not modelled

Register values, SPI framing, pins, LEDs, USB descriptors and the boot sequence
are input and output without decisions of their own. The older `send_packet` and
`receive_packet` of `sx1231.c` are not called by the stack. `fram_rdsr` and
`fram_rdid` are reads in the form of the one modelled. The functions of the UID
in `data.h` compute a number from a number, keep no state and have no caller.
`phy_conf.fec` and the DLLS frames are empty branches in the code (TODO).

ChibiOS is vendored: of its kernel, events, sleeps and ticks are modelled as far
as `dio.c` uses them, and the mutex is a mutex. The models cover most of the
lines of the stack itself, but these are some two thousand of the 448 thousand in
the repository: the rest are ChibiOS and its ports, most of them drivers and
register definitions of processors this program does not run on. A model of that
code would say nothing about DASH7, so the share of the repository that is
modelled stays small.

Three hazards in `PROJECT.json` have no property, each with the reason: how long
a thread may be kept from the FIFO is bounded by nothing in the code; a send
with nothing to send waits for ever by what the code says; what the assessment
of `data_guard_break` means is documented nowhere. Of some others only what is around
the hazard is promised, and the case itself is the exception that the property states,
because it is what the code does: section 5 lists them.
