# A verification project for the HomeKit outlet firmware

The repository is the Realtek Ameba (RTL8195A) SDK with the firmware of a
two-outlet HomeKit power strip on top.  A WiFi chip runs the firmware under
FreeRTOS; a separate MCU drives the relays and meters and talks to the chip over
a 9600 baud serial line.  Only the firmware's own code is modelled: some 8700
lines in `component/common/utilities/uart_socket.c`, `.../update.c`,
`component/common/custom/`, `component/common/example/ssl_download/` and
`project/realtek_ameba1_va0_homekit/src/`.  Paths below are relative to `src/`.

## 1. Inventory

| Component | State it keeps | Operations | Interacts with |
|---|---|---|---|
| UART driver (`uart_socket.c`) | `uart_socket_t`: receive ring with `prxread`, `prxwrite`, `rxoverlap`; `send_buf`, `tx_start`; `rx_start`; semaphores `tx_sema`, `action_sema`; an lwIP socket number | `uart_irq`, `uart_action_handler`, `uart_open`, `uart_close`, `uart_read`, `uart_write` | lwIP's `select` through a receive event; every task that sends to the MCU |
| Receive loop and parser (`uart_socket_example`, `protocol.c`, `smart_plc.c`) | `rxbuf`, `frame_len`, `g_frame_buffer` | `get_smart_frame`, `frame_handle`, `remote_frame_opt`, `set_parameter` and the handlers of `func_items` | outlet state, history, MCU update |
| Outlet state (`outlet.c`, `protocol.c`) | `outletstateA/B`, `outletstateA/B_app` | HomeKit write handlers, `set_onoff`, `set_meter`, ..., the loop `HAPNotifyHandle` | HomeKit library, MCU |
| Energy history (`outlet.c`) | four flash sectors | `wirte_hisdata2flash`, `hisdata2iot_handle`, `read_hisdata` | MCU's reports, the cloud |
| Timers (`outlet.c`) | one flash sector, `static minute` | `write_timerdata`, `timer_handle` | HomeKit, MCU |
| Alarms and cloud session (`outlet.c`, `example_ssl_download.c`, `mqtt_msg.c`) | `alarmA`, `alarmB`; one TCP connection per message | `alarm_handle`, `report_alarm_to_iot`, `report_hisdata_to_iot`, `Jiguang_Push` | MQTT broker, push service; lwIP's socket numbers, shared with the HomeKit server |
| Updates (`update.c`, `smart_plc.c`) | the statics `size`, `resource_size` and `NewImg2Addr`; `mcu_ota_tmp`; two places in flash | `ES_mcu_ota_task`, `ES_phytrex_update_ota_amazon_cloud_task`, `creatFristPacket`, `creatDataPacket` | HomeKit, MCU |
| Supervisor (`uart_start_h`) | two heartbeat semaphores, two task handles | deletes and re-creates `uart_socket_example` and `HAPNotifyHandle` | both tasks, the driver |

What is hard about it:

* **Tasks.**  `uart_action_handler`, `uart_socket_example`, `HAPNotifyHandle`,
  `uart_start_h` and the HomeKit server's task have the same priority and are
  time-sliced; shared state has no lock but `tx_sema`.  The receive interrupt
  comes at any point.
* **Deletion.**  The supervisor deletes a task wherever it stands, with whatever
  semaphore it holds, and frees the driver's memory under the action task.
* **Power.**  The history, the timers and the images of an update are rewritten in
  several flash operations, each of which may be the last before the power fails.
* **The line.**  Reads cut frames anywhere; frames are lost; reports and commands
  overtake each other.
* **The cloud.**  Seconds pass between reading a byte of the history and marking
  it as delivered, and an acknowledgement may be late or lost.  Connections break, and
  their socket numbers are given out again at once.
* **Statics.**  What an update, a timer or an alarm left in a static variable
  outlives the task that set it, but not a restart of the chip.

`PROJECT.json` lists every such hazard at its line, with the property that
watches it, or the reason why none does.  What makes each component correct is
stated by the properties of its module, each with a comment of its own.

## 2. Modules

| Module | Models | Extended or instantiated by |
|---|---|---|
| `TxChannel` | what `uart_write` promises: a channel with room for one message | `UartSocket` (refinement) |
| `UartSocket` | the driver's tasks, semaphores and flags, and the supervisor's deletions | `MCUartSocket`, `UartSocket_proofs` |
| `ByteQueue` | what `uart_read` promises: a queue of bytes | `UartRing` (refinement) |
| `UartRing` | the receive ring: interrupt against `uart_read`, access by access | `MCUartRing`, `UartRing_proofs` |
| `Framing` | from bytes to handled frames: parser, loop, answers written in place | `MCFraming`, `Framing_proofs` |
| `HisFlash` | the energy history: writer, reporter, power failures | `MCHisFlash`, `HisFlash_proofs` |
| `OutletSync` | the four copies of an outlet's switch and who copies them when | `MCOutletSync`, `OutletSync_proofs` |
| `Supervisor` | `uart_start_h`: heartbeats, its sleep and two waits, in time | `MCSupervisor`, `UartSocket_proofs` |
| `Timers` | the timers' sector, its writer, and the loop that looks at it once a minute | `MCTimers`, `Timers_proofs` |
| `Delivery` | what a report to the cloud promises its caller | `IotSession` (refinement) |
| `IotSession` | one talk with the network: sockets, MQTT exchange, broker | `Alarms` |
| `Alarms` | `alarm_handle` and the loop around its talks and the history's; composes with `IotSession` | `MCAlarms`, `Alarms_proofs` |
| `Ota` | both firmware updates, from the phone's messages to the MCU's blocks | `MCOta`, `Ota_proofs` |

### UartSocket

A step is one access to the shared fields of `u`.  `apc`, `wpc[w]`, `rpc`, `cpc`
are where the action task, the writers, the receive task and the supervisor
stand; actions are named for their actor (`A...`, `W...`, `R...`, `C...`) and
come in the order of the code.  The interrupt is one step (`Irq`).  Data is
abstract: a message is its sender and call number, `send_buf` has two halves
so that a message overwritten half way shows, the ring is the number of unread
bytes.  `Restart(w)` and `CDelete` are `vTaskDelete` at any point of
`uart_write`; the histories `lost` and `orphan` record where it did harm.

### UartRing

The same ring byte by byte: `recv_buf`, both indices, `rxoverlap`, and the locals
of `uart_read`.  Every load and store of a shared field is a step: both indices, the
flag where the count is taken and again where memcpy's branch tests it, every byte
copied, `prxread` (line 272) and `rxoverlap` (line 273).  Bytes are their arrival numbers.

There are two races, and the model has both.  A byte that fills the last cell of
`recv_buf` inside `uart_read` wraps `prxwrite`: the count is then wrong by up to the size
of the ring.  `Preempt = "any"` allows it, and only the type invariant, which is proved
for either value, survives; `Preempt = "nowrap"` excludes it.  A byte between lines 272
and 273 finds `prxread` at the beginning and the flag still set, so `uart_irq` takes
the ring for overrun and pushes `prxread` up to `prxwrite` (lines 51-53): what was unread
is lost, that byte included, though there was room.  This one is never excluded.  `gone`
counts the bytes `prxread` has passed, by a read or by a push, `Backlog` is the rest, and
`ByteQueue` has the loss as an action of its own, `Lose`, which is possible only while a call
that passed the end of the ring is `finishing`.  So what the run and the proof show is a queue
in order, without repetition, which is emptied by a byte at that one place.

### Framing

`get_smart_frame`, `set_parameter` and `frame_handle` are operators on a sequence
of bytes; `Read`, `Parse` and `Handle` are the receive loop.  The parser is a
recursive function, as are all recursions of the project.  Frames are real byte
sequences with their checksum, since the properties are about positions.

`handled` records where in the stream the handled frames began, `before` how many
there were before the current read.  `altered` are those that were no longer what was
read when they were handled, because an answer to an earlier frame of the same read
had been written into them: an error answer that runs on, or the answer over a frame
that the loop, which goes on by a frame's length and not by what it skipped, finds a
second time.  `HandledWasSent` excepts them, and has to: the bytes of an answer can make
up a frame nobody sent.  `MCFraming` has streams that reach both cases.

Nothing in `set_parameter` stops an answer at the end of what was read: it is written
where it goes, and a frame of short items that are refused (3 bytes each, answered by 5)
ends up to 168 bytes further.  After a read that filled `rxbuf`, a local array of 512 bytes
(`uart_socket.c:412`), that is past the array.  The variable `rxbuf` is the part that was
read, since no other is read again, so an answer is cut there in it; where the answers
really end is kept in `reach`, which `TypeOK` bounds by `MaxPast` and which in
`MCFraming`'s stream `Refused` does go past the read.  What stands in memory behind
`rxbuf`, and what becomes of it, is not modelled.

### HisFlash

A step is one flash operation.  Programming flash only clears bits: a byte is the
set of its 1 bits, programming an intersection, erasing restores the full set.
`W...` is `wirte_hisdata2flash`, `R...` is `hisdata2iot_handle`, `RSend` the
three outcomes of `report_hisdata_to_iot`.  `PowerFailure` puts both tasks back
to the start and leaves the flash; `ReporterDeleted` is the supervisor's.
Histories: `recorded` (what was filed), `published` (what the cloud got), `prev`
and `mcu` (the months reported).  Assumptions about the surroundings, each in a
guard: months of one channel's reports do not go back (`WBegin`); the chip's
clock is not behind the MCU's (`RBegin`); a channel does not change months twice
during one report to the cloud, which takes seconds (`WErase`, `turned`);
a quantity is not 0x7F, which would read as erased (`HisAssumption`).

### OutletSync

`relay`, `on`, `app` and `hap` are the four copies of an outlet's switch.  `H...`
is the HomeKit write handler, `N...` one round of `HAPNotifyHandle`, `set_onoff`
the MCU's report; `McuServe`, `Press` and `Lose` are the surroundings.  `raced`
records that a write crossed a report or a notification half way: after that
HomeKit may show the wrong value until the next switching, because the loop only
compares `on` with `app.on` and never looks at the characteristic.

### Supervisor

Time is counted in ticks; `silent[t]` is how long task `t` has not given its
semaphore.  `Wake`, `Take`, `GiveUp` and `Replace` are the steps of `uart_start_h`'s
loop, for the receive task and then for `HAPNotifyHandle`; `Beat` is a round of a
watched loop, `Hang` the end of all rounds.  What a deletion does to the task's own
state is in the module of that task: `Restart` and `Close` in `UartSocket`,
`Restart` in `OutletSync`, `ReporterDeleted` in `HisFlash`, `Deleted` in `Timers`
and `Alarms`.

### Timers

`W...` is `write_timerdata`, one flash operation per step, and an entry programmed in
two parts; `L...` is the part of `HAPNotifyHandle`'s loop around `timer_handle`.  A
tick is half a minute; the network holds up the loop at `LAlarm` or `LUpload` for
at most one tick before the supervisor deletes it (`SilenceBounded`: 28 s).  A timer
keeps the code's peculiarities: Sunday's bit is not among those kept, a timer that
does not repeat is due for a week from when it was set, four erased bytes are an old
time.  `undisturbed`, `mixed`, `lost` and `looked` are the histories the properties'
exceptions speak of.  `looked` is when `timer_handle` last took up a new minute since the
power came on.  `DueIsFired` excepts minutes that are an hour or more after it
(`TellsMinutes`): the static `minute` is a minute of the hour, and a loop that was kept
from looking for just an hour takes the minute that is due for the one it has seen.

### Delivery, IotSession and Alarms

`IotSession` has the actions of one talk (`S...`), of the broker and the network
(`B...`, `Break`) and of the HomeKit server's sockets (`Hap...`); `Alarms` EXTENDS it
with `alarm_handle` and the loop.  `out` and `in` are the packets under way; a
`net_recv` returns any number of them; a timeout returns none, while the packets stay
under way.  The message is made when it is published, from what the alarm is then
(`Saying`).  `stray` is what a closed connection left under way to the broker.
`wild` and `SCrash` are the pointers `root` and `payload` that `report_alarm_to_iot`
frees without having set them when it cannot connect: the reset of the chip is one
outcome, going on is the other.  `Delivery` is what `HisFlash`'s `RSend` assumes of
`report_hisdata_to_iot`, and what `Alarms` assumes of `report_alarm_to_iot`.

### Ota

An image is a row of units, the unit numbered 1 its header.  `Begin`, `SendPiece` and
`SendEnd` are the phone's messages with all that the two handlers do with them
(`Erase`, `Write`, `Swap`, `Offer`); which of these a message is depends on its length
only, as in the code.  Begin's erasure is a loop of steps (`EraseUnit`): the receive task
runs, or the power fails, between two of them.  A piece is written in one step.
`FirstPacket`, `AskFirst` and `AskBlock` serve the MCU: `creatFristPacket` is two steps,
since the HomeKit server's task and the receive task both run it, and share
`mcu_ota_tmp`.

Three calls of `update.c` have an error return.  When the address cannot be read (line 447)
Begin returns and nothing is erased (`EraseNot`).  When it cannot be written (line 473) End
returns without the reset, but WriteSwapSig has marked the new image already (second half
of `Swap`): `marked`, `kept` and `Starts` tell which image would start then, and that it is
a whole one is what `StartsWhole` says, before, after and without the reset.  The third
(line 528) cannot come: `flash_stream_write` returns 1 in every case
(`component/common/mbed/targets/hal/rtl8195a/flash_api.c`, 235-330), so `< 0` is dead, and the
model has no such outcome.  What the `phytrex_` functions do is external: an image is
marked by End, and the next Begin is given the place that is not marked.

`strayed` and `stale` record the cases the properties except: a download that a restart
fell into, that was not the first since the start (the statics `size` and `resource_size` are
never set back), whose Begin did not erase, or that had a piece as long as Begin or End.

In this build nobody sends those messages: `outlet.h:31` defines FIRST_VERSION as 1, so
`HAPServiceProfile.c` 607-781 leaves out the characteristics and `outlet.c` 831-838 returns
before `write_Ota_handler`; with them goes HomeKit's caller of `write_timerdata`.  The
handlers are compiled, and the MCU can ask for the offer all the same.  `Ota` and the
writer in `Timers` model the code as it stands, which is what runs when FIRST_VERSION is 0.

## 3. Runs

| Run | Expectation | What it shows |
|---|---|---|
| `uart_socket` | pass | one sender at a time, no lost wakeup, permit accounted for, refinement of `TxChannel`; accepted messages are sent, calls return, bytes are signalled: 2 tasks, one call each, 2 bytes, a restart and a close at any point |
| `uart_ring` | pass | refinement of `ByteQueue` over several wraps, losses between the last two stores of a read included: 6 cells, reads of 4, 24 bytes |
| `framing` | pass | handled frames were sent, once and in order; the loop ends |
| `his_flash` | pass | the history's records belong to their months, survive power failures, and bit 7 is truthful |
| `outlet_sync` | pass | the copies converge |
| `supervisor` | pass | only slow loops are deleted, and no loop is silent for long |
| `timers` | pass | lists survive rewriting; what is due is fired, and nothing else |
| `cloud` | pass | refinement of `Delivery`; alarms of outlet A are told in the end; sockets are accounted for |
| `ota` | pass | what would start and what the MCU takes is whole, also when End does not come to its restart |
| `uart_unread` | violation | a byte nothing indicates (`uart_socket.c:44`) |
| `framing_split` | violation | a frame cut by a read is lost (`protocol.c:30`) |
| `his_bit7` | violation | last month's byte is sent under today's date (`outlet.c:1609`) |

### Bounds and why they are enough

* `UartSocket`: one task is restarted and one closed down, at any point; a message
  can be in the buffer while the other task waits for the permit, holds it or is
  deleted with it.  That more tasks change nothing is proved, all but the liveness.
  Two bytes are enough for one to arrive at each side of the clearing of `rx_start`.
* `UartRing`: 24 bytes through 6 cells wrap four times; reads of 4 end before,
  at and after the end of `recv_buf`.
* `Framing`: each stream has two or three pieces, which is enough for a frame
  before, at and after a cut, a stray start byte or an overrun answer; `uart_read`
  may cut anywhere.  One stream ends with items that are refused, whose answer goes past
  what was read.  Reads have 46 bytes at most, so that those of 256 and more, whose length
  `get_smart_frame` cuts to a byte, are only in the proofs: the safety properties are proved
  for all streams and reads.
* `HisFlash`: three months use both sectors of a channel and come back to the
  first; one quarter of an hour per month is enough for the properties, which
  compare bytes at the same place.  One break can come at every step.
* `OutletSync`: four events of any kind (a write, a press, a loss and a timer, or
  two writes and two losses, ...).  One outlet: the outlets share nothing but the
  queue of frames, of which the other outlet's would be one more kind.  A query
  every second round instead of every 241st only shortens the wait.
* `Supervisor`: the code's times in seconds; the state space is finite without a bound.
* `Timers`: a week of two days (one of them Sunday) of three minutes; 20 ticks are a
  week and two thirds, so that a timer set once comes due again after its week; the
  app writes at two moments, once for either outlet or twice for one; one break.
* `Alarms`: two sockets, so that the HomeKit server can get the number a failed
  connection is about to close again, and a leaked one leaves one more; one kind of
  alarm of outlet A, which comes and goes any number of times; one deletion.
* `Ota`: lengths for which the last piece is a piece, as long as Begin, and as long as
  End; the second download can follow the first one in the same run or after a
  restart, of which there is one besides End's own.  The MCU may ask for any block, any
  number of times.

### Fairness

FreeRTOS runs ready tasks of one priority in turn: weak fairness of each task.
A semaphore goes to the task that has waited longest: strong fairness of taking
`tx_sema` (`WDown` in `UartSocket`, the steps that send in `OutletSync`).  The MCU
pauses between frames (`Silence`) and answers (`McuServe`).  For the cloud, each stage
of outlet A's report that is possible again and again succeeds some time: strong
fairness of getting a socket, of the connection, of the broker's CONNACK coming while
the loop waits for it, and of the message's arrival; without this nothing can be said
of a network.  The loop itself is weakly fair.  The retry is the code's own: that it
comes at all is what `AlarmAIsTold` is about.  Nothing obliges
anyone to call `uart_write`, press a button, write, or fail.

## 4. Proofs

`UartSocket_proofs` proves for any number of tasks, calls and bytes, from
`ConstantsAssumption` alone (the supervisor's own theorems, further below, are at the end
of the same module):

* `TypeCorrect`, `SingleSender`, `NoSpinning`, `PermitAccounted`,
  `EveryWakeupCounts`: the run `uart_socket`'s invariants;
* `DriverImplementsTxChannel`: the refinement.

None of these is inductive alone.  `OneSender` does not say what the buffer
holds, `NoLostWakeup` not which steps may still clear `rx_start`.  The inductive
invariant joins them: the permit, the task that holds it, and the transmitter
(`tx_start` or the tail of `uart_action_handler`) are one token in at most one
place; whoever clears a flag has either served it or left `action_sema` raised;
and `accepted` is `wire`, or `wire` and one more message, whose halves are
in `send_buf` or on their way out.  Each action then moves the token at most one
place.

`UartRing_proofs` proves `TypeCorrect` for any ring and any moment of the
interrupt; and, where the backlog fits in the ring and no byte fills its last
cell while `uart_read` runs (`Fits`), `BacklogIsCounted` and
`RingImplementsByteQueue`, with a byte between the two last stores of `uart_read` as the
step `Lose` of `ByteQueue`.  `CountsBacklog` does not say what is in the cells, so
the inductive invariant adds that the bytes `prxread` has not passed lie from there on
in order (`Held`), and that the interrupt only adds to what `uart_read` remembers
(`Remembered`).  `Fits` cannot be dropped: with `Preempt = "any"` TLC finds
`ImplementsByteQueue` violated.

`HisFlash_proofs` proves every property of the run `his_flash` for any number of
months, days, quarters of an hour, reports, messages and breaks, from
`HisAssumption`: `TypeCorrect`, `AtMostOneActive`, `SectorsHoldTheirMonth`,
`ToldOnlyWhenSent`, `FirstValueStays`, `NewestIsKept` and `PreviousIsKept`.  The
argument has four layers, each inductive given the ones before it:

* `Markers`: how far the writer has come says which markers are set (no active
  sector between retiring one and marking the next), so that `OneActive` holds
  wherever the power fails;
* `Reading`: the sector the reporter found is not erased under it.  It is active,
  or just retired with the other one about to be erased, or its channel has
  changed sectors and will not do so again before the reporter is done.  This
  is where the model's guard `wjob.ch \notin turned` of `WErase` is needed: a
  report to the cloud takes seconds, two changes of month of one channel are a
  month apart.  So a byte read as filed is still the byte in flash when bit 7 is
  cleared;
* `Contents`: what the writer's sector holds at each of its steps; with `Reading`
  it gives `RecordsBelong`, `ToldWasSent` and `WriteOnce`;
* `Newest` and `Previous`: a record of the newest month lies in an active sector
  under that month's head, so there is none while room is made for that month;
  and, while nothing broke, the month before lies in the other sector, or is on
  its way there.

`PlacesDiffer` is about `Offset` alone: every day and quarter of an hour of a month has a
byte of its own, although the code counts blocks by the day and places in them by the day
before.

The theorems about the history also rest on what the actions assume of the
surroundings: the MCU's reports never go back in time (`WBegin`), the date of the
reporter is not before them (`RBegin`), and 0x7F is not a quantity (`HisAssumption`).

`OutletSync_proofs` proves, for one outlet or two and any period of the query,
`TypeCorrect` and `ToldUnlessRaced`.  `ToldWhatAppSays` speaks of quiet moments
only; `InStep` adds what a write or a notification under way is about to tell
HomeKit, and that the two are never at one outlet together unless `raced` says so.

For the supervisor, `UartSocket_proofs` proves `SupTypeCorrect`, `DeletedOnlyWhenSlow`
and `SilenceIsBounded` for any three times.  Silence is bounded because a semaphore that
was given by the last beat is taken at most once before the wait that finds it missing;
the inductive invariant bounds `silent` by where the supervisor stands and by whether
the semaphore is given.

`Timers_proofs` proves `TypeCorrect`, `ListsAreKept`, `FiredIsDue` and `DueIsAlwaysFired`
for any week, hour, lists and number of writes and breaks.  `ProgramKept` says of every
step of a write how much of the two tables stands in flash already; `BufferKept` that
the table being written is the app's for one outlet and the old one for the other; `ReadWasSet`
carries "set by the app, if nothing was mixed" from there into the loop's buffer.
`DueIsAlwaysFired` is an action property; its invariant `DueInv` says that in an
undisturbed minute the loop has looked or still gets to look (`GetsToLook`), that between
look and last command the buffer is the sector and what is due is sent as far as the
loop has come (`Fires`), and that `minute` is the minute of `looked` (`MinuteIsLooked`),
so that a loop that finds its own minute there has looked in this very minute.

`Framing_proofs` proves every safety property of the run `framing`, for any stream, any
frames and any sizes of the reads, from `FramingAssumption`: `TypeCorrect`,
`OnlySentIsHandled` and `EachFrameInOrder`.

* *Recursion.*  `Items` and `Starts` are recursive functions on an interval of the natural
  numbers.  The library's induction theorems cannot be used (their hypothesis
  is an operator); `LeastNumber` derives the least number of a set from the theorem that
  the strict subsets of a finite set are well-founded, `InductTo` is induction with the
  hypothesis as a set, and `Recursion` says that such a function satisfies its own
  equations.
* *Where things are.*  `Inv` is `TypeOK`, `Placed` (what was read is the stretch of the
  stream that ends at `pos`) and `FoundIsFrame` (a frame was found whole, with its
  checksum, before it is handled).  `FrameMoves` says that a frame in a stretch of bytes
  is a frame in the stream; with it `HandledWasSent` is inductive.
* *Answers.*  A frame's answer depends on that frame only: in two sequences that are alike
  from the frame on, `frame_handle` leaves two that are alike from there on (`ItemTwins`
  to `HandlingAlike`).  So what `WellFormed` says of the stream holds in `rxbuf` too.
* *Order.*  `Starts` is a chain: each place but the last has a frame, and the next is where
  that frame ends (`StartsAre`, `ChainRises`).  `Lined` says that in a read of the frames
  from i to j the loop stands at the place of the next frame it has not handled, that
  `rxbuf` from there on is as it was read, and that those before are in `handled`;
  `Aligned`, that this is so whenever the read is whole frames.
* `TypeCorrect` is not that answers stay in `rxbuf`, which the code does not see to: it is
  that the loop never takes more for done than was read, and that no answer ends more than
  `MaxPast` bytes after it (an answered item has three bytes at least, an error answer five).
* `AnswersStayInside` is about `set_parameter` alone: what follows the data is untouched, in
  the read and behind it, unless an item it reaches is refused and has, or leaves, fewer than two bytes of data.
  Streams of frames without such items are among those `WellFormed` lets in.

`Alarms_proofs` proves, for any sockets, alarm values and deletions, `TypeCorrect`,
`SocketsKept`, `ReportsImplementDelivery` and `RememberedIsTold`.  `SocketKept` ties
`fd`, `owner` and `leaked` together with where the talk stands; `OncePublished` says
that a connection carries this call's PUBLISH at most once and that a PUBACK under way
means the broker got it, from which `ResultKept` and the refinement follow;
`SaysTaken` that what is published for A is what was taken, unless `spoilt`.

`Ota_proofs` proves `TypeCorrect`, `ModuleStarts` and `McuTakesOneImage` for any
versions, lengths, pieces, downloads and restarts.  `InPlace` says that while a download
has not strayed what was sent stands in its place, what is not yet erased comes after it
and the static is its length; `ErasingKept` that only the place of a download is erased,
and not the marked one; `ReadyWhole` that what stands in
the MCU's place is the image that is ready; `OfferKept` that an offer of anything else
is stale; `LineKept` that the block on the line is the one asked for, if it goes under
the version of the offer.

Every invariant, action property and refinement of the passing runs is proved.  Only
model-checked are the liveness properties (`AcceptedIsSent`, `WriteReturns`,
`BytesAreSignalled`, `LoopEnds`, `ChipFollowsRelay`, `HomeKitFollowsRelay`, `AlarmAIsTold`):
temporal proof under fairness needs ENABLED, which is out of the prover's reach.  So are,
by their nature, the three violations.  What the proofs rest on besides the named
assumptions is what the actions assume of the surroundings: lwIP's and FreeRTOS's
primitives as the map's `external` entries describe them.

## 5. Not modelled

* The SDK (FreeRTOS, lwIP, PolarSSL, drivers, examples), the HomeKit and WAC libraries:
  vendored code, and nearly all of the repository's lines.  It appears as what the
  firmware's code relies on (semaphores, lwIP's socket numbers, flash that only clears
  bits), named `external` in the map.
* The accessory database, start-up code and console commands: no shared state.  The
  power line modem's registration is compiled out or unreachable.
* In the receive loop: the meter values, thresholds and the error answers' contents.
* Overrun of the receive ring: it needs a reader that is blocked for more than a second
  at 9600 baud.
* In the cloud's part: DNS and TLS below the talk, the text of the messages,
  `get_ntp_time` (only that it sets the clock some time).
* `set_locoltime` writes through a pointer it never set (`outlet.c:1486`), so the time
  the phone sends may go anywhere; `enable` of a timer is ignored by the code.  The
  1400 bytes of the timers' sector are read in one step.
* `update_ota_local_task` and `write_ota_addr_to_system_data` are dead in the
  `PHYTREX` build; End computes a CRC of the Wi-Fi image and compares it with nothing,
  so the model has no check there either.
* `UartSocket` and `UartRing` are not composed: the former counts unread bytes, the
  latter proves when the ring's indices count them, and which bytes are lost when the
  interrupt comes between the stores of 272 and 273.
