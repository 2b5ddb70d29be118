# ServoCore: specifications, model checking and proofs

ServoCore is a motor controller: firmware for an RP2040/RP2350, a serial
protocol, a host library and a Qt tool.  These modules model the code that
carries its behaviour: the serial protocol from bytes to commands, the interrupt
driven UART driver, the parameters and the tool that edits them, and the status LED
with its timer.

Paths below are relative to `src/`; *SCF* is
`code/common/libs/serial_communication_framework`.

## 1. The system

```
dev tool (Qt)                     code/dev_tool
  control API                     code/control_api
    MasterHandler                 SCF          ) one request, one response,
      serial port driver          control_api  ) blocking, 100 ms
 ------------- serial line, 115200 baud --------------------------------------
      BufferedAsyncUartDriver     code/firmware/drivers/pico   thread | ISR
    SlaveHandler                  SCF          polled from main(), 50 ms
  protocol handlers               code/firmware/src/protocol_handlers.cpp
parameter system                  code/common/libs/parameter_system
```

| Component | State | Operations | Interacts through | What is hard | What makes it correct |
|---|---|---|---|---|---|
| Packets | none | serialize, deserialize, CRC checks | bytes | sizes, offsets | round trip; the size announced is the size sent |
| SlaveHandler | buffer, index, expected size, timeout start, statistics, handler table | `run()` | driver queues, clock, handlers | one byte per call, state across calls, early returns, timeout | index inside the buffer, statistics consistent, answers only its own requests, in time |
| MasterHandler | buffer, timeout start, statistics | `sendCommandAndReceiveResponseBlocking` | driver queues, clock | rests of earlier responses, no sequence numbers | returns always; returns the answer to this call |
| The link | bytes under way | - | both | late answers, disturbed bytes | nothing of a call outlives it |
| RingBuffer | array, head, tail | push, pop, peek, bytesAvailable | driver | wrap, one slot unused, torn reads | a FIFO of size - 1 elements |
| BufferedAsyncUartDriver | two rings, interrupt masks | transmit, flush, read; TX and RX interrupt | UART registers, main thread | thread against interrupt, full rings | no byte lost, doubled or reordered; nobody waits for ever |
| Parameter system, protocol handlers | parameter table, the variables behind it | register, find, get/set raw; five commands | SlaveHandler | sizes, types and access kinds from the line; requests that do not parse | a write changes only the parameter it names, and only if it answers ok |
| Control API | handler, serial port | find device, fetch ids and metadata, read, write | MasterHandler | errors half way through a fetch, results that hide them | what it returns has the type that was asked for |
| Dev tool | context, devices, table rows, proxy order, timer, editor | change port, refresh, sort, filter, edit | control API, Qt signals | dangling references, rows that move, writes that fail | an edit reaches the parameter it was made on; the table tells what the device holds |
| LED controller and driver | base colour, effect, brightness, PWM levels | set, flash, blink, stop, periodicUpdate | main thread, timer interrupt | interrupt between two writes, time counted in periods | effects last as asked and end; the colour settles |
| Timer driver | period, start time, alarm | configure, start, stop, restart, elapsed | timer hardware | alarm in the past, wrap of 32 bits | the period neither drifts nor stops |
| assert, debug_print | handler, reaction, two function pointers | connect, fail, flush | main thread, UART driver | a failure before the set-up is complete | a failed assertion halts, and shows it |
| PWM | divider, top, levels | frequency, duty cycle | LED driver | rounding, clamping, widths of registers | a duty cycle survives a change of the frequency |
| StaticList | array, size | push, pop, remove, clear | ids of a response | shifting | a sequence |
| CRC, system clock | little | - | - | - | - |

Not modelled: pin set-up and register layouts, the formatting of
`debug_print`, Qt layout, the system calls behind the Windows serial port, the
vendored SVD files, the Python tools in `code/tools`, the CRC polynomial (a
parameter: what is proved holds for every CRC).

## 2. Modules

| Module | Models | Uses |
|---|---|---|
| `Packets` | `packets.h`, `serialize_deserialize.cpp`, response codes of `common.h` | |
| `SlaveHandler` | `SlaveHandler::run`, `registerCommandHandler` | Packets |
| `SlaveHistory` | history variables beside SlaveHandler: failed headers, answered packets | SlaveHandler |
| `MasterHandler` | `sendCommandAndReceiveResponseBlocking` | Packets |
| `Timing` | the two timeouts, and the delays that decide whether they work | |
| `CommandExchange` | abstract specification: calls, requests and answers as whole packets | Timing |
| `SerialLink` | one SlaveHandler and one MasterHandler instance, their queues joined by a line | Packets, Timing; INSTANCE of the three above |
| `RingBuffer` | `utils::RingBuffer` as operators on a record | |
| `UartDriver` | `BufferedAsyncUartDriver`, the combined ISR, and the UART | RingBuffer |
| `Bytes` | a byte and the operators on its width that several modules share | |
| `StaticList` | `utils::StaticList` as operators on a record | |
| `ParameterSystem` | value types, definitions, raw access, the database | Bytes |
| `ProtocolCommands` | the five commands: serializers and parsers of both ends, the firmware's handlers | Packets, ParameterSystem, StaticList |
| `FirmwareParameters` | what `main` registers and the variables behind it | ProtocolCommands |
| `DevTool` | the tool, the control API it calls, the device it talks to | FirmwareParameters |
| `PwmSliceDriver`, `AnalogRgbLedDriver`, `LedController` | the LED from registers to effects, as operators and steps | each the one before |
| `TimerDriver`, `DebugPrint`, `AssertLib` | the drivers and libraries of these names | |
| `StatusLed` | boot, main loop and assertion of the firmware against the LED timer's interrupt | the six above |
| `MC*` | the constants of the runs, and checks of operators by evaluation | |
| `*Proofs` | theorems and their proofs | TLAPS |

**Packets.**  A packet is a sequence of bytes, a byte is `0..UINT8_MAX`, and
`GenerateCrc8` is a constant operator: the handlers only compare its values, so
what is proved holds for every CRC.  Runs take `UINT8_MAX = 12`, the smallest
that leaves the response codes and the "unset" value distinct with one to
spare, and a small CRC with the code's properties of interest: zero for no
bytes, and a changed byte is noticed.

**SlaveHandler.**  An action is a call of `run()` that reads a byte; the branch
it takes (`StoreByte`, `AcceptHeader`, `RejectHeader`, `IgnoreForeignPacket`,
`RejectPayload`, `RunCommand`) is its guard.  A call that finds no byte changes
nothing: at an index of 4 it parses the same header again.  A call that
completes a packet is split where the response is ready: `Answer` is the
timeout check and the transmission, so that time passes while a handler runs.
`rx_buffer` is the part of `rx_buffer_` before the index, hence its length is
the index.  `elapsed` is the distance to the start point of the timeout, at
first any value, since the start point is zero at any uptime.  What the handler
functions may answer is a constant, as is which payloads they parse.
`corrupted_packets_received` counts failed headers and failed payloads together,
so the counters alone do not tell whether a packet was counted twice.
`SlaveHistory` notes the failed headers and the answered packets off the bytes
that are read and transmitted; with them `StatisticsAddUp` is two equations.

**MasterHandler.**  `SendCommand` is the call up to its loop, every other action
one iteration, which looks at the clock before it reads.  The index and the
expected size are locals of the call and are reset when it returns; the
driver's queue is not.

**SerialLink.**  The queue one handler transmits to is the queue the other
receives from.  `answer_age` and the guards of `Tick` say that a request, a
handler and an answer take no longer than their delays; they are upper bounds
and everything may be faster.  `DisturbByte` changes a byte under way, behind
the header unless `DisturbHeaders`.

**UartDriver.**  The thread's actions are the accesses to the interrupt mask, to
a ring or to a register, in the order of the code; `pc` is named after what comes
next.  The interrupt is one action, as it runs to completion on the same core,
and `Step` keeps the thread from running while an unmasked one is pending.
`bytesAvailable` is two actions (it reads `head_` twice, unmasked).
Modelled from how the driver uses it: with the FIFOs off, the transmitter is a
holding register and a shift register, the TX interrupt is raised when the
first empties and cleared by writing it, and `uart_is_writable` says the first
is empty; the RX interrupt is raised while the receive register holds a byte.
Bytes are numbered, so a lost, doubled or reordered one is a wrong number.

**ParameterSystem, ProtocolCommands.**  The firmware's variables are a function
`memory`, and a definition names one of them, so two definitions may share one
as the loopback in `main` does.  The order of the checks is the code's: parse,
find, type, writable, length.  `DeviceAnswer` is what the registered adapter
makes of a request's payload, `CommandResponse` what the host's caller gets.
The metadata of an unknown id are whatever the stack holds (`uninitialised`),
with a name that may not end.

**DevTool.**  A slot that talks to the device blocks the Qt thread, so it is a
`job` whose steps are single exchanges; between them the device's main loop runs, it
may restart, or another tool may write.  An exchange succeeds, is disturbed
before or after the device has carried it out (`timed_out`, `corrupted`), or
the serial port throws.  This is what `CommandExchange` and `SerialLink` leave
of it.  `rows` is `rows_`, `order` and `hidden` are the proxy model; a view row is
a number among the rows that are not hidden (`ProxyRow`), and `DelegateRow` is the
row the delegate takes it for.
A use of a device or a context that is gone ends in `tool = "undefined"`, as does
an editor cast to the wrong class; nothing is said of what follows.  `doubt`
holds the ids of which a write or a read went wrong or that somebody else
changed: outside it a cell and the device must agree.

**StatusLed.**  A thread operation is a sequence of steps, a step an access to
the LED, a field or a library's state; assignments between which the compiler
sees no boundary form a set, done in any order.  The interrupt is one action and
runs while no step does.  `pwm_set_chan_level` is one step.  The shipped
firmware sets base colours only (its callers of flash and blink are commented
out); `Operations` are the API the controller documents.  `age` and `asked` are
the time an effect has lasted and should, `astray` says that the interrupt
wrote the LED between two steps of an operation or that an effect was stopped
while it showed.  `SettledColour` speaks of the other cases: nothing in the code
keeps the LED from a mixture of two colours when the interrupt writes it in the
middle of `setColorRGB`, until the next operation sets one.

## 3. Runs

| Run | Instance | Shows |
|---|---|---|
| `slave_handler` | headers from {0,1,2,12}, payload bytes 1, so that valid, foreign, unknown and corrupted packets with 0, 1, 2 and more bytes occur; timeout 1; 3 packets | `TypeOK`, `Framing`, `StatisticsAddUp` |
| `master_handler` | the same bytes as answers; 3 calls | `Framing`, `CallsAccountedFor`, `CallReturns` |
| `serial_link` | five commands: two echoes of different payloads, one malformed, one unknown, one for another device; 3 calls, 1 disturbed byte; timeouts 3 and 1, delays 1, 2, 1 | `LineQuiet`, `ResponseMatchesCall`, `StatisticsAgree`, `ImplementsCommandExchange`, `AnswersOnlyWhileWaiting` |
| `uart_driver` | rings of 4 (3 bytes), 6 bytes sent, 5 received: both indices wrap, both rings fill | `SentInOrder`, `ReceivedInOrder`, `NoWakeUpLost`, `EveryByteSent`, `CallsReturn`, `FlushEmptiesBuffers` |
| `dev_tool` | three of the firmware's parameters (a saved byte, the counting signal, a boolean), two row orders, one hidden row, 300 typed; one mishap, turn of the main loop and edit, two port changes | `TableMirrorsDevice`, `EditsAreAccepted`, `TakeNeverFails`, `TableIsCompleteOrEmpty`, `UndefinedOnlyAfter`, `SignalsBelongToDevice`, `EveryExchangeCounts`, `GuiComesBack` |
| `status_led` | a period of 2 ms in steps of 0.5 ms, a clock that wraps after four periods, interrupts up to 0.5 ms late, effects of 3 ms, 3 operations, both assert levels | `AlarmAhead`, `NoDrift`, `BlinkingGoesOn`, `SettledColour`, `AssertionShowsRed`, `EffectsAreAccurate`, `AssertionHalts` |
| `dev_tool_editor` | the same parameters, one port | finding 5 |
| `status_led_stop` | blink and stop, 2 operations | finding 6 |
| `serial_link_timeouts` | timeouts 4 and 2, delays 1, 2, 2 (units of 25 ms) | finding 1 |
| `uart_rx_storm` | one byte more than the ring holds | finding 2 |
| `uart_flush` | `FlushWaitsForLastByte` | finding 3 |
| `uart_bulk_read` | a buffer of 2 bytes | finding 4 |

Why the bounds are enough.  Three packets or calls are one more than any
property relates (a call, the one before it, and one with the state both left).
Clocks only matter in comparison with a timeout and stop one step beyond it.
The counter bounds (`MaxPackets`, `MaxCalls`, `MaxFaults`, `MaxTransmitted`,
`MaxReceived`) stop the environment, never the code.  A ring of 4 has three
fill levels beside empty, and 6 bytes carry each index once around and further.
In `dev_tool` one mishap at any exchange, with one edit and two port changes,
meets every order of a mishap before, during and after an edit, a refresh or a
fetch; a rotation of three rows is the smallest order in which view, source
and delegate rows all differ.  Metadata and values are the real ones, the bytes have
their width.  The 300 does not fit a byte, so the casts of an entered number
matter.  In `status_led` a period of two milliseconds has whole and half
milliseconds in it, 3 ms are no multiple of it, and the clock wraps within one
effect.  Three operations are an effect, one over it and one that ends either.

`MCDevTool` also evaluates that `main`'s definitions and registrations pass the
assertions of their constructors (`FirmwareStartsUp`, `RegisteredInOrder`) and
have what the table's proofs assume of them (`TableHasItsGrounds`), and
`MCStatusLed` what `setFrequency` makes of frequencies: 20 kHz is kept, 1900 Hz
becomes 1907, and below 8 Hz the divider reads back as zero and so does
`getFrequency`; a duty cycle is kept to one level (`Frequencies`,
`DutyCycleIsKept`).

Bounds that are assumptions about the world rather than about the run:

* `AnswersInTime` (`Timing`): the delays of a request, a handler and an answer
  fit between the two timeouts.  `serial_link` satisfies it, finding 1 does not.
* `DisturbHeaders = FALSE`: a disturbed response header makes the host drop
  three bytes and leave the rest in the driver, where the next call takes them
  for its response.  With `TRUE`, TLC finds `ResponseMatchesCall` violated.
  The code does not claim to recover from it, so there is no run.
* `UnreadBound`: the thread reads before the receive ring and the register
  are both full.  Finding 2 is what happens otherwise.
* `DrainBound + 1 < Capacity`: `transmitByte` remembers `is_transmission_ongoing`
  from before its wait for a free slot.  If the ring could drain in one of the
  unmasked windows of that wait the byte would never be started; with a ring of
  3 and `DrainBound = 1` TLC finds that.  The program's ring holds 127 bytes, 11
  ms of line time, and a window lasts a few instructions, unless another
  interrupt holds it up for that long.
* `BulkSizes = {1}` in `uart_driver`: `readReceivedBytes` is right for buffers of
  one byte only (finding 4); nothing in the firmware calls it with more.

* `MaxLatency < 1000` (`StatusLedAssumption`): an interrupt waits less than a
  millisecond.  `getElapsedMilliseconds` counts from the scheduled start of the
  period, so a longer wait is counted twice, against `LedController.h:54`.
* A thread operation is shorter than `ClockStep`: `setColorRGB` is some
  microseconds, the real period 20 ms.  `ClockStep` divides the period, so the
  clock does not step over an alarm.
* `ClockWrap` is a multiple of the period.  The driver's start time has 64 bits
  and the model the lower ones only; with it the grid of `NoDrift` survives the
  wrap as it does in 64 bits.
* `FlashDurations` and `BlinkDurations` are above zero.  A flash of 0 ms shows a
  colour nothing takes back, and ends a blinking for good.
* `BlinkDurations` are longer than `UpdatePeriod_ms`.  With `{2}` at a period of 2 ms,
  TLC finds `BlinkingGoesOn` violated: the interrupt between the stores of
  `startOverrideColorBlinking` (`LedController.cpp:19-21`) uses the time up before
  the rest is stored, nothing counts with no time left (`:30`), and the LED
  never blinks.  The program's period is 20 ms.

Fairness.  `MasterHandler`: the clock advances and the calling thread keeps
looping, nothing of the device or the line.  `UartDriver`: a pending unmasked
interrupt is taken, the thread inside a call runs on when no interrupt is
pending, the transmitter shifts; all weak, none for the bytes that arrive or
the calls that are made.  `DevTool`: a blocked call ends, since the master handler
gives up after its timeout (`CallReturns`); nothing of the user, the device or the
mishaps.  It is weak fairness of `ToolStep`, written out, since that action is
enabled exactly while the tool is blocked.  `StatusLed`: the clock goes on, the
interrupt is taken, the UART drains, weakly; strongly for the thread, which the
interrupt disables again and again and which runs between two of them, because
the interrupt is far shorter than its period.  `SerialLink` and `SlaveHandler`
have safety properties only and no fairness.

## 4. Findings

1. **The timeout rule is not sufficient** (`SCF/inc/.../common.h:44-47`).  Slave
   before master is asked for and satisfied, yet the device's clock starts only
   when the whole request has arrived.  A request of 260 bytes takes 22.6 ms, a
   response of 259 takes 22.5 ms and a USB adapter holds it up to 16 ms more:
   with a handler that takes 50 ms the answer arrives after the host gave up and
   becomes the next call's.  The sufficient rule is `AnswersInTime`.
2. **A full receive ring stops the firmware** (`BufferedAsyncUartDriver.h:320`).
   The interrupt handler returns without reading the register that raises it.
   The debug UART's receive ring is never read, so 128 bytes do it.
3. **`flushTx` returns before the last byte is sent** (`:263-266`): it waits for
   the holding register, not the shifter.
4. **`readReceivedBytes` compares the wrong counts** (`:293`): it returns zeros
   that never arrived, or stops early.
5. **The editor shows another row's value** (`ParameterValueDelegate.cpp:70`): in
   a sorted or filtered table the delegate takes the row of the view for one of
   `rows_`.  It is the row the kind of the editor, its initial value and the
   width it is cut to come from; the write itself goes to the right parameter.
6. **`stopOverrideColorBlinking` restores nothing** (`LedController.cpp:24-27`,
   `LedController.h:45`): the LED stays on the override colour.

Seen while reading and not checked by a run:

* `BufferedAsyncUartDriver::configure` (`:197`) calls a struct and would not
  compile if it were used; the ring's documentation (`RingBuffer.h:15`) says
  `size` elements fit, and `AvailableBounds` proves `size - 1`.
* Saved parameters are lost at a restart: `common.h:15` of the parameter system
  says they are kept, `ParameterDatabase.h:17-22` has it to do.
* `configureInMilliseconds` multiplies in 32 bits, so its assertion that the
  period fits them cannot fail (`TimerDriver.cpp:24`).
* `removeElement` destroys `data_[0]` instead of the removed element
  (`StaticList.h:295`), and `emplaceBack` does not assert that there is room;
  `disconnectFlushFunction` clears the other pointer (`debug_print.cpp:16`).
* Green is written to the channel of blue (`AnalogRgbLedDriver.cpp:64`), which is
  the same one on this board.
* Choosing no port after one leaves `context_` dangling
  (`MainWindow.cpp:38`), and the next line uses it.  The comment in
  `windows/src/Context.cpp:13` wants the driver initialised before the base
  class; C++ does it the other way round.
* A spin box for real types starts at the smallest positive double
  (`ParameterValueDelegate.cpp:50-51`), so a negative value is shown as zero.

## 5. Proofs

All for every value of the constants, from the named assumptions of the
modules, evaluated by TLC on each run (`ByteAssumption`, `SlaveAssumption`,
`MasterAssumption`, `TimingAssumption`, `LinkAssumption`, `RingAssumption`,
`UartAssumption`, `DefinitionsAssumption`, `InputsAssumption`,
`StatusLedAssumption`, `CallsAssumption`, `LedFrequencyAssumption`,
`ClockWrapAssumption`), and what a theorem's own ASSUME adds:

| Hypothesis | Says | Where it comes from |
|---|---|---|
| `Crc8Assumption` | a CRC is a byte | return type of `generateCrc8` |
| `HandlerAssumption`, `HandlersAnswer` | a handler returns a code of its own and a payload that fits | what `registerCommandHandler` asserts, the size of its buffer |
| `AnswersInTime` | the delays fit between the timeouts | section 3; finding 1 is the other case |
| `~DisturbHeaders` | headers arrive as sent | section 3 |
| `DetectsFaults` | a CRC tells apart payloads that differ in as many bytes as a run disturbs | holds of an 8-bit CRC for one byte, the bound of the run |
| `DrainsSlowly` | `DrainBound + 1 < Capacity` | section 3 |
| `ReadsOneAtATime` | `readReceivedBytes` is given one byte at most | section 3; finding 4 is the other case |
| `BlinksOutlastUpdates` | half a blink is longer than the period of the updates | section 3 |
| `IdZeroIsFree` | no definition has the id 0, which the host takes for the id of metadata it could not fetch | `MCDevTool` evaluates it on `main`'s definitions (`TableHasItsGrounds`) |
| `WritersApart` | no variable is written through two definitions | the same: the loopback of `test_uint8` is a signal |
| `CounterIsReadOnly` | the variable the main loop counts is not written | the same: `test_uint32` is a signal |

* `SlaveFraming`, `MasterFraming`.  The inductive invariant is `Framing` with the
  types of the parser's state (`ParserInv`).  The key is that the expected size
  is the default until the index passes the header and the announced size from
  then on, so the index reaches it exactly.  Nothing is assumed of the CRC.
* `SlaveStatisticsAddUp`, of `HistorySpec`, whose steps are steps of `Spec`
  (`HistoryOnlyWatches`).  The relation is inductive with counters that are
  natural numbers; it names `pc`, since a packet being answered has been counted
  and may still be dropped.  That what is handed to the driver is not empty, so
  that a listener notes it, takes the types of `SlaveTypeOK`, hence its hypotheses.
* `MasterCallsAccountedFor`: counters are natural numbers and the relation
  itself; it needs the ways out of the loop to be mutually exclusive.
* `SlaveTypeOK`, `MasterTypeOK` assume that a CRC is a byte, and the device's that
  handlers return what `registerCommandHandler` asserts of them.
* `ExchangeLineQuiet`, `ExchangeAnswersOnlyWhileWaiting` assume `AnswersInTime`.
  `LineQuiet` is not inductive: whether a packet can still be under way at the
  host's timeout depends on its age.  `InTime` bounds the host's clock by the
  delays the packet has behind it in each of its three stages.
* `RequestRoundTrip`, `ResponseRoundTrip`: what is sent passes both checks and
  comes out as it went in.
* `LinkImplementsExchange`: every step of the link, a byte moved, stored or
  parsed, is a step of `CommandExchange` or leaves its state alone.  The
  invariant (`LinkInv`) says for each direction that what the reader has and
  what is still in the queue are together one packet of the announced size
  (`Framed`), so a packet arrives at the abstract level when its last byte is
  read, and that host and device are in matching phases.  `LinkLineQuiet` then
  follows from the refinement and `ExchangeLineQuiet`; `LinkStatisticsAgree`
  needs the phases only; `LinkResponseMatchesCall` also follows the payload and
  its CRC through the disturbed bytes, counting how many faults each packet holds.
* `LinkAnswersOnlyWhileWaiting` brings `ExchangeAnswersOnlyWhileWaiting` down to the
  bytes: the line to the host grows only in a step that starts an answer of the
  abstract exchange, so what common.h wants of its two timeouts holds of the handlers.
* `AvailableBounds`, `PushAppends`, `PopTakesHead`: the ring is a queue, for every
  size and across the wrap.
* `TypeCorrect`, `BytesSentInOrder`, `BytesReadInOrder`, `FlushIsComplete`: the
  UART driver, for every ring size and interleaving.  `MaskInv` says at which
  places of the thread the TX interrupt is masked, `TxInv` that ring, holding register, shifter
  and the byte in the thread's hand are the bytes handed over, in order, and
  that a ring that is not empty has a transmission that goes on; the window of
  `transmitByte` in which `is_transmission_ongoing` is old is where
  `DrainsSlowly` is needed.  `RxInv` is the same for the receive ring, and that
  a byte the thread saw stays until it takes it.
* `WakeUpsAreKept`: what of `EveryByteSent` and `CallsReturn` is safety.  Where the
  thread leaves bytes to the interrupt the line is unmasked and the UART has
  raised it or will, so the fairness of an interrupt and a shifter is enough.
  `TxInv` gives the transmission that goes on, `WakeInv` that the line of a ring
  that is not empty is only masked where `TxMasked` says.
* `TakeIsSafe`, `SignalsStayWithDevice` need one invariant, `InvariantHolds`:
  every variable keeps its size, and `take` has not failed.  Steps that are no
  exchange leave the memory, count or restart it; an exchange is taken through the
  handler to the parsed response.  That a read with the wrong type answers an
  error carries `take`, even when the host's metadata are the zeros of a failed fetch.
* `ToolStaysConsistent`.  None of the table's properties is inductive: that it is
  complete depends on the ids a fetch still holds, that a write fits on where the
  job came from, that nothing is undefined on the editor.  `Consistent` says that
  the rows so far are those of the first definitions, with their metadata or
  zeros, and the ids ahead of the fetch are the rest of them; that each row
  stands once in the order; that a write's id and value are those of an editable
  row; and that an open editor has the kind its row wants, unless rows moved.
  `TypesAreKept`, `TableIsComplete` and `UndefinedHasACause` follow.
* `EditsAreNeverRefused`: an editable row cannot be one of zeros, since those are
  read-only, so its id is a writable definition's; with `IdZeroIsFree` no other
  row has the id, so the type `writeParameterValue` looks up is the device's.
  Without it, a row whose metadata could not be fetched would lend its type to
  the parameter of id 0.
* `SlotsComeToAnEnd`: `ExchangesLeft` is a variant of a blocked slot, at most two for
  each definition and one, that every exchange brings down whatever comes of it.
  It needs of `Consistent` that the ids ahead are those after the rows so far.
  What `GuiComesBack` adds is that a single exchange ends.
* `CellsTellTheDevice`.  `Mirror` strengthens `TableMirrorsDevice` to the table
  while it fills and to a cell being written.  A value goes cell, `Convert`,
  `Encode`, the request, the variable, the response, `Decode`, cell, and each of
  these undoes the other on what it is given.  `WritersApart` keeps a write to
  one row from another's variable, `CounterIsReadOnly` the main loop from all.
* `EncodingUndoesDecoding`, `MetaDataSurvive`, `PushedBackIsListOf`: the bytes of
  a number, of a definition's metadata and of a list of ids come out as they
  went in, for every size.  What is recursive here (shifting, adding up bytes,
  pushing back) is a recursive function; that it exists for every length
  (`IterationExists`) and what it computes follow from the least length at which
  it would not (`LeastNatural`), since the library's induction rules are out of
  the provers' reach.
* `WriteChangesOneWritable`: a write either leaves the memory alone and does not
  answer `ok`, or changes the one writable variable of the id and type it names
  and answers `ok`.  `ReadReturnsWhatWasWritten`, `RegisteredIsFound`,
  `LookupFindsTheId`, and the two round trips of requests complete it, for every
  database in which an id is registered once.
* `PushBackAppends` to `RemoveElementTakesOut`: the list is a sequence, for every
  element type and capacity.
* `AlarmStaysAhead`, `TimerDoesNotDrift`.  Neither property is inductive: where
  the next alarm falls depends on how late the interrupt that sets it is.
  `TimerInv` adds that an alarm lies one period after its start, at most a period
  ahead of the clock while it is armed and at most `MaxLatency` behind it once
  raised, that all times are steps of the clock, and that the starts are on the
  grid of the first.  A latency below the period keeps the next alarm ahead.
  Wraps are multiples of both, which the lemmas on remainders take out.

* `LedTypesHold`, `StatusLedTypeOK`: each slice keeps the divider and the top of
  its frequency, and the steps before the thread write values of the right kind.
* `BlinksGoOn`, `ColourSettles`, `FailedAssertionShowsRed`.  None is inductive: the interrupt
  comes between any two stores of an operation, and the stores come in any
  order the compiler likes.  `PlaceInv` has one disjunct for each place of the
  thread: before, inside and after each operation, what the controller, the LED
  and the rest of the thread's steps hold there.  An update counts exactly one
  period, since the interrupt is late by less than a millisecond
  (`DeltaIsPeriod`), and while a blinking is being started the clock makes one
  step at most, hence one update at most (`Lasts`): a time left longer than a
  period outlives it.

* `AgesFit`, `EffectsTakeTheirTime`: the age of an effect is the time counted off
  it plus the time elapsed since the last update (`AgeFits`), up to the time
  elapsed when it was set, which is at most a period and the wait of an
  interrupt.  The clock adds a step to both, the interrupt takes a period from
  both; neither wraps, since two periods fit the clock and the interrupt does
  not wait for one (`TickElapses`, `InterruptElapses`).  It needs the timer to
  run before the first effect is set, and not to be started again (`TimerGoes`,
  `StartsInBoot`): that is the order of the boot, read off `PlaceInv`.

Only model-checked: every liveness property (fairness is out of the prover's
reach).  `WakeUpsAreKept` and `SlotsComeToAnEnd` prove what `EveryByteSent`,
`CallsReturn` and `GuiComesBack` rest on beside fairness.  Every invariant and every action property of a passing run is a
theorem.

## 6. Plan

1. *Done*: the protocol's two ends, the link, its abstract specification, the
   UART driver, the ring; the parameter system and the five commands; the
   control API's calls and the dev tool over them; LED, timer, assertion and
   PWM; the list.
2. Link: lost bytes, a device that restarts within a request, two devices on
   one line (a corrupted header is answered by all of them).
3. Dev tool: a second view of the same device.  Two views share the device and
   its lifetime; each has the rows and the timer modelled here.
4. Proofs: the refinement of the link under lost bytes, once 2 is modelled.
