# Verification of halm-examples

halm-examples is example firmware for the HALM hardware abstraction library on
sixteen microcontroller boards. HALM and xcore are submodules whose sources are
not part of the repository: what the models need of them is taken from the way
the examples use them and is marked external in `PROJECT.json`. Paths below are
relative to `src/`.

Every example is a small concurrent program. Interrupt handlers (callbacks of a
driver) set flags or push requests into queues, and a main loop waits for a
flag, clears it and does the work. An interrupt may come between any two
statements of the main loop, except between `irqSave()` and `irqRestore()`. Most
main functions are generated by `tools/make_example.py` from
`templates/*.jinja2`, the same program for many boards; the boards differ in
`examples/<platform>/shared/board.c`, which configures the drivers (queue
depths, timer frequencies, clocks).

## Inventory

| Component | State | Operations | Hard behaviours | What makes it correct |
|---|---|---|---|---|
| I2S echo (`templates/i2s_echo.jinja2`) | 5 stream requests in a receive stream, a queue, a transmit stream; `event`, `first` | boot loop, `onDataReceived`, `onDataSent`, drain loop | completions and failures in any order against the drain loop; callbacks of requests switched on the fly | each request in one place with the right callback and length; blocks played in order; no lost wake-up |
| USB audio card (`templates/usb_uac.jinja2`) | two sets of requests, two queues, flags of four events, frame counter, `playing`, `suspended`, rate | `onDataReceived`, `onDataSent`, `onUacEvent`, `changeRate`, main loop | rate changes while streams run; streams that cancel requests through callbacks; flags cleared after service; host that stops; a counter shared by two bus speeds | requests neither lost nor doubled; recording never starves; host never blocked; LED, rate and feedback follow |
| DMA memory copy (`templates/dma_memcopy.jinja2`) | two buffers, `length`, two flags, LED | `onMemoryCopied`, `onTimerOverflow`, main loop, `verify` | copy that is late, fails, or outlives its round | verdict about this round's copy; program never stops |
| CAN node (`templates/can.jinja2`) | two queues, two flags, event and chrono timers | `onEvent`, main loop, `sendMessageGroup`, `runTransmissionTest` | bus that stops; six timeouts in one period | test over before the next period; no group given up on a free bus |
| USB CDC composite echo (`examples/*/usb_cdc_composite/main.c`) | for each function: event, two endpoint queues | `onSerialEvent`, main loop, `transferData` | partial writes; one loop for several hosts | own data back, in order, once; no lost wake-up |
| Serial echo (`templates/serial.jinja2`) | two queues of the driver, event | `onSerialEvent`, main loop, `transferData` | the result of `ifWrite()` is ignored; a main loop that is late | nothing dropped, order kept, no lost wake-up |
| Memory card test (`templates/mmcsd.jinja2`, `mmcsd_spi.jinja2`) | card, capacity, position, timer flag, flag on the stack | mount, `dataRead`, `dataWrite`, main loop | card swapped or pulled in mid-transfer; callback to a stack variable | no access past the card, one transfer at a time, no dangling callback, recovery |
| USB mass storage (`templates/usb_msc.jinja2`) | card object, unit of the USB driver, event, LED | mount, attach, check, detach, free | card freed by `main()` while the USB interrupt may serve a request with it | the driver never uses a freed card; a good card is served again |
| Parallel Flash driver (`lpc43xx_default/shared/flash_cfi.c`) | position, chip contents and command state | erase, write, read, seek | a command is a series of bus cycles the chip must decode | each operation has its whole effect and no other |
| Parallel Flash test (`lpc43xx_default/emc_flash/main.c`) | step, LED | two test sequences | second sequence on a programmed sector | a good chip passes |
| SCT timers (`lpc43xx_default/shared/sct_sof.c`, `sct_adc.c`) | halves, events, inputs and outputs of the SCT; captures, durations | `tmrInit`, `tmrDeinit`, `tmrEnable`, `tmrDisable`, interrupt handler, `sctSofGetRatio` | failure in the middle of an allocation; handler against reader; flags cleared after they were read | one owner of each resource; durations of whole periods; no division by zero |
| Raw Ethernet memory (`lpc43xx_default/eth_raw/main.c`, `eth_raw.py`) | memory, event, buffers of the driver, link; progress of the peer | `phyInit`, `onFrameReady`, `handleEthFrame`, `sendMemChunk`, main loop; the peer script | frames lost for want of buffers or link, nothing acknowledged or repeated | a verdict of the peer is about the memory; no frame waits unnoticed |
| Board set-up (`*/shared/board.c`, `board.h`, `Config.cmake`, set-up part of every `main()`) | clock tree, settings left by a loader, claimed pins, channels and peripherals | every `boardSetup...` function of sixteen boards | functions called in an order that each example chooses, after any reset or loader, on shared clocks | core, code memory and drivers keep a running clock; rates in range; one owner of each pin; the loop is reached |

Interactions. The Flash test is a client of the Flash driver (`EmcFlash` extends
`FlashCfi`). The sound card asks `sctSofGetRatio()` for the ratio it reports. The
Ethernet memory and its Python peer form one protocol (`EthRaw` has both). All
examples call the board functions in an order of their own (`BoardPrograms`), and
take from the board files the depth of streams and queues and the frequency of
timers.

## Modules

| Module | Models | Constants |
|---|---|---|
| `EchoStream` | the I2S echo | `BufferCount`, `Depth` of the board's streams |
| `EchoRing` | what the echo promises: a line of blocks, captured at the back, played from the front | `Buffers` |
| `Custody`, `CustodyLemmas` | sequences as places that hold requests; lemmas about `Append`, `Tail` and concatenation of them, and about numbers that follow each other in a line modulo a count | |
| `EchoStreamProofs`, `UacAudioProofs`, `EthRawProofs`, `SctSofProofs`, `FlashProofs`, `BoardBootProofs` | theorems of the modules they are named after, `FlashProofs` of `FlashCfi` and `EmcFlash`, `BoardBootProofs` of `BoardBoot` and `PllSearch` | |
| `UacAudio`, `MCUacAudio` | the USB audio card; the devices that are checked | `BufferCount`, `Depth`, `Devices` |
| `UacFeedback` | its frame counter and the feedback of the sample rate | `Slots`, `Interval`, `Wrap` |
| `DmaMemCopy` | the DMA memory copy | `BufferLength`, `BufferLevel` |
| `CanNode` | the CAN node in discrete time | `GroupSize`, `Timeout`, `Buffers` |
| `CdcComposite` | the composite echo | `StreamCount`, `Buffers`, `Chunk` |
| `SerialEcho` | the serial echo, with a line that brings and takes a character per step | `RxLength`, `TxLength`, `Chunk` |
| `CardTest` | the memory card test | `Arena`, `Cards`, `WriteMode` |
| `CardReader` | the exchange of cards of the mass storage device | |
| `FlashCfi` | the Flash driver with the chip's command decoder | `Bits`, `Size`, `Sector`, `Block`, `MaxLength` |
| `EmcFlash` | the Flash test, a client of `FlashCfi` | `TestOffset`, `TestLength`, `Pattern` |
| `SctSof` | the capture of bus frames and word selects, the handler and `sctSofGetRatio()` | `SofExpected`, `MwsPeriod`, `Wrap`, `Latency`, `MaxLost`, `MaxHalted` |
| `SctResources` | reservations and routes of the two SCT drivers | `Configs`, `Events` |
| `EthRaw` | the Ethernet memory, the start of its transceiver, the network and the peer script | `ChunkCount`, `RxBuffers`, `TxBuffers` |
| `Programs` | `CanNode` and the eleven other programs and drivers side by side, one of which, `which`, moves | those of the twelve modules, renamed |
| `ProgramsProofs` | theorems about `Programs`, and with them those of `CanNode`, `DmaMemCopy`, `CdcComposite`, `SerialEcho`, `CardTest`, `CardReader`, `SctResources` and `UacFeedback` | |
| `MCPrograms` | the constants of `Programs` that are checked | |
| `BoardSteps` | the statements that board functions are made of | |
| `PllSearch` | `findPllConfig()` | |
| `BoardLpc43xx`, `BoardLpc17xx`, `BoardsLpcSmall`, `BoardsOther`, `BoardsStm32` | every board function as a sequence of statements, and the pins of every board | |
| `BoardPrograms` | what `main()` of each example sets up, the examples of each board | |
| `BoardBoot` | a program from reset to its loop: the clock tree, drivers, oscillators, resets | `Code`, `Starts`, `Sharing`, `MaxResets` |
| `BoardStarts`, `MCBoards` | what a reset or a loader leaves; the programs of each run | |

How state and actions correspond to the code:

- `pc` is the statement `main()` is about to execute. A step is as much of it as
  touches at most one thing an interrupt handler can see; a statement sequence
  inside `irqSave()`..`irqRestore()` is one step. Handlers are one step, as they
  run to completion and share one priority. Only `SctSof` splits its handler: the
  counter and the buses go on while it runs, and that is its hazard.
- A stream is the sequence of the requests it holds. `Enqueue` refuses a request
  when `Depth` are held, as `streamEnqueue()` does; the code ignores the result
  or asserts it, and with `NDEBUG` the assertion is gone, so the model goes on
  with the request dropped and states the assertion as a property
  (`EnqueueAccepted`, `RecordRequestAccepted`).
- `streamClear()` cancels the requests a stream holds by calling the callback of
  each from the main loop: `UacAudio!ChangeClear`. In the receive callback a
  cancelled request goes to `micQueue`; in the transmit one to `spkQueue`.
- `UacAudio!device`, `DmaMemCopy!faults`, `CanNode!busFree`, `CardTest!faults`
  and `SctSof!highSpeed` are rigid: chosen in the initial state, never changed.
  They separate a guarantee that needs an assumption on the environment
  (`RoundPasses`: copies end in time; `GroupsComplete`: the bus takes a message
  per tick) from the guarantees that do not, in one state space.
- `CanNode` has discrete time. It passes only where `main()` waits, for an event
  or for room in the queue, as the other statements take microseconds against
  seconds. `chrono` stops at `Timeout`, as the code only asks whether it is
  reached; `elapsed` wraps at `Period`, as the timer does.
- `FlashCfi` keeps the bus cycles of every command and decodes them in the chip,
  a word being the set of its programmed bits, so that programming is a union and
  erasing gives `{}`. The position only moves when the cycles have been made.
- `CdcComposite` and `SerialEcho` number packets and characters modulo more than
  can be under way, so a lost, doubled or swapped one is seen. In `SerialEcho` a
  step of the line is the time of one character: at most one comes and, if one is
  queued, one goes, as both directions have the rate of line 50. `main()` may be
  late by any number of characters, but not between its `ifRead()` and its
  `ifWrite()`, which follow each other. A character that meets a full receive
  queue is lost before the program sees it and has no number.
- `CardReader` assumes of the USB driver of HALM that a unit fails when a transfer
  with its card fails, that it takes no request afterwards, and that it raises the
  event then.
- `SctSof` counts ticks. The program runs only while no interrupt is pending; the
  handler ends within `Latency` ticks of its interrupt, and two runs of it fit in
  the shortest period: with less, a capture is overwritten before it is read and
  an edge is measured twice. `MaxLost` bounds how many edges of one bus in
  succession may come between the read and the clearing of EVFLAG: frames and word
  selects of 8 or 48 kHz keep step, so one unlucky phase can repeat, and the
  counter holds so many periods only (12 MHz and 16 bits hold five full-speed
  frames). The timer is enabled and disabled by the program, for the first time at
  a frame; the sample rate was set before the first ratio. One half of the SCT, and
  one timer.
- `EthRaw` knows data as that of the present run of the peer or of the past. The
  second that the script waits at most is taken to be longer than a board at work
  needs. Frames to the peer are not lost while the link is up; frames to the board
  are lost without a link or a free receive buffer. Timeouts of `phyInit()` may
  end at any time; with `NDEBUG` the program goes on without a link.
- A board function is a sequence of records (`BoardSteps`): enable, wait for or
  disable a clock, initialise a driver on a clock with the pins and channels it
  claims, assert, branch, jump. `BoardBoot` executes the concatenation of the
  functions that an example calls, one statement at a time, while oscillators and
  PLLs settle in their own time and a reset may restart everything but the memory
  that loaders leave settings in. A PLL whose source stops loses its lock.

Names of the form `<Definition><Adjective>` commented "Mutation" or "Mutant" are
faulty variants of the definition they precede or replace (a dropped reset, an
off-by-one, a swapped order). No specification uses them; each property was seen
to fail when one of them replaces the original.

## Runs

| Run | Module, configuration | Shows |
|---|---|---|
| `echo` | `EchoStream`, `MCEchoStream.cfg` | types, ownership, roles, no lost wake-up, and the refinement of `EchoRing` with its liveness |
| `echo_lpc17xx` | `EchoStream`, `MCEchoBoard.cfg` | finding: streams of two refuse the third request |
| `uac_safety` | `MCUacAudio`, `UacSafety.cfg` | ownership on both sides, recorder fed, no lost wake-up |
| `uac_live` | `MCUacAudio`, `UacLive.cfg` | host not blocked, LED follows the bus, a rate change that finds the loop outside its service is followed |
| `uac_rate_assert` | `MCUacAudio`, `UacRateAssert.cfg` | finding: record requests doubled by a rate change |
| `uac_drained` | `MCUacAudio`, `UacDrained.cfg` | finding: `playing` set after the stream has drained |
| `programs` | `MCPrograms`, `Programs.cfg` | twelve programs and drivers side by side, see below |
| `sof_high` | `SctSof`, `SofHigh.cfg` | finding: a lost frame makes a high-speed bus look like a full-speed one |
| `boards` | `MCBoards`, `Boards.cfg` | every example of every board from every start, with a reset at any statement |
| `boards_assert` | `MCBoards`, `BoardsAssert.cfg` | finding: the SPI card test of the stm32f1 board fails its assertion |
| `boards_hang` | `MCBoards`, `BoardsHang.cfg` | finding: the I2C example of the bl602 board waits for the wrong clock |
| `boards_nor` | `MCBoards`, `BoardsNor.cfg` | finding: suspending stops the clock of the Flash memory |

Run one with `tlc -config <cfg> <module>`.

`programs` is one model, `Programs` with the constants of `MCPrograms` and
`Programs.cfg`: the variable `which`, chosen in the initial state, names the
program of a behaviour, the others stay in an initial state of theirs. The
state space is the sum of those of the twelve programs, not their product. Its
properties, by program:

| Property | Programs | What could go wrong |
|---|---|---|
| `AllTypes` | those with queues or data | |
| `PeriodKept`, `GroupsComplete` | CAN node | six timeouts against one period; a group given up on a free bus |
| `RoundPasses`, `DarkMeansCopied`, `NextRound` | DMA copy | verdicts about the copy of another round; a channel that stops the program |
| `EchoInOrder` | composite and serial echo | data lost, doubled or reordered by partial writes or a late main loop |
| `WakeupKept` | both echoes, Ethernet memory | waiting on data whose event was cleared |
| `Served` | composite echo, Ethernet memory, feedback | one stream that starves another; a run of the peer that never ends; a host without a ratio |
| `VerdictRight` | Ethernet memory | a match of a memory that differs, a mismatch of a run that lost nothing |
| `InsideCard`, `OneTransfer` | card test | a smaller card at a high position; a callback to a dead stack frame |
| `CardsFollowed` | card test, card reader | a card not found again; an empty slot that stays mounted |
| `UnitAlive` | card reader | a freed card used by the interrupt |
| `PromiseKept` | Flash driver | a command the chip misunderstands |
| `GoodChipPasses` | Flash test | a good chip reported as bad |
| `FeedbackRight` | SCT timer, feedback | a duration that is no whole number of periods, or reaches over a disabled timer; a zero divisor; unequal distances between two ratios |
| `ReservedByOwners` | SCT timers | a resource or route that survives its owner |

### Bounds

- `echo`: the code's own `BUFFER_COUNT` 5 and the 8 requests of the lpc43xx
  streams. Nothing is cut.
- `uac_safety`: the code's own 5 buffers and the 5 requests of the stm32f4
  streams; a microphone alone and a speaker alone, as the two sides share only
  the flags, which both devices have. `uac_live` uses 3 buffers: half of them is
  one, so the threshold to start, the running state and a full endpoint all
  differ. `MicOwnership` is stated for a device with one rate: with two it is
  false, which is the first finding. A device with both directions is not
  checked as a whole.
- DMA copy: a buffer of 6 and copies of 2 to 5 entries: several lengths, and the
  wrap of the length.
- CAN: groups of 3, a timeout of 4 ticks, 2 buffers. A group is longer than the
  queue, so it has to wait, and shorter than the timeout, so a bus with one
  message per tick can finish; on a free bus the first tick of a group may pass on
  a message of the previous one, hence one tick of slack.
- Composite echo: two streams, queues of two packets, reads of one: both queues
  fill up and a read leaves packets behind. Serial echo: queues of three
  characters and reads of three, lengths that are equal, as on all boards.
- Card test: cards of two and three positions, so that a smaller card can follow
  when the position is beyond its end, and a card that does not answer. Insertions
  and removals are unlimited, there and in the card reader, which has no bound.
- Flash driver: two blocks of two sectors of a one-bit word and writes of up to 3
  words, all contents, so every operation meets each neighbour; Flash test: words
  of two bits, so a word programmed twice with different bits is seen.
- SCT timer: a full-speed frame of 16 ticks, a high-speed one of 2, word selects
  every 4, in step with the frames and in every phase against them; the counter
  wraps at 50, which the periods do not divide, so it wraps at every phase; a
  handler takes up to one tick, half of the shortest period, so that the other edge
  may come in between; up to two edges lost in succession; one tick of being
  disabled, at every phase. The inductive invariant of `SctSofProofs` was checked
  on further sets of constants.
- SCT resources: two timers of each kind that want both halves and one input
  twice, and five events where two converters need six: every allocation can fail.
- Feedback: two high-speed frames in a slot and three slots in an interval; the
  counter wraps after two intervals.
- Ethernet: two chunks, two receive buffers and one transmit buffer: a run of the
  peer (three frames) overflows the board and the answer has to wait.
- Boards: nothing is cut but the number of resets, one: a second reset starts from
  a state that is among the starts or was reached after the first. Rates are kept
  in kHz from a crystal of 12 MHz, and are looked at on the lpc43xx only, where
  the code computes divisors.

### Fairness

- `WF(Main)`: the processor keeps executing the main loop. Interrupts are finite
  and short; a loop starved by them is outside the model.
- `EchoStream`: `WF` on the end of a transmission (a running DMA channel ends its
  request) and `SF` on a successful reception (a receiver does not fail for
  ever).
- `UacAudio`: `WF` on receptions and on start of frame, which the bus sends every
  millisecond; `SF` on the end of a transmission, because the timed device
  suspends it while the main loop copies packets. `HostNotBlocked` is claimed
  under that timing: the code clears `dataReceived` after serving it. The host's
  changes of the sample rate are under no timing assumption: they come at any
  point of the loop. `RateFollowsHost` says what is kept and what is lost: a
  change pending outside the service of the event is followed; one that comes
  between the reading of the rate (`templates/usb_uac.jinja2:348`) and the clearing of
  the event (line 356) is not (see Observations).
- `UacFeedback`: `WF` on the frames of the bus.
- `DmaMemCopy`: `WF` on the channel and on the timer. `NextRound` needs only the
  timer: a channel that fails for ever is allowed.
- `CdcComposite`: `WF` on each host reading its own stream. A host that does not
  read keeps the loop in `transferData()` for ever; that is the code's behaviour.
- `CardTest`: `WF` on the timer and on the end of an accepted transfer, which the
  driver ends with an error when the card is gone. `CardReader`: the same, and
  `WF` on the requests of the host, which polls its unit.
- `EthRaw`: `WF` on the driver that sends while there is a link and on the steps
  of a script that was started. `Answered` is claimed for a cable that stays
  plugged: without a link `sendMemChunk()` repeats its `ifWrite()` for ever.
- `BoardBoot`: `WF` on each oscillator and PLL, which starts once its source runs,
  and on the alarm of the RTC.
- `CanNode`, `SerialEcho`, `SctSof`, `SctResources`: safety only.

In `programs` each of these holds for the program that `which` names; `NextAll`
leaves the variables of the others alone.

## Proofs

All are proved by TLAPS for every value of the constants, under the named
assumptions of the modules. Each safety property that a passing run checks is
proved, except `Orderly`, `RatesRight`, `CoreSource` and `RampUp` of the boards,
which are about the data of their programs; `PROJECT.json` lists theorem and
property.

### Streams of requests

- `EchoStreamProofs`: `TypeCorrect`, `RequestsOwned`, `RolesAgree`,
  `WakeupNotLost` (safety invariants checked in `echo`) and
  `EchoImplementsRing` (every step of the echo is a step of `EchoRing!SafeSpec`
  or a stutter). `Fits`, that the streams hold every request, is an hypothesis of
  the theorems: without it a request is dropped, as `echo_lpc17xx` shows.
  The invariants are not inductive one by one. A request that completes stays in
  its place's order and role only because it was owned once; a stream takes what
  it is given only because at most `BufferCount` requests exist, which follows
  from `Ownership` and the cardinality of `Requests`. The inductive invariant is
  therefore their conjunction. `CustodyLemmas` proves what `Append`, `Tail`,
  `Head` and `\o` do to `InSeq` and `NoRepeat`; the refinement adds that a
  captured request is not in the line, from `Ownership`, and that the line is
  moved as one when the main loop pops and sends. `BootAccepted` adds that under
  `Fits` the assertion of the boot loop holds, which `echo_lpc17xx` violates.
- `UacAudioProofs`: all invariants of `uac_safety`, for every device.
  - `WakeupNotLost`: a flag that is raised while `updated` is not leaves the main
    loop short of the place that serves it (`FlagsSeen`).
  - `RecorderNeverDry`: `RecordStock` counts the record requests wherever they are:
    there are at least as many as were handed out, and a backlog over its cap means
    that all of them are in the stream. The cap and the hand of the main loop then
    leave one over when there are five; `BufferCount >= 5` is an hypothesis, and
    four are too few. It holds for any rates: a request that a change of the rate
    doubles (the first finding) does not make them fewer.
  - `PlaybackOwned` for any rates, `RecordOwned` for a device of one rate: `Owned`
    says that the stream, the queue and the hand of the main loop share no request
    and hold all; each step is one of four moves of `Owned`. With one rate
    `changeRate()` runs at boot only (`NeverChanges`), which is why `RecordOwned`
    needs it; `AcceptedAtOneRate` adds that the assertion which the first finding
    violates holds there.

### Echoes

- `ProgramsProofs`: `SerialKeepsOrder`. What waits in both queues is at most the
  receive queue's length, because a character that comes takes one away; hence
  `ifWrite()` always takes what `ifRead()` returned, and the characters move as one
  line of successive numbers, which `CustodyLemmas` describes (`Ordered`). It rests
  on `SerialAssumption`: the transmit queue is no shorter than the receive queue.
  `CharactersNotForgotten` needs no assumption.
- The same for each stream of the composite echo. `EchoHand`
  gives what `main()` holds to the stream it serves; `EchoLines` says that the line
  of each stream has the numbers between those its host expects and sends next.
  With the serial echo this is `EchoOrdered` (`EchoInOrder`).

### Protocols

- `EthRawProofs`: `VerdictAboutBoard` (`VerdictRight`) for any memory and buffers.
  `Ages` says that queues keep the order of the runs: nothing of the past is stored
  or waits behind a chunk of the present run, and no chunk of the present is read
  back that is not stored. So a match is about the memory. `Undisturbed` describes
  a run that lost nothing: each chunk sent is stored or on its way (`Stored`),
  before the request none is there and after it all chunks precede it (`Asked`),
  then answers are the chunks in order (`Answering`). A mismatch contradicts it.
  `Unread` is the subtle part: as long as `main()` has been told of nothing, all
  that was sent is in the buffers. `EthAssumption` has fewer buffers than the
  chunks and the request need; with more, a run could end in buffers that nobody
  reads.
- `FlashProofs`: `PromisesKept` and `TestPasses` for every geometry, length of a
  word and pattern that fits in a sector. `Underway` says that the chip has decoded
  the first cycles of the command of the operation and the others are to come; the
  contents follow from how many words are done (`Writing`, `Erasing`). `ClientInv`
  says for each place of the test what the region holds; the second sequence finds
  a programmed sector.

### Time

- `ProgramsProofs!TestsInPeriod` (`PeriodKept`) is strengthened by a budget: in
  group `g` with the chrono timer at `c` a test has taken at most
  `(g - 1) * Timeout + c`. A tick spends one unit of it, a new group starts with
  what is left, six timeouts are less than the period of ten. Nothing is assumed of
  the bus. `GroupsWhole` (`GroupsComplete`, an action property) adds that on a free
  bus the chrono timer is ahead of the messages of a group by at most one
  (`GroupPaid`), the tick that may pass on a message of the group before. It needs
  `GroupSize < Timeout` in ticks of a message: a timeout of exactly the group's
  length gives up the last message.
- `SctSofProofs`: `DurationsRight` and `RatioIsDefined`. A capture is what the
  counter showed at the last edge, modulo `Wrap`; the capture before it is older by
  as many periods as are owed, those lost and the one that waits (`Captured`).
  That the capture is still that of the edge whose flag was read is `Timely`, and
  needs two runs of the handler in a period. The difference is the duration only if
  the periods of all edges lost fit the counter. `SpeedIsTold` is the other side of
  `sof_high`: with no edge lost (`MaxLost = 0`) the duration tells the speed of the
  bus. `ProgramsProofs!FeedbacksRight`
  joins it with `UacFeedback`: the frames since the last ratio are those that the
  counter made since it was a multiple of the gap (`FeedbackInv`), across its wrap
  because the gap divides it (`GapDivides`).
- DMA copy: `RoundsPass` and `DarkIsTrue`. `CopyDark` holds with faults: a flag of
  an older copy noted while the channel works is about a copy of the same length,
  and a dark LED means that nothing is left to be copied elsewhere. `CopyClean` says
  that without faults `main()` is always told about the copy it has started.

### Cards and resources

- `CardsInside`, `TransfersApart` (`InsideCard`, `OneTransfer`). The inductive part
  is that a whole arena fits at the position of a mounted card and that the
  position is a multiple of it, which needs capacities that are multiples of the
  arena (`CardAssumption`), and that the event of a transfer means that it has
  ended.
- `UnitsAlive` (`UnitAlive`), strengthened by what the position of `main()` says of
  the card and its unit, and by the fact that only a unit that has not failed is
  busy.
- `ReservationsOwned` (`ReservedByOwners`), for any number of timers, any
  configurations and any events. A timer that does not exist holds nothing; what
  one step adds was free and what it drops was its own, so the others' parts stay
  (`OneChanges`); a route belongs to the holder of its event, so that no two timers
  share one (`RoutesApart`).

### Boards

`BoardBootProofs` is about every program that can be written with the statements of
`BoardSteps`, every start and any number of resets. Its assumptions on the constants
are `CodeAssumption` (branches stay inside of the program, a clock is fed from a
lower layer of the clock tree),
`StartAssumption` (a start has its core and memory clocked) and `ResetsAssumption`;
TLC evaluates them in `boards` on the programs of the sixteen boards.

- `TypeCorrect` and `DriversApart` (`TypeOK`, `Exclusive`). `BootInv` says that the
  code is that of the program, that the clocks are layered and that each driver
  comes from a statement, which it remembers (`at`): two drivers with a common pin
  would be two such statements, which the hypothesis `ClaimsApart` excludes. It is a
  fact of the text of a program, true of all but the five of `KnownSharing`, and
  stronger than `Exclusive`, which TLC checks.
- `CoreStaysClocked` and `DevicesStayClocked` (`CoreClocked`, `DevicesClocked`).
  That the clocks stay is not inductive: it depends on what the board functions do.
  `Orderly` is the part that does, and it is about the next statement alone: what is
  stopped, or is a PLL that starts again, must not be on the path of a clock in use;
  what is in use, or is the code memory, is only moved to a source that runs; a
  driver starts on a running clock. TLC checks it at every statement of every
  program. The theorems say that it is enough: no oscillator that settles, no PLL
  that loses its lock with its source, no reset and no loader takes a clock away.
  The argument is the layers. A path goes down in every step but at a root, so it
  ends at one (`PathIs`, `ChainWithin`), and a clock is fed exactly if a set of
  running clocks that the sources do not lead out of holds it (`FedBySet`). Paths
  that do not pass the clock that changes stay (`Undisturbed`); those that do are
  completed by the path of the new source (`Moved`); an oscillator that becomes
  ready may take the place of another in the selector of the imxrt (`Settled`); a
  reset keeps the backup oscillator only, which no start depends on (`Restarted`).
- `DividersKeepLimit`, an action property: the divisor of `clockEnable()` for a
  limit is rounded up, so the clock is within the limit, and it is the least such
  divisor. The rate of a clock is that of its source, scaled (`RateOfSource`), and
  the change leaves the rate of the source alone because that is in a lower layer
  (`RateBelow`).
- `SearchInRange`, `ExactPairFound`: `findPllConfig()` for any frequency (in kHz) of the
  crystal and any target. It keeps the oscillator of the PLL between 156 and 320 MHz
  and returns the least error of the pairs it tries; and when a multiplier and a
  power of two make the target exactly, they are among those tried, so that the
  assertion that the board makes on the error holds. The choice of the first best
  pair has a witness because the pairs, numbered by error, multiplier and divisor,
  have a least one (`LeastOf`, from the well-foundedness of the numbers).

### Programs side by side

`ProgramsProofs` proves the invariants of `programs` as they are checked. `OneRuns`
says that a step is one of the program `which` names and leaves the variables of the
others alone; so each behaviour is one of every component (`CanRuns`, `CardRuns`,
`EthRuns`, ...), and what is proved of a component, through its `INSTANCE` or here,
holds of its part. The Flash chip and the Flash test share variables: `ChipRuns` and
`EmcRuns` say which of the two specifications a behaviour follows. `TypesCorrect`
(`AllTypes`) collects the types of all. All of it is under `ProgramAssumption`, the
conjunction of the components' assumptions, which TLC evaluates in `programs`.

### Only model-checked

- Liveness and everything under fairness: `RingSpec` beyond its safety part,
  `HostNotBlocked`, `LinkLedFollows`, `RateFollowsHost`, `NextRound`, `Served`,
  `CardsFollowed`, `BootEnds`. The prover does not reach them.
- `BoardBoot`: `Orderly`, `RatesRight`, `CoreSource` and `RampUp`. They are what the
  functions of the sixteen boards do, finite data that TLC enumerates in full; for
  other programs they are false (`boards_nor` is one that is not orderly), so there
  is no parameter to prove them for.

## Findings

1. `templates/usb_uac.jinja2:205`: `changeRate()` empties `micQueue` before it
   cancels the receive stream, which pushes the cancelled requests back into it.
   After a rate change each record request is in the stream and in the queue. The
   transmit side has the opposite order.
2. `templates/usb_uac.jinja2:421`: `playing` becomes true after the blocks were
   queued, so a stream that has drained meanwhile leaves it set, against the
   comment at 118.
3. `lpc17xx_default/shared/board.c:348`: the streams hold two requests, the echo
   that this board builds enqueues five and asserts each.
4. `stm32f1xx_default/shared/board.c:274`: the polling timer counts at 10 kHz, the
   SPI card test asserts 50 kHz.
5. `bl602_default/shared/board.c:93`: `boardSetupI2C()` enables `I2CClock` and
   waits for `UartClock`; the I2C example never reaches its loop.
6. `lpc43xx_default/shared/board.c:203`: `boardResetClock()` stops the PLL while
   the clock of a Flash memory that the program may run from comes from it.
7. `lpc43xx_default/shared/sct_sof.c:74`: a frame reported between the read and the
   clearing of EVFLAG is lost, and two high-speed frames are taken for one of full
   speed.

### Observations

Met while modelling, and not violations of anything the repository says:

- Pins with two owners: pin 3 of the bl602 is `LED_0`, `PWM_1` and the I2C data line; `CAPTURE` and
  `PWM_0` of the lpc17xx are both 1.18; the stm32f0 `adc_dma` samples A2, the
  transmit line of its serial port. `KnownSharing` in `MCBoards` names them, and
  `Exclusive` holds for all other programs.
- `memory_sdram` of the lpc43xx keeps the core at 204 MHz when a loader left
  settings, though its set-up asks for at most 96 MHz otherwise.
- The comment of `findPllConfig()` (`board.c:122`) has divisors up to 16, the `MIN`
  of line 140 goes to 32.
- `AudioPll` of the m0app board keeps the divisor of the first core when it already
  runs.
- A change of the sample rate keeps the duration of the old rate until the next
  capture (`sct_sof.c:338`): a ratio asked for meanwhile mixes both.
- `sct_adc.c:161` writes the cycle to the match register, `setOverflow()` writes
  one less: the first cycle is one tick longer.
- `lpc17xx_default/adc_dma_stream/main.c:55` declares its buffers `[count][2]` and
  uses them as two arrays of `count`: they overlap.
- `sendMemChunk()` does not swap the bytes of `packet->length`
  (`eth_raw/main.c:216`): the peer ignores the field, a board would refuse it.
- Frames that arrive before `ifSetCallback()` (`eth_raw/main.c:239`) raise no
  event; they are read with the first frame after it. `WakeupKept` counts them
  apart.
- `templates/spi.jinja2:74` raises the chip select right after a zero-copy
  `ifWrite()`, which may still be under way.
- `templates/usb_uac.jinja2:356` clears `rateChanged` after the rate was read at line
  348: a second change in between is forgotten until a third one. TLC shows it when
  `pc \notin Applying` is dropped from `RateFollowsHost`. The programs promise
  nothing about it, so no run expects it as a violation.
- `tmrInit()` of `sct_sof.c` and of `sct_adc.c` returns `E_BUSY` without releasing the
  events and states it had reserved before (`sct_sof.c:134-153`). The programs
  assert on the result; `ReservedByOwners` counts what is kept as owned.
- `templates/i2s_tone.jinja2:152` enqueues three requests and ignores the result:
  the lpc17xx streams take two.

## Not modelled

- The loops of the sample streams (`i2s_tone`, `dac_dma`, `adc_dma`, `adc`,
  `adc_dma_stream`): each handler returns its request to the stream it came from;
  their buffers are data.
- The loops of `serial_dma` and `serial_poll`: what they may lose is decided by the
  drivers of HALM. `usb_cdc` and `usb_cdc_strings` are the loop of `CdcComposite`
  with one stream.
- The loops of the bus masters and slaves (`spi`, `spim`, `i2c*`, `eeprom`,
  `flash`, `external_memory`, `qspi_nor`): one device, one blocking or timed
  transfer after another, and an LED; what could go wrong is in the drivers.
- Work queues, timer factories, task sequences and the programs of
  `generic_default`: the queues and factories are HALM's; whether a task comes in
  step is a property of theirs.
- Power, watchdogs, interrupt priorities and plain timers beyond their set-up,
  resets and the suspend loop: one flag and one output each.
- The value, frequency and overflow of the SCT timers: single register writes.
- LEDs that follow single transfers, the strings of USB descriptors, the format of
  Ethernet frames, samples.
- The build system: it has no run-time behaviour.

## Plan

The code that is left is named above and holds little that states could show, and
each safety property that has a parameter is proved. If a board or an example is
added, its functions belong into a `Boards...` module and its name into
`BoardPrograms`; TLC then checks `CodeAssumption` and `Orderly` of it, and the
theorems hold of it as they stand.
