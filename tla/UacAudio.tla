------------------------------ MODULE UacAudio ------------------------------
(***************************************************************************)
(* templates/usb_uac.jinja2: a USB sound card.  Recorded blocks go from    *)
(* the I2S receive stream through micQueue to the host, played blocks from *)
(* the host through spkQueue and the I2S transmit stream.                  *)
(*                                                                         *)
(* Four actors: the host, whose USB events run onUacEvent(), the two I2S   *)
(* streams, whose completions run onDataReceived() and onDataSent(), and   *)
(* the main loop.  The three callbacks are interrupt handlers: each runs   *)
(* to completion between two statements of the main loop.  streamClear()   *)
(* stops its stream and then cancels the requests it holds, calling the    *)
(* callback of each from the main loop.                                    *)
(***************************************************************************)
EXTENDS Naturals, Sequences, Custody

CONSTANTS
  BufferCount,   \* BUFFER_COUNT, also the packets the UAC endpoint buffers
  Depth,         \* requests a stream can hold: .size of the board's I2SDmaConfig
  Devices        \* sound cards to look at: records with the fields
                 \*   rx, tx     audio.rx # NULL, audio.tx # NULL
                 \*   rates      audioSampleRates
                 \*   anyTiming  TRUE: no assumption on timing; FALSE: no block
                 \*              (a millisecond of sound) ends while the main
                 \*              loop copies its packets

ASSUME UacAssumption ==
  /\ BufferCount \in Nat \ {0}
  /\ Depth \in Nat
  /\ \A d \in Devices : /\ d.rx \in BOOLEAN /\ d.tx \in BOOLEAN
                        /\ d.rates # {} /\ "none" \notin d.rates
                        /\ d.anyTiming \in BOOLEAN

Requests == 0 .. BufferCount - 1   \* micRequests and spkRequests alike
Half == BufferCount \div 2

VARIABLES
  rx, micQueue,   \* where the record requests are
  tx, spkQueue,   \* where the playback requests are
  event,          \* context.event
  playing,        \* context.state.playing
  suspended,      \* context.state.suspended
  updated,        \* context.state.updated
  available,      \* packets from the host the endpoint holds
  hostRate, hostSuspended,   \* what the host has asked for
  deviceRate,     \* rate of the I2S interface
  linkLed,
  pc, index, rate, request,  \* the main program and its locals
  device          \* the device that was built, one of Devices

mic == <<rx, micQueue>>
spk == <<tx, spkQueue>>
host == <<available, hostRate, hostSuspended>>
flags == <<event, playing, suspended, updated>>
locals == <<index, rate, request>>
outputs == <<deviceRate, linkLed>>
vars == <<mic, spk, host, flags, locals, outputs, pc>>

HasRx == device.rx
HasTx == device.tx
Rates == device.rates
AnyTiming == device.anyTiming

Enqueue(stream, r) ==
  IF Len(stream) < Depth THEN Append(stream, r) ELSE stream

Take(s, n) == SubSeq(s, 1, n)
Drop(s, n) == SubSeq(s, n + 1, Len(s))

-----------------------------------------------------------------------------
(* Interrupt handlers                                                      *)

(* Mutation: the backlog may grow to the size of the queue.                *)
OutdatedLate(queue) == IF Len(queue) > BufferCount THEN Len(queue) - BufferCount ELSE 0

(* How many queued blocks onDataReceived() discards.                       *)
Outdated(queue) == IF Len(queue) > Half THEN Len(queue) - Half ELSE 0

(* Mutation: the discarded blocks are not given back to the stream.        *)
ReceivedLeaking(r, stream) ==
  /\ rx' = stream
  /\ micQueue' = Append(Drop(micQueue, Outdated(micQueue)), r)

(* onDataReceived() of a block that was not cancelled: the oldest blocks   *)
(* over one half of the queue return to the receive stream, which takes    *)
(* them while it has room.                                                 *)
Received(r, stream) ==
  LET n == Outdated(micQueue)
      room == Depth - Len(stream)
  IN /\ rx' = stream \o Take(micQueue, IF n <= room THEN n ELSE room)
     /\ micQueue' = Append(Drop(micQueue, n), r)

ReceiveDone ==
  /\ rx # <<>>
  /\ Received(Head(rx), Tail(rx))
  /\ UNCHANGED <<spk, host, flags, locals, outputs, pc>>

(* onDataSent(): no request pending in the stream stops the playback.      *)
TransmitDone ==
  /\ tx # <<>>
  /\ AnyTiming \/ pc \notin {"read", "play"}
  /\ tx' = Tail(tx)
  /\ spkQueue' = Append(spkQueue, Head(tx))
  /\ playing' = (playing /\ Tail(tx) # <<>>)
  /\ UNCHANGED <<mic, host, event, suspended, updated, locals, outputs, pc>>

(* Mutation: playback waits for more packets than the endpoint holds.      *)
OnUacEventLate(packets, sof, newRate, isSuspended) ==
  LET ready == HasTx /\ packets > (IF playing THEN 0 ELSE BufferCount) IN
  /\ event' = [event EXCEPT !.dataReceived = @ \/ ready,
                            !.startOfFrame = @ \/ sof,
                            !.rateChanged = @ \/ newRate]
  /\ suspended' = isSuspended
  /\ updated' = (updated \/ ready \/ sof \/ newRate \/ suspended # isSuspended)
  /\ UNCHANGED playing

(* onUacEvent(): packets are available, sof and newRate are bits of the    *)
(* status; a high-speed bus reports one start of frame in eight, so sof is *)
(* what the frame counter lets through.                                    *)
OnUacEvent(packets, sof, newRate, isSuspended) ==
  LET ready == HasTx /\ packets > (IF playing THEN 0 ELSE Half) IN
  /\ event' = [event EXCEPT !.dataReceived = @ \/ ready,
                            !.startOfFrame = @ \/ sof,
                            !.rateChanged = @ \/ newRate]
  /\ suspended' = isSuspended
  /\ updated' = (updated \/ ready \/ sof \/ newRate \/ suspended # isSuspended)
  /\ UNCHANGED playing

(* The host acts only once the device is connected, after the boot.        *)
Booting == deviceRate = "none"

HostStep == ~Booting /\ UNCHANGED <<mic, spk, locals, outputs, pc>>

HostData ==
  /\ HostStep
  /\ HasTx /\ available < BufferCount
  /\ available' = available + 1
  /\ OnUacEvent(available', FALSE, FALSE, hostSuspended)
  /\ UNCHANGED <<hostRate, hostSuspended>>

HostFrame ==
  /\ HostStep
  /\ OnUacEvent(available, TRUE, FALSE, hostSuspended)
  /\ UNCHANGED host

HostChangesRate ==
  /\ HostStep
  /\ hostRate' \in Rates \ {hostRate}
  /\ OnUacEvent(available, FALSE, TRUE, hostSuspended)
  /\ UNCHANGED <<available, hostSuspended>>

HostSuspend ==
  /\ HostStep
  /\ hostSuspended' = ~hostSuspended
  /\ OnUacEvent(available, FALSE, FALSE, hostSuspended')
  /\ UNCHANGED <<available, hostRate>>

Interrupt ==
  ReceiveDone \/ TransmitDone \/ HostData \/ HostFrame \/ HostChangesRate \/ HostSuspend
-----------------------------------------------------------------------------
(* changeRate(), called at boot and from the main loop                     *)

(* Mutation: the playback side in the order of the record side.            *)
ChangeClearSwapped ==
  /\ pc = "clear"
  /\ IF HasRx THEN micQueue' = rx /\ rx' = <<>> ELSE UNCHANGED mic
  /\ IF HasTx
       THEN /\ spkQueue' = tx /\ tx' = <<>>
            /\ playing' = (playing /\ tx = <<>>)
       ELSE UNCHANGED <<spk, playing>>
  /\ index' = 0
  /\ pc' = "fill"
  /\ UNCHANGED <<host, event, suspended, updated, rate, request, outputs>>

(* The record side empties its queue first and cancels the stream after,   *)
(* which pushes the cancelled requests to the queue; the playback side     *)
(* does it in the other order.                                             *)
ChangeClear ==
  /\ pc = "clear"
  /\ IF HasRx THEN micQueue' = rx /\ rx' = <<>> ELSE UNCHANGED mic
  /\ IF HasTx
       THEN /\ tx' = <<>> /\ spkQueue' = <<>>
            /\ playing' = (playing /\ tx = <<>>)
       ELSE UNCHANGED <<spk, playing>>
  /\ index' = 0
  /\ pc' = "fill"
  /\ UNCHANGED <<host, event, suspended, updated, rate, request, outputs>>

(* Mutation: the loop runs once too often.                                 *)
ChangeFillOverrun ==
  /\ pc = "fill"
  /\ IF HasTx THEN spkQueue' = Append(spkQueue, index) ELSE UNCHANGED spkQueue
  /\ IF HasRx THEN rx' = Enqueue(rx, index) ELSE UNCHANGED rx
  /\ index' = index + 1
  /\ pc' = IF index < BufferCount THEN "fill" ELSE "setRate"
  /\ UNCHANGED <<tx, micQueue, host, flags, rate, request, outputs>>

(* One turn of the loop that initialises and enqueues the requests.        *)
ChangeFill ==
  /\ pc = "fill"
  /\ IF HasTx THEN spkQueue' = Append(spkQueue, index) ELSE UNCHANGED spkQueue
  /\ IF HasRx THEN rx' = Enqueue(rx, index) ELSE UNCHANGED rx
  /\ index' = index + 1
  /\ pc' = IF index + 1 < BufferCount THEN "fill" ELSE "setRate"
  /\ UNCHANGED <<tx, micQueue, host, flags, rate, request, outputs>>

(* At boot the device is connected next; in the main loop the flag of the  *)
(* event is cleared next.                                                  *)
ChangeSetRate ==
  /\ pc = "setRate"
  /\ deviceRate' = rate
  /\ pc' = IF Booting THEN "wait" ELSE "ackRate"
  /\ UNCHANGED <<mic, spk, host, flags, locals, linkLed>>

-----------------------------------------------------------------------------
(* main()                                                                  *)

Init ==
  /\ device \in Devices
  /\ rx = <<>> /\ micQueue = <<>> /\ tx = <<>> /\ spkQueue = <<>>
  /\ event = [dataReceived |-> FALSE, rateChanged |-> FALSE, startOfFrame |-> FALSE]
  /\ playing = FALSE /\ suspended = TRUE /\ updated = FALSE
  /\ available = 0 /\ hostSuspended = TRUE
  /\ hostRate \in Rates /\ rate = hostRate
  /\ deviceRate = "none" /\ linkLed = FALSE
  /\ pc = "clear" /\ index = 0 /\ request = 0

MainWake ==
  /\ pc = "wait"
  /\ updated
  /\ updated' = FALSE
  /\ pc' = "rate"
  /\ UNCHANGED <<mic, spk, host, event, playing, suspended, locals, outputs>>

MainRate ==
  /\ pc = "rate"
  /\ IF event.rateChanged
       THEN rate' = hostRate /\ pc' = "clear"
       ELSE pc' = "sof" /\ UNCHANGED rate
  /\ UNCHANGED <<mic, spk, host, flags, index, request, outputs>>

MainAckRate ==
  /\ pc = "ackRate"
  /\ event' = [event EXCEPT !.rateChanged = FALSE]
  /\ pc' = "sof"
  /\ UNCHANGED <<mic, spk, host, playing, suspended, updated, locals, outputs>>

(* One start of frame takes the oldest recorded block.                     *)
MainFrame ==
  /\ pc = "sof"
  /\ IF event.startOfFrame /\ HasRx /\ micQueue # <<>>
       THEN /\ request' = Head(micQueue)
            /\ micQueue' = Tail(micQueue)
            /\ pc' = "sendMic"
       ELSE /\ pc' = IF event.startOfFrame THEN "ackSof" ELSE "data"
            /\ UNCHANGED <<micQueue, request>>
  /\ UNCHANGED <<rx, spk, host, flags, index, rate, outputs>>

MainSendMic ==
  /\ pc = "sendMic"
  /\ rx' = Enqueue(rx, request)
  /\ pc' = "ackSof"
  /\ UNCHANGED <<micQueue, spk, host, flags, locals, outputs>>

(* Mutation: all events are cleared, those that came in the meantime too.  *)
MainAckFrameAll ==
  /\ pc = "ackSof"
  /\ event' = [dataReceived |-> FALSE, rateChanged |-> FALSE, startOfFrame |-> FALSE]
  /\ pc' = "data"
  /\ UNCHANGED <<mic, spk, host, playing, suspended, updated, locals, outputs>>

MainAckFrame ==
  /\ pc = "ackSof"
  /\ event' = [event EXCEPT !.startOfFrame = FALSE]
  /\ pc' = "data"
  /\ UNCHANGED <<mic, spk, host, playing, suspended, updated, locals, outputs>>

MainData ==
  /\ pc = "data"
  /\ pc' = IF event.dataReceived THEN "read" ELSE "led"
  /\ UNCHANGED <<mic, spk, host, flags, locals, outputs>>

(* The front of the queue is filled, and popped when something was read.   *)
MainRead ==
  /\ pc = "read"
  /\ IF spkQueue # <<>> /\ available > 0
       THEN /\ request' = Head(spkQueue)
            /\ spkQueue' = Tail(spkQueue)
            /\ available' = available - 1
            /\ pc' = "play"
       ELSE pc' = "playing" /\ UNCHANGED <<spkQueue, available, request>>
  /\ UNCHANGED <<mic, tx, hostRate, hostSuspended, flags, index, rate, outputs>>

MainPlay ==
  /\ pc = "play"
  /\ tx' = Enqueue(tx, request)
  /\ pc' = "read"
  /\ UNCHANGED <<mic, spkQueue, host, flags, locals, outputs>>

MainPlaying ==
  /\ pc = "playing"
  /\ playing' = TRUE
  /\ pc' = "ackData"
  /\ UNCHANGED <<mic, spk, host, event, suspended, updated, locals, outputs>>

MainAckData ==
  /\ pc = "ackData"
  /\ event' = [event EXCEPT !.dataReceived = FALSE]
  /\ pc' = "led"
  /\ UNCHANGED <<mic, spk, host, playing, suspended, updated, locals, outputs>>

(* Mutation: updated is cleared when the turn ends as well.                *)
MainLedClears ==
  /\ pc = "led"
  /\ linkLed' = ~suspended
  /\ updated' = FALSE
  /\ pc' = "wait"
  /\ UNCHANGED <<mic, spk, host, event, playing, suspended, locals, deviceRate>>

(* Mutation: nothing turns the LED off.                                    *)
MainLedStaysOn ==
  /\ pc = "led"
  /\ linkLed' = (linkLed \/ ~suspended)
  /\ pc' = "wait"
  /\ UNCHANGED <<mic, spk, host, flags, locals, deviceRate>>

MainLed ==
  /\ pc = "led"
  /\ linkLed' = ~suspended
  /\ pc' = "wait"
  /\ UNCHANGED <<mic, spk, host, flags, locals, deviceRate>>

Main ==
  \/ ChangeClear \/ ChangeFill \/ ChangeSetRate
  \/ MainWake \/ MainRate \/ MainAckRate
  \/ MainFrame \/ MainSendMic \/ MainAckFrame
  \/ MainData \/ MainRead \/ MainPlay \/ MainPlaying \/ MainAckData
  \/ MainLed

Next == (Main \/ Interrupt) /\ UNCHANGED device

SafeSpec == Init /\ [][Next]_<<vars, device>>

(* The main loop keeps running, a stream that holds a request completes    *)
(* it (strong fairness, as the timing assumption suspends the completion   *)
(* while packets are copied), and the bus keeps reporting frames.          *)
Fairness ==
  /\ WF_vars(Main)
  /\ WF_vars(ReceiveDone)
  /\ SF_vars(TransmitDone)
  /\ WF_vars(HostFrame)

Spec == SafeSpec /\ Fairness

-----------------------------------------------------------------------------
(* Properties                                                              *)

TypeOK ==
  /\ rx \in Seq(Requests) /\ micQueue \in Seq(Requests)
  /\ tx \in Seq(Requests) /\ spkQueue \in Seq(Requests)
  /\ event \in [dataReceived : BOOLEAN, rateChanged : BOOLEAN, startOfFrame : BOOLEAN]
  /\ {playing, suspended, updated, hostSuspended, linkLed} \subseteq BOOLEAN
  /\ available \in 0..BufferCount
  /\ {hostRate, rate} \subseteq Rates /\ deviceRate \in Rates \cup {"none"}
  /\ pc \in {"clear", "fill", "setRate", "wait", "rate", "ackRate", "sof",
             "sendMic", "ackSof", "data", "read", "play", "playing", "ackData", "led"}
  /\ index \in 0..BufferCount /\ request \in Requests

Disjoint(s, t) == InSeq(s) \cap InSeq(t) = {}

(* Requests the boot loop or changeRate() has handed out so far.           *)
Issued ==
  IF pc = "clear" /\ Booting THEN {}
  ELSE IF pc = "fill" THEN 0 .. index - 1 ELSE Requests

(* Every record request is in exactly one of the receive stream, micQueue  *)
(* and the hand of the main loop, once; so micQueue never holds more than  *)
(* the BUFFER_COUNT it has room for.  Holds as long as the rate never      *)
(* changes (a device configured with one UAC_SAMPLERATE).                  *)
MicOwnership ==
  LET hand == IF pc = "sendMic" THEN {request} ELSE {}
      oneRate == \A q, r \in Rates : q = r
  IN
  HasRx /\ oneRate =>
           /\ NoRepeat(rx) /\ NoRepeat(micQueue) /\ Disjoint(rx, micQueue)
           /\ hand \cap (InSeq(rx) \cup InSeq(micQueue)) = {}
           /\ InSeq(rx) \cup InSeq(micQueue) \cup hand = Issued

(* The same of the playback requests; it holds under any rate changes.     *)
SpkOwnership ==
  LET hand == IF pc = "play" THEN {request} ELSE {} IN
  HasTx => /\ NoRepeat(tx) /\ NoRepeat(spkQueue) /\ Disjoint(tx, spkQueue)
           /\ hand \cap (InSeq(tx) \cup InSeq(spkQueue)) = {}
           /\ InSeq(tx) \cup InSeq(spkQueue) \cup hand = Issued

(* Recording never runs dry: the cap on the backlog leaves the receive     *)
(* stream a request even if the host takes nothing.                        *)
RecorderFed == HasRx /\ pc \notin {"clear", "fill"} => rx # <<>>

(* What streamEnqueue() of a record request in changeRate() asserts: the   *)
(* stream takes it.                                                        *)
RecordRequestAccepted == HasRx /\ pc = "fill" => Len(rx) < Depth

(* The comment of onDataSent(): a drained transmit stream has stopped the  *)
(* playback, so that the next one is buffered before it starts.            *)
DrainedMeansStopped == pc = "wait" /\ tx = <<>> => ~playing

(* The main loop does not sleep on a rate change or a recorded frame: a    *)
(* flag it has to serve leaves updated raised.                             *)
NoLostWakeup ==
  pc = "wait" /\ (event.rateChanged \/ event.startOfFrame \/ event.dataReceived)
    => updated

(* A host that has filled the endpoint can send again.                     *)
HostNotBlocked == available = BufferCount ~> available < BufferCount

(* The LED ends up showing the suspend state the host stays in.            *)
LinkLedFollows ==
  \A s \in BOOLEAN : <>[](hostSuspended = s) => <>[](linkLed = ~s)

(* From the reading of the rate to the clearing of its event: main() does  *)
(* not see a change that comes now.                                        *)
Applying == {"clear", "fill", "setRate", "ackRate"}

(* A change of the rate is lost only if it comes between the reading of    *)
(* the rate and the clearing of the event.  Any other one is followed: the *)
(* interface ends up with the rate the host stays with, also when earlier  *)
(* changes were lost.                                                      *)
RateFollowsHost ==
  \A r \in UNION {d.rates : d \in Devices} :
    (pc \notin Applying /\ event.rateChanged /\ [](hostRate = r)) ~> [](deviceRate = r)
=============================================================================
