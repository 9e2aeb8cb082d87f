---------------------------- MODULE UacAudioProofs ----------------------------
(***************************************************************************)
(* The USB sound card, for any number of requests, any device and any      *)
(* order of the host, the streams and the main loop: the wake-up of the    *)
(* main loop, the supply of the receive stream and who owns the requests.  *)
(***************************************************************************)
EXTENDS UacAudio, CustodyLemmas

USE UacAssumption

(* The boot runs changeRate() before the host may act, and its loop has    *)
(* requests left to hand out while it runs.                                *)
Phase ==
  /\ device \in Devices
  /\ Booting => pc \in {"clear", "fill", "setRate"}
  /\ pc = "fill" => index < BufferCount

(* A flag that is raised while updated is not leaves the main loop short   *)
(* of the place that serves it.                                            *)
Change == {"rate", "clear", "fill", "setRate", "ackRate"}
FlagsSeen ==
  /\ Booting => ~(event.rateChanged \/ event.startOfFrame \/ event.dataReceived)
  /\ ~updated /\ event.rateChanged => pc \in Change
  /\ ~updated /\ event.startOfFrame => pc \in Change \cup {"sof", "sendMic", "ackSof"}
  /\ ~updated /\ event.dataReceived => pc \notin {"led", "wait"}

CoreInv == TypeOK /\ Phase /\ FlagsSeen

LEMMA DeviceRates ==
  ASSUME device \in Devices
  PROVE  HasRx \in BOOLEAN /\ HasTx \in BOOLEAN /\ "none" \notin Rates
BY DEF HasRx, HasTx, Rates

LEMMA HalfType == Half \in Nat /\ Half <= BufferCount
BY DEF Half

LEMMA CoreInvInit == Init => CoreInv
<1> SUFFICES ASSUME Init PROVE CoreInv
  OBVIOUS
<1>1. /\ <<>> \in Seq(Requests) /\ 0 \in Requests /\ 0 \in 0..BufferCount
      /\ event \in [dataReceived : BOOLEAN, rateChanged : BOOLEAN, startOfFrame : BOOLEAN]
  BY DEF Init, Requests
<1>2. TypeOK
  BY <1>1 DEF Init, TypeOK
<1>3. Phase /\ FlagsSeen
  BY DEF Init, Phase, FlagsSeen, Booting
<1> QED BY <1>2, <1>3 DEF CoreInv

-----------------------------------------------------------------------------
(* What onDataReceived() takes from the queue fits the queue.              *)
LEMMA OutdatedRange ==
  ASSUME NEW q \in Seq(Requests)
  PROVE  /\ Outdated(q) \in 0 .. Len(q)
         /\ Len(q) - Outdated(q) <= Half
BY HalfType, LenProperties DEF Outdated

(* The sequences keep their type when a block is received.                 *)
LEMMA ReceivedTypes ==
  ASSUME Depth \in Nat, NEW r \in Requests, NEW s \in Seq(Requests),
         micQueue \in Seq(Requests), Received(r, s)
  PROVE  rx' \in Seq(Requests) /\ micQueue' \in Seq(Requests)
<1> DEFINE n == Outdated(micQueue)
           room == Depth - Len(s)
           k == IF n <= room THEN n ELSE room
<1>1. n \in 0 .. Len(micQueue) /\ room \in Int /\ Len(micQueue) \in Nat
  BY OutdatedRange, LenProperties
<1>2. k \in Int /\ k <= Len(micQueue)
  BY <1>1
<1>3. rx' = s \o Take(micQueue, k) /\ micQueue' = Append(Drop(micQueue, n), r)
  BY DEF Received
<1> HIDE DEF n, k
<1>4. Take(micQueue, k) \in Seq(Requests)
  <2>1. \A i \in 1 .. k : micQueue[i] \in Requests
    BY <1>1, <1>2, ElementOfSeq
  <2> QED BY <1>2, <2>1, SubSeqProperties DEF Take
<1>5. Drop(micQueue, n) \in Seq(Requests)
  BY <1>1, SplitCustody DEF Drop
<1> QED BY <1>3, <1>4, <1>5, ConcatProperties, AppendProperties

(* Each flag that an event of the host raises raises updated.              *)
Signals ==
  /\ event' \in [dataReceived : BOOLEAN, rateChanged : BOOLEAN, startOfFrame : BOOLEAN]
  /\ suspended' \in BOOLEAN /\ updated' \in BOOLEAN /\ playing' = playing
  /\ ~updated' => event' = event /\ ~updated

LEMMA HostKeeps ==
  ASSUME CoreInv, HostStep, device' = device, Signals,
         available' \in 0..BufferCount, hostRate' \in Rates, hostSuspended' \in BOOLEAN
  PROVE  CoreInv'
<1> USE DEF CoreInv
<1>1. /\ ~Booting /\ deviceRate' = deviceRate /\ pc' = pc
      /\ UNCHANGED <<rx, micQueue, tx, spkQueue, index, rate, request, linkLed>>
  BY DEF HostStep, mic, spk, locals, outputs
<1>2. TypeOK'
  BY <1>1 DEF TypeOK, Rates, Signals
<1>3. Phase' /\ ~Booting'
  BY <1>1 DEF Phase, Booting
<1>4. FlagsSeen'
  BY <1>1, <1>3 DEF FlagsSeen, Signals
<1> QED BY <1>2, <1>3, <1>4

(* The interrupt handlers.                                                 *)
LEMMA CoreInvInterrupt ==
  ASSUME CoreInv, Interrupt, device' = device
  PROVE  CoreInv'
<1> USE DEF CoreInv
<1>1. CASE ReceiveDone
  <2>1. Received(Head(rx), Tail(rx)) /\ UNCHANGED <<spk, host, flags, locals, outputs, pc>>
    BY <1>1 DEF ReceiveDone
  <2>2. Head(rx) \in Requests /\ Tail(rx) \in Seq(Requests)
    BY <1>1, HeadTailProperties DEF ReceiveDone, TypeOK
  <2>3. rx' \in Seq(Requests) /\ micQueue' \in Seq(Requests)
    BY <2>1, <2>2, ReceivedTypes DEF TypeOK
  <2>4. TypeOK'
    BY <2>1, <2>3 DEF TypeOK, Rates, spk, host, flags, locals, outputs
  <2>5. Phase' /\ FlagsSeen'
    BY <2>1 DEF Phase, FlagsSeen, Booting, flags, locals, outputs
  <2> QED BY <2>4, <2>5
<1>2. CASE TransmitDone
  <2>1. Head(tx) \in Requests /\ Tail(tx) \in Seq(Requests)
    BY <1>2, HeadTailProperties DEF TransmitDone, TypeOK
  <2>2. spkQueue' \in Seq(Requests)
    BY <1>2, <2>1, AppendProperties DEF TransmitDone, TypeOK
  <2>3. TypeOK'
    BY <1>2, <2>1, <2>2 DEF TransmitDone, TypeOK, Rates, mic, host, locals, outputs
  <2>4. Phase' /\ FlagsSeen'
    BY <1>2 DEF TransmitDone, Phase, FlagsSeen, Booting, locals, outputs
  <2> QED BY <2>3, <2>4
<1>3. CASE HostData
  <2>1. Signals
    BY <1>3, HalfType DEF HostData, OnUacEvent, Signals, TypeOK
  <2>2. HostStep /\ available' \in 0..BufferCount /\ hostRate' \in Rates
        /\ hostSuspended' \in BOOLEAN
    BY <1>3 DEF HostData, TypeOK
  <2> QED BY <2>1, <2>2, HostKeeps
<1>4. CASE HostFrame
  <2>1. Signals
    BY <1>4, HalfType DEF HostFrame, OnUacEvent, Signals, TypeOK
  <2>2. HostStep /\ available' \in 0..BufferCount /\ hostRate' \in Rates
        /\ hostSuspended' \in BOOLEAN
    BY <1>4 DEF HostFrame, TypeOK, host
  <2> QED BY <2>1, <2>2, HostKeeps
<1>5. CASE HostChangesRate
  <2>1. Signals
    BY <1>5, HalfType DEF HostChangesRate, OnUacEvent, Signals, TypeOK
  <2>2. HostStep /\ available' \in 0..BufferCount /\ hostRate' \in Rates
        /\ hostSuspended' \in BOOLEAN
    BY <1>5 DEF HostChangesRate, TypeOK
  <2> QED BY <2>1, <2>2, HostKeeps
<1>6. CASE HostSuspend
  <2>1. Signals
    BY <1>6, HalfType DEF HostSuspend, OnUacEvent, Signals, TypeOK
  <2>2. HostStep /\ available' \in 0..BufferCount /\ hostRate' \in Rates
        /\ hostSuspended' \in BOOLEAN
    BY <1>6 DEF HostSuspend, TypeOK
  <2> QED BY <2>1, <2>2, HostKeeps
<1> QED BY <1>1, <1>2, <1>3, <1>4, <1>5, <1>6 DEF Interrupt
(* The steps of changeRate() and of the main loop that move a request.     *)
LEMMA CoreInvMoves ==
  ASSUME CoreInv, device' = device,
         ChangeClear \/ ChangeFill \/ MainFrame \/ MainSendMic \/ MainRead \/ MainPlay
  PROVE  CoreInv'
<1> USE DEF CoreInv
<1>1. /\ rx \in Seq(Requests) /\ micQueue \in Seq(Requests)
      /\ tx \in Seq(Requests) /\ spkQueue \in Seq(Requests)
      /\ <<>> \in Seq(Requests) /\ request \in Requests
      /\ available \in 0..BufferCount /\ index \in 0..BufferCount
  BY EmptySeq DEF TypeOK
<1>2. ASSUME NEW s \in Seq(Requests), NEW r \in Requests
      PROVE  Append(s, r) \in Seq(Requests) /\ Enqueue(s, r) \in Seq(Requests)
  BY AppendProperties DEF Enqueue
<1>3. ASSUME NEW s \in Seq(Requests), s # <<>>
      PROVE  Head(s) \in Requests /\ Tail(s) \in Seq(Requests)
  BY <1>3, HeadTailProperties
<1>4. CASE ChangeClear
  <2>1. /\ rx' \in Seq(Requests) /\ micQueue' \in Seq(Requests)
        /\ tx' \in Seq(Requests) /\ spkQueue' \in Seq(Requests)
    BY <1>1, <1>4 DEF ChangeClear, mic, spk
  <2>2. playing' \in BOOLEAN
    BY <1>4 DEF ChangeClear, TypeOK
  <2>3. /\ index' = 0 /\ pc = "clear" /\ pc' = "fill"
        /\ UNCHANGED <<available, hostRate, hostSuspended, event, suspended, updated,
                       rate, request, deviceRate, linkLed>>
    BY <1>4 DEF ChangeClear, host, outputs
  <2>4. TypeOK'
    BY <2>1, <2>2, <2>3 DEF TypeOK, Rates
  <2>5. Phase' /\ FlagsSeen'
    BY <2>3 DEF Phase, FlagsSeen, Change, Booting
  <2> QED BY <2>4, <2>5
<1>5. CASE ChangeFill
  <2>1. index < BufferCount /\ index \in Requests /\ index + 1 \in 0..BufferCount
    BY <1>1, <1>5 DEF ChangeFill, Phase, Requests
  <2>2. rx' \in Seq(Requests) /\ spkQueue' \in Seq(Requests)
    BY <1>1, <1>2, <1>5, <2>1 DEF ChangeFill
  <2>3. /\ index' = index + 1 /\ pc = "fill"
        /\ pc' = IF index + 1 < BufferCount THEN "fill" ELSE "setRate"
        /\ UNCHANGED <<tx, micQueue, available, hostRate, hostSuspended, event, playing,
                       suspended, updated, rate, request, deviceRate, linkLed>>
    BY <1>5 DEF ChangeFill, host, flags, outputs
  <2>4. TypeOK'
    BY <2>1, <2>2, <2>3 DEF TypeOK, Rates
  <2>5. Phase' /\ FlagsSeen'
    BY <1>1, <2>1, <2>3 DEF Phase, FlagsSeen, Change, Booting
  <2> QED BY <2>4, <2>5
<1>6. CASE MainFrame
  <2>1. request' \in Requests /\ micQueue' \in Seq(Requests)
    BY <1>1, <1>6, <1>3 DEF MainFrame
  <2>2. TypeOK'
    BY <1>6, <2>1 DEF MainFrame, TypeOK, Rates, spk, host, flags, outputs
  <2>3. /\ pc = "sof" /\ pc' \in {"sendMic", "ackSof", "data"}
        /\ pc' = "data" => ~event.startOfFrame
        /\ UNCHANGED <<event, updated, deviceRate, index>>
    BY <1>6 DEF MainFrame, flags, outputs
  <2>4. Phase' /\ FlagsSeen'
    BY <2>3 DEF Phase, FlagsSeen, Change, Booting
  <2> QED BY <2>2, <2>4
<1>7. CASE MainSendMic
  <2>1. rx' \in Seq(Requests)
    BY <1>1, <1>2, <1>7 DEF MainSendMic
  <2>2. TypeOK'
    BY <1>7, <2>1 DEF MainSendMic, TypeOK, Rates, spk, host, flags, locals, outputs
  <2>3. Phase' /\ FlagsSeen'
    BY <1>7 DEF MainSendMic, Phase, FlagsSeen, Change, Booting, outputs, flags, locals
  <2> QED BY <2>2, <2>3
<1>8. CASE MainRead
  <2>1. /\ request' \in Requests /\ spkQueue' \in Seq(Requests)
        /\ available' \in 0..BufferCount
    <3>1. CASE spkQueue # <<>> /\ available > 0
      <4>1. /\ request' = Head(spkQueue) /\ spkQueue' = Tail(spkQueue)
            /\ available' = available - 1
        BY <1>8, <3>1 DEF MainRead
      <4>2. Head(spkQueue) \in Requests /\ Tail(spkQueue) \in Seq(Requests)
        BY <1>1, <1>3, <3>1
      <4>3. available - 1 \in 0..BufferCount
        BY <1>1, <3>1
      <4> QED BY <4>1, <4>2, <4>3
    <3>2. CASE ~(spkQueue # <<>> /\ available > 0)
      BY <1>1, <1>8, <3>2 DEF MainRead
    <3> QED BY <3>1, <3>2
  <2>2. TypeOK'
    BY <1>8, <2>1 DEF MainRead, TypeOK, Rates, mic, flags, outputs
  <2>3. Phase' /\ FlagsSeen'
    BY <1>8 DEF MainRead, Phase, FlagsSeen, Change, Booting, outputs, flags
  <2> QED BY <2>2, <2>3
<1>9. CASE MainPlay
  <2>1. tx' \in Seq(Requests)
    BY <1>1, <1>2, <1>9 DEF MainPlay
  <2>2. TypeOK'
    BY <1>9, <2>1 DEF MainPlay, TypeOK, Rates, mic, host, flags, locals, outputs
  <2>3. Phase' /\ FlagsSeen'
    BY <1>9 DEF MainPlay, Phase, FlagsSeen, Change, Booting, outputs, flags, locals
  <2> QED BY <2>2, <2>3
<1> QED BY <1>4, <1>5, <1>6, <1>7, <1>8, <1>9

(* The steps that leave the requests where they are.                       *)
LEMMA CoreInvStays ==
  ASSUME CoreInv, device' = device,
         \/ ChangeSetRate \/ MainWake \/ MainRate \/ MainAckRate \/ MainAckFrame
         \/ MainData \/ MainPlaying \/ MainAckData \/ MainLed
  PROVE  CoreInv'
<1> USE DEF CoreInv
<1>0. /\ "none" \notin Rates /\ Rates' = Rates
      /\ event \in [dataReceived : BOOLEAN, rateChanged : BOOLEAN, startOfFrame : BOOLEAN]
  BY DeviceRates DEF Phase, TypeOK, Rates
<1>1. CASE ChangeSetRate
  <2>1. TypeOK'
    BY <1>0, <1>1 DEF ChangeSetRate, TypeOK, mic, spk, host, flags, locals
  <2>2. Phase' /\ FlagsSeen'
    BY <1>0, <1>1 DEF ChangeSetRate, TypeOK, Phase, FlagsSeen, Change, Booting, mic, spk, host, flags, locals
  <2> QED BY <2>1, <2>2
<1>2. CASE MainWake
  <2>1. TypeOK'
    BY <1>0, <1>2 DEF MainWake, TypeOK, mic, spk, host, locals, outputs
  <2>2. Phase' /\ FlagsSeen'
    BY <1>0, <1>2 DEF MainWake, TypeOK, Phase, FlagsSeen, Change, Booting, mic, spk, host, locals, outputs
  <2> QED BY <2>1, <2>2
<1>3. CASE MainRate
  <2>1. TypeOK'
    BY <1>0, <1>3 DEF MainRate, TypeOK, mic, spk, host, flags, outputs
  <2>2. Phase' /\ FlagsSeen'
    BY <1>0, <1>3 DEF MainRate, TypeOK, Phase, FlagsSeen, Change, Booting, mic, spk, host, flags, outputs
  <2> QED BY <2>1, <2>2
<1>4. CASE MainAckRate
  <2>1. TypeOK'
    BY <1>0, <1>4 DEF MainAckRate, TypeOK, mic, spk, host, locals, outputs
  <2>2. Phase' /\ FlagsSeen'
    BY <1>0, <1>4 DEF MainAckRate, TypeOK, Phase, FlagsSeen, Change, Booting, mic, spk, host, locals, outputs
  <2> QED BY <2>1, <2>2
<1>5. CASE MainAckFrame
  <2>1. TypeOK'
    BY <1>0, <1>5 DEF MainAckFrame, TypeOK, mic, spk, host, locals, outputs
  <2>2. Phase' /\ FlagsSeen'
    BY <1>0, <1>5 DEF MainAckFrame, TypeOK, Phase, FlagsSeen, Change, Booting, mic, spk, host, locals, outputs
  <2> QED BY <2>1, <2>2
<1>6. CASE MainData
  <2>1. TypeOK'
    BY <1>0, <1>6 DEF MainData, TypeOK, mic, spk, host, flags, locals, outputs
  <2>2. Phase' /\ FlagsSeen'
    BY <1>0, <1>6 DEF MainData, TypeOK, Phase, FlagsSeen, Change, Booting, mic, spk, host, flags, locals, outputs
  <2> QED BY <2>1, <2>2
<1>7. CASE MainPlaying
  <2>1. TypeOK'
    BY <1>0, <1>7 DEF MainPlaying, TypeOK, mic, spk, host, locals, outputs
  <2>2. Phase' /\ FlagsSeen'
    BY <1>0, <1>7 DEF MainPlaying, TypeOK, Phase, FlagsSeen, Change, Booting, mic, spk, host, locals, outputs
  <2> QED BY <2>1, <2>2
<1>8. CASE MainAckData
  <2>1. TypeOK'
    BY <1>0, <1>8 DEF MainAckData, TypeOK, mic, spk, host, locals, outputs
  <2>2. Phase' /\ FlagsSeen'
    BY <1>0, <1>8 DEF MainAckData, TypeOK, Phase, FlagsSeen, Change, Booting, mic, spk, host, locals, outputs
  <2> QED BY <2>1, <2>2
<1>9. CASE MainLed
  <2>1. TypeOK'
    BY <1>0, <1>9 DEF MainLed, TypeOK, mic, spk, host, flags, locals
  <2>2. Phase' /\ FlagsSeen'
    BY <1>0, <1>9 DEF MainLed, TypeOK, Phase, FlagsSeen, Change, Booting, mic, spk, host, flags, locals
  <2> QED BY <2>1, <2>2
<1> QED BY <1>1, <1>2, <1>3, <1>4, <1>5, <1>6, <1>7, <1>8, <1>9

LEMMA CoreInvStutter == CoreInv /\ UNCHANGED <<vars, device>> => CoreInv'
BY DEF CoreInv, TypeOK, Phase, FlagsSeen, Change, Booting, Rates, vars, mic, spk, host,
       flags, locals, outputs

(* The types, the phases and the flags, for any number of requests and any *)
(* size of the streams.                                                    *)
LEMMA CoreInvAlways == SafeSpec => []CoreInv
<1>1. CoreInv /\ [Next]_<<vars, device>> => CoreInv'
  <2> SUFFICES ASSUME CoreInv, [Next]_<<vars, device>> PROVE CoreInv'
    OBVIOUS
  <2>1. CASE Interrupt /\ device' = device
    BY <2>1, CoreInvInterrupt
  <2>2. CASE Main /\ device' = device
    BY <2>2, CoreInvMoves, CoreInvStays DEF Main
  <2> QED BY <2>1, <2>2, CoreInvStutter DEF Next
<1> QED BY CoreInvInit, <1>1, PTL DEF SafeSpec

(* Every variable keeps its type.                                          *)
THEOREM TypeCorrect == SafeSpec => []TypeOK
<1>1. CoreInv => TypeOK
  BY DEF CoreInv
<1> QED BY CoreInvAlways, <1>1, PTL

(* The main loop never sleeps on a change of the rate, a frame or packets  *)
(* that an interrupt has flagged.                                          *)
THEOREM WakeupNotLost == SafeSpec => []NoLostWakeup
<1>1. CoreInv => NoLostWakeup
  BY DEF CoreInv, FlagsSeen, Change, NoLostWakeup
<1> QED BY CoreInvAlways, <1>1, PTL
-----------------------------------------------------------------------------
(* The streams hold every request; what the cap on the backlog and the     *)
(* hand of the main loop can keep from the receive stream leaves one over: *)
(* five requests are the fewest for which it does.                         *)
Fits == BufferCount <= Depth
Spare == Half + 2 < BufferCount

LEMMA FiveAreEnough == BufferCount >= 5 <=> Spare
BY DEF Spare, Half

(* The record requests there are, wherever they are: as many as have been  *)
(* handed out, or more after a rate change.  A backlog over the cap means  *)
(* that no block was recorded since, and all of them are in the stream.    *)
InMicHand == IF pc = "sendMic" THEN 1 ELSE 0
Due == IF pc = "fill" THEN index ELSE BufferCount
RecordStock ==
  HasRx /\ pc # "clear" =>
    /\ Len(rx) + Len(micQueue) + InMicHand >= Due
    /\ Len(micQueue) <= Half + 1 \/ Len(rx) >= Due

StockInv == Fits /\ CoreInv /\ RecordStock

(* What is discarded from the backlog goes to the stream, or the stream is *)
(* full.                                                                   *)
LEMMA ReceiveStock ==
  ASSUME StockInv, ReceiveDone, device' = device
  PROVE  RecordStock'
<1> DEFINE n == Outdated(micQueue)
           room == Depth - Len(Tail(rx))
           k == IF n <= room THEN n ELSE room
           t == Take(micQueue, k)
           d == Drop(micQueue, n)
<1>1. /\ rx \in Seq(Requests) /\ rx # <<>> /\ micQueue \in Seq(Requests)
      /\ index \in 0..BufferCount /\ BufferCount <= Depth
      /\ pc' = pc /\ index' = index /\ HasRx' = HasRx
  BY DEF StockInv, CoreInv, TypeOK, ReceiveDone, Fits, HasRx, locals
<1>2. /\ Head(rx) \in Requests /\ Tail(rx) \in Seq(Requests)
      /\ Len(Tail(rx)) = Len(rx) - 1 /\ Len(rx) \in Nat /\ Len(rx) >= 1
      /\ Len(micQueue) \in Nat
  BY <1>1, HeadTailProperties, EmptySeq, LenProperties
<1>3. rx' = Tail(rx) \o t /\ micQueue' = Append(d, Head(rx))
  BY DEF ReceiveDone, Received
<1>4. n \in 0 .. Len(micQueue) /\ Len(micQueue) - n <= Half /\ room \in Int
  BY <1>1, <1>2, OutdatedRange
<1> HIDE DEF n, room
<1>5. k \in Int /\ k <= Len(micQueue)
  BY <1>2, <1>4
<1> HIDE DEF k
<1>6. t \in Seq(Requests) /\ Len(t) = IF 1 <= k THEN k ELSE 0
  <2>1. \A i \in 1 .. k : micQueue[i] \in Requests
    BY <1>1, <1>2, <1>5, ElementOfSeq
  <2>2. t \in Seq(Requests) /\ Len(t) = IF 1 <= k THEN k - 1 + 1 ELSE 0
    BY <1>5, <2>1, SubSeqProperties DEF Take
  <2> QED BY <1>5, <2>2
<1>7. d \in Seq(Requests) /\ Len(d) = Len(micQueue) - n
  BY <1>1, <1>4, SplitCustody DEF Drop
<1> HIDE DEF t, d
<1>8. /\ Len(rx') = Len(rx) - 1 + Len(t)
      /\ Len(micQueue') = Len(micQueue) - n + 1
  <2>1. Len(rx') = Len(Tail(rx)) + Len(t)
    BY <1>2, <1>3, <1>6, ConcatProperties
  <2>2. Len(micQueue') = Len(d) + 1
    BY <1>2, <1>3, <1>7, AppendProperties
  <2> QED BY <1>2, <1>6, <1>7, <2>1, <2>2
<1>9. Len(micQueue') <= Half + 1
  BY <1>2, <1>4, <1>8, HalfType
<1>10. \/ Len(rx') = Len(rx) - 1 + n
       \/ Len(rx') >= Depth
  <2>1. CASE n <= room
    BY <1>4, <1>6, <1>8, <2>1, <1>2 DEF k
  <2>2. CASE ~(n <= room)
    <3>1. k = room /\ room = Depth - (Len(rx) - 1)
      BY <1>2, <2>2 DEF k, room
    <3> QED BY <1>2, <1>4, <1>6, <1>8, <3>1
  <2> QED BY <2>1, <2>2
<1>11. Due' = Due /\ InMicHand' = InMicHand /\ Due <= Depth /\ Due \in Nat /\ InMicHand \in Nat
  BY <1>1 DEF Due, InMicHand
<1>12. ASSUME HasRx, pc # "clear"
       PROVE  Len(rx') + Len(micQueue') + InMicHand' >= Due'
  <2>1. Len(rx) + Len(micQueue) + InMicHand >= Due
    BY <1>12 DEF StockInv, RecordStock
  <2> QED BY <1>2, <1>4, <1>8, <1>10, <1>11, <2>1
<1> QED BY <1>1, <1>9, <1>12 DEF RecordStock

(* The steps of changeRate() and of the main loop.                         *)
LEMMA MainStock ==
  ASSUME StockInv, device' = device, ChangeClear \/ ChangeFill \/ MainFrame \/ MainSendMic
  PROVE  RecordStock'
<1>1. /\ rx \in Seq(Requests) /\ micQueue \in Seq(Requests) /\ request \in Requests
      /\ index \in 0..BufferCount /\ BufferCount <= Depth /\ HasRx' = HasRx
      /\ pc = "fill" => index \in Requests /\ index < BufferCount
  BY DEF StockInv, CoreInv, Phase, TypeOK, Fits, HasRx, Requests
<1>2. Len(rx) \in Nat /\ Len(micQueue) \in Nat /\ Half \in Nat
  BY <1>1, LenProperties, HalfType
<1>3. ASSUME NEW r \in Requests, rx' = Enqueue(rx, r)
      PROVE  /\ Len(rx') \in Nat
             /\ Len(rx') = Len(rx) + 1 \/ (Len(rx') = Len(rx) /\ Len(rx) >= BufferCount)
  BY <1>1, <1>2, <1>3, AppendProperties DEF Enqueue
<1>4. CASE ChangeClear
  <2>1. HasRx => rx' = <<>> /\ micQueue' = rx
    BY <1>4 DEF ChangeClear
  <2>2. pc' = "fill" /\ index' = 0
    BY <1>4 DEF ChangeClear
  <2>3. HasRx => Len(rx') = 0 /\ Len(micQueue') \in Nat
    BY <1>1, <1>2, <2>1
  <2> QED BY <1>1, <2>2, <2>3 DEF RecordStock, Due, InMicHand
<1>5. CASE ChangeFill
  <2>1. /\ pc = "fill" /\ index' = index + 1 /\ micQueue' = micQueue
        /\ pc' = IF index + 1 < BufferCount THEN "fill" ELSE "setRate"
        /\ HasRx => rx' = Enqueue(rx, index)
    BY <1>5 DEF ChangeFill
  <2>2. Due = index /\ Due' = index + 1 /\ InMicHand = 0 /\ InMicHand' = 0
    BY <1>1, <2>1 DEF Due, InMicHand
  <2> SUFFICES ASSUME HasRx
               PROVE  /\ Len(rx') + Len(micQueue') >= index + 1
                      /\ Len(micQueue') <= Half + 1 \/ Len(rx') >= index + 1
    BY <1>1, <1>2, <1>3, <2>1, <2>2 DEF RecordStock
  <2>3. /\ Len(rx) + Len(micQueue) >= index
        /\ Len(micQueue) <= Half + 1 \/ Len(rx) >= index
    BY <1>1, <1>2, <2>1, <2>2 DEF StockInv, RecordStock
  <2> QED BY <1>1, <1>2, <1>3, <2>1, <2>3
<1>6. CASE MainFrame
  <2>1. rx' = rx /\ index' = index /\ pc = "sof"
    BY <1>6 DEF MainFrame
  <2>2. CASE pc' = "sendMic"
    <3>1. Len(micQueue') = Len(micQueue) - 1
      BY <1>1, <1>6, <2>2, HeadTailProperties DEF MainFrame
    <3> QED BY <1>1, <1>2, <2>1, <2>2, <3>1 DEF StockInv, RecordStock, Due, InMicHand
  <2>3. CASE pc' # "sendMic"
    <3>1. micQueue' = micQueue /\ pc' \in {"ackSof", "data"}
      BY <1>6, <2>3 DEF MainFrame
    <3> QED BY <1>1, <2>1, <3>1 DEF StockInv, RecordStock, Due, InMicHand
  <2> QED BY <2>2, <2>3
<1>7. CASE MainSendMic
  <2>1. rx' = Enqueue(rx, request) /\ micQueue' = micQueue /\ pc = "sendMic" /\ pc' = "ackSof"
    BY <1>7 DEF MainSendMic
  <2>2. Due = BufferCount /\ Due' = BufferCount /\ InMicHand = 1 /\ InMicHand' = 0
    BY <2>1 DEF Due, InMicHand
  <2> SUFFICES ASSUME HasRx
               PROVE  /\ Len(rx') + Len(micQueue') >= BufferCount
                      /\ Len(micQueue') <= Half + 1 \/ Len(rx') >= BufferCount
    BY <1>1, <1>2, <1>3, <2>1, <2>2 DEF RecordStock
  <2>3. /\ Len(rx) + Len(micQueue) + 1 >= BufferCount
        /\ Len(micQueue) <= Half + 1 \/ Len(rx) >= BufferCount
    BY <2>1, <2>2 DEF StockInv, RecordStock
  <2> QED BY <1>1, <1>2, <1>3, <2>1, <2>3
<1> QED BY <1>4, <1>5, <1>6, <1>7

(* The record side is left alone by all other steps.                       *)
LEMMA OtherStock ==
  ASSUME StockInv, device' = device, rx' = rx, micQueue' = micQueue,
         pc \notin {"clear", "fill", "sendMic"},
         pc' \notin {"fill", "sendMic"}
  PROVE  RecordStock'
BY DEF StockInv, RecordStock, HasRx, Due, InMicHand

LEMMA StockInvAlways == Fits /\ SafeSpec => []StockInv
<1>1. Init => RecordStock
  BY DEF Init, RecordStock
<1>2. StockInv /\ CoreInv' /\ [Next]_<<vars, device>> => StockInv'
  <2> SUFFICES ASSUME StockInv, [Next]_<<vars, device>> PROVE RecordStock'
    BY DEF StockInv, Fits
  <2>1. CASE ReceiveDone /\ device' = device
    BY <2>1, ReceiveStock
  <2>2. CASE (ChangeClear \/ ChangeFill \/ MainFrame \/ MainSendMic) /\ device' = device
    BY <2>2, MainStock
  <2>3. CASE /\ device' = device
             /\ UNCHANGED <<rx, micQueue, index, pc>>
    BY <2>3 DEF StockInv, RecordStock, HasRx, Due, InMicHand
  <2>4. CASE /\ TransmitDone \/ HostData \/ HostFrame \/ HostChangesRate \/ HostSuspend
             /\ device' = device
    <3>1. UNCHANGED <<rx, micQueue, index, pc>>
      BY <2>4 DEF TransmitDone, HostData, HostFrame, HostChangesRate, HostSuspend, HostStep,
                  mic, locals
    <3> QED BY <2>3, <2>4, <3>1
  <2>5. CASE /\ \/ ChangeSetRate \/ MainWake \/ MainRate \/ MainAckRate \/ MainAckFrame
                \/ MainData \/ MainRead \/ MainPlay \/ MainPlaying \/ MainAckData \/ MainLed
             /\ device' = device
    <3>1. /\ rx' = rx /\ micQueue' = micQueue
          /\ pc \notin {"clear", "fill", "sendMic"} /\ pc' \notin {"fill", "sendMic"}
      BY <2>5 DEF ChangeSetRate, MainWake, MainRate, MainAckRate, MainAckFrame, MainData,
                  MainRead, MainPlay, MainPlaying, MainAckData, MainLed, mic
    <3> QED BY <2>5, <3>1, OtherStock
  <2>6. CASE UNCHANGED <<vars, device>>
    BY <2>3, <2>6 DEF vars, mic, locals
  <2> QED BY <2>1, <2>2, <2>4, <2>5, <2>6 DEF Next, Interrupt, Main
<1>3. Fits /\ CoreInv /\ RecordStock => StockInv
  BY DEF StockInv
<1>4. Fits => Fits'
  BY DEF Fits
<1> QED BY <1>1, <1>2, <1>3, <1>4, CoreInvInit, CoreInvAlways, PTL DEF SafeSpec

(* The receive stream never runs dry, whatever the host does and whatever  *)
(* rates it asks for: at least one request is neither in the capped        *)
(* backlog nor in the hand of the main loop.                               *)
THEOREM RecorderNeverDry == Fits /\ BufferCount >= 5 /\ SafeSpec => []RecorderFed
<1>1. StockInv /\ BufferCount >= 5 => RecorderFed
  <2> SUFFICES ASSUME StockInv, BufferCount >= 5, HasRx, pc \notin {"clear", "fill"}
               PROVE  rx # <<>>
    BY DEF RecorderFed
  <2>1. rx \in Seq(Requests) /\ micQueue \in Seq(Requests)
    BY DEF StockInv, CoreInv, TypeOK
  <2>2. Len(rx) \in Nat /\ Len(micQueue) \in Nat /\ Half \in Nat
    BY <2>1, LenProperties, HalfType
  <2>3. /\ Len(rx) + Len(micQueue) + InMicHand >= BufferCount
        /\ Len(micQueue) <= Half + 1 \/ Len(rx) >= BufferCount
        /\ InMicHand \in {0, 1}
    BY DEF StockInv, RecordStock, Due, InMicHand
  <2>4. Half + 2 < BufferCount
    BY FiveAreEnough DEF Spare
  <2>5. Len(rx) > 0
    BY <2>2, <2>3, <2>4
  <2> QED BY <2>1, <2>5, EmptySeq
<1>2. BufferCount >= 5 => (BufferCount >= 5)'
  OBVIOUS
<1> QED BY StockInvAlways, <1>1, <1>2, PTL
-----------------------------------------------------------------------------
(* Who owns the requests.  Owned says it of the requests of one direction: *)
(* the two places and the hand of the main loop share none of them, and    *)
(* hold those in all.  The lemmas are the moves the steps are made of.     *)
Owned(s, t, hand, all) ==
  /\ s \in Seq(Requests) /\ t \in Seq(Requests)
  /\ NoRepeat(s) /\ NoRepeat(t) /\ Disjoint(s, t)
  /\ hand \cap (InSeq(s) \cup InSeq(t)) = {}
  /\ InSeq(s) \cup InSeq(t) \cup hand = all

LEMMA OwnedSwap ==
  ASSUME NEW s, NEW t, NEW hand, NEW all, Owned(s, t, hand, all)
  PROVE  Owned(t, s, hand, all)
BY DEF Owned, Disjoint

(* A callback moves the request that has ended.                            *)
LEMMA HeadMoves ==
  ASSUME NEW s, NEW t, NEW hand, NEW all, Owned(s, t, hand, all), s # <<>>
  PROVE  Owned(Tail(s), Append(t, Head(s)), hand, all)
<1>1. /\ Tail(s) \in Seq(Requests) /\ Head(s) \in Requests /\ Head(s) \in InSeq(s)
      /\ InSeq(Tail(s)) = InSeq(s) \ {Head(s)} /\ NoRepeat(Tail(s))
  BY TailCustody DEF Owned
<1>2. /\ Append(t, Head(s)) \in Seq(Requests)
      /\ InSeq(Append(t, Head(s))) = InSeq(t) \cup {Head(s)}
      /\ NoRepeat(Append(t, Head(s)))
  BY <1>1, AppendCustody DEF Owned, Disjoint
<1> QED BY <1>1, <1>2 DEF Owned, Disjoint

(* The main loop takes the front of a queue.                               *)
LEMMA HeadTaken ==
  ASSUME NEW s, NEW t, NEW all, Owned(s, t, {}, all), t # <<>>
  PROVE  Owned(s, Tail(t), {Head(t)}, all)
<1>1. /\ Tail(t) \in Seq(Requests) /\ Head(t) \in Requests /\ Head(t) \in InSeq(t)
      /\ InSeq(Tail(t)) = InSeq(t) \ {Head(t)} /\ NoRepeat(Tail(t))
  BY TailCustody DEF Owned
<1> QED BY <1>1 DEF Owned, Disjoint

(* A request that is not in a stream finds room in it: the stream holds    *)
(* fewer than BufferCount requests.                                        *)
LEMMA EnqueueCustody ==
  ASSUME Fits, NEW s \in Seq(Requests), NoRepeat(s),
         NEW r \in Requests, r \notin InSeq(s)
  PROVE  Enqueue(s, r) = Append(s, r)
<1>1. Len(s) < BufferCount
  BY RoomForOneMore DEF Requests
<1> QED BY <1>1, LenProperties DEF Enqueue, Fits

LEMMA HandPut ==
  ASSUME Fits, NEW s, NEW t, NEW r \in Requests, NEW all, Owned(s, t, {r}, all)
  PROVE  Owned(Enqueue(s, r), t, {}, all)
<1>1. /\ Append(s, r) \in Seq(Requests)
      /\ InSeq(Append(s, r)) = InSeq(s) \cup {r}
      /\ NoRepeat(Append(s, r))
  BY AppendCustody DEF Owned
<1>2. Enqueue(s, r) = Append(s, r)
  BY EnqueueCustody DEF Owned
<1> QED BY <1>1, <1>2 DEF Owned, Disjoint

(* changeRate() hands out the next request.                                *)
LEMMA NextIssued ==
  ASSUME NEW s, NEW t, NEW i \in Requests, Owned(s, t, {}, 0 .. i - 1)
  PROVE  Owned(s, Append(t, i), {}, 0 .. (i + 1) - 1)
<1>1. i \notin 0 .. i - 1 /\ 0 .. (i + 1) - 1 = (0 .. i - 1) \cup {i}
  BY DEF Requests
<1>2. i \notin InSeq(s) /\ i \notin InSeq(t)
  BY <1>1 DEF Owned
<1>3. /\ Append(t, i) \in Seq(Requests)
      /\ InSeq(Append(t, i)) = InSeq(t) \cup {i}
      /\ NoRepeat(Append(t, i))
  BY <1>2, AppendCustody DEF Owned
<1> QED BY <1>1, <1>2, <1>3 DEF Owned, Disjoint

LEMMA NoneIssued == Owned(<<>>, <<>>, {}, {}) /\ 0 .. 0 - 1 = {}
BY EmptyCustody DEF Owned, Disjoint

-----------------------------------------------------------------------------
(* Playback: any rate changes.                                             *)
SpkHand == IF pc = "play" THEN {request} ELSE {}
SpkInv == HasTx => Owned(tx, spkQueue, SpkHand, Issued)
PlayInv == Fits /\ CoreInv /\ SpkInv

LEMMA PlayInvStep ==
  ASSUME PlayInv, device' = device,
         TransmitDone \/ ChangeClear \/ ChangeFill \/ MainRead \/ MainPlay
  PROVE  SpkInv'
<1> SUFFICES ASSUME HasTx' PROVE Owned(tx', spkQueue', SpkHand', Issued')
  BY DEF SpkInv
<1>1. HasTx /\ Fits /\ Owned(tx, spkQueue, SpkHand, Issued) /\ request \in Requests
  BY DEF PlayInv, SpkInv, HasTx, CoreInv, TypeOK
<1>2. pc = "fill" => index \in Requests
  BY DEF PlayInv, CoreInv, Phase, TypeOK, Requests
<1>3. Booting => pc \in {"clear", "fill", "setRate"}
  BY DEF PlayInv, CoreInv, Phase
<1>4. CASE TransmitDone
  <2>1. tx # <<>> /\ tx' = Tail(tx) /\ spkQueue' = Append(spkQueue, Head(tx))
    BY <1>4 DEF TransmitDone
  <2>2. SpkHand' = SpkHand /\ Issued' = Issued
    BY <1>4 DEF TransmitDone, SpkHand, Issued, Booting, locals, outputs
  <2> QED BY <1>1, <2>1, <2>2, HeadMoves
<1>5. CASE ChangeClear
  <2>1. tx' = <<>> /\ spkQueue' = <<>> /\ pc' = "fill" /\ index' = 0
    BY <1>1, <1>5 DEF ChangeClear
  <2>2. SpkHand' = {} /\ Issued' = 0 .. 0 - 1
    BY <2>1 DEF SpkHand, Issued
  <2> QED BY <2>1, <2>2, NoneIssued
<1>6. CASE ChangeFill
  <2>1. /\ pc = "fill" /\ tx' = tx /\ spkQueue' = Append(spkQueue, index)
        /\ index' = index + 1
        /\ pc' = IF index + 1 < BufferCount THEN "fill" ELSE "setRate"
    BY <1>1, <1>6 DEF ChangeFill
  <2>2. SpkHand = {} /\ SpkHand' = {} /\ Issued = 0 .. index - 1
    BY <2>1 DEF SpkHand, Issued
  <2>3. Issued' = 0 .. (index + 1) - 1
    <3>1. CASE index + 1 < BufferCount
      BY <2>1, <3>1 DEF Issued
    <3>2. CASE ~(index + 1 < BufferCount)
      <4>1. index + 1 = BufferCount
        BY <1>2, <2>1, <3>2 DEF Requests
      <4> QED BY <2>1, <3>2, <4>1 DEF Issued, Requests
    <3> QED BY <3>1, <3>2
  <2> QED BY <1>1, <1>2, <2>1, <2>2, <2>3, NextIssued
<1>7. CASE MainRead
  <2>1. SpkHand = {} /\ Issued = Requests /\ Issued' = Requests
    BY <1>7 DEF MainRead, SpkHand, Issued
  <2>2. CASE spkQueue # <<>> /\ available > 0
    <3>1. tx' = tx /\ spkQueue' = Tail(spkQueue) /\ SpkHand' = {Head(spkQueue)}
      BY <1>7, <2>2 DEF MainRead, SpkHand
    <3> QED BY <1>1, <2>1, <2>2, <3>1, HeadTaken
  <2>3. CASE ~(spkQueue # <<>> /\ available > 0)
    <3>1. tx' = tx /\ spkQueue' = spkQueue /\ SpkHand' = {}
      BY <1>7, <2>3 DEF MainRead, SpkHand
    <3> QED BY <1>1, <2>1, <3>1
  <2> QED BY <2>2, <2>3
<1>8. CASE MainPlay
  <2>1. /\ tx' = Enqueue(tx, request) /\ spkQueue' = spkQueue
        /\ SpkHand = {request} /\ SpkHand' = {} /\ Issued = Requests /\ Issued' = Requests
    BY <1>8 DEF MainPlay, SpkHand, Issued
  <2> QED BY <1>1, <2>1, HandPut
<1> QED BY <1>4, <1>5, <1>6, <1>7, <1>8

(* Every other step leaves the playback requests where they are.           *)
LEMMA PlayInvKept ==
  ASSUME PlayInv, device' = device,
         \/ ReceiveDone \/ HostData \/ HostFrame \/ HostChangesRate \/ HostSuspend
         \/ ChangeSetRate \/ MainWake \/ MainRate \/ MainAckRate \/ MainFrame
         \/ MainSendMic \/ MainAckFrame \/ MainData \/ MainPlaying \/ MainAckData
         \/ MainLed \/ UNCHANGED vars
  PROVE  SpkInv'
<1>1. Booting => pc \in {"clear", "fill", "setRate"}
  BY DEF PlayInv, CoreInv, Phase
<1>2. HasTx' = HasTx /\ (HasTx => Owned(tx, spkQueue, SpkHand, Issued))
  BY DEF PlayInv, SpkInv, HasTx
<1>3. tx' = tx /\ spkQueue' = spkQueue
  BY DEF ReceiveDone, HostData, HostFrame, HostChangesRate, HostSuspend, HostStep,
         ChangeSetRate, MainWake, MainRate, MainAckRate, MainFrame, MainSendMic,
         MainAckFrame, MainData, MainPlaying, MainAckData, MainLed, vars, spk
<1>4. CASE \/ ReceiveDone \/ HostData \/ HostFrame \/ HostChangesRate \/ HostSuspend
           \/ UNCHANGED vars
  <2>1. UNCHANGED <<pc, request, index, deviceRate>>
    BY <1>4 DEF ReceiveDone, HostData, HostFrame, HostChangesRate, HostSuspend, HostStep,
                vars, locals, outputs
  <2> QED BY <1>2, <1>3, <2>1 DEF SpkInv, SpkHand, Issued, Booting
<1>5. CASE \/ ChangeSetRate \/ MainWake \/ MainRate \/ MainAckRate \/ MainFrame
           \/ MainSendMic \/ MainAckFrame \/ MainData \/ MainPlaying \/ MainAckData
           \/ MainLed
  <2>1. /\ pc \notin {"clear", "fill", "play"} /\ pc' \notin {"fill", "play"}
        /\ pc' = "clear" => pc = "rate" /\ deviceRate' = deviceRate
    BY <1>5 DEF ChangeSetRate, MainWake, MainRate, MainAckRate, MainFrame, MainSendMic,
                MainAckFrame, MainData, MainPlaying, MainAckData, MainLed, outputs
  <2>2. SpkHand = {} /\ SpkHand' = {} /\ Issued = Requests /\ Issued' = Requests
    BY <1>1, <2>1 DEF SpkHand, Issued, Booting
  <2> QED BY <1>2, <1>3, <2>2 DEF SpkInv
<1> QED BY <1>4, <1>5

(* Every playback request is in one place, once, whatever rate the host    *)
(* asks for and whenever it does.                                          *)
THEOREM PlaybackOwned == Fits /\ SafeSpec => []SpkOwnership
<1>1. Init => SpkInv
  BY NoneIssued DEF Init, SpkInv, SpkHand, Issued, Booting
<1>2. PlayInv /\ [Next]_<<vars, device>> => SpkInv'
  BY PlayInvStep, PlayInvKept DEF Next, Interrupt, Main
<1>3. Fits /\ CoreInv /\ SpkInv => PlayInv
  BY DEF PlayInv
<1>4. Fits => Fits'
  BY DEF Fits
<1>5. PlayInv => SpkOwnership
  BY DEF PlayInv, SpkInv, SpkHand, Owned, SpkOwnership
<1> QED BY <1>1, <1>2, <1>3, <1>4, <1>5, CoreInvAlways, PTL DEF SafeSpec
-----------------------------------------------------------------------------
(* Recording, on a device of one rate: nothing asks for a change, so       *)
(* changeRate() runs at boot only, before the stream holds anything.       *)
OneRate == \A q, r \in Rates : q = r
NeverChanges ==
  OneRate => /\ ~event.rateChanged
             /\ pc \in {"clear", "fill", "setRate", "ackRate"} => Booting

MicHand == IF pc = "sendMic" THEN {request} ELSE {}
MicInv ==
  /\ Fits /\ CoreInv /\ NeverChanges
  /\ HasRx /\ OneRate => Owned(rx, micQueue, MicHand, Issued)

LEMMA NeverChangesStep ==
  ASSUME CoreInv, NeverChanges, device' = device, Main \/ Interrupt
  PROVE  NeverChanges'
<1> SUFFICES ASSUME OneRate' PROVE NeverChanges'
  BY DEF NeverChanges
<1>1. /\ OneRate /\ ~event.rateChanged
      /\ pc \in {"clear", "fill", "setRate", "ackRate"} => Booting
  BY DEF NeverChanges, OneRate, Rates
<1>2. /\ hostRate \in Rates /\ "none" \notin Rates
      /\ event \in [dataReceived : BOOLEAN, rateChanged : BOOLEAN, startOfFrame : BOOLEAN]
      /\ Booting => pc \in {"clear", "fill", "setRate"}
  BY DeviceRates DEF CoreInv, TypeOK, Phase
<1>3. CASE Interrupt
  <2>1. ~HostChangesRate
    BY <1>1, <1>2 DEF HostChangesRate, OneRate
  <2>2. pc' = pc /\ deviceRate' = deviceRate /\ event'.rateChanged = event.rateChanged
    BY <1>2, <1>3, <2>1 DEF Interrupt, ReceiveDone, TransmitDone, HostData, HostFrame,
       HostSuspend, HostStep, OnUacEvent, flags, outputs
  <2> QED BY <1>1, <2>2 DEF NeverChanges, Booting
<1>4. CASE Main
  <2>1. CASE pc \in {"clear", "fill", "setRate", "ackRate"}
    <3>1. Booting /\ (ChangeClear \/ ChangeFill \/ ChangeSetRate)
      BY <1>1, <1>2, <1>4, <2>1 DEF Main, ChangeClear, ChangeFill, ChangeSetRate, MainWake,
         MainRate, MainAckRate, MainFrame, MainSendMic, MainAckFrame, MainData, MainRead,
         MainPlay, MainPlaying, MainAckData, MainLed
    <3> QED BY <1>1, <3>1 DEF ChangeClear, ChangeFill, ChangeSetRate, NeverChanges, Booting,
            flags, outputs
  <2>2. CASE pc \notin {"clear", "fill", "setRate", "ackRate"}
    <3>1. pc' \notin {"clear", "fill", "setRate", "ackRate"}
      BY <1>1, <1>4, <2>2 DEF Main, ChangeClear, ChangeFill, ChangeSetRate, MainWake,
         MainRate, MainAckRate, MainFrame, MainSendMic, MainAckFrame, MainData, MainRead,
         MainPlay, MainPlaying, MainAckData, MainLed
    <3>2. ~event'.rateChanged
      BY <1>1, <1>2, <1>4, <2>2 DEF Main, ChangeClear, ChangeFill, ChangeSetRate, MainWake,
         MainRate, MainAckRate, MainFrame, MainSendMic, MainAckFrame, MainData, MainRead,
         MainPlay, MainPlaying, MainAckData, MainLed, flags
    <3> QED BY <3>1, <3>2 DEF NeverChanges
  <2> QED BY <2>1, <2>2
<1> QED BY <1>3, <1>4

(* onDataReceived() moves the oldest of the backlog.                       *)
LEMMA BacklogMoves ==
  ASSUME NEW s, NEW t, NEW hand, NEW all, Owned(s, t, hand, all), NEW n \in 0 .. Len(t)
  PROVE  Owned(s \o Take(t, n), Drop(t, n), hand, all)
<1> DEFINE a == Take(t, n)
           b == Drop(t, n)
<1>1. /\ s \in Seq(Requests) /\ t \in Seq(Requests)
      /\ NoRepeat(s) /\ NoRepeat(t) /\ InSeq(s) \cap InSeq(t) = {}
  BY DEF Owned, Disjoint
<1>2. /\ a \in Seq(Requests) /\ b \in Seq(Requests)
      /\ InSeq(a) \cup InSeq(b) = InSeq(t)
      /\ NoRepeat(a) /\ NoRepeat(b) /\ InSeq(a) \cap InSeq(b) = {}
  BY <1>1, SplitCustody DEF Take, Drop
<1> HIDE DEF a, b
<1>3. /\ s \o a \in Seq(Requests) /\ NoRepeat(s \o a)
      /\ InSeq(s \o a) = InSeq(s) \cup InSeq(a)
  BY <1>1, <1>2, ConcatProperties, ConcatNoRepeat, ConcatCustody
<1>4. /\ hand \cap (InSeq(s) \cup InSeq(t)) = {}
      /\ InSeq(s) \cup InSeq(t) \cup hand = all
  BY DEF Owned
<1>5. Owned(s \o a, b, hand, all)
  BY <1>1, <1>2, <1>3, <1>4 DEF Owned, Disjoint
<1> QED BY <1>5 DEF a, b

(* The stream always has room for what is discarded: without the finished  *)
(* request it holds, with the backlog, fewer than BufferCount requests.    *)
LEMMA DiscardFits ==
  ASSUME Fits, NEW s, NEW t, NEW hand, NEW all, Owned(s, t, hand, all), s # <<>>
  PROVE  Len(t) <= Depth - Len(Tail(s))
<1> DEFINE u == Tail(s)
           c == u \o t
<1>1. /\ u \in Seq(Requests) /\ Head(s) \in Requests /\ Head(s) \in InSeq(s)
      /\ InSeq(u) = InSeq(s) \ {Head(s)} /\ NoRepeat(u)
      /\ t \in Seq(Requests) /\ NoRepeat(t) /\ InSeq(s) \cap InSeq(t) = {}
  BY TailCustody DEF Owned, Disjoint
<1> HIDE DEF u
<1>2. c \in Seq(Requests) /\ Len(c) = Len(u) + Len(t)
  BY <1>1, ConcatProperties
<1>3. InSeq(c) = InSeq(u) \cup InSeq(t) /\ NoRepeat(c)
  BY <1>1, ConcatNoRepeat, ConcatCustody
<1> HIDE DEF c
<1>4. Head(s) \notin InSeq(c)
  BY <1>1, <1>3
<1>5. Len(c) < BufferCount
  BY <1>1, <1>2, <1>3, <1>4, RoomForOneMore DEF Requests
<1>6. Len(u) \in Nat /\ Len(t) \in Nat
  BY <1>1, LenProperties
<1>7. Len(t) <= Depth - Len(u)
  BY <1>2, <1>5, <1>6 DEF Fits
<1> QED BY <1>7 DEF u

LEMMA ReceiveOwned ==
  ASSUME MicInv, ReceiveDone, HasRx, OneRate
  PROVE  Owned(rx', micQueue', MicHand, Issued)
<1> DEFINE n == Outdated(micQueue)
           a == Take(micQueue, n)
           b == Drop(micQueue, n)
<1>1. Fits /\ Owned(rx, micQueue, MicHand, Issued) /\ rx # <<>>
  BY DEF MicInv, ReceiveDone
<1>2. rx \in Seq(Requests) /\ micQueue \in Seq(Requests) /\ Len(micQueue) \in Nat
  BY <1>1, LenProperties DEF Owned
<1>3. n \in 0 .. Len(micQueue)
  BY <1>2, OutdatedRange
<1>4. n <= Depth - Len(Tail(rx))
  <2>1. Len(micQueue) <= Depth - Len(Tail(rx))
    BY <1>1, DiscardFits
  <2>2. Len(Tail(rx)) \in Nat
    BY <1>1, <1>2, TailCustody, LenProperties
  <2> QED BY <1>2, <1>3, <2>1, <2>2
<1>5. rx' = Tail(rx) \o a /\ micQueue' = Append(b, Head(rx))
  BY <1>4 DEF ReceiveDone, Received
<1>6. Owned(rx \o a, b, MicHand, Issued)
  BY <1>1, <1>3, BacklogMoves
<1>7. a \in Seq(Requests)
  BY <1>2, <1>3, SplitCustody DEF Take
<1> HIDE DEF n, a, b
<1>8. rx \o a # <<>> /\ Tail(rx \o a) = Tail(rx) \o a
  BY <1>1, <1>2, <1>7, TailConcat
<1>9. Head(rx \o a) = Head(rx)
  <2>1. Len(rx) \in Nat /\ Len(rx) >= 1 /\ Len(a) \in Nat
    BY <1>1, <1>2, <1>7, LenProperties, EmptySeq
  <2>2. rx \o a \in Seq(Requests) /\ (rx \o a)[1] = rx[1]
    BY <1>2, <1>7, <2>1, ConcatProperties
  <2>3. Head(rx \o a) = (rx \o a)[1] /\ Head(rx) = rx[1]
    BY <1>1, <1>2, <1>8, <2>2, HeadTailProperties
  <2> QED BY <2>2, <2>3
<1>10. Owned(Tail(rx \o a), Append(b, Head(rx \o a)), MicHand, Issued)
  BY <1>6, <1>8, HeadMoves
<1> QED BY <1>5, <1>8, <1>9, <1>10

LEMMA MicInvStep ==
  ASSUME MicInv, device' = device, HasRx, OneRate,
         ReceiveDone \/ ChangeClear \/ ChangeFill \/ MainFrame \/ MainSendMic
  PROVE  Owned(rx', micQueue', MicHand', Issued')
<1>1. Fits /\ Owned(rx, micQueue, MicHand, Issued) /\ request \in Requests
  BY DEF MicInv, CoreInv, TypeOK
<1>2. pc = "fill" => index \in Requests
  BY DEF MicInv, CoreInv, Phase, TypeOK, Requests
<1>3. /\ Booting => pc \in {"clear", "fill", "setRate"}
      /\ pc = "clear" => Booting
  BY DEF MicInv, CoreInv, Phase, NeverChanges
<1>4. CASE ReceiveDone
  <2>1. MicHand' = MicHand /\ Issued' = Issued
    BY <1>4 DEF ReceiveDone, MicHand, Issued, Booting, locals, outputs
  <2> QED BY <1>4, <2>1, ReceiveOwned
<1>5. CASE ChangeClear
  <2>1. rx' = <<>> /\ micQueue' = rx /\ pc = "clear" /\ pc' = "fill" /\ index' = 0
    BY <1>5 DEF ChangeClear
  <2>2. MicHand' = {} /\ Issued' = 0 .. 0 - 1 /\ Issued = {}
    BY <1>3, <2>1 DEF MicHand, Issued
  <2>3. InSeq(rx) = {} /\ rx \in Seq(Requests)
    BY <1>1, <2>2 DEF Owned
  <2>4. rx = <<>>
    <3>1. ASSUME rx # <<>> PROVE FALSE
      BY <2>3, <3>1, TailCustody
    <3> QED BY <3>1
  <2> QED BY <2>1, <2>2, <2>4, NoneIssued
<1>6. CASE ChangeFill
  <2>1. /\ pc = "fill" /\ rx' = Enqueue(rx, index) /\ micQueue' = micQueue
        /\ index' = index + 1
        /\ pc' = IF index + 1 < BufferCount THEN "fill" ELSE "setRate"
    BY <1>6 DEF ChangeFill
  <2>2. MicHand = {} /\ MicHand' = {} /\ Issued = 0 .. index - 1
    BY <2>1 DEF MicHand, Issued
  <2>3. Issued' = 0 .. (index + 1) - 1
    <3>1. CASE index + 1 < BufferCount
      BY <2>1, <3>1 DEF Issued
    <3>2. CASE ~(index + 1 < BufferCount)
      <4>1. index + 1 = BufferCount
        BY <1>2, <2>1, <3>2 DEF Requests
      <4> QED BY <2>1, <3>2, <4>1 DEF Issued, Requests
    <3> QED BY <3>1, <3>2
  <2>4. Enqueue(rx, index) = Append(rx, index)
    <3>1. index \notin InSeq(rx) /\ rx \in Seq(Requests) /\ NoRepeat(rx)
      BY <1>1, <1>2, <2>1, <2>2 DEF Owned, Requests
    <3> QED BY <1>1, <1>2, <2>1, <3>1, EnqueueCustody
  <2>5. Owned(micQueue, Append(rx, index), {}, 0 .. (index + 1) - 1)
    BY <1>1, <1>2, <2>1, <2>2, OwnedSwap, NextIssued
  <2> QED BY <2>1, <2>2, <2>3, <2>4, <2>5, OwnedSwap
<1>7. CASE MainFrame
  <2>1. MicHand = {} /\ Issued = Requests /\ Issued' = Requests
    BY <1>7 DEF MainFrame, MicHand, Issued
  <2>2. CASE event.startOfFrame /\ HasRx /\ micQueue # <<>>
    <3>1. rx' = rx /\ micQueue' = Tail(micQueue) /\ MicHand' = {Head(micQueue)}
      BY <1>7, <2>2 DEF MainFrame, MicHand
    <3> QED BY <1>1, <2>1, <2>2, <3>1, HeadTaken
  <2>3. CASE ~(event.startOfFrame /\ HasRx /\ micQueue # <<>>)
    <3>1. rx' = rx /\ micQueue' = micQueue /\ MicHand' = {}
      BY <1>7, <2>3 DEF MainFrame, MicHand
    <3> QED BY <1>1, <2>1, <3>1
  <2> QED BY <2>2, <2>3
<1>8. CASE MainSendMic
  <2>1. /\ rx' = Enqueue(rx, request) /\ micQueue' = micQueue
        /\ MicHand = {request} /\ MicHand' = {} /\ Issued = Requests /\ Issued' = Requests
    BY <1>8 DEF MainSendMic, MicHand, Issued
  <2> QED BY <1>1, <2>1, HandPut
<1> QED BY <1>4, <1>5, <1>6, <1>7, <1>8

LEMMA MicInvKept ==
  ASSUME MicInv, device' = device, HasRx, OneRate,
         \/ TransmitDone \/ HostData \/ HostFrame \/ HostChangesRate \/ HostSuspend
         \/ ChangeSetRate \/ MainWake \/ MainRate \/ MainAckRate \/ MainRead
         \/ MainPlay \/ MainAckFrame \/ MainData \/ MainPlaying \/ MainAckData
         \/ MainLed \/ UNCHANGED vars
  PROVE  Owned(rx', micQueue', MicHand', Issued')
<1>1. Booting => pc \in {"clear", "fill", "setRate"}
  BY DEF MicInv, CoreInv, Phase
<1>2. Owned(rx, micQueue, MicHand, Issued)
  BY DEF MicInv
<1>3. rx' = rx /\ micQueue' = micQueue
  BY DEF TransmitDone, HostData, HostFrame, HostChangesRate, HostSuspend, HostStep,
         ChangeSetRate, MainWake, MainRate, MainAckRate, MainRead, MainPlay,
         MainAckFrame, MainData, MainPlaying, MainAckData, MainLed, vars, mic
<1>4. CASE \/ TransmitDone \/ HostData \/ HostFrame \/ HostChangesRate \/ HostSuspend
           \/ UNCHANGED vars
  <2>1. UNCHANGED <<pc, request, index, deviceRate>>
    BY <1>4 DEF TransmitDone, HostData, HostFrame, HostChangesRate, HostSuspend, HostStep,
                vars, locals, outputs
  <2> QED BY <1>2, <1>3, <2>1 DEF MicHand, Issued, Booting
<1>5. CASE \/ ChangeSetRate \/ MainWake \/ MainRate \/ MainAckRate \/ MainRead
           \/ MainPlay \/ MainAckFrame \/ MainData \/ MainPlaying \/ MainAckData
           \/ MainLed
  <2>1. /\ pc \notin {"clear", "fill", "sendMic"} /\ pc' \notin {"fill", "sendMic"}
        /\ pc' = "clear" => pc = "rate" /\ deviceRate' = deviceRate
    BY <1>5 DEF ChangeSetRate, MainWake, MainRate, MainAckRate, MainRead, MainPlay,
                MainAckFrame, MainData, MainPlaying, MainAckData, MainLed, outputs
  <2>2. MicHand = {} /\ MicHand' = {} /\ Issued = Requests /\ Issued' = Requests
    BY <1>1, <2>1 DEF MicHand, Issued, Booting
  <2> QED BY <1>2, <1>3, <2>2
<1> QED BY <1>4, <1>5

LEMMA MicInvAlways == Fits /\ SafeSpec => []MicInv
<1>1. Fits /\ Init => MicInv
  BY CoreInvInit, NoneIssued
     DEF Init, MicInv, NeverChanges, MicHand, Issued, Booting
<1>2. MicInv /\ CoreInv' /\ [Next]_<<vars, device>> => MicInv'
  <2> SUFFICES ASSUME MicInv, CoreInv', [Next]_<<vars, device>> PROVE MicInv'
    OBVIOUS
  <2>1. device' = device /\ HasRx' = HasRx /\ OneRate' = OneRate
    BY DEF Next, HasRx, OneRate, Rates
  <2>2. NeverChanges'
    <3>1. CASE Main \/ Interrupt
      BY <2>1, <3>1, NeverChangesStep DEF MicInv
    <3>2. CASE UNCHANGED vars
      BY <2>1, <3>2 DEF MicInv, NeverChanges, Booting, vars, flags, outputs
    <3> QED BY <3>1, <3>2 DEF Next
  <2>3. HasRx /\ OneRate => Owned(rx', micQueue', MicHand', Issued')
    BY <2>1, MicInvStep, MicInvKept DEF Next, Interrupt, Main
  <2> QED BY <2>1, <2>2, <2>3 DEF MicInv, Fits
<1>3. Fits => Fits'
  BY DEF Fits
<1> QED BY <1>1, <1>2, <1>3, CoreInvAlways, PTL DEF SafeSpec

(* Every record request of a device of one rate is in one place, once:     *)
(* the callback, which moves a finished block and discards the backlog,    *)
(* and the main loop, which holds one of them, lose and repeat none.       *)
THEOREM RecordOwned == Fits /\ SafeSpec => []MicOwnership
<1>1. MicInv => MicOwnership
  BY DEF MicInv, MicHand, OneRate, Owned, MicOwnership
<1> QED BY MicInvAlways, <1>1, PTL

(* The assertion of changeRate() that the stream takes each record request *)
(* holds on a device of one rate; it takes a second rate to violate it.    *)
THEOREM AcceptedAtOneRate ==
  Fits /\ SafeSpec => [](OneRate => RecordRequestAccepted)
<1>1. MicInv => (OneRate => RecordRequestAccepted)
  <2> SUFFICES ASSUME MicInv, OneRate, HasRx, pc = "fill" PROVE Len(rx) < Depth
    BY DEF RecordRequestAccepted
  <2>1. Owned(rx, micQueue, {}, 0 .. index - 1) /\ index \in Requests /\ Fits
    BY DEF MicInv, CoreInv, Phase, TypeOK, MicHand, Issued, Requests
  <2>2. rx \in Seq(Requests) /\ NoRepeat(rx) /\ index \notin InSeq(rx)
    BY <2>1 DEF Owned, Requests
  <2>3. Len(rx) < BufferCount
    BY <2>1, <2>2, RoomForOneMore DEF Requests
  <2>4. Len(rx) \in Nat
    BY <2>2, LenProperties
  <2> QED BY <2>1, <2>3, <2>4 DEF Fits
<1> QED BY MicInvAlways, <1>1, PTL
=============================================================================
