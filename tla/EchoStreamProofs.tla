-------------------------- MODULE EchoStreamProofs --------------------------
(***************************************************************************)
(* For every number of buffers that fits the streams (Fits): the ownership *)
(* of the requests, the role each one has where it is, the wake-up of the  *)
(* main loop, and that the echo implements the ring (safety part).         *)
(***************************************************************************)
EXTENDS EchoStream, CustodyLemmas

USE SizesAssumption

(* The loop counter tells whether the boot loop has ended, and a boot in   *)
(* progress, like a waiting main loop, has its event raised by queued work.*)
BootCounter == pc = "init" <=> index < BufferCount

WakeupPending ==
  /\ pc \in {"init", "first"} => first
  /\ pc \in {"init", "wait"} /\ Len(queue) >= (IF first THEN Prebuffer ELSE 1)
       => event

IInv == Fits /\ TypeOK /\ Ownership /\ RoleMatchesPlace /\ BootCounter /\ WakeupPending

-----------------------------------------------------------------------------
(* A request that is in the place s is not lost when a stream has to take  *)
(* it: the stream holds fewer than BufferCount requests, hence has room.   *)
LEMMA EnqueueCustody ==
  ASSUME Fits, NEW s \in Seq(Requests), NoRepeat(s),
         NEW r \in Requests, r \notin InSeq(s)
  PROVE  /\ Enqueue(s, r) \in Seq(Requests)
         /\ Enqueue(s, r) = Append(s, r)
         /\ InSeq(Enqueue(s, r)) = InSeq(s) \cup {r}
         /\ NoRepeat(Enqueue(s, r))
<1>1. Len(s) < BufferCount
  BY RoomForOneMore DEF Requests
<1>2. Enqueue(s, r) = Append(s, r)
  BY <1>1, LenProperties DEF Enqueue, Fits
<1>3. QED BY <1>2, AppendCustody

LEMMA InitIInv == Fits /\ Init => IInv
<1> SUFFICES ASSUME Fits, Init PROVE IInv
  OBVIOUS
<1>1. TypeOK
  BY DEF Init, TypeOK, Requests
<1>2. Ownership
  BY EmptyCustody DEF Init, Ownership, InHand
<1>3. RoleMatchesPlace
  BY EmptyCustody DEF Init, RoleMatchesPlace, InHand
<1>4. BootCounter /\ WakeupPending
  BY DEF Init, BootCounter, WakeupPending, Prebuffer
<1>5. QED BY <1>1, <1>2, <1>3, <1>4 DEF IInv

-----------------------------------------------------------------------------
(* The interrupt handlers: a finished request leaves the stream it is at   *)
(* the head of, and its callback puts it in the next place.                *)
LEMMA ReceiveDoneIInv ==
  ASSUME IInv, NEW ok \in BOOLEAN, ReceiveDone(ok)
  PROVE  IInv'
<1> DEFINE r == Head(rx)
           s == Tail(rx)
<1> USE DEF IInv
<1>1. /\ rx \in Seq(Requests) /\ rx # <<>> /\ queue \in Seq(Requests)
      /\ NoRepeat(rx) /\ NoRepeat(queue)
  BY DEF ReceiveDone, TypeOK, Ownership
<1>2. /\ s \in Seq(Requests) /\ r \in Requests /\ r \in InSeq(rx)
      /\ InSeq(s) = InSeq(rx) \ {r} /\ NoRepeat(s)
  BY <1>1, TailCustody
<1>3. r \notin InSeq(s) /\ r \notin InSeq(queue) /\ r \notin InSeq(tx) /\ r \notin InHand
  BY <1>2 DEF Ownership
<1>4. callback[r] = "onDataReceived"
  BY <1>2 DEF RoleMatchesPlace
<1>5. /\ Callback(r, ok, s)
      /\ UNCHANGED <<tx, first, pc, index, request>>
  BY DEF ReceiveDone
<1> HIDE DEF r, s
<1>6. InHand' = InHand
  BY <1>5 DEF InHand
<1>7. CASE ok
  <2>1. Captured(r, s)
    BY <1>4, <1>5, <1>7 DEF Callback
  <2>2. /\ queue' \in Seq(Requests)
        /\ InSeq(queue') = InSeq(queue) \cup {r}
        /\ NoRepeat(queue')
    BY <1>1, <1>2, <1>3, <2>1, AppendCustody DEF Captured
  <2>3. TypeOK'
    BY <1>2, <1>5, <2>1, <2>2 DEF TypeOK, Captured
  <2>4. Ownership'
    BY <1>2, <1>3, <1>5, <1>6, <2>1, <2>2 DEF Ownership, Captured
  <2>5. RoleMatchesPlace'
    BY <1>2, <1>3, <1>5, <1>6, <2>1, <2>2 DEF RoleMatchesPlace, Captured, TypeOK
  <2>6. BootCounter' /\ WakeupPending'
    BY <1>5, <2>1 DEF BootCounter, WakeupPending, Captured, TypeOK
  <2>7. QED BY <2>3, <2>4, <2>5, <2>6
<1>8. CASE ~ok
  <2>1. Recycled(r, s)
    BY <1>5, <1>8 DEF Callback
  <2>2. /\ rx' \in Seq(Requests)
        /\ InSeq(rx') = InSeq(s) \cup {r}
        /\ NoRepeat(rx')
    BY <1>2, <1>3, <2>1, EnqueueCustody DEF Recycled
  <2>3. TypeOK'
    BY <1>5, <2>1, <2>2 DEF TypeOK, Recycled
  <2>4. Ownership'
    BY <1>2, <1>3, <1>5, <1>6, <2>1, <2>2 DEF Ownership, Recycled
  <2>5. RoleMatchesPlace'
    BY <1>2, <1>3, <1>5, <1>6, <2>1, <2>2 DEF RoleMatchesPlace, Recycled, TypeOK
  <2>6. BootCounter' /\ WakeupPending'
    BY <1>5, <2>1 DEF BootCounter, WakeupPending, Recycled
  <2>7. QED BY <2>3, <2>4, <2>5, <2>6
<1>9. QED BY <1>7, <1>8

LEMMA TransmitDoneIInv ==
  ASSUME IInv, NEW ok \in BOOLEAN, TransmitDone(ok)
  PROVE  IInv'
<1> DEFINE r == Head(tx)
           s == Tail(tx)
<1> USE DEF IInv
<1>1. /\ tx \in Seq(Requests) /\ tx # <<>> /\ rx \in Seq(Requests)
      /\ NoRepeat(tx) /\ NoRepeat(rx)
  BY DEF TransmitDone, TypeOK, Ownership
<1>2. /\ s \in Seq(Requests) /\ r \in Requests /\ r \in InSeq(tx)
      /\ InSeq(s) = InSeq(tx) \ {r} /\ NoRepeat(s)
  BY <1>1, TailCustody
<1>3. r \notin InSeq(s) /\ r \notin InSeq(queue) /\ r \notin InSeq(rx) /\ r \notin InHand
  BY <1>2 DEF Ownership
<1>4. callback[r] = "onDataSent"
  BY <1>2 DEF RoleMatchesPlace
<1>5. /\ tx' = s
      /\ Recycled(r, rx)
      /\ UNCHANGED <<first, pc, index, request>>
  BY <1>4 DEF TransmitDone, Callback
<1> HIDE DEF r, s
<1>6. InHand' = InHand
  BY <1>5 DEF InHand
<1>7. /\ rx' \in Seq(Requests)
      /\ InSeq(rx') = InSeq(rx) \cup {r}
      /\ NoRepeat(rx')
  BY <1>1, <1>2, <1>3, <1>5, EnqueueCustody DEF Recycled
<1>8. TypeOK'
  BY <1>2, <1>5, <1>7 DEF TypeOK, Recycled
<1>9. Ownership'
  BY <1>2, <1>3, <1>5, <1>6, <1>7 DEF Ownership, Recycled
<1>10. RoleMatchesPlace'
  BY <1>2, <1>3, <1>5, <1>6, <1>7 DEF RoleMatchesPlace, Recycled, TypeOK
<1>11. BootCounter' /\ WakeupPending'
  BY <1>5 DEF BootCounter, WakeupPending, Recycled
<1>12. QED BY <1>8, <1>9, <1>10, <1>11

-----------------------------------------------------------------------------
(* The steps of main().                                                    *)
LEMMA MainInitIInv ==
  ASSUME IInv, MainInit
  PROVE  IInv'
<1> USE DEF IInv
<1>1. pc = "init" /\ index \in 0..BufferCount /\ index < BufferCount
  BY DEF MainInit, BootCounter, TypeOK
<1>2. index \in Requests
  BY <1>1 DEF Requests
<1>3. index \notin InSeq(rx) /\ index \notin InSeq(tx) /\ index \notin InSeq(queue)
  BY <1>1 DEF Ownership
<1>4. /\ rx' \in Seq(Requests)
      /\ InSeq(rx') = InSeq(rx) \cup {index}
      /\ NoRepeat(rx')
  BY <1>2, <1>3, EnqueueCustody DEF MainInit, TypeOK, Ownership
<1>5. InHand = {} /\ InHand' = {}
  BY DEF InHand, MainInit
<1>6. TypeOK'
  <2>1. pc' \in {"init", "wait"} /\ index' \in 0..BufferCount
    BY <1>1 DEF MainInit
  <2>2. /\ callback' \in [Requests -> {"none", "onDataReceived", "onDataSent"}]
        /\ full' \in [Requests -> BOOLEAN]
    BY <1>2 DEF MainInit, TypeOK
  <2>3. QED BY <1>4, <2>1, <2>2 DEF TypeOK, MainInit
<1>7. Ownership'
  <2>1. 0 .. index' - 1 = (0 .. index - 1) \cup {index}
    BY <1>1 DEF MainInit
  <2>2. QED BY <1>3, <1>4, <1>5, <2>1 DEF Ownership, MainInit
<1>8. RoleMatchesPlace'
  BY <1>2, <1>3, <1>4, <1>5 DEF RoleMatchesPlace, MainInit, TypeOK
<1>9. BootCounter' /\ WakeupPending'
  BY <1>1 DEF BootCounter, WakeupPending, MainInit
<1>10. QED BY <1>6, <1>7, <1>8, <1>9

LEMMA MainWakeIInv ==
  ASSUME IInv, MainWake \/ MainFirst
  PROVE  IInv'
<1> USE DEF IInv
<1>1. /\ UNCHANGED <<rx, tx, queue, callback, full, index, request>>
      /\ pc \in {"wait", "first"} /\ pc' \in {"wait", "first", "drain"}
  BY DEF MainWake, MainFirst
<1>2. InHand = {} /\ InHand' = {}
  BY <1>1 DEF InHand
<1>3. TypeOK'
  BY <1>1 DEF TypeOK, MainWake, MainFirst
<1>4. Ownership' /\ RoleMatchesPlace'
  BY <1>1, <1>2 DEF Ownership, RoleMatchesPlace
<1>5. BootCounter' /\ WakeupPending'
  <2>1. Len(queue) \in Nat
    BY LenProperties DEF TypeOK
  <2>2. CASE MainWake
    BY <2>1, <2>2 DEF BootCounter, WakeupPending, MainWake
  <2>3. CASE MainFirst
    <3>1. pc = "first" /\ first = TRUE /\ index' = index /\ queue' = queue
      BY <2>3 DEF MainFirst, WakeupPending, TypeOK
    <3>2. ~(index' < BufferCount) /\ pc' # "init"
      BY <2>3, <3>1 DEF BootCounter, MainFirst
    <3>3. CASE Len(queue) < Prebuffer
      BY <2>1, <2>3, <3>1, <3>2, <3>3 DEF BootCounter, WakeupPending, MainFirst, Prebuffer
    <3>4. CASE ~(Len(queue) < Prebuffer)
      BY <2>3, <3>2, <3>4 DEF BootCounter, WakeupPending, MainFirst
    <3>5. QED BY <3>3, <3>4
  <2>4. QED BY <2>2, <2>3
<1>6. QED BY <1>3, <1>4, <1>5

LEMMA MainPopIInv ==
  ASSUME IInv, MainPop
  PROVE  IInv'
<1> USE DEF IInv
<1>1. /\ UNCHANGED <<rx, tx, event, first, callback, full, index>>
      /\ pc = "drain"
      /\ InHand = {}
  BY DEF MainPop, InHand
<1>2. CASE queue = <<>>
  <2>1. pc' = "wait" /\ queue' = queue /\ request' = request /\ InHand' = {}
    BY <1>2 DEF MainPop, InHand
  <2>2. TypeOK' /\ Ownership' /\ RoleMatchesPlace'
    BY <1>1, <2>1 DEF TypeOK, Ownership, RoleMatchesPlace
  <2>3. BootCounter' /\ WakeupPending'
    BY <1>1, <1>2, <2>1 DEF BootCounter, WakeupPending, Prebuffer
  <2>4. QED BY <2>2, <2>3
<1>3. CASE queue # <<>>
  <2>1. /\ request' = Head(queue) /\ queue' = Tail(queue) /\ pc' = "send"
        /\ InHand' = {Head(queue)}
    BY <1>3 DEF MainPop, InHand
  <2>2. /\ queue' \in Seq(Requests) /\ request' \in Requests
        /\ request' \in InSeq(queue)
        /\ InSeq(queue') = InSeq(queue) \ {request'}
        /\ NoRepeat(queue')
    BY <1>3, <2>1, TailCustody DEF TypeOK, Ownership
  <2>3. TypeOK'
    BY <1>1, <2>1, <2>2 DEF TypeOK
  <2>4. Ownership'
    BY <1>1, <2>1, <2>2 DEF Ownership
  <2>5. RoleMatchesPlace'
    BY <1>1, <2>1, <2>2 DEF RoleMatchesPlace
  <2>6. BootCounter' /\ WakeupPending'
    BY <1>1, <2>1 DEF BootCounter, WakeupPending
  <2>7. QED BY <2>3, <2>4, <2>5, <2>6
<1>4. QED BY <1>2, <1>3

LEMMA MainSendIInv ==
  ASSUME IInv, MainSend
  PROVE  IInv'
<1> USE DEF IInv
<1>1. /\ UNCHANGED <<rx, queue, event, first, callback, full, index, request>>
      /\ pc = "send" /\ pc' = "drain"
      /\ InHand = {request} /\ InHand' = {}
      /\ tx' = Enqueue(tx, request)
  BY DEF MainSend, InHand
<1>2. /\ tx' \in Seq(Requests)
      /\ InSeq(tx') = InSeq(tx) \cup {request}
      /\ NoRepeat(tx')
  BY <1>1, EnqueueCustody DEF TypeOK, Ownership
<1>3. TypeOK'
  BY <1>1, <1>2 DEF TypeOK
<1>4. Ownership'
  BY <1>1, <1>2 DEF Ownership
<1>5. RoleMatchesPlace'
  BY <1>1, <1>2 DEF RoleMatchesPlace
<1>6. BootCounter' /\ WakeupPending'
  BY <1>1 DEF BootCounter, WakeupPending
<1>7. QED BY <1>3, <1>4, <1>5, <1>6

-----------------------------------------------------------------------------
(* The inductive invariant holds: each action preserves it.                *)
LEMMA Inductive == Fits /\ SafeSpec => []IInv
<1>1. IInv /\ [Next]_vars => IInv'
  <2> SUFFICES ASSUME IInv, [Next]_vars PROVE IInv'
    OBVIOUS
  <2>1. CASE Main
    BY <2>1, MainInitIInv, MainWakeIInv, MainPopIInv, MainSendIInv DEF Main
  <2>2. CASE Interrupt
    BY <2>2, ReceiveDoneIInv, TransmitDoneIInv DEF Interrupt
  <2>3. CASE UNCHANGED vars
    BY <2>3 DEF vars, IInv, TypeOK, Ownership, RoleMatchesPlace, BootCounter,
                WakeupPending, InHand, Fits
  <2>4. QED BY <2>1, <2>2, <2>3 DEF Next
<1>2. QED BY <1>1, InitIInv, PTL DEF SafeSpec

(* Every variable keeps its type, whatever the number of buffers.          *)
THEOREM TypeCorrect == Fits /\ SafeSpec => []TypeOK
<1>1. IInv => TypeOK
  BY DEF IInv
<1>2. QED BY <1>1, Inductive, PTL

(* No request is ever lost, duplicated or held in two places.              *)
THEOREM RequestsOwned == Fits /\ SafeSpec => []Ownership
<1>1. IInv => Ownership
  BY DEF IInv
<1>2. QED BY <1>1, Inductive, PTL

(* A request in the receive stream is empty and will be reported as        *)
(* received; anywhere else it is filled and will be reported as sent.      *)
THEOREM RolesAgree == Fits /\ SafeSpec => []RoleMatchesPlace
<1>1. IInv => RoleMatchesPlace
  BY DEF IInv
<1>2. QED BY <1>1, Inductive, PTL

(* The main loop never sleeps on work: a block queued while it was busy    *)
(* leaves the event raised.                                                *)
THEOREM WakeupNotLost == Fits /\ SafeSpec => []NoLostWakeup
<1>1. IInv => NoLostWakeup
  BY DEF IInv, WakeupPending, NoLostWakeup
<1>2. QED BY <1>1, Inductive, PTL

(* The assertion of the boot loop holds: the stream takes each request,    *)
(* although completed ones come back to it while the loop runs.            *)
THEOREM BootAccepted == Fits /\ SafeSpec => []EnqueueAccepted
<1>1. IInv => EnqueueAccepted
  <2> SUFFICES ASSUME IInv, pc = "init" PROVE Len(rx) < Depth
    BY DEF EnqueueAccepted
  <2>1. /\ rx \in Seq(Requests) /\ NoRepeat(rx) /\ index \in Requests
        /\ index \notin InSeq(rx)
    BY DEF IInv, TypeOK, Ownership, BootCounter, InHand, Requests
  <2>2. Len(rx) < BufferCount /\ Len(rx) \in Nat
    BY <2>1, RoomForOneMore, LenProperties DEF Requests
  <2> QED BY <2>2 DEF IInv, Fits
<1>2. QED BY <1>1, Inductive, PTL

-----------------------------------------------------------------------------
(* Refinement: the line of the ring is tx \o hand \o queue.                *)
Hand == IF pc = "send" THEN <<request>> ELSE <<>>

LEMMA HandType ==
  ASSUME TypeOK
  PROVE  /\ Hand \in Seq(Requests)
         /\ tx \o Hand \in Seq(Requests)
         /\ Line = (tx \o Hand) \o queue
         /\ Line \in Seq(Requests)
<1>1. Hand \in Seq(Requests)
  BY DEF Hand, TypeOK
<1>2. tx \o Hand \in Seq(Requests)
  BY <1>1, ConcatProperties DEF TypeOK
<1>3. Line = (tx \o Hand) \o queue
  BY DEF Line, Hand
<1>4. QED BY <1>1, <1>2, <1>3, ConcatProperties DEF TypeOK

(* A captured block joins the line at the back.                            *)
LEMMA CaptureStep ==
  ASSUME IInv, ReceiveDone(TRUE)
  PROVE  Ring!Capture(Head(rx))
<1> DEFINE r == Head(rx)
<1> USE DEF IInv
<1>1. rx \in Seq(Requests) /\ rx # <<>> /\ queue \in Seq(Requests)
  BY DEF ReceiveDone, TypeOK
<1>2. r \in Requests /\ r \in InSeq(rx)
  BY <1>1, TailCustody
<1>3. callback[r] = "onDataReceived"
  BY <1>2 DEF RoleMatchesPlace
<1> HIDE DEF r
<1>4. /\ queue' = Append(queue, r)
      /\ tx' = tx /\ Hand' = Hand
  BY <1>3 DEF ReceiveDone, Callback, Captured, Hand, r
<1>5. Line' = (tx \o Hand) \o Append(queue, r)
  BY <1>4 DEF Line, Hand
<1>6. /\ tx \in Seq(Requests) /\ Hand \in Seq(Requests)
      /\ tx \o Hand \in Seq(Requests) /\ Line = (tx \o Hand) \o queue
  BY HandType DEF TypeOK
<1>7. Line' = Append(Line, r)
  <2>1. (tx \o Hand) \o Append(queue, r) = Append((tx \o Hand) \o queue, r)
    BY <1>1, <1>2, <1>6, ConcatAppend
  <2>2. QED BY <1>5, <1>6, <2>1
<1>8. r \notin InSeq(Line)
  <2>1. InSeq(Line) = (InSeq(tx) \cup InSeq(Hand)) \cup InSeq(queue)
    <3> DEFINE sent == tx \o Hand
    <3>1. sent \in Seq(Requests) /\ Line = sent \o queue
      BY <1>6
    <3>2. InSeq(sent) = InSeq(tx) \cup InSeq(Hand)
      BY <1>6, ConcatCustody
    <3> HIDE DEF sent
    <3>3. InSeq(sent \o queue) = InSeq(sent) \cup InSeq(queue)
      BY <1>1, <3>1, ConcatCustody
    <3>4. QED BY <3>1, <3>2, <3>3
  <2>2. InSeq(Hand) = InHand
    BY DEF InSeq, Hand, InHand
  <2>3. QED BY <1>2, <2>1, <2>2 DEF Ownership
<1>9. QED BY <1>7, <1>8 DEF Ring!Capture, Ring!InLine, InSeq, r

(* A failed reception does not change the line.                            *)
LEMMA FailedStep ==
  ASSUME ReceiveDone(FALSE)
  PROVE  Line' = Line
BY DEF ReceiveDone, Callback, Recycled, Line

(* A transmitted block leaves the line from the front.                     *)
LEMMA PlayStep ==
  ASSUME IInv, NEW ok \in BOOLEAN, TransmitDone(ok)
  PROVE  Ring!Play
<1> USE DEF IInv
<1>1. tx \in Seq(Requests) /\ tx # <<>> /\ Hand \in Seq(Requests) /\ queue \in Seq(Requests)
  BY HandType DEF TransmitDone, TypeOK
<1>2. callback[Head(tx)] = "onDataSent"
  BY <1>1, TailCustody DEF RoleMatchesPlace
<1>3. /\ tx' = Tail(tx) /\ queue' = queue /\ Hand' = Hand
      /\ Line' = (Tail(tx) \o Hand) \o queue
  BY <1>2 DEF TransmitDone, Callback, Recycled, Hand, Line
<1>4. tx \o Hand # <<>> /\ Tail(tx \o Hand) = Tail(tx) \o Hand
  BY <1>1, TailConcat
<1>5. Line # <<>> /\ Tail(Line) = Tail(tx \o Hand) \o queue
  <2>1. tx \o Hand \in Seq(Requests) /\ Line = (tx \o Hand) \o queue
    BY HandType
  <2>2. /\ (tx \o Hand) \o queue # <<>>
        /\ Tail((tx \o Hand) \o queue) = Tail(tx \o Hand) \o queue
    BY <1>1, <1>4, <2>1, TailConcat
  <2>3. QED BY <2>1, <2>2
<1>6. QED BY <1>3, <1>4, <1>5 DEF Ring!Play

(* The main loop moves blocks without changing the line.                   *)
LEMMA MainStep ==
  ASSUME IInv, Main
  PROVE  Line' = Line
<1> USE DEF IInv
<1>1. tx \in Seq(Requests) /\ queue \in Seq(Requests) /\ request \in Requests
  BY DEF TypeOK
<1>2. CASE MainInit \/ MainWake \/ MainFirst
  BY <1>2 DEF MainInit, MainWake, MainFirst, Line
<1>3. CASE MainPop
  <2>1. Line = (tx \o <<>>) \o queue /\ Line = tx \o queue
    BY <1>1, <1>3, ConcatEmptySeq DEF MainPop, Line
  <2>2. CASE queue = <<>>
    BY <1>3, <2>2 DEF MainPop, Line
  <2>3. CASE queue # <<>>
    <3>1. Line' = (tx \o <<Head(queue)>>) \o Tail(queue)
      BY <1>3, <2>3 DEF MainPop, Line
    <3>2. /\ Head(queue) \in Requests /\ Tail(queue) \in Seq(Requests)
          /\ <<Head(queue)>> \in Seq(Requests)
      BY <1>1, <2>3, HeadTailProperties
    <3>3. Line' = tx \o (<<Head(queue)>> \o Tail(queue))
      BY <1>1, <3>1, <3>2, ConcatAssociative
    <3>4. <<Head(queue)>> \o Tail(queue) = queue
      BY <1>1, <2>3, HeadTailConcat
    <3>5. QED BY <2>1, <3>3, <3>4
  <2>4. QED BY <2>2, <2>3
<1>4. CASE MainSend
  <2>1. tx' = Append(tx, request)
    BY <1>1, <1>4, EnqueueCustody DEF MainSend, Ownership, InHand
  <2>2. tx' = tx \o <<request>> /\ tx' \in Seq(Requests)
    BY <1>1, <2>1, AppendIsConcat, AppendProperties
  <2>3. Line' = (tx' \o <<>>) \o queue
    BY <1>4 DEF MainSend, Line
  <2>4. tx' \o <<>> = tx'
    BY <2>2, ConcatEmptySeq
  <2>5. QED BY <1>4, <2>2, <2>3, <2>4 DEF MainSend, Line
<1>5. QED BY <1>2, <1>3, <1>4 DEF Main

(* Blocks are played in the order they were captured, none is lost and no  *)
(* buffer is in the line twice: the echo implements the safety part of the *)
(* ring.                                                                   *)
THEOREM EchoImplementsRing == Fits /\ SafeSpec => Ring!SafeSpec
<1>1. Init => Ring!Init
  BY ConcatEmptySeq, EmptySeq DEF Init, Ring!Init, Line
<1>2. IInv /\ [Next]_vars => [Ring!Next]_Line
  <2> SUFFICES ASSUME IInv, [Next]_vars PROVE [Ring!Next]_Line
    OBVIOUS
  <2>1. CASE Main
    BY <2>1, MainStep
  <2>2. CASE Interrupt
    <3>1. PICK ok \in BOOLEAN : ReceiveDone(ok) \/ TransmitDone(ok)
      BY <2>2 DEF Interrupt
    <3>2. CASE TransmitDone(ok)
      BY <3>2, PlayStep DEF Ring!Next
    <3>3. CASE ReceiveDone(ok) /\ ok
      <4>1. ReceiveDone(TRUE) /\ rx \in Seq(Requests) /\ rx # <<>>
        BY <3>3 DEF ReceiveDone, IInv, TypeOK
      <4>2. Ring!Capture(Head(rx)) /\ Head(rx) \in Requests
        BY <4>1, CaptureStep, TailCustody
      <4>3. QED BY <4>2 DEF Ring!Next
    <3>4. CASE ReceiveDone(ok) /\ ~ok
      <4>1. ReceiveDone(FALSE)
        BY <3>4
      <4>2. QED BY <4>1, FailedStep
    <3>5. QED BY <3>1, <3>2, <3>3, <3>4
  <2>3. CASE UNCHANGED vars
    BY <2>3 DEF vars, Line
  <2>4. QED BY <2>1, <2>2, <2>3 DEF Next
<1>3. QED BY <1>1, <1>2, Inductive, PTL DEF SafeSpec, Ring!SafeSpec
=============================================================================
