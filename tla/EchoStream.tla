----------------------------- MODULE EchoStream -----------------------------
(***************************************************************************)
(* templates/i2s_echo.jinja2: audio received over I2S is sent back.        *)
(*                                                                         *)
(* A fixed set of stream requests circulates: the receive stream fills a   *)
(* request, its interrupt handler queues it, the main loop moves it to the *)
(* transmit stream, whose handler returns it to the receive stream.  The   *)
(* two DMA handlers share one interrupt line, so each runs to completion;  *)
(* they interleave with the main loop between any two of its steps, except *)
(* inside irqSave()..irqRestore(), which is why MainPop is a single step.  *)
(***************************************************************************)
EXTENDS Naturals, Sequences, Custody

CONSTANTS
  BufferCount,   \* BUFFER_COUNT
  Depth          \* requests a stream can hold: .size of the board's I2SDmaConfig

ASSUME SizesAssumption ==
  /\ BufferCount \in Nat \ {0, 1}
  /\ Depth \in Nat

(* The board's streams can hold every request: so on lpc43xx and stm32f4,  *)
(* not on lpc17xx.                                                         *)
Fits == BufferCount <= Depth

Requests == 0 .. BufferCount - 1
Prebuffer == 2   \* the literal of the size check made while context.first is set

VARIABLES
  rx, tx,        \* requests held by the receive and by the transmit stream
  queue,         \* context.queue
  event,         \* context.event
  first,         \* context.first
  callback,      \* request->callback, "none" until the request is initialised
  full,          \* request->length # 0
  pc,            \* the statement the main program is about to execute
  index,         \* i of the initialisation loop
  request        \* the local variable of the drain loop

vars == <<rx, tx, queue, event, first, callback, full, pc, index, request>>

-----------------------------------------------------------------------------
(* The streams, as far as the example uses them.                           *)

(* streamEnqueue(): a full stream refuses the request with an error.       *)
Enqueue(stream, r) ==
  IF Len(stream) < Depth THEN Append(stream, r) ELSE stream

(* Mutation: the event is only raised when the queue was empty.            *)
CapturedQuiet(r, stream) ==
  /\ rx' = stream
  /\ callback' = [callback EXCEPT ![r] = "onDataSent"]
  /\ full' = [full EXCEPT ![r] = TRUE]
  /\ queue' = Append(queue, r)
  /\ event' = (event \/ queue = <<>>)

(* Mutation: the queue is a stack.                                         *)
CapturedLifo(r, stream) ==
  /\ rx' = stream
  /\ callback' = [callback EXCEPT ![r] = "onDataSent"]
  /\ full' = [full EXCEPT ![r] = TRUE]
  /\ queue' = <<r>> \o queue
  /\ event' = TRUE

(* The COMPLETED arm of onDataReceived().                                  *)
Captured(r, stream) ==
  /\ rx' = stream
  /\ callback' = [callback EXCEPT ![r] = "onDataSent"]
  /\ full' = [full EXCEPT ![r] = TRUE]
  /\ queue' = Append(queue, r)
  /\ event' = TRUE

(* Mutation: the request keeps its length.                                 *)
RecycledFull(r, stream) ==
  /\ rx' = Enqueue(stream, r)
  /\ callback' = [callback EXCEPT ![r] = "onDataReceived"]
  /\ UNCHANGED <<full, queue, event>>

(* The FAILED arm of onDataReceived() and the whole of onDataSent().       *)
Recycled(r, stream) ==
  /\ rx' = Enqueue(stream, r)
  /\ callback' = [callback EXCEPT ![r] = "onDataReceived"]
  /\ full' = [full EXCEPT ![r] = FALSE]
  /\ UNCHANGED <<queue, event>>

(* The driver calls whatever callback the finished request carries; stream *)
(* is the content of rx at that moment.                                    *)
Callback(r, ok, stream) ==
  IF callback[r] = "onDataReceived" /\ ok
    THEN Captured(r, stream)
    ELSE Recycled(r, stream)

ReceiveDone(ok) ==
  /\ rx # <<>>
  /\ Callback(Head(rx), ok, Tail(rx))
  /\ UNCHANGED <<tx, first, pc, index, request>>

TransmitDone(ok) ==
  /\ tx # <<>>
  /\ tx' = Tail(tx)
  /\ Callback(Head(tx), ok, rx)
  /\ UNCHANGED <<first, pc, index, request>>

-----------------------------------------------------------------------------
(* main()                                                                  *)

Init ==
  /\ rx = <<>> /\ tx = <<>> /\ queue = <<>>
  /\ event = FALSE
  /\ first = TRUE
  /\ callback = [r \in Requests |-> "none"]
  /\ full = [r \in Requests |-> FALSE]
  /\ pc = "init"
  /\ index = 0
  /\ request = 0

(* Mutation: the loop runs once too often.                                 *)
MainInitOverrun ==
  /\ pc = "init"
  /\ callback' = [callback EXCEPT ![index] = "onDataReceived"]
  /\ full' = [full EXCEPT ![index] = FALSE]
  /\ rx' = Enqueue(rx, index)
  /\ index' = index + 1
  /\ pc' = IF index < BufferCount THEN "init" ELSE "wait"
  /\ UNCHANGED <<tx, queue, event, first, request>>

(* One turn of the loop that enqueues the buffers; the receive stream runs *)
(* from the first of them on.                                              *)
MainInit ==
  /\ pc = "init"
  /\ callback' = [callback EXCEPT ![index] = "onDataReceived"]
  /\ full' = [full EXCEPT ![index] = FALSE]
  /\ rx' = Enqueue(rx, index)
  /\ index' = index + 1
  /\ pc' = IF index + 1 < BufferCount THEN "init" ELSE "wait"
  /\ UNCHANGED <<tx, queue, event, first, request>>

MainWake ==
  /\ pc = "wait"
  /\ event
  /\ event' = FALSE
  /\ pc' = IF first THEN "first" ELSE "drain"
  /\ UNCHANGED <<rx, tx, queue, first, callback, full, index, request>>

MainFirst ==
  /\ pc = "first"
  /\ IF Len(queue) < Prebuffer
       THEN pc' = "wait" /\ UNCHANGED first
       ELSE pc' = "drain" /\ first' = FALSE
  /\ UNCHANGED <<rx, tx, queue, event, callback, full, index, request>>

(* Mutation: the front is read but not popped.                             *)
MainPopPeek ==
  /\ pc = "drain"
  /\ IF queue = <<>>
       THEN pc' = "wait" /\ UNCHANGED request
       ELSE request' = Head(queue) /\ pc' = "send"
  /\ UNCHANGED <<rx, tx, queue, event, first, callback, full, index>>

MainPop ==
  /\ pc = "drain"
  /\ IF queue = <<>>
       THEN pc' = "wait" /\ UNCHANGED <<queue, request>>
       ELSE /\ request' = Head(queue)
            /\ queue' = Tail(queue)
            /\ pc' = "send"
  /\ UNCHANGED <<rx, tx, event, first, callback, full, index>>

MainSend ==
  /\ pc = "send"
  /\ tx' = Enqueue(tx, request)
  /\ pc' = "drain"
  /\ UNCHANGED <<rx, queue, event, first, callback, full, index, request>>

Main == MainInit \/ MainWake \/ MainFirst \/ MainPop \/ MainSend

Interrupt == \E ok \in BOOLEAN : ReceiveDone(ok) \/ TransmitDone(ok)

Next == Main \/ Interrupt

SafeSpec == Init /\ [][Next]_vars

(* The processor keeps executing main(); a stream that holds a request     *)
(* finishes it; the receiver does not fail for ever.                       *)
Fairness ==
  /\ WF_vars(Main)
  /\ SF_vars(ReceiveDone(TRUE))
  /\ WF_vars(\E ok \in BOOLEAN : TransmitDone(ok))

Spec == SafeSpec /\ Fairness

-----------------------------------------------------------------------------
(* Properties                                                              *)

(* The request the main loop has popped and not sent yet.                  *)
InHand == IF pc = "send" THEN {request} ELSE {}

TypeOK ==
  /\ rx \in Seq(Requests) /\ tx \in Seq(Requests) /\ queue \in Seq(Requests)
  /\ event \in BOOLEAN
  /\ first \in BOOLEAN
  /\ callback \in [Requests -> {"none", "onDataReceived", "onDataSent"}]
  /\ full \in [Requests -> BOOLEAN]
  /\ pc \in {"init", "wait", "first", "drain", "send"}
  /\ index \in 0..BufferCount
  /\ request \in Requests

(* Ownership: every initialised request is in exactly one of the receive   *)
(* stream, the queue, the main loop's hand and the transmit stream, and is *)
(* there once.  A request the stream refused, pushed twice or popped twice *)
(* breaks it, and two users of one buffer mix their samples.               *)
Ownership ==
  /\ NoRepeat(rx) /\ NoRepeat(tx) /\ NoRepeat(queue)
  /\ InSeq(rx) \cap InSeq(tx) = {}
  /\ InSeq(rx) \cap InSeq(queue) = {}
  /\ InSeq(tx) \cap InSeq(queue) = {}
  /\ InHand \cap (InSeq(rx) \cup InSeq(tx) \cup InSeq(queue)) = {}
  /\ InSeq(rx) \cup InSeq(tx) \cup InSeq(queue) \cup InHand = 0 .. index - 1

(* The callback a request carries and the length it holds are those of the *)
(* place it is in: an empty request that will report onDataReceived in the *)
(* receive stream, a filled one that will report onDataSent elsewhere.     *)
RoleMatchesPlace ==
  /\ \A r \in InSeq(rx) : callback[r] = "onDataReceived" /\ ~full[r]
  /\ \A r \in InSeq(tx) \cup InSeq(queue) \cup InHand :
       callback[r] = "onDataSent" /\ full[r]

(* No lost wake-up: main() never waits on a cleared event while the queue  *)
(* holds work it should do (two blocks before the start, one after it).    *)
NoLostWakeup ==
  pc = "wait" /\ Len(queue) >= (IF first THEN Prebuffer ELSE 1) => event

(* What streamEnqueue() asserts in the boot loop: the stream takes the     *)
(* request.  It needs Fits.                                                *)
EnqueueAccepted == pc = "init" => Len(rx) < Depth

Inv == TypeOK /\ Ownership /\ RoleMatchesPlace

-----------------------------------------------------------------------------
(* The echo implements the ring: its line is what was captured and has not *)
(* been played, in the transmit stream, in hand and in the queue.          *)
Line == tx \o (IF pc = "send" THEN <<request>> ELSE <<>>) \o queue

Ring == INSTANCE EchoRing WITH Buffers <- Requests, line <- Line

RingSpec == Ring!Spec
=============================================================================
