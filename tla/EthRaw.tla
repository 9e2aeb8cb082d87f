-------------------------------- MODULE EthRaw --------------------------------
(***************************************************************************)
(* lpc43xx_default/eth_raw: main.c keeps a memory that a peer writes and   *)
(* reads with Ethernet frames, and eth_raw.py is that peer: it writes the  *)
(* memory chunk by chunk, asks for it once and compares.  Nothing is       *)
(* acknowledged or repeated; a frame that finds the receive buffers of the *)
(* board full is lost, as is one that finds no link.                       *)
(*                                                                         *)
(* Data is known as that of the present run of the script or of the past.  *)
(* The second that the script waits for answers is taken for longer than a *)
(* board at work needs.                                                    *)
(***************************************************************************)
EXTENDS Naturals, Sequences

CONSTANTS
  ChunkCount,             \* ARENA_SIZE / CHUNK_SIZE
  RxBuffers, TxBuffers    \* of boardSetupEthernet()

EthAssumption ==
  /\ {ChunkCount, RxBuffers, TxBuffers} \subseteq Nat \ {0}
  /\ RxBuffers <= ChunkCount

Chunks == 1..ChunkCount
Data == {"past", "present"}
Buf(c, d) == [opcode |-> "buf", chunk |-> c, data |-> d]
Req == [opcode |-> "req"]
Other == [opcode |-> "other"]   \* another type or opcode, or a length that does not fit
Past == [c \in Chunks |-> "past"]

VARIABLES
  phy,           \* "none", "reset", "down", "negotiated" or "up"
  rx, tx,        \* the buffers of the driver
  event, heard,  \* event of main(), and: onFrameReady() is the callback
  unheard,       \* the oldest frames of rx, for which there was no callback
  arena, pc, chunk,
  script, next, received, count,   \* of eth_raw.py; count: received_size
  verdict,       \* of the last run of the script
  disturbed      \* it lost a frame or found the board answering an earlier run

driver == <<rx, tx, event, heard, unheard>>
board == <<arena, pc, chunk>>
progress == <<script, next, received, count>>
vars == <<phy, driver, board, progress, verdict, disturbed>>

Init ==
  /\ phy \in {"none", "down"}
  /\ rx = <<>> /\ tx = <<>> /\ event = FALSE /\ heard = FALSE /\ unheard = 0
  /\ arena = Past /\ pc = "reset" /\ chunk = 1
  /\ script = "idle" /\ next = 1 /\ received = Past /\ count = 0
  /\ verdict = "none" /\ disturbed = FALSE

-----------------------------------------------------------------------------
(* The transceiver and the cable                                           *)

Proceed ==
  /\ \E s \in {<<"reset", "down">>, <<"down", "negotiated">>, <<"negotiated", "up">>} :
       phy = s[1] /\ phy' = s[2]
  /\ UNCHANGED <<driver, board, progress, verdict, disturbed>>

Unplug ==
  /\ phy \in {"negotiated", "up"} /\ phy' = "down"
  /\ UNCHANGED <<driver, board, progress, verdict, disturbed>>

Arrives(frame) ==
  LET taken == phy = "up" /\ Len(rx) < RxBuffers IN
  /\ rx' = IF taken THEN Append(rx, frame) ELSE rx
  /\ event' = (event \/ (taken /\ heard))
  /\ unheard' = IF taken /\ ~heard THEN unheard + 1 ELSE unheard
  /\ disturbed' = (disturbed \/ ~taken)
  /\ UNCHANGED <<tx, heard>>

(* Another host of the network.                                            *)
Foreign ==
  /\ phy = "up" /\ Len(rx) < RxBuffers
  /\ Arrives(Other)
  /\ UNCHANGED <<phy, board, progress, verdict>>

(* The socket of the script is open from its start, and what it gets is    *)
(* counted up to the length.  The end of a transmission may raise the      *)
(* event as well.                                                          *)
Transmitted ==
  /\ phy = "up" /\ tx # <<>>
  /\ tx' = Tail(tx)
  /\ event' \in {event, event \/ heard}
  /\ IF script # "idle" /\ count < ChunkCount
       THEN /\ received' = [received EXCEPT ![Head(tx).chunk] = Head(tx).data]
            /\ count' = count + 1
       ELSE UNCHANGED <<received, count>>
  /\ UNCHANGED <<phy, rx, heard, unheard, board, script, next, verdict, disturbed>>

-----------------------------------------------------------------------------
(* eth_raw.py                                                              *)

Aged(queue) ==
  [i \in DOMAIN queue |->
     IF queue[i].opcode = "buf" THEN Buf(queue[i].chunk, "past") ELSE queue[i]]

HasRequest == Req \in {rx[i] : i \in DOMAIN rx}

Begin ==
  /\ script = "idle" /\ script' = "send"
  /\ next' = 1 /\ received' = Past /\ count' = 0
  /\ verdict' = "none"
  /\ disturbed' = (tx # <<>> \/ pc = "answer" \/ HasRequest)
  /\ arena' = Past /\ rx' = Aged(rx) /\ tx' = Aged(tx)
  /\ UNCHANGED <<phy, event, heard, unheard, pc, chunk>>

SendChunk ==
  /\ script = "send"
  /\ Arrives(Buf(next, "present"))
  /\ IF next < ChunkCount THEN next' = next + 1 /\ UNCHANGED script
                          ELSE next' = 1 /\ script' = "request"
  /\ UNCHANGED <<phy, board, received, count, verdict>>

SendRequest ==
  /\ script = "request" /\ script' = "receive"
  /\ Arrives(Req)
  /\ UNCHANGED <<phy, board, next, received, count, verdict>>

(* The board has not got a request, cannot answer it or has answered it.   *)
Quiet ==
  \/ phy # "up"
  \/ /\ tx = <<>> /\ pc # "answer"
     /\ HasRequest => ~(pc = "drain" \/ (pc = "wait" /\ event))

(* All bytes were received, or the time is over.                           *)
Compare ==
  /\ script = "receive" /\ (count = ChunkCount \/ Quiet)
  /\ script' = "idle"
  /\ verdict' = IF count > 0 /\ \A c \in Chunks : received[c] = "present"
                THEN "match" ELSE "mismatch"
  /\ disturbed' = (disturbed \/ phy # "up")
  /\ UNCHANGED <<phy, driver, board, next, received, count>>

Script == Begin \/ SendChunk \/ SendRequest \/ Compare

-----------------------------------------------------------------------------
(* main() and phyInit()                                                    *)

At(place) == pc = place /\ UNCHANGED <<progress, verdict, disturbed>>

(* phyInit() returns false, or the assertions are compiled out.            *)
Unready == {"stopped", "callback"}

Reset ==
  /\ At("reset") /\ pc' = "identify"
  /\ phy' = IF phy = "none" THEN phy ELSE "reset"
  /\ UNCHANGED <<driver, arena, chunk>>

(* The reset has ended or the time is over; then negotiation is restarted. *)
Identify ==
  /\ At("identify")
  /\ IF phy = "none" THEN pc' \in Unready /\ UNCHANGED phy
                     ELSE pc' = "negotiate" /\ phy' = "down"
  /\ UNCHANGED <<driver, arena, chunk>>

(* A register is read until it shows ok or the time is over.               *)
Poll(place, ok, then) ==
  /\ At(place)
  /\ pc' \in IF ok THEN {then} ELSE Unready
  /\ UNCHANGED <<phy, driver, arena, chunk>>

Negotiate == Poll("negotiate", phy \in {"negotiated", "up"}, "link")
AwaitLink == Poll("link", phy = "up", "callback")

SetCallback ==
  /\ At("callback") /\ pc' = "wait"
  /\ heard' = TRUE
  /\ UNCHANGED <<phy, rx, tx, event, unheard, arena, chunk>>

Wake ==
  /\ At("wait") /\ event /\ pc' = "drain"
  /\ event' = FALSE
  /\ UNCHANGED <<phy, rx, tx, heard, unheard, arena, chunk>>

(* Mutation: main() reads one frame for an event.                          *)
HandleOne ==
  /\ At("drain") /\ rx # <<>>
  /\ rx' = Tail(rx)
  /\ unheard' = IF unheard > 0 THEN unheard - 1 ELSE 0
  /\ LET frame == Head(rx) IN
       /\ arena' = IF frame.opcode = "buf"
                     THEN [arena EXCEPT ![frame.chunk] = frame.data] ELSE arena
       /\ pc' = IF frame.opcode = "req" THEN "answer" ELSE "wait"
  /\ chunk' = 1
  /\ UNCHANGED <<phy, tx, event, heard>>

(* ifRead() and handleEthFrame()                                           *)
Handle ==
  /\ At("drain") /\ rx # <<>>
  /\ rx' = Tail(rx)
  /\ unheard' = IF unheard > 0 THEN unheard - 1 ELSE 0
  /\ LET frame == Head(rx) IN
       /\ arena' = IF frame.opcode = "buf"
                     THEN [arena EXCEPT ![frame.chunk] = frame.data] ELSE arena
       /\ pc' = IF frame.opcode = "req" THEN "answer" ELSE "drain"
  /\ chunk' = 1
  /\ UNCHANGED <<phy, tx, event, heard>>

Drained ==
  /\ At("drain") /\ rx = <<>> /\ pc' = "wait"
  /\ UNCHANGED <<phy, driver, arena, chunk>>

AfterChunk ==
  IF chunk < ChunkCount THEN chunk' = chunk + 1 /\ pc' = "answer"
                        ELSE chunk' = 1 /\ pc' = "drain"

(* Mutation: ifWrite() is not repeated.                                    *)
AnswerOnce ==
  /\ At("answer")
  /\ tx' = IF Len(tx) < TxBuffers THEN Append(tx, Buf(chunk, arena[chunk])) ELSE tx
  /\ AfterChunk
  /\ UNCHANGED <<phy, rx, event, heard, unheard, arena>>

(* sendMemChunk(): ifWrite() is repeated until the driver takes the frame. *)
Answer ==
  /\ At("answer") /\ Len(tx) < TxBuffers
  /\ tx' = Append(tx, Buf(chunk, arena[chunk]))
  /\ AfterChunk
  /\ UNCHANGED <<phy, rx, event, heard, unheard, arena>>

Main ==
  \/ Reset \/ Identify \/ Negotiate \/ AwaitLink \/ SetCallback
  \/ Wake \/ Handle \/ Drained \/ Answer

Next == Proceed \/ Unplug \/ Foreign \/ Transmitted \/ Script \/ Main

SafeSpec == Init /\ [][Next]_vars

(* The board runs, the driver sends while there is a link, the script does *)
(* not stop in the middle.                                                 *)
Spec ==
  /\ SafeSpec
  /\ WF_vars(Main) /\ WF_vars(Transmitted)
  /\ WF_vars(SendChunk) /\ WF_vars(SendRequest) /\ WF_vars(Compare)

-----------------------------------------------------------------------------
TypeOK ==
  /\ phy \in {"none", "reset", "down", "negotiated", "up"}
  /\ Len(rx) <= RxBuffers /\ Len(tx) <= TxBuffers
  /\ unheard \in 0 .. Len(rx)
  /\ {arena, received} \subseteq [Chunks -> Data] /\ chunk \in Chunks /\ next \in Chunks
  /\ count \in 0 .. ChunkCount
  /\ {event, heard, disturbed} \subseteq BOOLEAN

(* The verdict of the script is about the board: a match is reported only  *)
(* when its memory holds what was sent, a mismatch only of a run that lost *)
(* a frame or was mixed with an earlier one.                               *)
VerdictRight ==
  /\ verdict = "match" => \A c \in Chunks : arena[c] = "present"
  /\ verdict = "mismatch" => disturbed

(* main() does not wait on a frame that its callback has announced.        *)
NoLostWakeup == pc = "wait" /\ Len(rx) > unheard => event

(* While the cable stays plugged every run of the script comes to its end. *)
(* (Without a link sendMemChunk() does not.)                               *)
Answered == <>[](phy = "up") => []<>(script # "receive")
=============================================================================
