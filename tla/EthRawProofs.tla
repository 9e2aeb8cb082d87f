---------------------------- MODULE EthRawProofs ----------------------------
(***************************************************************************)
(* The Ethernet memory and its peer: what the verdict of the peer says of  *)
(* the board, for any size of the memory and of the buffers of the driver. *)
(***************************************************************************)
EXTENDS EthRaw, CustodyLemmas

Bufs == {Buf(c, d) : c \in Chunks, d \in Data}
Frames == Bufs \cup {Req, Other}

Present(f) == f \in {Buf(c, "present") : c \in Chunks}
Aging(f) == f \in {Buf(c, "past") : c \in Chunks}

Running == {"wait", "drain", "answer"}
Starting == {"reset", "identify", "negotiate", "link", "callback", "stopped"}

EthTypes ==
  /\ EthAssumption
  /\ phy \in {"none", "reset", "down", "negotiated", "up"}
  /\ rx \in Seq(Frames) /\ Len(rx) <= RxBuffers
  /\ tx \in Seq(Bufs) /\ Len(tx) <= TxBuffers
  /\ unheard \in Nat /\ unheard <= Len(rx)
  /\ event \in BOOLEAN /\ heard \in BOOLEAN /\ disturbed \in BOOLEAN
  /\ arena \in [Chunks -> Data] /\ received \in [Chunks -> Data]
  /\ chunk \in Chunks /\ next \in Chunks /\ count \in 0 .. ChunkCount
  /\ pc \in Running \cup Starting
  /\ script \in {"idle", "send", "request", "receive"}
  /\ verdict \in {"none", "match", "mismatch"}

(* The frames that came before there was a callback are the oldest ones.   *)
Announced ==
  /\ heard <=> pc \in Running
  /\ ~heard => unheard = Len(rx)
  /\ NoLostWakeup

(* The queues keep the order of the runs: a chunk of the present run is    *)
(* stored after all of the past, and is read back only if it is stored.    *)
Ages ==
  /\ \A j, k \in 1 .. Len(rx) : j < k /\ Present(rx[j]) => ~Aging(rx[k])
  /\ (\E c \in Chunks : arena[c] = "present") => \A k \in 1 .. Len(rx) : ~Aging(rx[k])
  /\ \A k \in 1 .. Len(tx), c \in Chunks : tx[k] = Buf(c, "present") => arena[c] = "present"
  /\ \A c \in Chunks : received[c] = "present" => arena[c] = "present"

(* How many frames the run has sent.                                       *)
Sent ==
  CASE script = "send"    -> next - 1
    [] script = "request" -> ChunkCount
    [] OTHER              -> ChunkCount + 1

(* A run that nothing has disturbed yet.  Every chunk that it sent is      *)
(* stored or on the way, and as long as main() has read nothing all of     *)
(* them are in the buffers, which cannot hold the request as well.         *)
Clean == script # "idle" /\ ~disturbed
Stored ==
  \A c \in Chunks : c <= Sent => arena[c] = "present" \/ Buf(c, "present") \in InSeq(rx)
Unread == pc \notin {"drain", "answer"} /\ (unheard > 0 \/ ~heard) => Sent <= Len(rx)

(* Before its request there is no other; the chunks are before it; and     *)
(* then the memory is read chunk by chunk.                                 *)
Unasked == tx = <<>> /\ pc # "answer" /\ count = 0
NoRequest == Req \notin InSeq(rx)
LastRequest(j) ==
  /\ rx[j] = Req
  /\ \A k \in 1 .. Len(rx) : (rx[k] = Req => k = j) /\ (j < k => ~Present(rx[k]))
Asked == Unasked /\ \E j \in 1 .. Len(rx) : LastRequest(j)
Answers ==
  /\ count + Len(tx) = IF pc = "answer" THEN chunk - 1 ELSE ChunkCount
  /\ \A k \in 1 .. Len(tx) : tx[k] = Buf(count + k, "present")
  /\ \A c \in Chunks : c <= count => received[c] = "present"
Answering == NoRequest /\ (\A c \in Chunks : arena[c] = "present") /\ Answers

Undisturbed ==
  Clean =>
    /\ Stored /\ Unread
    /\ IF script = "receive" THEN Asked \/ Answering ELSE NoRequest /\ Unasked

EthInv == EthTypes /\ Announced /\ Ages /\ Undisturbed /\ VerdictRight

-----------------------------------------------------------------------------
LEMMA FrameKinds ==
  /\ Bufs \subseteq Frames /\ Req \in Frames /\ Other \in Frames
  /\ Req \notin Bufs /\ Other \notin Bufs /\ Req # Other
  /\ \A f \in Frames :
       /\ f.opcode = "buf" <=> f \in Bufs
       /\ f.opcode = "req" <=> f = Req
       /\ f \in Bufs => f.chunk \in Chunks /\ f.data \in Data /\ f = Buf(f.chunk, f.data)
  /\ \A c \in Chunks, d \in Data :
       Buf(c, d) \in Bufs /\ Buf(c, d).chunk = c /\ Buf(c, d).data = d /\ Buf(c, d).opcode = "buf"
<1>1. \A c, d : Buf(c, d).opcode = "buf" /\ Buf(c, d).chunk = c /\ Buf(c, d).data = d
  BY DEF Buf
<1>2. Req.opcode = "req" /\ Other.opcode = "other"
  BY DEF Req, Other
<1> QED BY <1>1, <1>2 DEF Bufs, Frames

LEMMA AgesOfFrames ==
  /\ ~Present(Req) /\ ~Aging(Req) /\ ~Present(Other) /\ ~Aging(Other)
  /\ \A c \in Chunks, d \in Data :
       /\ Present(Buf(c, d)) <=> d = "present"
       /\ Aging(Buf(c, d)) <=> d = "past"
<1>1. \A c, d : Buf(c, d).opcode = "buf" /\ Buf(c, d).chunk = c /\ Buf(c, d).data = d
  BY DEF Buf
<1>2. Req.opcode = "req" /\ Other.opcode = "other"
  BY DEF Req, Other
<1> QED BY <1>1, <1>2 DEF Present, Aging, Data

(* A new run of the script makes everything on the way one of the past.    *)
LEMMA AgedProperties ==
  ASSUME NEW s \in Seq(Frames)
  PROVE  /\ Aged(s) \in Seq(Frames) /\ Len(Aged(s)) = Len(s)
         /\ s \in Seq(Bufs) => Aged(s) \in Seq(Bufs)
         /\ \A k \in 1 .. Len(s) :
              ~Present(Aged(s)[k]) /\ (Aged(s)[k] = Req => s[k] = Req)
<1>1. Len(s) \in Nat /\ DOMAIN s = 1 .. Len(s) /\ \A k \in 1 .. Len(s) : s[k] \in Frames
  BY LenProperties, ElementOfSeq
<1>2. ASSUME NEW k \in 1 .. Len(s)
      PROVE  /\ Aged(s)[k] \in Frames /\ (s[k] \in Bufs => Aged(s)[k] \in Bufs)
             /\ ~Present(Aged(s)[k]) /\ (Aged(s)[k] = Req => s[k] = Req)
  <2>1. "past" \in Data /\ "past" # "present"
    BY DEF Data
  <2>2. CASE s[k] \in Bufs
    <3>1. Aged(s)[k] = Buf(s[k].chunk, "past") /\ s[k].chunk \in Chunks
      BY <1>1, <2>2, FrameKinds DEF Aged
    <3> QED BY <2>1, <3>1, FrameKinds, AgesOfFrames
  <2>3. CASE s[k] \notin Bufs
    <3>1. Aged(s)[k] = s[k] /\ s[k] \in {Req, Other}
      BY <1>1, <2>3, FrameKinds DEF Aged, Frames
    <3> QED BY <1>1, <2>3, <3>1, AgesOfFrames
  <2> QED BY <2>2, <2>3
<1>3. Aged(s) \in Seq(Frames) /\ Len(Aged(s)) = Len(s)
  <2>1. Aged(s) = [k \in 1 .. Len(s) |-> Aged(s)[k]]
    BY <1>1 DEF Aged
  <2> QED BY <1>1, <1>2, <2>1
<1>4. ASSUME s \in Seq(Bufs) PROVE Aged(s) \in Seq(Bufs)
  <2>1. \A k \in 1 .. Len(s) : s[k] \in Bufs
    BY <1>4, ElementOfSeq
  <2>2. Aged(s) = [k \in 1 .. Len(s) |-> Aged(s)[k]]
    BY <1>1 DEF Aged
  <2> QED BY <1>1, <1>2, <2>1, <2>2
<1> QED BY <1>2, <1>3, <1>4
-----------------------------------------------------------------------------
LEMMA EthInvInit == EthAssumption /\ Init => EthInv
<1> SUFFICES ASSUME EthAssumption, Init PROVE EthInv
  OBVIOUS
<1>1. /\ <<>> \in Seq(Frames) /\ <<>> \in Seq(Bufs) /\ Len(<<>>) = 0
  BY EmptySeq
<1>2. /\ 1 \in Chunks /\ ChunkCount \in Nat /\ RxBuffers \in Nat /\ TxBuffers \in Nat
      /\ Past \in [Chunks -> Data] /\ \A c \in Chunks : Past[c] = "past"
  BY DEF EthAssumption, Chunks, Past, Data
<1>3. EthTypes
  <2>1. event \in BOOLEAN /\ heard \in BOOLEAN /\ disturbed \in BOOLEAN
    BY DEF Init
  <2>2. count \in 0 .. ChunkCount /\ unheard \in Nat
    BY <1>2 DEF Init
  <2>3. /\ rx \in Seq(Frames) /\ Len(rx) <= RxBuffers /\ tx \in Seq(Bufs) /\ Len(tx) <= TxBuffers
        /\ unheard <= Len(rx)
    BY <1>1, <1>2 DEF Init
  <2> QED BY <1>2, <2>1, <2>2, <2>3 DEF Init, EthTypes, Running, Starting
<1>4. Announced
  BY <1>1 DEF Init, Announced, Running, NoLostWakeup
<1>5. Ages
  BY <1>1, <1>2 DEF Init, Ages
<1> QED BY <1>3, <1>4, <1>5 DEF Init, EthInv, Undisturbed, Clean, VerdictRight

(* The steps that change no frame and nothing that is stored.              *)
Boot == Reset \/ Identify \/ Negotiate \/ AwaitLink

LEMMA StillKeeps ==
  ASSUME EthInv,
         Proceed \/ Unplug \/ Boot \/ SetCallback \/ Wake \/ Drained \/ UNCHANGED vars
  PROVE  EthInv'
<1>1. EthTypes /\ Announced /\ Ages /\ Undisturbed /\ VerdictRight
  BY DEF EthInv
<1>2. /\ UNCHANGED <<rx, tx, unheard, arena, script, next, received, count, verdict,
                     disturbed, chunk>>
      /\ phy' \in {"none", "reset", "down", "negotiated", "up"}
      /\ event' \in BOOLEAN /\ heard' \in BOOLEAN
      /\ pc' \in Running \cup Starting
  <2>1. CASE Proceed
    <3>1. phy' \in {"down", "negotiated", "up"}
      BY <2>1 DEF Proceed
    <3> QED BY <1>1, <2>1, <3>1 DEF EthTypes, Proceed, driver, board, progress
  <2>2. CASE Unplug \/ UNCHANGED vars
    BY <1>1, <2>2 DEF EthTypes, Unplug, vars, driver, board, progress
  <2>3. CASE Boot
    <3>1. pc' \in Starting
      BY <2>3 DEF Boot, Reset, Identify, Negotiate, AwaitLink, Poll, Unready, Starting
    <3>2. phy' \in {"none", "reset", "down", "negotiated", "up"}
      BY <1>1, <2>3 DEF EthTypes, Boot, Reset, Identify, Negotiate, AwaitLink, Poll
    <3> QED BY <1>1, <2>3, <3>1, <3>2
            DEF EthTypes, Boot, Reset, Identify, Negotiate, AwaitLink, Poll, At, driver, progress
  <2>4. CASE SetCallback
    BY <1>1, <2>4 DEF EthTypes, SetCallback, At, progress, Running
  <2>5. CASE Wake
    BY <1>1, <2>5 DEF EthTypes, Wake, At, progress, Running
  <2>6. CASE Drained
    BY <1>1, <2>6 DEF EthTypes, Drained, At, driver, progress, Running
  <2> QED BY <2>1, <2>2, <2>3, <2>4, <2>5, <2>6
<1>3. Len(rx) \in Nat /\ (rx = <<>> => Len(rx) = 0)
  BY <1>1, LenProperties DEF EthTypes
<1>4. pc' = "answer" <=> pc = "answer"
  BY DEF Proceed, Unplug, Boot, Reset, Identify, Negotiate, AwaitLink, Poll, At,
         SetCallback, Wake, Drained, vars, board, Unready
<1>5. EthTypes'
  BY <1>1, <1>2 DEF EthTypes, EthAssumption
<1>6. Announced'
  <2>1. CASE Proceed \/ Unplug \/ UNCHANGED vars
    BY <1>1, <2>1 DEF Proceed, Unplug, vars, driver, board, Announced, NoLostWakeup
  <2>2. CASE Boot
    <3>1. pc \in Starting /\ pc' \in Starting /\ UNCHANGED <<heard, event>>
      BY <2>2 DEF Boot, Reset, Identify, Negotiate, AwaitLink, Poll, At, driver, Unready, Starting
    <3> QED BY <1>1, <1>2, <3>1 DEF Announced, NoLostWakeup, Running, Starting
  <2>3. CASE SetCallback
    BY <1>1, <1>2, <1>3, <2>3
       DEF SetCallback, At, Announced, NoLostWakeup, Running, EthTypes
  <2>4. CASE Wake
    BY <1>1, <1>2, <2>4 DEF Wake, At, Announced, NoLostWakeup, Running
  <2>5. CASE Drained
    BY <1>1, <1>2, <1>3, <2>5
       DEF Drained, At, driver, Announced, NoLostWakeup, Running, EthTypes
  <2> QED BY <2>1, <2>2, <2>3, <2>4, <2>5
<1>7. Ages'
  BY <1>1, <1>2 DEF Ages
<1>8. Undisturbed'
  <2> SUFFICES ASSUME Clean' PROVE Undisturbed'
    BY DEF Undisturbed
  <2>1. Clean /\ Sent' = Sent
    BY <1>2 DEF Clean, Sent
  <2>2. Stored'
    BY <1>1, <1>2, <2>1 DEF Undisturbed, Stored
  <2>3. Unread'
    <3> SUFFICES ASSUME pc' \notin {"drain", "answer"}, unheard' > 0 \/ ~heard'
                 PROVE  Sent <= Len(rx)
      BY <1>2, <2>1 DEF Unread
    <3>1. ~Drained
      BY <1>1, <1>2, <1>3 DEF Drained, At, driver, Announced, Running, EthTypes
    <3>2. pc \notin {"drain", "answer"} /\ (unheard > 0 \/ ~heard)
      BY <1>2, <3>1 DEF Proceed, Unplug, Boot, Reset, Identify, Negotiate, AwaitLink, Poll, At,
                   SetCallback, Wake, vars, driver, board
    <3> QED BY <1>1, <2>1, <3>2 DEF Undisturbed, Unread
  <2>4. IF script' = "receive" THEN Asked' \/ Answering' ELSE NoRequest' /\ Unasked'
    BY <1>1, <1>2, <1>4, <2>1
       DEF Undisturbed, Asked, LastRequest, Answering, Answers, NoRequest, Unasked
  <2> QED BY <2>2, <2>3, <2>4 DEF Undisturbed
<1>9. VerdictRight'
  BY <1>1, <1>2 DEF VerdictRight
<1> QED BY <1>5, <1>6, <1>7, <1>8, <1>9 DEF EthInv

(* The verdict.  An undisturbed run whose request is still on the way does *)
(* not end, as the buffers cannot hold the whole run unread; one that was  *)
(* answered has got everything.                                            *)
LEMMA CompareKeeps ==
  ASSUME EthInv, Compare
  PROVE  EthInv'
<1>1. EthTypes /\ Announced /\ Ages /\ Undisturbed /\ VerdictRight
  BY DEF EthInv
<1>2. /\ script = "receive" /\ (count = ChunkCount \/ Quiet) /\ script' = "idle"
      /\ verdict' = IF count > 0 /\ \A c \in Chunks : received[c] = "present"
                    THEN "match" ELSE "mismatch"
      /\ disturbed' = (disturbed \/ phy # "up")
      /\ UNCHANGED <<phy, rx, tx, event, heard, unheard, arena, pc, chunk, next, received, count>>
  BY DEF Compare, driver, board
<1>3. EthTypes'
  <2>1. disturbed' \in BOOLEAN /\ verdict' \in {"none", "match", "mismatch"}
    BY <1>1, <1>2 DEF EthTypes
  <2> QED BY <1>1, <1>2, <2>1 DEF EthTypes, EthAssumption
<1>4. Announced' /\ Ages'
  BY <1>1, <1>2 DEF Announced, NoLostWakeup, Ages
<1>5. Undisturbed'
  BY <1>2 DEF Undisturbed, Clean
<1>6. ASSUME verdict' = "match" PROVE \A c \in Chunks : arena'[c] = "present"
  BY <1>1, <1>2, <1>6 DEF Ages
<1>7. ASSUME verdict' = "mismatch", ~disturbed' PROVE FALSE
  <2>1. Clean /\ phy = "up" /\ ~(count > 0 /\ \A c \in Chunks : received[c] = "present")
    BY <1>2, <1>7 DEF Clean
  <2>2. /\ ChunkCount \in Nat \ {0} /\ RxBuffers \in Nat /\ RxBuffers <= ChunkCount
        /\ Len(rx) \in Nat /\ Len(rx) <= RxBuffers /\ count \in Nat
        /\ unheard \in Nat /\ unheard <= Len(rx)
    BY <1>1, LenProperties DEF EthTypes, EthAssumption
  <2>3. CASE Asked
    <3>1. count # ChunkCount /\ pc # "answer"
      BY <2>2, <2>3 DEF Asked, Unasked
    <3>2. HasRequest
      <4>1. DOMAIN rx = 1 .. Len(rx)
        BY <1>1, LenProperties DEF EthTypes
      <4> QED BY <2>3, <4>1 DEF Asked, LastRequest, HasRequest
    <3>3. ~(pc = "drain" \/ (pc = "wait" /\ event))
      BY <1>2, <2>1, <3>1, <3>2 DEF Quiet
    <3>4. \E j \in 1 .. Len(rx) : LastRequest(j)
      BY <2>3 DEF Asked
    <3>5. unheard > 0 \/ ~heard
      <4>1. CASE pc = "wait"
        <5>1. ~(Len(rx) > unheard)
          BY <1>1, <3>3, <4>1 DEF Announced, NoLostWakeup
        <5> QED BY <2>2, <3>4, <5>1
      <4>2. CASE pc # "wait"
        BY <1>1, <3>1, <3>3, <4>2 DEF Announced, Running
      <4> QED BY <4>1, <4>2
    <3>6. Sent <= Len(rx) /\ Sent = ChunkCount + 1
      BY <1>1, <1>2, <2>1, <3>1, <3>3, <3>5 DEF Undisturbed, Unread, Sent
    <3> QED BY <2>2, <3>6
  <2>4. CASE Answering
    <3>1. CASE count = ChunkCount
      <4>1. \A c \in Chunks : c <= count
        BY <2>2, <3>1 DEF Chunks
      <4> QED BY <2>1, <2>2, <2>4, <3>1, <4>1 DEF Answering, Answers
    <3>2. CASE count # ChunkCount
      <4>1. tx = <<>> /\ pc # "answer"
        BY <1>2, <2>1, <3>2 DEF Quiet
      <4>2. count + 0 = ChunkCount
        BY <2>4, <4>1 DEF Answering, Answers
      <4> QED BY <2>2, <3>2, <4>2
    <3> QED BY <3>1, <3>2
  <2> QED BY <1>1, <1>2, <2>1, <2>3, <2>4 DEF Undisturbed
<1> QED BY <1>3, <1>4, <1>5, <1>6, <1>7 DEF EthInv, VerdictRight
(* A new run: all that is on the way is of the past, and a run that finds  *)
(* the board at work for an earlier one is disturbed.                      *)
LEMMA BeginKeeps ==
  ASSUME EthInv, Begin
  PROVE  EthInv'
<1>1. EthTypes /\ Announced /\ Ages /\ Undisturbed /\ VerdictRight
  BY DEF EthInv
<1>2. /\ script = "idle" /\ script' = "send"
      /\ next' = 1 /\ received' = Past /\ count' = 0 /\ verdict' = "none"
      /\ disturbed' = (tx # <<>> \/ pc = "answer" \/ HasRequest)
      /\ arena' = Past /\ rx' = Aged(rx) /\ tx' = Aged(tx)
      /\ UNCHANGED <<phy, event, heard, unheard, pc, chunk>>
  BY DEF Begin
<1>3. /\ rx \in Seq(Frames) /\ tx \in Seq(Frames) /\ tx \in Seq(Bufs)
      /\ Len(rx) \in Nat /\ Len(tx) \in Nat /\ DOMAIN rx = 1 .. Len(rx)
      /\ ChunkCount \in Nat \ {0}
  <2>1. rx \in Seq(Frames) /\ tx \in Seq(Bufs) /\ ChunkCount \in Nat \ {0}
    BY <1>1 DEF EthTypes, EthAssumption
  <2>2. \A k \in 1 .. Len(tx) : tx[k] \in Frames
    BY <2>1, ElementOfSeq, FrameKinds
  <2> QED BY <2>1, <2>2, LenProperties, SeqDef
<1>4. /\ Past \in [Chunks -> Data] /\ \A c \in Chunks : Past[c] = "past"
      /\ 1 \in Chunks /\ 0 \in 0 .. ChunkCount
  BY <1>3 DEF Past, Data, Chunks
<1>5. /\ rx' \in Seq(Frames) /\ Len(rx') = Len(rx)
      /\ tx' \in Seq(Bufs) /\ Len(tx') = Len(tx)
      /\ \A k \in 1 .. Len(rx') : ~Present(rx'[k]) /\ (rx'[k] = Req => rx[k] = Req)
      /\ \A k \in 1 .. Len(tx') : ~Present(tx'[k])
  BY <1>2, <1>3, AgedProperties
<1>6. EthTypes'
  <2>1. disturbed' \in BOOLEAN
    BY <1>2
  <2> QED BY <1>1, <1>2, <1>4, <1>5, <2>1 DEF EthTypes, EthAssumption
<1>7. Announced'
  BY <1>1, <1>2, <1>5 DEF Announced, NoLostWakeup
<1>8. Ages'
  <2>1. \A k \in 1 .. Len(tx'), c \in Chunks : tx'[k] # Buf(c, "present")
    BY <1>5 DEF Present
  <2> QED BY <1>2, <1>4, <1>5, <2>1 DEF Ages
<1>9. Undisturbed'
  <2> SUFFICES ASSUME Clean' PROVE Undisturbed'
    BY DEF Undisturbed
  <2>1. tx = <<>> /\ pc # "answer" /\ ~HasRequest
    BY <1>2 DEF Clean
  <2>2. Sent' = 0
    BY <1>2 DEF Sent
  <2>3. Stored' /\ Unread'
    BY <1>3, <1>5, <2>2 DEF Stored, Unread, Chunks
  <2>4. NoRequest'
    BY <1>3, <1>5, <2>1 DEF NoRequest, HasRequest, InSeq
  <2>5. Unasked'
    <3>1. tx' = <<>>
      BY <1>3, <1>5, <2>1, EmptySeq
    <3> QED BY <1>2, <2>1, <3>1 DEF Unasked
  <2> QED BY <1>2, <2>3, <2>4, <2>5 DEF Undisturbed
<1> QED BY <1>2, <1>6, <1>7, <1>8, <1>9 DEF EthInv, VerdictRight

-----------------------------------------------------------------------------
(* A frame comes, unless there is no link or no room.                      *)
LEMMA ArrivesKeeps ==
  ASSUME EthInv, NEW f \in Frames, Arrives(f), ~Aging(f),
         UNCHANGED <<board, received, count, phy, verdict>>
  PROVE  /\ rx' \in Seq(Frames) /\ Len(rx') <= RxBuffers
         /\ UNCHANGED <<tx, heard>> /\ disturbed' \in BOOLEAN /\ event' \in BOOLEAN
         /\ unheard' \in Nat /\ unheard' <= Len(rx')
         /\ disturbed => disturbed'
         /\ rx' = Append(rx, f) \/ (rx' = rx /\ disturbed' /\ unheard' = unheard)
         /\ Announced' /\ Ages'
<1>1. EthTypes /\ Announced /\ Ages
  BY DEF EthInv
<1> DEFINE accepted == phy = "up" /\ Len(rx) < RxBuffers
<1>2. /\ rx' = IF accepted THEN Append(rx, f) ELSE rx
      /\ event' = (event \/ (accepted /\ heard))
      /\ unheard' = IF accepted /\ ~heard THEN unheard + 1 ELSE unheard
      /\ disturbed' = (disturbed \/ ~accepted)
      /\ UNCHANGED <<tx, heard, arena, pc, chunk, received, count, phy, verdict>>
  BY DEF Arrives, board
<1>3. /\ rx \in Seq(Frames) /\ Len(rx) \in Nat /\ RxBuffers \in Nat /\ Len(rx) <= RxBuffers
      /\ unheard \in Nat /\ unheard <= Len(rx) /\ heard \in BOOLEAN
      /\ event \in BOOLEAN /\ disturbed \in BOOLEAN
  BY <1>1, LenProperties DEF EthTypes, EthAssumption
<1>4. /\ Append(rx, f) \in Seq(Frames) /\ Len(Append(rx, f)) = Len(rx) + 1
      /\ Append(rx, f)[Len(rx) + 1] = f
      /\ \A k \in 1 .. Len(rx) : Append(rx, f)[k] = rx[k]
  BY <1>3, AppendProperties
<1>5. CASE accepted
  <2>1. rx' = Append(rx, f) /\ disturbed' = disturbed /\ event' = (event \/ heard)
    BY <1>2, <1>3, <1>5
  <2>2. CASE heard
    <3>1. unheard' = unheard /\ event' = TRUE
      BY <1>2, <2>1, <2>2
    <3>2. Announced'
      BY <1>1, <1>2, <2>2, <3>1 DEF Announced, NoLostWakeup
    <3>3. Ages'
      BY <1>1, <1>2, <1>3, <1>4, <2>1 DEF Ages
    <3> QED BY <1>2, <1>3, <1>4, <1>5, <2>1, <3>1, <3>2, <3>3
  <2>3. CASE ~heard
    <3>1. unheard' = unheard + 1 /\ event' = event
      BY <1>2, <1>3, <1>5, <2>1, <2>3
    <3>2. Announced'
      BY <1>1, <1>2, <1>3, <1>4, <2>1, <2>3, <3>1 DEF Announced, NoLostWakeup, Running
    <3>3. Ages'
      BY <1>1, <1>2, <1>3, <1>4, <2>1 DEF Ages
    <3> QED BY <1>2, <1>3, <1>4, <1>5, <2>1, <3>1, <3>2, <3>3
  <2> QED BY <1>3, <2>2, <2>3
<1>6. CASE ~accepted
  <2>1. rx' = rx /\ disturbed' = TRUE /\ event' = event /\ unheard' = unheard
    BY <1>2, <1>3, <1>6
  <2>2. Announced' /\ Ages'
    BY <1>1, <1>2, <2>1 DEF Announced, NoLostWakeup, Ages
  <2> QED BY <1>2, <1>3, <2>1, <2>2
<1> QED BY <1>5, <1>6

(* What an arriving frame leaves of an undisturbed run.                    *)
LEMMA ArrivesApart ==
  ASSUME EthInv, NEW f \in Frames, rx' = Append(rx, f)
  PROVE  /\ Len(rx) \in Nat /\ Len(rx') = Len(rx) + 1
         /\ InSeq(rx') = InSeq(rx) \cup {f}
         /\ \A k \in 1 .. Len(rx) : rx'[k] = rx[k]
         /\ rx'[Len(rx) + 1] = f
<1>1. rx \in Seq(Frames)
  BY DEF EthInv, EthTypes
<1> QED BY <1>1, AppendProperties, AppendCustody, LenProperties

LEMMA SentType == EthTypes => Sent \in Nat
<1> SUFFICES ASSUME EthTypes PROVE Sent \in Nat
  OBVIOUS
<1>1. ChunkCount \in Nat /\ next \in 1 .. ChunkCount
  BY DEF EthTypes, EthAssumption, Chunks
<1> QED BY <1>1 DEF Sent

LEMMA ArrivesUnread ==
  ASSUME EthInv, Unread, NEW f \in Frames, Arrives(f), UNCHANGED board,
         rx' = Append(rx, f), Sent' \in Nat, Sent' <= Sent + 1
  PROVE  Unread'
<1> SUFFICES ASSUME pc' \notin {"drain", "answer"}, unheard' > 0 \/ ~heard'
             PROVE  Sent' <= Len(rx')
  BY DEF Unread
<1>1. Len(rx) \in Nat /\ Len(rx') = Len(rx) + 1 /\ Sent \in Nat
  BY ArrivesApart, SentType DEF EthInv
<1>2. pc \notin {"drain", "answer"} /\ (unheard > 0 \/ ~heard)
  BY DEF Arrives, board
<1>3. Sent <= Len(rx)
  BY <1>2 DEF Unread
<1> QED BY <1>1, <1>3

LEMMA ForeignKeeps ==
  ASSUME EthInv, Foreign
  PROVE  EthInv'
<1>1. EthTypes /\ Announced /\ Ages /\ Undisturbed /\ VerdictRight
  BY DEF EthInv
<1>2. /\ Arrives(Other) /\ Len(rx) < RxBuffers /\ phy = "up"
      /\ UNCHANGED <<board, received, count, phy, verdict, script, next>>
  BY DEF Foreign, progress
<1>3. Other \in Frames /\ ~Aging(Other) /\ Req # Other /\ ~Present(Other)
  BY FrameKinds, AgesOfFrames
<1>4. /\ rx' \in Seq(Frames) /\ Len(rx') <= RxBuffers
      /\ UNCHANGED <<tx, heard>> /\ disturbed' \in BOOLEAN /\ event' \in BOOLEAN
      /\ unheard' \in Nat /\ unheard' <= Len(rx')
      /\ Announced' /\ Ages'
  BY <1>2, <1>3, ArrivesKeeps
<1>5. rx' = Append(rx, Other) /\ disturbed' = disturbed
  BY <1>1, <1>2 DEF Arrives, EthTypes
<1>6. EthTypes'
  BY <1>1, <1>2, <1>4 DEF EthTypes, EthAssumption, board
<1>7. Undisturbed'
  <2> SUFFICES ASSUME Clean' PROVE Undisturbed'
    BY DEF Undisturbed
  <2>1. Clean /\ Sent' = Sent
    BY <1>2, <1>5 DEF Clean, Sent
  <2>2. /\ Len(rx) \in Nat /\ Len(rx') = Len(rx) + 1
        /\ InSeq(rx') = InSeq(rx) \cup {Other}
        /\ \A k \in 1 .. Len(rx) : rx'[k] = rx[k]
        /\ rx'[Len(rx) + 1] = Other
    BY <1>3, <1>5, ArrivesApart
  <2>3. Stored'
    BY <1>1, <1>2, <2>1, <2>2 DEF Undisturbed, Stored, board
  <2>4. Unread'
    <3>1. Sent' \in Nat /\ Sent' <= Sent + 1
      BY <1>1, <2>1, SentType
    <3> QED BY <1>1, <1>2, <1>3, <1>5, <2>1, <3>1, ArrivesUnread DEF Undisturbed
  <2>5. IF script' = "receive" THEN Asked' \/ Answering' ELSE NoRequest' /\ Unasked'
    <3>1. CASE NoRequest
      BY <1>1, <1>2, <1>3, <1>4, <2>1, <2>2, <3>1
         DEF Undisturbed, Asked, LastRequest, Answering, Answers, NoRequest, Unasked, board
    <3>2. CASE Asked
      <4>1. script' = "receive" /\ Unasked'
        BY <1>1, <1>2, <1>4, <2>1, <3>2
           DEF Undisturbed, Asked, LastRequest, NoRequest, InSeq, Unasked, board
      <4>2. PICK j \in 1 .. Len(rx) : LastRequest(j)
        BY <3>2 DEF Asked
      <4>3. j \in 1 .. Len(rx') /\ LastRequest(j)'
        BY <1>3, <2>2, <4>2 DEF LastRequest
      <4> QED BY <4>1, <4>3 DEF Asked
    <3> QED BY <1>1, <2>1, <3>1, <3>2 DEF Undisturbed, Answering
  <2> QED BY <2>3, <2>4, <2>5 DEF Undisturbed
<1>8. VerdictRight'
  BY <1>1, <1>2, <1>5 DEF VerdictRight, board
<1> QED BY <1>4, <1>6, <1>7, <1>8 DEF EthInv

(* The next chunk of the run comes after all that were sent.               *)
LEMMA SendChunkKeeps ==
  ASSUME EthInv, SendChunk
  PROVE  EthInv'
<1> DEFINE f == Buf(next, "present")
<1>1. EthTypes /\ Announced /\ Ages /\ Undisturbed /\ VerdictRight
  BY DEF EthInv
<1>2. /\ script = "send" /\ Arrives(f)
      /\ \/ next < ChunkCount /\ next' = next + 1 /\ script' = script
         \/ ~(next < ChunkCount) /\ next' = 1 /\ script' = "request"
      /\ UNCHANGED <<board, received, count, phy, verdict>>
  BY DEF SendChunk
<1>3. next \in Chunks /\ ChunkCount \in Nat /\ next \in 1 .. ChunkCount
  BY <1>1 DEF EthTypes, EthAssumption, Chunks
<1>4. f \in Frames /\ ~Aging(f) /\ f # Req
  <2>1. "present" \in Data /\ "present" # "past"
    BY DEF Data
  <2> QED BY <1>3, <2>1, FrameKinds, AgesOfFrames
<1> HIDE DEF f
<1>5. /\ rx' \in Seq(Frames) /\ Len(rx') <= RxBuffers
      /\ UNCHANGED <<tx, heard>> /\ disturbed' \in BOOLEAN /\ event' \in BOOLEAN
      /\ unheard' \in Nat /\ unheard' <= Len(rx')
      /\ disturbed => disturbed'
      /\ rx' = Append(rx, f) \/ (rx' = rx /\ disturbed' /\ unheard' = unheard)
      /\ Announced' /\ Ages'
  BY <1>2, <1>4, ArrivesKeeps
<1>6. EthTypes'
  <2>1. next' \in Chunks /\ script' \in {"idle", "send", "request", "receive"}
    BY <1>2, <1>3 DEF Chunks
  <2> QED BY <1>1, <1>2, <1>5, <2>1 DEF EthTypes, EthAssumption, board
<1>7. Undisturbed'
  <2> SUFFICES ASSUME Clean' PROVE Undisturbed'
    BY DEF Undisturbed
  <2>1. Clean /\ rx' = Append(rx, f)
    BY <1>2, <1>5 DEF Clean
  <2>2. Sent = next - 1 /\ Sent' = next
    BY <1>2, <1>3 DEF Sent
  <2>3. /\ Len(rx) \in Nat /\ Len(rx') = Len(rx) + 1
        /\ InSeq(rx') = InSeq(rx) \cup {f}
    BY <1>4, <2>1, ArrivesApart
  <2>4. Stored'
    <3> SUFFICES ASSUME NEW c \in Chunks, c <= next
                 PROVE  arena[c] = "present" \/ Buf(c, "present") \in InSeq(rx')
      BY <1>2, <2>2 DEF Stored, board
    <3>1. CASE c = next
      BY <2>3, <3>1 DEF f
    <3>2. CASE c # next
      <4>1. c <= next - 1
        BY <1>3, <3>2 DEF Chunks
      <4> QED BY <1>1, <2>1, <2>2, <2>3, <4>1 DEF Undisturbed, Stored
    <3> QED BY <3>1, <3>2
  <2>5. Unread'
    <3>1. Sent' \in Nat /\ Sent' <= Sent + 1
      BY <1>3, <2>2
    <3> QED BY <1>1, <1>2, <1>4, <2>1, <3>1, ArrivesUnread DEF Undisturbed
  <2>6. NoRequest' /\ Unasked'
    BY <1>1, <1>2, <1>4, <1>5, <2>1, <2>3 DEF Undisturbed, NoRequest, Unasked, board
  <2>7. script' # "receive"
    BY <1>2
  <2> QED BY <2>4, <2>5, <2>6, <2>7 DEF Undisturbed
<1>8. VerdictRight'
  BY <1>1, <1>2, <1>5 DEF VerdictRight, EthTypes, board
<1> QED BY <1>5, <1>6, <1>7, <1>8 DEF EthInv

(* The request comes after all chunks of the run.                          *)
LEMMA SendRequestKeeps ==
  ASSUME EthInv, SendRequest
  PROVE  EthInv'
<1>1. EthTypes /\ Announced /\ Ages /\ Undisturbed /\ VerdictRight
  BY DEF EthInv
<1>2. /\ script = "request" /\ script' = "receive" /\ Arrives(Req)
      /\ UNCHANGED <<board, received, count, phy, verdict, next>>
  BY DEF SendRequest
<1>3. Req \in Frames /\ ~Aging(Req) /\ ~Present(Req)
  BY FrameKinds, AgesOfFrames
<1>4. /\ rx' \in Seq(Frames) /\ Len(rx') <= RxBuffers
      /\ UNCHANGED <<tx, heard>> /\ disturbed' \in BOOLEAN /\ event' \in BOOLEAN
      /\ unheard' \in Nat /\ unheard' <= Len(rx')
      /\ disturbed => disturbed'
      /\ rx' = Append(rx, Req) \/ (rx' = rx /\ disturbed' /\ unheard' = unheard)
      /\ Announced' /\ Ages'
  BY <1>2, <1>3, ArrivesKeeps
<1>5. EthTypes'
  BY <1>1, <1>2, <1>4 DEF EthTypes, EthAssumption, board
<1>6. Undisturbed'
  <2> SUFFICES ASSUME Clean' PROVE Undisturbed'
    BY DEF Undisturbed
  <2>1. Clean /\ rx' = Append(rx, Req)
    BY <1>2, <1>4 DEF Clean
  <2>2. Sent = ChunkCount /\ Sent' = ChunkCount + 1 /\ ChunkCount \in Nat
    BY <1>1, <1>2 DEF Sent, EthTypes, EthAssumption
  <2>3. /\ Len(rx) \in Nat /\ Len(rx') = Len(rx) + 1
        /\ InSeq(rx') = InSeq(rx) \cup {Req}
        /\ \A k \in 1 .. Len(rx) : rx'[k] = rx[k]
        /\ rx'[Len(rx) + 1] = Req
    BY <1>3, <2>1, ArrivesApart
  <2>4. Stored'
    <3>1. \A c \in Chunks : c <= Sent
      BY <2>2 DEF Chunks
    <3> QED BY <1>1, <1>2, <2>1, <2>3, <3>1 DEF Undisturbed, Stored, board
  <2>5. Unread'
    BY <1>1, <1>2, <1>3, <2>1, <2>2, ArrivesUnread DEF Undisturbed
  <2>6. Asked'
    <3>1. NoRequest /\ Unasked
      BY <1>1, <1>2, <2>1 DEF Undisturbed
    <3>2. Unasked'
      BY <1>2, <1>4, <3>1 DEF Unasked, board
    <3>3. Len(rx) + 1 \in 1 .. Len(rx')
      BY <2>3
    <3>4. ASSUME NEW k \in 1 .. Len(rx')
          PROVE  (rx'[k] = Req => k = Len(rx) + 1) /\ (Len(rx) + 1 < k => ~Present(rx'[k]))
      <4>1. CASE k = Len(rx) + 1
        BY <2>3, <4>1
      <4>2. CASE k # Len(rx) + 1
        <5>1. k \in 1 .. Len(rx)
          BY <2>3, <4>2
        <5> QED BY <2>3, <3>1, <5>1 DEF NoRequest, InSeq
      <4> QED BY <4>1, <4>2
    <3> QED BY <2>3, <3>2, <3>3, <3>4 DEF Asked, LastRequest
  <2> QED BY <1>2, <2>4, <2>5, <2>6 DEF Undisturbed
<1>7. VerdictRight'
  BY <1>1, <1>2, <1>4 DEF VerdictRight, EthTypes, board
<1> QED BY <1>4, <1>5, <1>6, <1>7 DEF EthInv
-----------------------------------------------------------------------------
(* A frame of the answer comes: what the peer gets is stored on the board, *)
(* and in an undisturbed run it is the chunk that comes next.              *)
LEMMA TransmittedKeeps ==
  ASSUME EthInv, Transmitted
  PROVE  EthInv'
<1>1. EthTypes /\ Announced /\ Ages /\ Undisturbed /\ VerdictRight
  BY DEF EthInv
<1> DEFINE h == Head(tx)
           takes == script # "idle" /\ count < ChunkCount
<1>2. /\ tx # <<>> /\ tx' = Tail(tx) /\ event' \in {event, event \/ heard}
      /\ takes => received' = [received EXCEPT ![h.chunk] = h.data] /\ count' = count + 1
      /\ ~takes => received' = received /\ count' = count
      /\ UNCHANGED <<phy, rx, heard, unheard, arena, pc, chunk, script, next, verdict, disturbed>>
  BY DEF Transmitted, board
<1>3. /\ tx \in Seq(Bufs) /\ count \in Nat /\ count <= ChunkCount /\ ChunkCount \in Nat
      /\ Len(tx) <= TxBuffers /\ TxBuffers \in Nat
  BY <1>1 DEF EthTypes, EthAssumption
<1>4. /\ tx' \in Seq(Bufs) /\ h \in Bufs /\ h = tx[1] /\ Len(tx) \in Nat \ {0}
      /\ Len(tx') = Len(tx) - 1 /\ \A k \in 1 .. Len(tx') : tx'[k] = tx[k + 1]
  BY <1>2, <1>3, HeadTailProperties, EmptySeq, LenProperties
<1>5. h.chunk \in Chunks /\ h.data \in Data /\ h = Buf(h.chunk, h.data)
  BY <1>4, FrameKinds
<1> HIDE DEF h
<1>6. event' \in BOOLEAN /\ (event => event')
  BY <1>1, <1>2 DEF EthTypes
<1>7. EthTypes'
  <2>1. received' \in [Chunks -> Data] /\ count' \in 0 .. ChunkCount
    <3>1. CASE takes
      BY <1>1, <1>2, <1>3, <1>5, <3>1 DEF EthTypes
    <3>2. CASE ~takes
      BY <1>1, <1>2, <3>2 DEF EthTypes
    <3> QED BY <3>1, <3>2
  <2>2. Len(tx') <= TxBuffers
    BY <1>3, <1>4
  <2> QED BY <1>1, <1>2, <1>4, <1>6, <2>1, <2>2 DEF EthTypes, EthAssumption
<1>8. Announced'
  BY <1>1, <1>2, <1>6 DEF Announced, NoLostWakeup
<1>9. Ages'
  <2>1. ASSUME NEW k \in 1 .. Len(tx'), NEW c \in Chunks, tx'[k] = Buf(c, "present")
        PROVE  arena[c] = "present"
    <3>1. k + 1 \in 1 .. Len(tx) /\ tx[k + 1] = Buf(c, "present")
      BY <1>4, <2>1
    <3> QED BY <1>1, <3>1 DEF Ages
  <2>2. ASSUME NEW c \in Chunks, received'[c] = "present"
        PROVE  arena[c] = "present"
    <3>1. CASE received[c] = "present"
      BY <1>1, <3>1 DEF Ages
    <3>2. CASE received[c] # "present"
      <4>1. takes
        BY <1>2, <2>2, <3>2
      <4>2. c = h.chunk /\ h.data = "present"
        BY <1>1, <1>2, <1>5, <2>2, <3>2, <4>1 DEF EthTypes
      <4>3. tx[1] = Buf(c, "present") /\ 1 \in 1 .. Len(tx)
        BY <1>4, <1>5, <4>2
      <4> QED BY <1>1, <4>3 DEF Ages
    <3> QED BY <3>1, <3>2
  <2> QED BY <1>1, <1>2, <2>1, <2>2 DEF Ages
<1>10. Undisturbed'
  <2> SUFFICES ASSUME Clean' PROVE Undisturbed'
    BY DEF Undisturbed
  <2>1. Clean /\ Sent' = Sent
    BY <1>2 DEF Clean, Sent
  <2>2. Stored' /\ Unread'
    BY <1>1, <1>2, <2>1 DEF Undisturbed, Stored, Unread
  <2>3. script = "receive" /\ Answering
    BY <1>1, <1>2, <2>1 DEF Undisturbed, Asked, Unasked
  <2>4. /\ count + Len(tx) = IF pc = "answer" THEN chunk - 1 ELSE ChunkCount
        /\ chunk \in 1 .. ChunkCount
    BY <1>1, <2>3 DEF Answering, Answers, EthTypes, Chunks
  <2>5. takes /\ count + 1 \in Chunks
    BY <1>3, <1>4, <2>3, <2>4 DEF Chunks
  <2>6. h = Buf(count + 1, "present")
    BY <1>4, <2>3 DEF Answering, Answers
  <2>7. h.chunk = count + 1 /\ h.data = "present"
    BY <2>5, <2>6, FrameKinds DEF Data
  <2>8. count' = count + 1 /\ received' = [received EXCEPT ![count + 1] = "present"]
    BY <1>2, <2>5, <2>7
  <2>9. Answers'
    <3>1. count' + Len(tx') = count + Len(tx)
      BY <1>3, <1>4, <2>8
    <3>2. ASSUME NEW k \in 1 .. Len(tx') PROVE tx'[k] = Buf(count' + k, "present")
      <4>1. k + 1 \in 1 .. Len(tx) /\ count + (k + 1) = count' + k
        BY <1>3, <1>4, <2>8
      <4> QED BY <1>4, <2>3, <4>1 DEF Answering, Answers
    <3>3. ASSUME NEW c \in Chunks, c <= count' PROVE received'[c] = "present"
      <4>1. CASE c = count + 1
        BY <1>1, <2>5, <2>8, <4>1 DEF EthTypes
      <4>2. CASE c # count + 1
        <5>1. c <= count
          BY <1>3, <2>8, <3>3, <4>2 DEF Chunks
        <5> QED BY <1>1, <2>3, <2>8, <4>2, <5>1 DEF Answering, Answers, EthTypes
      <4> QED BY <4>1, <4>2
    <3> QED BY <1>2, <2>4, <3>1, <3>2, <3>3 DEF Answers
  <2> QED BY <1>2, <2>2, <2>3, <2>9 DEF Undisturbed, Answering, NoRequest
<1>11. VerdictRight'
  BY <1>1, <1>2 DEF VerdictRight
<1> QED BY <1>7, <1>8, <1>9, <1>10, <1>11 DEF EthInv

-----------------------------------------------------------------------------
(* main() stores a chunk, or finds the request, after which the memory     *)
(* holds all of an undisturbed run.                                        *)
LEMMA HandleKeeps ==
  ASSUME EthInv, Handle
  PROVE  EthInv'
<1>1. EthTypes /\ Announced /\ Ages /\ Undisturbed /\ VerdictRight
  BY DEF EthInv
<1> DEFINE h == Head(rx)
<1>2. /\ pc = "drain" /\ rx # <<>> /\ rx' = Tail(rx)
      /\ unheard' = IF unheard > 0 THEN unheard - 1 ELSE 0
      /\ arena' = IF h.opcode = "buf" THEN [arena EXCEPT ![h.chunk] = h.data] ELSE arena
      /\ pc' = IF h.opcode = "req" THEN "answer" ELSE "drain"
      /\ chunk' = 1
      /\ UNCHANGED <<phy, tx, event, heard, script, next, received, count, verdict, disturbed>>
  BY DEF Handle, At, progress
<1>3. /\ rx \in Seq(Frames) /\ Len(rx) <= RxBuffers /\ RxBuffers \in Nat
      /\ ChunkCount \in Nat \ {0} /\ unheard \in Nat /\ unheard <= Len(rx)
  BY <1>1 DEF EthTypes, EthAssumption
<1>4. /\ rx' \in Seq(Frames) /\ h \in Frames /\ h = rx[1] /\ Len(rx) \in Nat \ {0}
      /\ Len(rx') = Len(rx) - 1 /\ \A k \in 1 .. Len(rx') : rx'[k] = rx[k + 1]
  BY <1>2, <1>3, HeadTailProperties, EmptySeq, LenProperties
<1>5. /\ h.opcode = "buf" <=> h \in Bufs
      /\ h.opcode = "req" <=> h = Req
      /\ h \in Bufs => h.chunk \in Chunks /\ h.data \in Data /\ h = Buf(h.chunk, h.data)
  BY <1>4, FrameKinds
<1> HIDE DEF h
<1>6. EthTypes'
  <2>1. arena' \in [Chunks -> Data]
    BY <1>1, <1>2, <1>5 DEF EthTypes
  <2>2. chunk' \in Chunks
    BY <1>2, <1>3 DEF Chunks
  <2>3. Len(rx') <= RxBuffers /\ unheard' \in Nat /\ unheard' <= Len(rx')
    BY <1>2, <1>3, <1>4
  <2>4. pc' \in Running
    BY <1>2 DEF Running
  <2> QED BY <1>1, <1>2, <1>4, <2>1, <2>2, <2>3, <2>4 DEF EthTypes, EthAssumption
<1>7. Announced'
  <2>1. heard
    BY <1>1, <1>2 DEF Announced, Running
  <2> QED BY <1>2, <2>1 DEF Announced, NoLostWakeup, Running
<1>8. ASSUME NEW c \in Chunks, arena[c] = "present" PROVE arena'[c] = "present"
  <2>1. ~Aging(h)
    BY <1>1, <1>4, <1>8 DEF Ages
  <2>2. h \in Bufs => h.data = "present"
    BY <1>5, <2>1, AgesOfFrames DEF Data
  <2> QED BY <1>1, <1>2, <1>5, <1>8, <2>2 DEF EthTypes
<1>9. ASSUME NEW c \in Chunks, arena'[c] = "present"
      PROVE  arena[c] = "present" \/ h = Buf(c, "present")
  BY <1>1, <1>2, <1>5, <1>9 DEF EthTypes
<1>10. Ages'
  <2>1. ASSUME NEW j \in 1 .. Len(rx'), NEW k \in 1 .. Len(rx'), j < k, Present(rx'[j])
        PROVE  ~Aging(rx'[k])
    <3>1. /\ j + 1 \in 1 .. Len(rx) /\ k + 1 \in 1 .. Len(rx) /\ j + 1 < k + 1
          /\ rx'[j] = rx[j + 1] /\ rx'[k] = rx[k + 1]
      BY <1>4, <2>1
    <3> QED BY <1>1, <2>1, <3>1 DEF Ages
  <2>2. ASSUME NEW c \in Chunks, arena'[c] = "present", NEW k \in 1 .. Len(rx')
        PROVE  ~Aging(rx'[k])
    <3>1. /\ k + 1 \in 1 .. Len(rx) /\ 1 \in 1 .. Len(rx) /\ 1 < k + 1
          /\ rx'[k] = rx[k + 1]
      BY <1>4
    <3>2. CASE arena[c] = "present"
      BY <1>1, <3>1, <3>2 DEF Ages
    <3>3. CASE h = Buf(c, "present")
      <4>1. Present(rx[1])
        BY <1>4, <3>3 DEF Present
      <4> QED BY <1>1, <3>1, <4>1 DEF Ages
    <3> QED BY <1>9, <2>2, <3>2, <3>3
  <2> QED BY <1>1, <1>2, <1>8, <2>1, <2>2 DEF Ages
<1>11. Undisturbed'
  <2> SUFFICES ASSUME Clean' PROVE Undisturbed'
    BY DEF Undisturbed
  <2>1. Clean /\ Sent' = Sent
    BY <1>2 DEF Clean, Sent
  <2>2. ASSUME NEW f \in InSeq(rx), f # h PROVE f \in InSeq(rx')
    <3>1. PICK k \in 1 .. Len(rx) : f = rx[k]
      BY DEF InSeq
    <3>2. k # 1
      BY <1>4, <2>2, <3>1
    <3>3. k - 1 \in 1 .. Len(rx') /\ rx'[k - 1] = rx[(k - 1) + 1] /\ (k - 1) + 1 = k
      BY <1>4, <3>1, <3>2
    <3> QED BY <3>1, <3>3 DEF InSeq
  <2>3. InSeq(rx') \subseteq InSeq(rx) /\ h \in InSeq(rx)
    <3>1. \A k \in 1 .. Len(rx') : k + 1 \in 1 .. Len(rx)
      BY <1>4
    <3> QED BY <1>4, <3>1 DEF InSeq
  <2>4. Stored'
    <3> SUFFICES ASSUME NEW c \in Chunks, c <= Sent
                 PROVE  arena'[c] = "present" \/ Buf(c, "present") \in InSeq(rx')
      BY <2>1 DEF Stored
    <3>1. arena[c] = "present" \/ Buf(c, "present") \in InSeq(rx)
      BY <1>1, <2>1 DEF Undisturbed, Stored
    <3>2. CASE h = Buf(c, "present")
      <4>1. h.opcode = "buf" /\ h.chunk = c /\ h.data = "present"
        BY <3>2 DEF Buf
      <4> QED BY <1>1, <1>2, <4>1 DEF EthTypes
    <3> QED BY <1>8, <2>2, <3>1, <3>2
  <2>5. Unread'
    BY <1>2 DEF Unread
  <2>6. CASE script # "receive"
    <3>1. NoRequest /\ Unasked
      BY <1>1, <2>1, <2>6 DEF Undisturbed
    <3>2. pc' # "answer"
      BY <1>2, <1>5, <2>3, <3>1 DEF NoRequest
    <3>3. NoRequest' /\ Unasked'
      BY <1>2, <2>3, <3>1, <3>2 DEF NoRequest, Unasked
    <3> QED BY <1>2, <2>4, <2>5, <2>6, <3>3 DEF Undisturbed
  <2>7. CASE script = "receive" /\ Answering
    <3>1. pc' # "answer"
      BY <1>2, <1>5, <2>3, <2>7 DEF Answering, NoRequest
    <3>2. Answering'
      BY <1>2, <1>8, <2>3, <2>7, <3>1 DEF Answering, Answers, NoRequest
    <3> QED BY <1>2, <2>4, <2>5, <2>7, <3>2 DEF Undisturbed
  <2>8. CASE script = "receive" /\ Asked
    <3>1. Unasked
      BY <2>8 DEF Asked
    <3>2. PICK j \in 1 .. Len(rx) : LastRequest(j)
      BY <2>8 DEF Asked
    <3>3. CASE h = Req
      <4>1. j = 1
        <5>1. 1 \in 1 .. Len(rx) /\ rx[1] = Req
          BY <1>4, <3>3
        <5> QED BY <3>2, <5>1 DEF LastRequest
      <4>2. ASSUME NEW k \in 1 .. Len(rx') PROVE rx'[k] # Req /\ ~Present(rx'[k])
        <5>1. k + 1 \in 1 .. Len(rx) /\ rx'[k] = rx[k + 1] /\ 1 < k + 1 /\ k + 1 # 1
          BY <1>4
        <5> QED BY <3>2, <4>1, <5>1 DEF LastRequest
      <4>3. NoRequest' /\ \A c \in Chunks : Buf(c, "present") \notin InSeq(rx')
        BY <4>2 DEF NoRequest, InSeq, Present
      <4>4. \A c \in Chunks : c <= Sent
        BY <1>3, <2>8 DEF Sent, Chunks
      <4>5. \A c \in Chunks : arena'[c] = "present"
        BY <2>1, <2>4, <4>3, <4>4 DEF Stored
      <4>6. Answers'
        <5>1. tx' = <<>> /\ count' = 0 /\ pc' = "answer" /\ chunk' = 1
          BY <1>2, <1>5, <3>1, <3>3 DEF Unasked
        <5>2. Len(<<>>) = 0
          OBVIOUS
        <5>3. /\ count' + Len(tx') = chunk' - 1 /\ Len(tx') = 0
          BY <5>1, <5>2
        <5>4. \A c \in Chunks : ~(c <= count')
          BY <5>1 DEF Chunks
        <5> QED BY <5>1, <5>3, <5>4 DEF Answers
      <4> QED BY <1>2, <2>4, <2>5, <2>8, <4>3, <4>5, <4>6 DEF Undisturbed, Answering
    <3>4. CASE h # Req
      <4>1. j # 1 /\ pc' # "answer"
        BY <1>2, <1>4, <1>5, <3>2, <3>4 DEF LastRequest
      <4>2. j - 1 \in 1 .. Len(rx') /\ rx'[j - 1] = rx[j]
        <5>1. j - 1 \in 1 .. Len(rx') /\ (j - 1) + 1 = j
          BY <1>4, <4>1
        <5> QED BY <1>4, <5>1
      <4>3. ASSUME NEW k \in 1 .. Len(rx')
            PROVE  (rx'[k] = Req => k = j - 1) /\ (j - 1 < k => ~Present(rx'[k]))
        <5>1. k + 1 \in 1 .. Len(rx) /\ rx'[k] = rx[k + 1]
          BY <1>4
        <5>2. (rx[k + 1] = Req => k + 1 = j) /\ (j < k + 1 => ~Present(rx[k + 1]))
          BY <3>2, <5>1 DEF LastRequest
        <5> QED BY <1>4, <5>1, <5>2
      <4>4. LastRequest(j - 1)'
        BY <3>2, <4>2, <4>3 DEF LastRequest
      <4>5. Unasked'
        BY <1>2, <3>1, <4>1 DEF Unasked
      <4>6. Asked'
        BY <4>2, <4>4, <4>5 DEF Asked
      <4> QED BY <1>2, <2>4, <2>5, <2>8, <4>6 DEF Undisturbed
    <3> QED BY <3>3, <3>4
  <2> QED BY <1>1, <2>1, <2>6, <2>7, <2>8 DEF Undisturbed
<1>12. VerdictRight'
  BY <1>1, <1>2, <1>8 DEF VerdictRight
<1> QED BY <1>6, <1>7, <1>10, <1>11, <1>12 DEF EthInv

(* main() sends the next chunk of its answer.                              *)
LEMMA AnswerKeeps ==
  ASSUME EthInv, Answer
  PROVE  EthInv'
<1>1. EthTypes /\ Announced /\ Ages /\ Undisturbed /\ VerdictRight
  BY DEF EthInv
<1> DEFINE f == Buf(chunk, arena[chunk])
<1>2. /\ pc = "answer" /\ Len(tx) < TxBuffers /\ tx' = Append(tx, f)
      /\ \/ chunk < ChunkCount /\ chunk' = chunk + 1 /\ pc' = "answer"
         \/ ~(chunk < ChunkCount) /\ chunk' = 1 /\ pc' = "drain"
      /\ UNCHANGED <<phy, rx, event, heard, unheard, arena,
                     script, next, received, count, verdict, disturbed>>
  BY DEF Answer, At, AfterChunk, progress
<1>3. /\ tx \in Seq(Bufs) /\ ChunkCount \in Nat \ {0} /\ chunk \in 1 .. ChunkCount
      /\ chunk \in Chunks /\ arena[chunk] \in Data /\ TxBuffers \in Nat /\ count \in Nat
      /\ count <= ChunkCount
  BY <1>1 DEF EthTypes, EthAssumption, Chunks
<1>4. f \in Bufs /\ f.chunk = chunk /\ f.data = arena[chunk]
  BY <1>3, FrameKinds
<1>5. f = Buf(chunk, arena[chunk])
  OBVIOUS
<1> HIDE DEF f
<1>6. /\ tx' \in Seq(Bufs) /\ Len(tx) \in Nat /\ Len(tx') = Len(tx) + 1
      /\ tx'[Len(tx) + 1] = f /\ \A k \in 1 .. Len(tx) : tx'[k] = tx[k]
  BY <1>2, <1>3, <1>4, AppendProperties, LenProperties
<1>7. EthTypes'
  <2>1. chunk' \in Chunks /\ pc' \in Running
    BY <1>2, <1>3 DEF Chunks, Running
  <2>2. Len(tx') <= TxBuffers
    BY <1>2, <1>3, <1>6
  <2> QED BY <1>1, <1>2, <1>6, <2>1, <2>2 DEF EthTypes, EthAssumption
<1>8. Announced'
  BY <1>1, <1>2 DEF Announced, NoLostWakeup, Running
<1>9. Ages'
  <2>1. ASSUME NEW k \in 1 .. Len(tx'), NEW c \in Chunks, tx'[k] = Buf(c, "present")
        PROVE  arena[c] = "present"
    <3>1. CASE k \in 1 .. Len(tx)
      BY <1>1, <1>6, <2>1, <3>1 DEF Ages
    <3>2. CASE k = Len(tx) + 1
      <4>1. f.chunk = c /\ f.data = "present"
        BY <1>6, <2>1, <3>2 DEF Buf
      <4> QED BY <1>4, <4>1
    <3> QED BY <1>6, <3>1, <3>2
  <2> QED BY <1>1, <1>2, <2>1 DEF Ages
<1>10. Undisturbed'
  <2> SUFFICES ASSUME Clean' PROVE Undisturbed'
    BY DEF Undisturbed
  <2>1. Clean /\ Sent' = Sent
    BY <1>2 DEF Clean, Sent
  <2>2. Stored'
    BY <1>1, <1>2, <2>1 DEF Undisturbed, Stored
  <2>3. Unread'
    BY <1>2 DEF Unread
  <2>4. script = "receive" /\ Answering
    BY <1>1, <1>2, <2>1 DEF Undisturbed, Asked, Unasked
  <2>5. count + Len(tx) = chunk - 1
    BY <1>2, <2>4 DEF Answering, Answers
  <2>6. Answers'
    <3>1. count + Len(tx') = IF pc' = "answer" THEN chunk' - 1 ELSE ChunkCount
      <4>1. count + Len(tx') = chunk
        BY <1>3, <1>6, <2>5
      <4> QED BY <1>2, <1>3, <4>1
    <3>2. ASSUME NEW k \in 1 .. Len(tx') PROVE tx'[k] = Buf(count + k, "present")
      <4>1. CASE k \in 1 .. Len(tx)
        BY <1>6, <2>4, <4>1 DEF Answering, Answers
      <4>2. CASE k = Len(tx) + 1
        <5>1. count + k = chunk
          BY <1>3, <1>6, <2>5, <4>2
        <5>2. arena[chunk] = "present"
          BY <1>3, <2>4 DEF Answering
        <5> QED BY <1>5, <1>6, <4>2, <5>1, <5>2
      <4> QED BY <1>6, <4>1, <4>2
    <3> QED BY <1>2, <2>4, <3>1, <3>2 DEF Answering, Answers
  <2> QED BY <1>2, <2>2, <2>3, <2>4, <2>6 DEF Undisturbed, Answering, NoRequest
<1>11. VerdictRight'
  BY <1>1, <1>2 DEF VerdictRight
<1> QED BY <1>7, <1>8, <1>9, <1>10, <1>11 DEF EthInv

-----------------------------------------------------------------------------
LEMMA EthInvAlways == EthAssumption /\ SafeSpec => []EthInv
<1>1. EthInv /\ [Next]_vars => EthInv'
  BY StillKeeps, BeginKeeps, ForeignKeeps, SendChunkKeeps, SendRequestKeeps, CompareKeeps,
     TransmittedKeeps, HandleKeeps, AnswerKeeps DEF Next, Script, Main, Boot
<1> QED BY EthInvInit, <1>1, PTL DEF SafeSpec

(* A match means that the memory of the board holds what the peer sent; a  *)
(* mismatch is never reported of a run that lost nothing and met no other, *)
(* however long the memory and however few the buffers.                    *)
THEOREM VerdictAboutBoard == EthAssumption /\ SafeSpec => []VerdictRight
<1>1. EthInv => VerdictRight
  BY DEF EthInv
<1> QED BY EthInvAlways, <1>1, PTL

(* No frame that was announced waits without an event.                     *)
THEOREM FramesNotForgotten == EthAssumption /\ SafeSpec => []NoLostWakeup
<1>1. EthInv => NoLostWakeup
  BY DEF EthInv, Announced
<1> QED BY EthInvAlways, <1>1, PTL

(* The types of the board, of its driver and of the peer.                  *)
THEOREM TypeCorrect == EthAssumption /\ SafeSpec => []TypeOK
<1>1. EthInv => TypeOK
  BY DEF EthInv, EthTypes, TypeOK
<1> QED BY EthInvAlways, <1>1, PTL
=============================================================================
