---------------------------- MODULE CdcComposite ----------------------------
(***************************************************************************)
(* usb_cdc_composite/main.c: every CDC function of a composite device      *)
(* sends back what it receives.  The USB interrupt fills and empties the   *)
(* endpoint queues and raises the event of the function; one main loop     *)
(* serves all functions in turn and waits for room in the transmit queue.  *)
(* Packets are numbered modulo Numbers, more than a function can hold.     *)
(***************************************************************************)
EXTENDS Naturals, Sequences

CONSTANTS
  StreamCount,   \* STREAM_COUNT
  Buffers,       \* rxBuffers and txBuffers of CdcAcmConfig
  Chunk          \* packets one ifRead() of BOARD_UART_BUFFER bytes takes

CompositeAssumption == {StreamCount, Buffers, Chunk} \subseteq Nat \ {0}

Streams == 1..StreamCount
Numbers == 2 * Buffers + Chunk + 1

VARIABLES
  rx, tx,        \* the endpoint queues of each stream
  event,         \* streams[i].event
  sent, got,     \* number of the next packet the host sends and expects
  pc, cur,       \* cur: i of the loop over the streams
  hand           \* what transferData() has read and not written yet

hosts == <<sent, got>>
vars == <<rx, tx, event, hosts, pc, cur, hand>>

Least(a, b) == IF a < b THEN a ELSE b
Take(s, n) == SubSeq(s, 1, n)
Drop(s, n) == SubSeq(s, n + 1, Len(s))

-----------------------------------------------------------------------------
(* The host and the USB interrupt                                          *)

HostSend(s) ==
  /\ Len(rx[s]) < Buffers
  /\ rx' = [rx EXCEPT ![s] = Append(@, sent[s])]
  /\ sent' = [sent EXCEPT ![s] = (@ + 1) % Numbers]
  /\ event' = [event EXCEPT ![s] = TRUE]
  /\ UNCHANGED <<tx, got, pc, cur, hand>>

(* The end of a transmission may raise the event as well.                  *)
HostReceive(s) ==
  /\ tx[s] # <<>>
  /\ tx' = [tx EXCEPT ![s] = Tail(@)]
  /\ got' = [got EXCEPT ![s] = (Head(tx[s]) + 1) % Numbers]
  /\ event' \in {event, [event EXCEPT ![s] = TRUE]}
  /\ UNCHANGED <<rx, sent, pc, cur, hand>>

-----------------------------------------------------------------------------
(* main() and transferData()                                               *)

Init ==
  /\ rx = [s \in Streams |-> <<>>] /\ tx = rx
  /\ event = [s \in Streams |-> FALSE]
  /\ sent = [s \in Streams |-> 0] /\ got = sent
  /\ pc = "scan" /\ cur = 1 /\ hand = <<>>

MainScan ==
  /\ pc = "scan"
  /\ \E s \in Streams : event[s]
  /\ pc' = "pick" /\ cur' = 1
  /\ UNCHANGED <<rx, tx, event, hosts, hand>>

(* The head of the loop over the streams; i comes to cur + 1 at its end.   *)
AfterStream ==
  IF cur < StreamCount THEN pc' = "pick" /\ cur' = cur + 1
                       ELSE pc' = "scan" /\ cur' = 1

MainSkip ==
  /\ pc = "pick" /\ ~event[cur]
  /\ AfterStream
  /\ UNCHANGED <<rx, tx, event, hosts, hand>>

(* Mutation: all events are cleared when one stream is served.             *)
MainPickAll ==
  /\ pc = "pick" /\ event[cur]
  /\ event' = [s \in Streams |-> FALSE]
  /\ pc' = "read"
  /\ UNCHANGED <<rx, tx, hosts, cur, hand>>

MainPick ==
  /\ pc = "pick" /\ event[cur]
  /\ event' = [event EXCEPT ![cur] = FALSE]
  /\ pc' = "read"
  /\ UNCHANGED <<rx, tx, hosts, cur, hand>>

MainRead ==
  /\ pc = "read"
  /\ LET n == Least(Chunk, Len(rx[cur])) IN
       /\ hand' = Take(rx[cur], n)
       /\ rx' = [rx EXCEPT ![cur] = Drop(@, n)]
  /\ pc' = "write"
  /\ UNCHANGED <<tx, event, hosts, cur>>

(* Mutation: what did not fit is dropped.                                  *)
MainWriteOnce ==
  /\ pc = "write" /\ hand # <<>>
  /\ LET n == Least(Buffers - Len(tx[cur]), Len(hand)) IN
       tx' = [tx EXCEPT ![cur] = @ \o Take(hand, n)]
  /\ hand' = <<>>
  /\ UNCHANGED <<rx, event, hosts, pc, cur>>

(* One ifWrite(): it takes what the queue has room for, maybe nothing.     *)
MainWrite ==
  /\ pc = "write" /\ hand # <<>>
  /\ LET n == Least(Buffers - Len(tx[cur]), Len(hand)) IN
       /\ tx' = [tx EXCEPT ![cur] = @ \o Take(hand, n)]
       /\ hand' = Drop(hand, n)
  /\ UNCHANGED <<rx, event, hosts, pc, cur>>

(* Mutation: transferData() reads once.                                    *)
MainMoreOnce ==
  /\ pc = "write" /\ hand = <<>>
  /\ AfterStream
  /\ UNCHANGED <<rx, tx, event, hosts, hand>>

MainMore ==
  /\ pc = "write" /\ hand = <<>>
  /\ IF rx[cur] # <<>> THEN pc' = "read" /\ UNCHANGED cur ELSE AfterStream
  /\ UNCHANGED <<rx, tx, event, hosts, hand>>

Main == MainScan \/ MainSkip \/ MainPick \/ MainRead \/ MainWrite \/ MainMore

Next == Main \/ \E s \in Streams : HostSend(s) \/ HostReceive(s)

SafeSpec == Init /\ [][Next]_vars

(* The processor runs the loop and every host fetches what it is sent.  A  *)
(* host that does not keeps the loop in transferData() of its stream.      *)
Spec ==
  /\ SafeSpec
  /\ WF_vars(Main)
  /\ \A s \in Streams : WF_vars(HostReceive(s))

-----------------------------------------------------------------------------
(* Everything stream s holds, oldest first.                                *)
Line(s) ==
  tx[s] \o (IF pc = "write" /\ cur = s THEN hand ELSE <<>>) \o rx[s]

TypeOK ==
  /\ \A s \in Streams :
       /\ Line(s) \in Seq(0 .. Numbers - 1)
       /\ Len(rx[s]) <= Buffers /\ Len(tx[s]) <= Buffers
       /\ {sent[s], got[s]} \subseteq 0 .. Numbers - 1
  /\ event \in [Streams -> BOOLEAN]
  /\ pc \in {"scan", "pick", "read", "write"} /\ cur \in Streams
  /\ Len(hand) <= Chunk

(* Each stream sends back exactly what it received, in order: the packets  *)
(* on the way are those between the one the host expects next and the one  *)
(* it sends next.  Also no packet gets into another stream.                *)
EchoInOrder ==
  \A s \in Streams :
    /\ (got[s] + Len(Line(s))) % Numbers = sent[s]
    /\ \A k \in 1 .. Len(Line(s)) : Line(s)[k] = (got[s] + k - 1) % Numbers

(* The loop never waits, nor passes a stream, with a packet in its queue   *)
(* and its event cleared.                                                  *)
NoLostWakeup ==
  \A s \in Streams :
    rx[s] # <<>> /\ ~(cur = s /\ pc \in {"read", "write"}) => event[s]

(* Once the other streams are quiet, every packet of a stream comes back:  *)
(* again and again its host gets one, or the stream is empty.  (A stream   *)
(* whose host sends without pause keeps the others waiting.)               *)
Served ==
  \A s \in Streams :
    <>[](\A t \in Streams \ {s} : rx[t] = <<>>) =>
      \/ []<>(Line(s) = <<>>)
      \/ []<><<got[s]' # got[s]>>_got
=============================================================================
