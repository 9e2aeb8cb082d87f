------------------------------ MODULE SerialEcho ------------------------------
(***************************************************************************)
(* templates/serial.jinja2: the bytes of a serial line are sent back.  The *)
(* interrupt of the driver fills and empties its queues and raises the     *)
(* event of main(), which ignores how much ifWrite() has taken.            *)
(*                                                                         *)
(* A step of the line is the time of one character, in which at most one   *)
(* comes and, if one is queued, one goes: both directions have one rate.   *)
(* main() may be late by any number of characters, though not between its  *)
(* ifRead() and its ifWrite(), which follow each other.  A character that  *)
(* finds the receive queue full is lost and has no number.                 *)
(***************************************************************************)
EXTENDS Naturals, Sequences

CONSTANTS
  RxLength, TxLength,     \* rxLength and txLength of the driver
  Chunk                   \* BOARD_UART_BUFFER: what one ifRead() takes

SerialAssumption ==
  /\ {RxLength, TxLength, Chunk} \subseteq Nat \ {0}
  /\ RxLength <= TxLength

Numbers == RxLength + TxLength + 1

VARIABLES
  rx, tx,        \* the queues of the driver
  event,         \* of main()
  sent, got,     \* number of the next character the host sends and expects
  pc

hosts == <<sent, got>>
vars == <<rx, tx, event, hosts, pc>>

Least(a, b) == IF a < b THEN a ELSE b
Take(s, n) == SubSeq(s, 1, n)
Drop(s, n) == SubSeq(s, n + 1, Len(s))

Init ==
  /\ rx = <<>> /\ tx = <<>> /\ event = FALSE
  /\ sent = 0 /\ got = 0
  /\ pc = "wait"

-----------------------------------------------------------------------------
(* The line and the interrupt of the driver                                *)

Goes ==
  /\ tx' = IF tx = <<>> THEN tx ELSE Tail(tx)
  /\ got' = IF tx = <<>> THEN got ELSE (Head(tx) + 1) % Numbers

Comes ==
  IF Len(rx) < RxLength
    THEN rx' = Append(rx, sent) /\ sent' = (sent + 1) % Numbers
    ELSE UNCHANGED <<rx, sent>>

Character == Goes /\ Comes /\ event' = TRUE /\ UNCHANGED pc

(* The end of the transmission may raise the event as well.                *)
Silence ==
  /\ tx # <<>> /\ Goes
  /\ event' \in {event, TRUE}
  /\ UNCHANGED <<rx, sent, pc>>

-----------------------------------------------------------------------------
(* main() and transferData()                                               *)

Wake ==
  /\ pc = "wait" /\ event /\ pc' = "transfer"
  /\ event' = FALSE
  /\ UNCHANGED <<rx, tx, hosts>>

Transfer ==
  /\ pc = "transfer" /\ pc' = "available"
  /\ LET n == Least(Chunk, Len(rx)) IN
       /\ tx' = tx \o Take(rx, Least(n, TxLength - Len(tx)))
       /\ rx' = Drop(rx, n)
  /\ UNCHANGED <<event, hosts>>

Available ==
  /\ pc = "available"
  /\ pc' = IF rx # <<>> THEN "transfer" ELSE "wait"
  /\ UNCHANGED <<rx, tx, event, hosts>>

Main == Wake \/ Transfer \/ Available

Next == Main \/ Character \/ Silence

Spec == Init /\ [][Next]_vars

-----------------------------------------------------------------------------
Line == tx \o rx

TypeOK ==
  /\ Line \in Seq(0 .. Numbers - 1)
  /\ Len(rx) <= RxLength /\ Len(tx) <= TxLength
  /\ {sent, got} \subseteq 0 .. Numbers - 1
  /\ event \in BOOLEAN /\ pc \in {"wait", "transfer", "available"}

(* Nothing that was received is dropped or comes back out of order, though *)
(* main() does not look at what ifWrite() has taken and may be late: what  *)
(* waits for it and for the line is never more than the receive queue.     *)
EchoInOrder ==
  /\ Len(Line) <= RxLength
  /\ (got + Len(Line)) % Numbers = sent
  /\ \A k \in 1 .. Len(Line) : Line[k] = (got + k - 1) % Numbers

(* main() does not wait with a character in the queue and no event.        *)
NoLostWakeup == pc = "wait" /\ rx # <<>> => event
=============================================================================
