------------------------------- MODULE CanNode -------------------------------
(***************************************************************************)
(* templates/can.jinja2: once per period six groups of messages are sent,  *)
(* each group within a timeout of its own; every reception event reads one *)
(* message.  Time is discrete: it passes while main() waits for an event   *)
(* or for room in the transmit queue, all other statements take none.      *)
(***************************************************************************)
EXTENDS Naturals

CONSTANTS
  GroupSize,     \* GROUP_SIZE
  Timeout,       \* ticks of the chrono timer in a second
  Buffers        \* txBuffers and rxBuffers of the board's CanConfig

ASSUME CanAssumption ==
  /\ GroupSize \in Nat \ {0} /\ Timeout \in Nat \ {0} /\ Buffers \in Nat \ {0}

Groups == 6               \* calls of sendMessageGroup() in a test
Period == 10 * Timeout    \* GROUP_RATE seconds

VARIABLES
  queued,        \* messages in the transmit queue
  unread,        \* messages in the receive queue
  canEvent, timerEvent,
  elapsed,       \* of the event timer
  chrono,        \* value of the chrono timer; it stays at Timeout in the model
  took,          \* the bus has taken a message in this tick
  pc, group, i,
  busFree        \* fixed: the bus takes a queued message in every tick

time == <<elapsed, chrono, took>>
vars == <<queued, unread, canEvent, timerEvent, time, pc, group, i>>

(* Mutation: a group that cannot be sent is not given up.                  *)
GroupEndsUntimed == i = GroupSize

(* All messages are queued, or the next one was refused after the timeout. *)
GroupEnds == i = GroupSize \/ (queued = Buffers /\ chrono = Timeout)

-----------------------------------------------------------------------------
(* The bus and the timers                                                  *)

BusTake ==
  /\ queued > 0
  /\ queued' = queued - 1
  /\ took' = TRUE
  /\ UNCHANGED <<unread, canEvent, timerEvent, elapsed, chrono, pc, group, i>>

(* A message that finds no room in the receive queue is lost.              *)
BusDeliver ==
  /\ unread' = IF unread < Buffers THEN unread + 1 ELSE unread
  /\ canEvent' = TRUE
  /\ UNCHANGED <<queued, timerEvent, time, pc, group, i>>

Retrying == pc = "send" /\ queued = Buffers /\ ~GroupEnds
Waiting == pc = "wait" /\ ~timerEvent

Tick ==
  /\ Retrying \/ Waiting
  /\ busFree => took \/ queued = 0
  /\ elapsed' = IF elapsed + 1 < Period THEN elapsed + 1 ELSE 0
  /\ timerEvent' = (timerEvent \/ elapsed' = 0)
  /\ chrono' = IF chrono < Timeout THEN chrono + 1 ELSE chrono
  /\ took' = FALSE
  /\ UNCHANGED <<queued, unread, canEvent, pc, group, i>>

-----------------------------------------------------------------------------
(* main()                                                                  *)

Init ==
  /\ busFree \in BOOLEAN
  /\ queued = 0 /\ unread = 0
  /\ canEvent = FALSE /\ timerEvent = FALSE
  /\ elapsed = 0 /\ chrono = 0 /\ took = FALSE
  /\ pc = "wait" /\ group = 1 /\ i = 0

MainWake ==
  /\ pc = "wait"
  /\ canEvent \/ timerEvent
  /\ IF timerEvent
       THEN pc' = "send" /\ timerEvent' = FALSE /\ chrono' = 0
       ELSE pc' = "read" /\ UNCHANGED <<timerEvent, chrono>>
  /\ UNCHANGED <<queued, unread, canEvent, elapsed, took, group, i>>

(* Mutation: the test for a full queue is off by one.                      *)
SendMessageOverrun ==
  /\ pc = "send"
  /\ i < GroupSize /\ queued <= Buffers
  /\ queued' = queued + 1
  /\ i' = i + 1
  /\ UNCHANGED <<unread, canEvent, timerEvent, time, pc, group>>

(* ifWrite() with room in the queue.                                       *)
SendMessage ==
  /\ pc = "send"
  /\ i < GroupSize /\ queued < Buffers
  /\ queued' = queued + 1
  /\ i' = i + 1
  /\ UNCHANGED <<unread, canEvent, timerEvent, time, pc, group>>

(* Mutation: the chrono timer is only reset for the first group.           *)
NextGroupNoReset ==
  /\ pc = "send"
  /\ GroupEnds
  /\ i' = 0
  /\ IF group < Groups
       THEN group' = group + 1 /\ UNCHANGED <<pc, chrono>>
       ELSE group' = 1 /\ pc' = "read" /\ UNCHANGED chrono
  /\ UNCHANGED <<queued, unread, canEvent, timerEvent, elapsed, took>>

(* sendMessageGroup() returns; the next call resets the chrono timer.      *)
NextGroup ==
  /\ pc = "send"
  /\ GroupEnds
  /\ i' = 0
  /\ IF group < Groups
       THEN group' = group + 1 /\ chrono' = 0 /\ UNCHANGED pc
       ELSE group' = 1 /\ pc' = "read" /\ UNCHANGED chrono
  /\ UNCHANGED <<queued, unread, canEvent, timerEvent, elapsed, took>>

(* One message per event, however many events it stands for.               *)
MainRead ==
  /\ pc = "read"
  /\ IF canEvent
       THEN /\ canEvent' = FALSE
            /\ unread' = IF unread > 0 THEN unread - 1 ELSE 0
       ELSE UNCHANGED <<canEvent, unread>>
  /\ pc' = "wait"
  /\ UNCHANGED <<queued, timerEvent, time, group, i>>

Main == MainWake \/ SendMessage \/ NextGroup \/ MainRead

Next == (Main \/ Tick \/ BusTake \/ BusDeliver) /\ UNCHANGED busFree

SafeSpec == Init /\ [][Next]_<<vars, busFree>>

(* The processor runs main(), a free bus takes what is queued, and time    *)
(* passes whenever main() waits again and again.                           *)
Spec == SafeSpec /\ WF_vars(Main) /\ SF_vars(Tick) /\ WF_vars(busFree /\ BusTake)

-----------------------------------------------------------------------------
FlagsOK == canEvent \in BOOLEAN /\ timerEvent \in BOOLEAN /\ took \in BOOLEAN

CountsOK ==
  /\ queued \in 0..Buffers /\ unread \in 0..Buffers
  /\ elapsed \in 0 .. Period - 1 /\ chrono \in 0..Timeout
  /\ pc \in {"wait", "send", "read"}
  /\ group \in 1..Groups /\ i \in 0..GroupSize

TypeOK == FlagsOK /\ CountsOK

(* Whatever the bus does, a test is over before the timer starts the next  *)
(* one: the six timeouts fit in the period.                                *)
PeriodKept == pc # "wait" => ~timerEvent

(* On a free bus no message of any group is given up: the timeout of one   *)
(* group does not count against the next.                                  *)
GroupsComplete == [][busFree /\ pc = "send" /\ i' < i => i = GroupSize]_vars

=============================================================================
