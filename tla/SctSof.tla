-------------------------------- MODULE SctSof --------------------------------
(***************************************************************************)
(* examples/lpc43xx_default/shared/sct_sof.c: one half of the SCT captures *)
(* the frames of the USB bus and the word select of the I2S bus; their     *)
(* periods give the ratio that a sound card reports to the host.           *)
(*                                                                         *)
(* Three actors: the two buses and the counter, which go on while the      *)
(* interrupt handler runs, the handler, and the program, which runs when   *)
(* no interrupt is pending and is interrupted between any two statements.  *)
(***************************************************************************)
EXTENDS Naturals

CONSTANTS
  SofExpected,   \* frequency / 1000: ticks of a frame of a full-speed bus
  MwsPeriod,     \* ticks between the word selects that are captured
  Wrap,          \* values of the counter, 2^16 of the real ticks
  Latency,       \* ticks from an interrupt to the end of its handler, at most
  MaxLost,       \* bound: edges of a bus in succession that come while the
                 \* handler is between the read and the clearing of EVFLAG
  MaxHalted      \* bound: ticks for which the timer is disabled

(* Two runs of the handler end within a period: the one that goes on when  *)
(* an edge comes, and the one for the edge.  The counter holds the periods *)
(* of all edges that may be lost in succession.                            *)
SofAssumption ==
  /\ {SofExpected, MwsPeriod, Wrap, Latency, MaxLost, MaxHalted} \subseteq Nat
  /\ SofExpected > 0 /\ SofExpected % 8 = 0 /\ MwsPeriod > 0
  /\ 2 * Latency <= SofExpected \div 8 /\ 2 * Latency <= MwsPeriod
  /\ (MaxLost + 1) * SofExpected < Wrap /\ (MaxLost + 1) * MwsPeriod < Wrap

Events == {"i2s", "usb"}

VARIABLES
  highSpeed,                  \* fixed: the speed of the USB bus
  phase,                      \* ticks to the next edge of each input
  counter, running, flags, capture,   \* COUNT, ~HALT, EVFLAG, CAP
  duration, previous, valid,  \* mwsDuration, sofDuration and so on
  evflag, irq, age,           \* the handler, and the ticks since its interrupt
  lost,                       \* edges lost since the last one that was measured
  pc, halted

sct == <<counter, running, flags, capture>>
timer == <<duration, previous, valid>>
handler == <<evflag, irq, age>>
vars == <<highSpeed, phase, sct, timer, handler, lost, pc, halted>>

Period(e) ==
  IF e = "i2s" THEN MwsPeriod
  ELSE IF highSpeed THEN SofExpected \div 8 ELSE SofExpected

Init ==
  /\ highSpeed \in BOOLEAN
  /\ phase \in {[i2s |-> n, usb |-> Period("usb")] : n \in 1 .. MwsPeriod}
  /\ counter = 0 /\ running = FALSE /\ flags = {} /\ capture = [e \in Events |-> 0]
  /\ duration = [e \in Events |-> 0] /\ previous = duration
  /\ valid = [e \in Events |-> FALSE]
  /\ evflag = {} /\ irq = "idle" /\ age = 0 /\ lost = [e \in Events |-> 0]
  /\ pc = "idle" /\ halted = 0

-----------------------------------------------------------------------------
(* The buses, and the counter that captures their edges                    *)

Pending == flags # {} \/ irq # "idle"

Tick ==
  LET edges == {e \in Events : phase[e] = 1} IN
  /\ Pending => age < Latency
  /\ irq = "ack" => \A e \in edges : lost[e] < MaxLost
  /\ phase' = [e \in Events |-> IF e \in edges THEN Period(e) ELSE phase[e] - 1]
  /\ age' = IF Pending THEN age + 1 ELSE 0
  /\ IF running
       THEN /\ counter' = (counter + 1) % Wrap
            /\ flags' = flags \cup edges
            /\ capture' = [e \in Events |-> IF e \in edges THEN counter' ELSE capture[e]]
            /\ UNCHANGED halted
       ELSE /\ halted < MaxHalted /\ halted' = halted + 1
            /\ UNCHANGED <<counter, flags, capture>>
  /\ UNCHANGED <<highSpeed, running, timer, evflag, irq, lost, pc>>

-----------------------------------------------------------------------------
(* interruptHandler()                                                      *)

HandlerReads ==
  /\ irq = "idle" /\ flags # {}
  /\ evflag' = flags
  /\ irq' = "ack"
  /\ UNCHANGED <<highSpeed, phase, sct, timer, age, lost, pc, halted>>

(* Both flags are cleared, one that was raised since they were read too.   *)
HandlerAcks ==
  /\ irq = "ack"
  /\ flags' = {}
  /\ lost' = [e \in Events |-> IF e \in flags \ evflag THEN lost[e] + 1 ELSE lost[e]]
  /\ irq' = "i2s"
  /\ UNCHANGED <<highSpeed, phase, counter, running, capture, timer,
                 evflag, age, pc, halted>>

(* A duration is the difference of two captures in 16 bits.                *)
Measure(e) ==
  IF e \in evflag
    THEN /\ duration' = [duration EXCEPT ![e] =
              IF valid[e] THEN (capture[e] + Wrap - previous[e]) % Wrap ELSE @]
         /\ previous' = [previous EXCEPT ![e] = capture[e]]
         /\ valid' = [valid EXCEPT ![e] = TRUE]
         /\ lost' = [lost EXCEPT ![e] = 0]
    ELSE UNCHANGED <<timer, lost>>

HandlerMws ==
  /\ irq = "i2s"
  /\ Measure("i2s")
  /\ irq' = "usb"
  /\ UNCHANGED <<highSpeed, phase, sct, evflag, age, pc, halted>>

HandlerSof ==
  /\ irq = "usb"
  /\ Measure("usb")
  /\ irq' = "idle" /\ evflag' = {} /\ age' = 0
  /\ UNCHANGED <<highSpeed, phase, sct, pc, halted>>

-----------------------------------------------------------------------------
(* The program: tmrEnable(), tmrDisable() and sctSofGetRatio(), called one *)
(* at a time; the sample rate was set before the first ratio               *)

At(place, next) == pc = place /\ ~Pending /\ pc' = next

Unmoved == UNCHANGED <<highSpeed, phase, handler, lost, halted>>

(* Mutation: the captures of before are still taken for valid.             *)
EnableKeepsValid ==
  /\ At("idle", "idle") /\ ~running
  /\ duration' = [e \in Events |-> 0]
  /\ flags' = {} /\ running' = TRUE
  /\ Unmoved /\ UNCHANGED <<counter, capture, previous, valid>>

(* No event interrupts the statements, as the timer is halted until the    *)
(* last one.                                                               *)
Enable ==
  /\ At("idle", "idle") /\ ~running
  /\ duration' = [e \in Events |-> 0]
  /\ valid' = [e \in Events |-> FALSE]
  /\ flags' = {} /\ running' = TRUE
  /\ Unmoved /\ UNCHANGED <<counter, capture, previous>>

Disable ==
  /\ At("idle", "idle") /\ running
  /\ running' = FALSE
  /\ Unmoved /\ UNCHANGED <<counter, flags, capture, timer>>

(* Mutation: only the other duration is tested.                            *)
RatioTestMws ==
  /\ At("idle", "divide")
  /\ duration["i2s"] # 0
  /\ Unmoved /\ UNCHANGED <<sct, timer>>

(* The durations are tested, then the one of the bus is divided by, then   *)
(* it tells the speed of the bus.                                          *)
RatioTest ==
  /\ At("idle", "divide")
  /\ \A e \in Events : duration[e] # 0
  /\ Unmoved /\ UNCHANGED <<sct, timer>>

RatioSteps ==
  /\ At("divide", "speed") \/ At("speed", "idle")
  /\ Unmoved /\ UNCHANGED <<sct, timer>>

Program == Enable \/ Disable \/ RatioTest \/ RatioSteps

Next == Tick \/ HandlerReads \/ HandlerAcks \/ HandlerMws \/ HandlerSof \/ Program

Spec == Init /\ [][Next]_vars

-----------------------------------------------------------------------------
(* A measured duration is that of one period of its bus and of each edge   *)
(* that was lost before: no edge is read twice or late, and no duration is *)
(* of a part of a period, reaches over a time when the timer was disabled  *)
(* or is cut by the wrap of the counter.                                   *)
DurationsWhole ==
  \A e \in Events : duration[e] \in {n * Period(e) : n \in 0 .. MaxLost + 1}

(* sctSofGetRatio() never divides by zero although the handler may write   *)
(* the duration after it was tested.                                       *)
RatioDefined == pc = "divide" => duration["usb"] # 0

(* "In high-speed mode SOF duration is eight times lower": the duration    *)
(* tells the speed of the bus.                                             *)
HighSpeedTold == pc = "speed" /\ highSpeed => duration["usb"] < SofExpected \div 4
=============================================================================
