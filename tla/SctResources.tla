----------------------------- MODULE SctResources -----------------------------
(***************************************************************************)
(* init() and deinit() of the two timers of one SCT of the lpc43xx board,  *)
(* sct_adc.c (kind "adc") and sct_sof.c (kind "sof"): the half, the        *)
(* events, the inputs and the outputs that a timer reserves one after the  *)
(* other, and the events that it routes to outputs and DMA requests.  Who  *)
(* holds what is kept by SctBase of the halm library.                      *)
(***************************************************************************)
EXTENDS Naturals, Sequences, Custody

CONSTANTS
  Configs,       \* sequence of the configurations of the timers: part, kind, and
                 \*   i2s, usb             inputs of a "sof" timer
                 \*   adc, dma             outputs of an "adc" timer
                 \*   request              TRUE: dma is a line to the DMA instead
  Events         \* of the SCT

ResourcesAssumption ==
  /\ Events # {}
  /\ \A n \in DOMAIN Configs : Configs[n].kind \in {"sof", "adc"}
                               /\ Configs[n].part \in {"LOW", "HIGH"}

Timers == DOMAIN Configs

(* What init() asks for after the half, in its order; "any" is an event.   *)
Needs(t) ==
  LET c == Configs[t] IN
  IF c.kind = "sof"
    THEN << "any", "any", c.i2s, c.usb >>
    ELSE << "any", "any", "any", c.adc >> \o IF c.request THEN <<>> ELSE << c.dma >>

(* Of three events the first starts a conversion, the second moves its     *)
(* result and ends the pulse of the first, the third ends that of the      *)
(* second; an output is routed as soon as it is reserved.                  *)
Routes(t, h) ==
  LET c == Configs[t]
      pulse(n, output) == {h[n], h[n + 1]} \X {output}
  IN IF c.kind = "sof" \/ Len(h) < 4 THEN {}
     ELSE pulse(1, c.adc) \cup IF c.request THEN {<<h[2], c.dma>>}
                               ELSE IF Len(h) = 5 THEN pulse(2, c.dma) ELSE {}

VARIABLES
  stage,         \* of each timer: "none", "init", "live" or "failed"
  held,          \* what its fields name, in the order of Needs
  taken,         \* what SctBase has as reserved
  routes         \* registers OUT and DMAREQ: events with the sinks they drive

vars == <<stage, held, taken, routes>>

Init ==
  /\ stage = [t \in Timers |-> "none"]
  /\ held = [t \in Timers |-> <<>>]
  /\ taken = {} /\ routes = {}

-----------------------------------------------------------------------------

Alone == \A t \in Timers : stage[t] # "init"

Begin(t) ==
  /\ Alone /\ stage[t] = "none" /\ Configs[t].part \notin taken
  /\ stage' = [stage EXCEPT ![t] = "init"]
  /\ taken' = taken \cup {Configs[t].part}
  /\ UNCHANGED <<held, routes>>

(* Another timer has the half: the object is not created.                  *)
Refused(t) ==
  /\ Alone /\ stage[t] = "none" /\ Configs[t].part \in taken
  /\ UNCHANGED vars

Wanted(t) == Needs(t)[Len(held[t]) + 1]
Available(t) == IF Wanted(t) = "any" THEN Events \ taken ELSE {Wanted(t)} \ taken

Reserve(t) ==
  /\ stage[t] = "init" /\ Len(held[t]) < Len(Needs(t))
  /\ \E r \in Available(t) :
       /\ held' = [held EXCEPT ![t] = Append(@, r)]
       /\ taken' = taken \cup {r}
       /\ routes' = routes \cup Routes(t, Append(held[t], r))
  /\ UNCHANGED stage

(* E_BUSY: init() returns without giving back what it has.                 *)
Fail(t) ==
  /\ stage[t] = "init" /\ Len(held[t]) < Len(Needs(t)) /\ Available(t) = {}
  /\ stage' = [stage EXCEPT ![t] = "failed"]
  /\ UNCHANGED <<held, taken, routes>>

Complete(t) ==
  /\ stage[t] = "init" /\ Len(held[t]) = Len(Needs(t))
  /\ stage' = [stage EXCEPT ![t] = "live"]
  /\ UNCHANGED <<held, taken, routes>>

(* Mutation: the request of the DMA stays enabled.                         *)
DeinitKeepsRequest(t) ==
  /\ Alone /\ stage[t] = "live"
  /\ stage' = [stage EXCEPT ![t] = "none"]
  /\ held' = [held EXCEPT ![t] = <<>>]
  /\ taken' = taken \ (InSeq(held[t]) \cup {Configs[t].part})
  /\ routes' = IF Configs[t].kind = "adc" /\ Configs[t].request THEN routes
               ELSE routes \ Routes(t, held[t])

Deinit(t) ==
  /\ Alone /\ stage[t] = "live"
  /\ stage' = [stage EXCEPT ![t] = "none"]
  /\ held' = [held EXCEPT ![t] = <<>>]
  /\ taken' = taken \ (InSeq(held[t]) \cup {Configs[t].part})
  /\ routes' = routes \ Routes(t, held[t])

Next ==
  \E t \in Timers : Begin(t) \/ Refused(t) \/ Reserve(t) \/ Fail(t) \/ Complete(t) \/ Deinit(t)

(* The program of a timer that was not created stops at an assertion.      *)
Stopped == \E t \in Timers : stage[t] = "failed" /\ UNCHANGED vars

Spec == Init /\ [][Next \/ Stopped]_vars

-----------------------------------------------------------------------------
Holding(t) ==
  IF stage[t] = "none" THEN {} ELSE InSeq(held[t]) \cup {Configs[t].part}

(* Whatever is reserved belongs to one timer, and an event drives an       *)
(* output or a request only for the timer it belongs to: what a deinit()   *)
(* forgot would be inherited by the next owner.  A timer whose init()      *)
(* failed keeps what it had reserved, as the code does: that is no leak    *)
(* to this property.                                                       *)
ReservedByOwners ==
  /\ taken = UNION {Holding(t) : t \in Timers}
  /\ \A s, t \in Timers : s # t => Holding(s) \cap Holding(t) = {}
  /\ routes = UNION {Routes(t, held[t]) : t \in Timers}
=============================================================================
