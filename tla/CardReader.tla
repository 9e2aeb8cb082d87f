------------------------------ MODULE CardReader ------------------------------
(***************************************************************************)
(* templates/usb_msc.jinja2: a card reader.  main() mounts a card on a     *)
(* timer event and gives it to the driver of the mass storage device as    *)
(* its unit; the driver serves the host from USB interrupts and reports    *)
(* changes through the same event; a failed unit is taken back and freed.  *)
(* Of the driver, which is part of halm, it is assumed that a unit fails   *)
(* when a transfer with its card fails, and takes no request afterwards.   *)
(***************************************************************************)
EXTENDS Naturals

VARIABLES
  slot,          \* "empty", "good" or "bad": a card that init() refuses
  live,          \* the card in the slot is the one that was mounted
  event,         \* event of main(), raised by the timer and the driver
  card,          \* card # nullptr: the object exists
  attached, failed, busy,   \* of the unit: a transfer with its card goes on
  cdLed,         \* lit: no card
  pc

unit == <<attached, failed, busy>>
vars == <<slot, live, event, card, unit, cdLed, pc>>

-----------------------------------------------------------------------------
(* The user, the timer, and the host through the interrupts of the driver  *)

Insert ==
  /\ slot = "empty" /\ slot' \in {"good", "bad"}
  /\ UNCHANGED <<live, event, card, unit, cdLed, pc>>

Remove ==
  /\ slot # "empty" /\ slot' = "empty"
  /\ live' = FALSE
  /\ UNCHANGED <<event, card, unit, cdLed, pc>>

TimerOverflow ==
  /\ event' = TRUE
  /\ UNCHANGED <<slot, live, card, unit, cdLed, pc>>

HostRequest ==
  /\ attached /\ ~failed /\ ~busy
  /\ busy' = TRUE
  /\ UNCHANGED <<slot, live, event, card, attached, failed, cdLed, pc>>

TransferEnds ==
  /\ busy /\ busy' = FALSE
  /\ failed' = ~live
  /\ event' = (event \/ ~live)
  /\ UNCHANGED <<slot, live, card, attached, cdLed, pc>>

-----------------------------------------------------------------------------
(* main()                                                                  *)

Init ==
  /\ slot \in {"empty", "good", "bad"} /\ live = FALSE
  /\ event = TRUE /\ card = FALSE
  /\ attached = FALSE /\ failed = FALSE /\ busy = FALSE
  /\ cdLed = TRUE /\ pc = "wait"

Wake ==
  /\ pc = "wait" /\ event
  /\ event' = FALSE
  /\ pc' = IF card THEN "check" ELSE "mount"
  /\ UNCHANGED <<slot, live, card, unit, cdLed>>

Mount ==
  /\ pc = "mount"
  /\ card' = (slot = "good") /\ live' = card'
  /\ cdLed' = ~card'
  /\ pc' = IF card' THEN "attach" ELSE "wait"
  /\ UNCHANGED <<slot, event, unit>>

Attach ==
  /\ pc = "attach"
  /\ attached' = TRUE /\ failed' = FALSE
  /\ pc' = "wait"
  /\ UNCHANGED <<slot, live, event, card, busy, cdLed>>

(* Mutation: every event of the driver ends the unit.                      *)
CheckAny ==
  /\ pc = "check"
  /\ pc' = "detach"
  /\ UNCHANGED <<slot, live, event, card, unit, cdLed>>

Check ==
  /\ pc = "check"
  /\ pc' = IF failed THEN "detach" ELSE "wait"
  /\ UNCHANGED <<slot, live, event, card, unit, cdLed>>

Detach ==
  /\ pc = "detach"
  /\ attached' = FALSE
  /\ pc' = "free"
  /\ UNCHANGED <<slot, live, event, card, failed, busy, cdLed>>

Free ==
  /\ pc = "free"
  /\ card' = FALSE /\ live' = FALSE
  /\ cdLed' = TRUE
  /\ pc' = "wait"
  /\ UNCHANGED <<slot, event, unit>>

Main == Wake \/ Mount \/ Attach \/ Check \/ Detach \/ Free

Next == Main \/ Insert \/ Remove \/ TimerOverflow \/ HostRequest \/ TransferEnds

SafeSpec == Init /\ [][Next]_vars

(* main() runs, the timer counts, a host asks its unit again and again and *)
(* every transfer ends.                                                    *)
Spec ==
  /\ SafeSpec
  /\ WF_vars(Main) /\ WF_vars(TimerOverflow)
  /\ WF_vars(HostRequest) /\ WF_vars(TransferEnds)

-----------------------------------------------------------------------------
(* The driver never holds or uses a card that main() has freed.            *)
UnitAlive == attached \/ busy => card

(* A good card that stays is served in the end, however often cards were   *)
(* exchanged before, and the LED is dark from then on; without a good card *)
(* nothing stays attached.                                                 *)
ReaderFollows ==
  /\ <>[](slot = "good") => <>[](attached /\ live /\ ~cdLed)
  /\ <>[](slot # "good") => <>[]~attached
=============================================================================
