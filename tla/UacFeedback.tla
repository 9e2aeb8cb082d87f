----------------------------- MODULE UacFeedback -----------------------------
(***************************************************************************)
(* templates/usb_uac.jinja2 with UAC_FEEDBACK: every 100 ms the sound card *)
(* tells the host the ratio of its sample rate to the frames of the bus,   *)
(* which an SCT timer measures (SctSof).  The handler counts the frames    *)
(* and raises flags, the main loop serves them; what the loop does with    *)
(* its sound is in UacAudio, what else wakes it is the event Other here.   *)
(***************************************************************************)
EXTENDS Naturals

CONSTANTS
  Slots,         \* frames of a high-speed bus in a millisecond: 8
  Interval,      \* milliseconds between two ratios: 100
  Wrap           \* values of context.frame: 8000

FeedbackAssumption ==
  /\ {Slots, Interval, Wrap} \subseteq Nat \ {0}
  /\ Wrap % (Slots * Interval) = 0

VARIABLES
  highSpeed,     \* usbDevGetSpeed() = USB_HS
  frame,         \* context.frame
  startOfFrame, rateFeedback, updated,   \* of context.event and context.state
  measured,      \* the timer has a ratio, getFeedbackRatio() # 0
  since,         \* frames since a ratio was asked for at this speed, from 1
  last,          \* frames between the two before; 0: there were none
  pc

flags == <<startOfFrame, rateFeedback, updated>>
bus == <<highSpeed, frame, since, last>>
vars == <<bus, flags, measured, pc>>

(* Frames of the bus between two ratios.                                   *)
Gap == IF highSpeed THEN Slots * Interval ELSE Interval

Init ==
  /\ highSpeed \in BOOLEAN /\ frame = 0 /\ since = 0 /\ last = 0
  /\ startOfFrame = FALSE /\ rateFeedback = FALSE /\ updated = FALSE
  /\ measured = FALSE
  /\ pc = "wait"

-----------------------------------------------------------------------------
(* onUacEvent(), the bus and the timer                                     *)

(* Mutation: the counter counts one frame more before it starts again.     *)
CountedLate == IF frame = Wrap THEN 0 ELSE frame + 1

Counted == (frame + 1) % Wrap

Frame ==
  LET asked == Counted % Gap = 0
      slot == highSpeed => Counted % Slots = 0
  IN
  /\ frame' = Counted
  /\ IF asked THEN since' = 1 /\ last' = since
              ELSE since' = (IF since = 0 THEN 0 ELSE since + 1) /\ UNCHANGED last
  /\ rateFeedback' = (rateFeedback \/ asked)
  /\ startOfFrame' = (startOfFrame \/ slot)
  /\ updated' = (updated \/ slot)
  /\ UNCHANGED <<highSpeed, measured, pc>>

(* Data, a change of the rate or of the suspend state.                     *)
Other ==
  /\ updated' = TRUE
  /\ UNCHANGED <<bus, startOfFrame, rateFeedback, measured, pc>>

(* The host resets the bus and finds another speed.                        *)
Enumerate ==
  /\ highSpeed' = ~highSpeed
  /\ since' = 0 /\ last' = 0
  /\ UNCHANGED <<frame, flags, measured, pc>>

Measured ==
  /\ measured' = TRUE
  /\ UNCHANGED <<bus, flags, pc>>

-----------------------------------------------------------------------------
(* The main loop                                                           *)

At(place) == pc = place /\ UNCHANGED <<bus, measured>>

Wake ==
  /\ At("wait") /\ updated /\ pc' = "frame"
  /\ updated' = FALSE
  /\ UNCHANGED <<startOfFrame, rateFeedback>>

TestFrame ==
  /\ At("frame")
  /\ pc' = IF startOfFrame THEN "feedback" ELSE "wait"
  /\ UNCHANGED flags

TestFeedback ==
  /\ At("feedback")
  /\ pc' = IF rateFeedback THEN "ratio" ELSE "ackFrame"
  /\ UNCHANGED flags

GetRatio ==
  /\ At("ratio") /\ pc' = IF measured THEN "send" ELSE "ackFeedback"
  /\ UNCHANGED flags

SendRatio == At("send") /\ pc' = "ackFeedback" /\ UNCHANGED flags

AckFeedback ==
  /\ At("ackFeedback") /\ pc' = "ackFrame"
  /\ rateFeedback' = FALSE
  /\ UNCHANGED <<startOfFrame, updated>>

AckFrame ==
  /\ At("ackFrame") /\ pc' = "wait"
  /\ startOfFrame' = FALSE
  /\ UNCHANGED <<rateFeedback, updated>>

Main ==
  \/ Wake \/ TestFrame \/ TestFeedback \/ GetRatio \/ SendRatio
  \/ AckFeedback \/ AckFrame

Next == Main \/ Frame \/ Other \/ Enumerate \/ Measured

SafeSpec == Init /\ [][Next]_vars

(* The main loop runs and the bus goes on.                                 *)
Spec == SafeSpec /\ WF_vars(Main) /\ WF_vars(Frame)

-----------------------------------------------------------------------------
(* While the speed stays a ratio is asked for every 100 ms, also when the  *)
(* counter of the frames starts again.                                     *)
FeedbackRegular == since <= Gap /\ last \in {0, Gap}

(* A ratio that was measured is sent again and again on a bus that keeps   *)
(* its speed, although each flag is cleared some steps after it was read.  *)
FeedbackSent ==
  (<>[]measured /\ \E b \in BOOLEAN : <>[](highSpeed = b)) => []<>(pc = "send")
=============================================================================
