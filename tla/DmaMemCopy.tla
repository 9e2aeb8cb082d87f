----------------------------- MODULE DmaMemCopy -----------------------------
(***************************************************************************)
(* templates/dma_memcopy.jinja2: once per timer period a buffer is copied  *)
(* by DMA and compared with its source; the LED is lit while a copy is not *)
(* known to be good.  The DMA channel and the timer run beside main() and  *)
(* report through a flag each.  A round also ends when the timer overflows *)
(* before the copy has ended, which leaves the channel running.            *)
(***************************************************************************)
EXTENDS Naturals

CONSTANTS
  BufferLength,  \* BUFFER_LENGTH
  BufferLevel    \* BUFFER_LEVEL, the shortest copy

CopyAssumption ==
  /\ BufferLength \in Nat /\ BufferLevel \in Nat
  /\ 0 < BufferLevel /\ BufferLevel < BufferLength

VARIABLES
  length,
  dst,           \* the indices i with dstBuffer[i] = srcBuffer[i]
  size, copied,  \* entries the channel has to copy, and has copied; both 0: idle
  dmaEvent, timEvent,
  led, pc,
  faults         \* fixed: a copy may fail, or outlast the timer period

channel == <<size, copied>>
vars == <<length, dst, channel, dmaEvent, timEvent, led, pc>>

Idle == size = 0

(* verify(): entry 0 of the source is zero, like the cleared buffer.       *)
VerifyShort(n) == 0 .. n - 2 \subseteq dst   \* mutation: one entry less, no tail
Verify(n) == dst = 0 .. n - 1

-----------------------------------------------------------------------------
(* The channel copies entry after entry and reports the end.               *)
DmaCopy ==
  /\ copied < size
  /\ dst' = dst \cup {copied}
  /\ copied' = copied + 1
  /\ UNCHANGED <<length, size, dmaEvent, timEvent, led, pc>>

(* onMemoryCopied(): only a success is noted.                              *)
DmaEnd ==
  /\ ~Idle
  /\ \/ copied = size /\ dmaEvent' = TRUE
     \/ faults /\ UNCHANGED dmaEvent
  /\ size' = 0 /\ copied' = 0
  /\ UNCHANGED <<length, dst, timEvent, led, pc>>

(* onTimerOverflow()                                                       *)
TimerOverflow ==
  /\ faults \/ pc = "wait"
  /\ timEvent' = TRUE
  /\ UNCHANGED <<length, dst, channel, dmaEvent, led, pc>>

-----------------------------------------------------------------------------
Init ==
  /\ faults \in BOOLEAN
  /\ length = BufferLevel
  /\ dst = {}
  /\ size = 0 /\ copied = 0
  /\ dmaEvent = FALSE /\ timEvent = FALSE
  /\ led = FALSE
  /\ pc = "wait"

(* The LED is lit, dstBuffer cleared.                                      *)
MainWake ==
  /\ pc = "wait" /\ timEvent
  /\ timEvent' = FALSE
  /\ led' = TRUE
  /\ dst' = {0}
  /\ pc' = "start"
  /\ UNCHANGED <<length, channel, dmaEvent>>

(* A channel that is still busy refuses the new copy; nobody notices.      *)
MainStart ==
  /\ pc = "start"
  /\ IF Idle THEN size' = length /\ copied' = 0 ELSE UNCHANGED channel
  /\ pc' = "copy"
  /\ UNCHANGED <<length, dst, dmaEvent, timEvent, led>>

(* Mutation: the timer does not end the round.                             *)
MainCopiedUntimed ==
  /\ pc = "copy" /\ dmaEvent
  /\ pc' = "check"
  /\ UNCHANGED <<length, dst, channel, dmaEvent, timEvent, led>>

MainCopied ==
  /\ pc = "copy" /\ (dmaEvent \/ timEvent)
  /\ pc' = "check"
  /\ UNCHANGED <<length, dst, channel, dmaEvent, timEvent, led>>

(* Mutation: the flag of the completed copy stays set.                     *)
MainCheckSticky ==
  /\ pc = "check"
  /\ led' = (led /\ ~(dmaEvent /\ Verify(length)))
  /\ length' = IF length + 1 = BufferLength THEN BufferLevel ELSE length + 1
  /\ pc' = "wait"
  /\ UNCHANGED <<dst, channel, dmaEvent, timEvent>>

(* The end of the round: verify() and the next length.                     *)
MainCheck ==
  /\ pc = "check"
  /\ dmaEvent' = FALSE
  /\ led' = (led /\ ~(dmaEvent /\ Verify(length)))
  /\ length' = IF length + 1 = BufferLength THEN BufferLevel ELSE length + 1
  /\ pc' = "wait"
  /\ UNCHANGED <<dst, channel, timEvent>>

Main == MainWake \/ MainStart \/ MainCopied \/ MainCheck

Next == (Main \/ DmaCopy \/ DmaEnd \/ TimerOverflow) /\ UNCHANGED faults

SafeSpec == Init /\ [][Next]_<<vars, faults>>

(* The processor runs main(), the channel moves data, the timer counts.    *)
Spec ==
  /\ SafeSpec
  /\ WF_vars(Main) /\ WF_vars(DmaCopy) /\ WF_vars(DmaEnd)
  /\ WF_vars(TimerOverflow)

-----------------------------------------------------------------------------
TypeOK ==
  /\ length \in BufferLevel .. BufferLength - 1
  /\ dst \subseteq 0 .. BufferLength - 1
  /\ size \in {0} \cup BufferLevel .. BufferLength - 1
  /\ copied \in 0 .. size
  /\ {dmaEvent, timEvent, led, faults} \subseteq BOOLEAN
  /\ pc \in {"wait", "start", "copy", "check"}

(* The verdict of a round is that of its own copy: without faults every    *)
(* round passes.  A completion flag left from another round makes verify() *)
(* look at a copy in progress.                                             *)
RoundPasses == ~faults /\ pc = "wait" => ~led

(* With any faults the dark LED is never a false verdict: the buffer still *)
(* holds a whole copy, with nothing after its end.  Two copies at once, or *)
(* a copy that outlives the check, would break it.                         *)
DarkMeansCopied ==
  ~led /\ dst # {} =>
    \E n \in BufferLevel .. BufferLength - 1 : dst = 0 .. n - 1

(* No fault of the channel stops the program: there is always another      *)
(* round.                                                                  *)
NextRound == []<>(pc = "start")
=============================================================================
