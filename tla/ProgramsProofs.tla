---------------------------- MODULE ProgramsProofs ----------------------------
(***************************************************************************)
(* The programs side by side, for every value of their constants.  Each    *)
(* behaviour of Programs is a behaviour of every component, one of which   *)
(* moves; what is proved of a component holds of its part.                 *)
(***************************************************************************)
EXTENDS Programs, CustodyLemmas, TLAPS

(***************************************************************************)
(* CanNode: for every size of a group, timeout and queue a test is over    *)
(* before the timer starts the next one, whatever the bus does.            *)
(***************************************************************************)
USE CanAssumption DEF CanAssumption

(* Time that a test may have taken when it is in group g and the chrono    *)
(* timer shows c.                                                          *)
Budget(g, c) == (g - 1) * Timeout + c

(* The timer fires at elapsed = 0 and main() answers before time passes;   *)
(* from then on a test stays in the budget of its groups.                  *)
InTime ==
  /\ timerEvent => pc = "wait" /\ elapsed = 0
  /\ pc = "send" => elapsed <= Budget(group, chrono)
  /\ pc # "send" => group = 1

CanInv == TypeOK /\ InTime

-----------------------------------------------------------------------------
(* The budget of all groups is less than the period, a tick takes one unit *)
(* of it, and a new group has what is left of the one before.              *)
LEMMA BudgetBounds ==
  ASSUME NEW g \in 1..Groups, NEW c \in 0..Timeout
  PROVE  /\ Budget(g, c) \in Nat
         /\ Budget(g, c) + 1 < Period
         /\ Budget(g, c + 1) = Budget(g, c) + 1
         /\ Budget(g, c) <= Budget(g + 1, 0)
         /\ Budget(1, c) = c
<1>1. Timeout \in Nat /\ Timeout > 0 /\ g \in {1, 2, 3, 4, 5, 6}
  BY DEF Groups
<1>2. CASE g = 1
  BY <1>1, <1>2 DEF Budget, Period
<1>3. CASE g = 2
  BY <1>1, <1>3 DEF Budget, Period
<1>4. CASE g = 3
  BY <1>1, <1>4 DEF Budget, Period
<1>5. CASE g = 4
  BY <1>1, <1>5 DEF Budget, Period
<1>6. CASE g = 5
  BY <1>1, <1>6 DEF Budget, Period
<1>7. CASE g = 6
  BY <1>1, <1>7 DEF Budget, Period
<1>8. QED BY <1>1, <1>2, <1>3, <1>4, <1>5, <1>6, <1>7

LEMMA PeriodPositive == Period \in Nat /\ Period > 1
BY DEF Period

LEMMA InitCanInv == Init => CanInv
<1> SUFFICES ASSUME Init PROVE CanInv
  OBVIOUS
<1>1. FlagsOK
  BY DEF Init, FlagsOK
<1>2. CountsOK
  BY PeriodPositive DEF Init, CountsOK, Groups
<1>3. InTime
  BY DEF Init, InTime
<1>4. QED BY <1>1, <1>2, <1>3 DEF CanInv, TypeOK

-----------------------------------------------------------------------------
(* The steps in which no time passes keep the budget.                      *)
LEMMA MainCanInv ==
  ASSUME CanInv, Main
  PROVE  CanInv'
<1> USE DEF CanInv
<1>1. CASE MainWake
  <2>1. TypeOK'
    <3>1. FlagsOK'
      BY <1>1 DEF MainWake, TypeOK, FlagsOK
    <3>2. CountsOK'
      BY <1>1, PeriodPositive DEF MainWake, TypeOK, CountsOK
    <3>3. QED BY <3>1, <3>2 DEF TypeOK
  <2>2. group = 1 /\ group' = 1 /\ elapsed' = elapsed /\ timerEvent' = FALSE
    BY <1>1 DEF MainWake, InTime
  <2>3. pc' = "send" => elapsed = 0 /\ chrono' = 0
    BY <1>1 DEF MainWake, InTime
  <2>4. Budget(1, 0) = 0
    BY BudgetBounds DEF Groups
  <2>5. InTime'
    BY <2>2, <2>3, <2>4 DEF InTime
  <2>6. QED BY <2>1, <2>5
<1>2. CASE SendMessage
  <2>1. TypeOK'
    <3>1. FlagsOK'
      BY <1>2 DEF SendMessage, TypeOK, FlagsOK, time
    <3>2. CountsOK'
      BY <1>2, PeriodPositive DEF SendMessage, TypeOK, CountsOK, time
    <3>3. QED BY <3>1, <3>2 DEF TypeOK
  <2>2. InTime'
    BY <1>2 DEF SendMessage, InTime, time
  <2>3. QED BY <2>1, <2>2
<1>3. CASE NextGroup
  <2>1. TypeOK'
    <3>1. FlagsOK'
      BY <1>3 DEF NextGroup, TypeOK, FlagsOK
    <3>2. CountsOK'
      BY <1>3, PeriodPositive DEF NextGroup, TypeOK, CountsOK, Groups
    <3>3. QED BY <3>1, <3>2 DEF TypeOK
  <2>2. group \in 1..Groups /\ chrono \in 0..Timeout /\ elapsed \in Nat
    BY PeriodPositive DEF TypeOK, CountsOK
  <2>3. elapsed <= Budget(group, chrono) /\ ~timerEvent
    BY <1>3 DEF NextGroup, InTime
  <2>4. elapsed <= Budget(group + 1, 0)
    <3>1. Budget(group, chrono) \in Nat /\ Budget(group, chrono) <= Budget(group + 1, 0)
      BY <2>2, BudgetBounds
    <3>2. Budget(group + 1, 0) \in Nat
      BY <2>2 DEF Budget, Groups
    <3>3. QED BY <2>2, <2>3, <3>1, <3>2
  <2>5. InTime'
    BY <1>3, <2>3, <2>4 DEF NextGroup, InTime
  <2>6. QED BY <2>1, <2>5
<1>4. CASE MainRead
  <2>1. TypeOK'
    <3>1. FlagsOK'
      BY <1>4 DEF MainRead, TypeOK, FlagsOK, time
    <3>2. CountsOK'
      BY <1>4, PeriodPositive DEF MainRead, TypeOK, CountsOK, time
    <3>3. QED BY <3>1, <3>2 DEF TypeOK
  <2>2. InTime'
    BY <1>4 DEF MainRead, InTime, time
  <2>3. QED BY <2>1, <2>2
<1>5. QED BY <1>1, <1>2, <1>3, <1>4 DEF Main

LEMMA BusCanInv ==
  ASSUME CanInv, BusTake \/ BusDeliver
  PROVE  CanInv'
<1>1. TypeOK'
  <2>1. FlagsOK'
    BY DEF CanInv, BusTake, BusDeliver, TypeOK, FlagsOK, time
  <2>2. CountsOK'
    BY PeriodPositive DEF CanInv, BusTake, BusDeliver, TypeOK, CountsOK, time
  <2>3. QED BY <2>1, <2>2 DEF TypeOK
<1>2. InTime'
  BY DEF CanInv, BusTake, BusDeliver, InTime, time
<1>3. QED BY <1>1, <1>2 DEF CanInv

(* A tick in a test takes one unit of the budget, which ends before the    *)
(* period does; a tick in the wait may fire the timer.                     *)
LEMMA TickCanInv ==
  ASSUME CanInv, Tick
  PROVE  CanInv'
<1> USE DEF CanInv
<1>1. /\ elapsed \in Nat /\ elapsed < Period /\ chrono \in 0..Timeout
      /\ group \in 1..Groups /\ Period \in Nat /\ Period > 1
  BY PeriodPositive DEF TypeOK, CountsOK
<1>2. /\ UNCHANGED <<queued, unread, canEvent, pc, group, i>>
      /\ elapsed' = IF elapsed + 1 < Period THEN elapsed + 1 ELSE 0
      /\ timerEvent' = (timerEvent \/ elapsed' = 0)
      /\ chrono' = IF chrono < Timeout THEN chrono + 1 ELSE chrono
      /\ took' = FALSE
  BY DEF Tick
<1>3. TypeOK'
  <2>1. FlagsOK'
    BY <1>2 DEF TypeOK, FlagsOK
  <2>2. CountsOK'
    BY <1>1, <1>2 DEF TypeOK, CountsOK
  <2>3. QED BY <2>1, <2>2 DEF TypeOK
<1>4. CASE Retrying
  <2>1. pc = "send" /\ chrono < Timeout
    BY <1>1, <1>4 DEF Retrying, GroupEnds, TypeOK, CountsOK
  <2>2. elapsed <= Budget(group, chrono) /\ ~timerEvent
    BY <2>1 DEF InTime
  <2>3. /\ Budget(group, chrono) \in Nat
        /\ Budget(group, chrono) + 1 < Period
        /\ Budget(group, chrono + 1) = Budget(group, chrono) + 1
    BY <1>1, BudgetBounds
  <2>4. elapsed' = elapsed + 1 /\ chrono' = chrono + 1
    BY <1>1, <1>2, <2>1, <2>2, <2>3
  <2>5. elapsed' <= Budget(group, chrono') /\ elapsed' # 0
    BY <1>1, <2>2, <2>3, <2>4
  <2>6. QED BY <1>2, <1>3, <2>1, <2>2, <2>5 DEF InTime
<1>5. CASE Waiting
  BY <1>2, <1>3, <1>5 DEF Waiting, InTime
<1>6. QED BY <1>4, <1>5 DEF Tick

LEMMA CanInvAlways == SafeSpec => []CanInv
<1>1. CanInv /\ [Next]_<<vars, busFree>> => CanInv'
  <2> SUFFICES ASSUME CanInv, [Next]_<<vars, busFree>> PROVE CanInv'
    OBVIOUS
  <2>1. CASE UNCHANGED <<vars, busFree>>
    BY <2>1 DEF vars, time, CanInv, TypeOK, FlagsOK, CountsOK, InTime
  <2>2. QED BY <2>1, MainCanInv, BusCanInv, TickCanInv DEF Next
<1>2. QED BY <1>1, InitCanInv, PTL DEF SafeSpec

-----------------------------------------------------------------------------
(* On a free bus each tick of a group has taken a message, and the queue   *)
(* was no longer than Buffers when the group began: chrono is ahead of the *)
(* messages of the group by one at most.                                   *)
GroupPaid ==
  /\ pc # "send" => i = 0
  /\ busFree /\ pc = "send" =>
       chrono + queued + (IF took THEN 1 ELSE 0) <= Buffers + 1 + i

LEMMA StillPaid ==
  ASSUME NEW c \in Nat, NEW d \in Nat, NEW q \in Nat, NEW b \in Nat, NEW k \in Nat,
         d <= c + 1, c + q + 1 <= b + 1 + k
  PROVE  d + q + 0 <= b + 1 + k
OBVIOUS

LEMMA GroupPaidStep ==
  ASSUME CanInv, GroupPaid, [Next]_<<vars, busFree>>
  PROVE  GroupPaid'
<1>1. /\ queued \in 0..Buffers /\ chrono \in 0..Timeout /\ i \in 0..GroupSize
      /\ took \in BOOLEAN /\ Buffers \in Nat \ {0} /\ GroupSize \in Nat \ {0} /\ busFree' = busFree
  BY DEF CanInv, TypeOK, CountsOK, FlagsOK, Next
<1> USE <1>1
<1>2. CASE MainWake
  BY <1>2 DEF MainWake, GroupPaid
<1>3. CASE SendMessage
  BY <1>3 DEF SendMessage, GroupPaid, time
<1>4. CASE NextGroup
  BY <1>4 DEF NextGroup, GroupPaid
<1>5. CASE MainRead
  BY <1>5 DEF MainRead, GroupPaid, time
<1>6. CASE BusTake
  BY <1>6 DEF BusTake, GroupPaid
<1>7. CASE BusDeliver
  BY <1>7 DEF BusDeliver, GroupPaid, time
<1>8. CASE Tick
  <2>1. CASE busFree /\ pc = "send"
    <3>1. /\ queued = Buffers /\ took /\ took' = FALSE /\ chrono' <= chrono + 1
          /\ UNCHANGED <<queued, pc, i>>
      BY <1>8, <2>1 DEF Tick, Retrying, Waiting
    <3>2. chrono \in Nat /\ chrono' \in Nat
      BY <1>8 DEF Tick, CanAssumption
    <3>3. chrono + queued + 1 <= Buffers + 1 + i
      BY <2>1, <3>1 DEF GroupPaid
    <3>4. chrono' <= chrono + 1
      BY <3>1
    <3>5. queued \in Nat /\ i \in Nat
      OBVIOUS
    <3>6. chrono' + queued + 0 <= Buffers + 1 + i
      BY <3>2, <3>3, <3>4, <3>5, StillPaid
    <3> QED BY <2>1, <3>1, <3>6 DEF GroupPaid
  <2>2. CASE ~(busFree /\ pc = "send")
    BY <1>8, <2>2 DEF Tick, GroupPaid
  <2> QED BY <2>1, <2>2
<1>9. CASE UNCHANGED <<vars, busFree>>
  BY <1>9 DEF vars, time, GroupPaid
<1> QED BY <1>2, <1>3, <1>4, <1>5, <1>6, <1>7, <1>8, <1>9 DEF Next, Main

LEMMA GroupPaidAlways == SafeSpec => []GroupPaid
<1>1. Init => GroupPaid
  BY DEF Init, GroupPaid
<1> QED BY CanInvAlways, <1>1, GroupPaidStep, PTL DEF SafeSpec

HIDE CanAssumption DEF CanAssumption

-----------------------------------------------------------------------------
(* A step is one of the program which, with its fixed choices, and leaves  *)
(* the others where they are.                                              *)
LEMMA OneRuns ==
  ASSUME [NextAll]_allVars
  PROVE  /\ Next \/ UNCHANGED canVars
         /\ (Copy!Next /\ UNCHANGED faults) \/ UNCHANGED copyVars
         /\ Echo!Next \/ UNCHANGED echoVars
         /\ (Card!Next /\ UNCHANGED cardFaults) \/ UNCHANGED cardVars
         /\ (which = "chip" /\ Chip!Next) \/ (which = "emc" /\ Emc!Driver)
              \/ (which = "emc" /\ Emc!Test) \/ UNCHANGED chipVars
         /\ (which = "emc" /\ (Emc!Test \/ Emc!Driver)) \/ UNCHANGED testVars
         /\ (Sof!Next /\ UNCHANGED highSpeed) \/ UNCHANGED sofVars
         /\ Sct!Next \/ Sct!Stopped \/ UNCHANGED sctVars
         /\ Reader!Next \/ UNCHANGED readerVars
         /\ Serial!Next \/ UNCHANGED serialVars
         /\ Eth!Next \/ UNCHANGED ethVars
         /\ Feedback!Next \/ UNCHANGED fbVars
         /\ UNCHANGED which
BY DEF NextAll, Runs, Keep, CanStep, CopyStep, EchoStep, CardStep, ChipStep, EmcStep,
       SofStep, SctStep, ReaderStep, SerialStep, EthStep, FeedbackStep, EmcStopped,
       allVars

LEMMA CardRuns == SpecAll => Card!SafeSpec
<1>1. InitAll => Card!Init
  BY DEF InitAll
<1>2. [NextAll]_allVars => [Card!Next]_<<Card!vars, cardFaults>>
  <2> SUFFICES ASSUME [NextAll]_allVars PROVE [Card!Next]_<<Card!vars, cardFaults>>
    OBVIOUS
  <2>1. CASE UNCHANGED cardVars
    BY <2>1 DEF cardVars, Card!vars, Card!slot, Card!transfer
  <2> QED BY <2>1, OneRuns
<1> QED BY <1>1, <1>2, PTL DEF SpecAll, Card!SafeSpec

LEMMA CanRuns == SpecAll => SafeSpec
<1>1. InitAll => Init
  BY DEF InitAll
<1>2. [NextAll]_allVars => [Next]_<<vars, busFree>>
  <2> SUFFICES ASSUME [NextAll]_allVars PROVE [Next]_<<vars, busFree>>
    OBVIOUS
  <2>1. CASE UNCHANGED canVars
    BY <2>1 DEF canVars
  <2> QED BY <2>1, OneRuns
<1> QED BY <1>1, <1>2, PTL DEF SpecAll, SafeSpec

LEMMA SctRuns == SpecAll => Sct!Spec
<1>1. InitAll => Sct!Init
  BY DEF InitAll
<1>2. [NextAll]_allVars => [Sct!Next \/ Sct!Stopped]_Sct!vars
  <2> SUFFICES ASSUME [NextAll]_allVars PROVE [Sct!Next \/ Sct!Stopped]_Sct!vars
    OBVIOUS
  <2>1. CASE UNCHANGED sctVars
    BY <2>1 DEF sctVars, Sct!vars
  <2> QED BY <2>1, OneRuns
<1> QED BY <1>1, <1>2, PTL DEF SpecAll, Sct!Spec

LEMMA ReaderRuns == SpecAll => Reader!SafeSpec
<1>1. InitAll => Reader!Init
  BY DEF InitAll
<1>2. [NextAll]_allVars => [Reader!Next]_Reader!vars
  <2> SUFFICES ASSUME [NextAll]_allVars PROVE [Reader!Next]_Reader!vars
    OBVIOUS
  <2>1. CASE UNCHANGED readerVars
    BY <2>1 DEF readerVars, Reader!vars, Reader!unit
  <2> QED BY <2>1, OneRuns
<1> QED BY <1>1, <1>2, PTL DEF SpecAll, Reader!SafeSpec

LEMMA SerialRuns == SpecAll => Serial!Spec
<1>1. InitAll => Serial!Init
  BY DEF InitAll
<1>2. [NextAll]_allVars => [Serial!Next]_Serial!vars
  <2> SUFFICES ASSUME [NextAll]_allVars PROVE [Serial!Next]_Serial!vars
    OBVIOUS
  <2>1. CASE UNCHANGED serialVars
    BY <2>1 DEF serialVars, Serial!vars, Serial!hosts
  <2> QED BY <2>1, OneRuns
<1> QED BY <1>1, <1>2, PTL DEF SpecAll, Serial!Spec

-----------------------------------------------------------------------------
(* CanNode: no test is still going on when the timer starts the next one,  *)
(* on any bus: six timeouts of a second fit in the period of ten.          *)
THEOREM TestsInPeriod == SpecAll => []PeriodKept
<1>1. CanInv => PeriodKept
  BY DEF CanInv, InTime, PeriodKept
<1> QED BY CanRuns, CanInvAlways, <1>1, PTL

(* CanNode: on a bus that takes a message in every tick no group is given  *)
(* up before its end, when its timeout is longer than it has messages.     *)
THEOREM GroupsWhole == GroupSize < Timeout /\ SpecAll => GroupsComplete
<1>1. ASSUME GroupSize < Timeout, CanInv, GroupPaid, [Next]_<<vars, busFree>>
      PROVE  [busFree /\ pc = "send" /\ i' < i => i = GroupSize]_vars
  <2> SUFFICES ASSUME busFree, pc = "send", i' < i PROVE i = GroupSize
    OBVIOUS
  <2>1. /\ queued \in 0..Buffers /\ chrono \in 0..Timeout /\ i \in 0..GroupSize
        /\ Buffers \in Nat /\ GroupSize \in Nat /\ Timeout \in Nat
    BY <1>1, CanAssumption DEF CanInv, TypeOK, CountsOK, CanAssumption
  <2>2. GroupEnds
    <3>1. i' # i /\ i' # i + 1
      BY <2>1
    <3>2. NextGroup
      BY <1>1, <3>1 DEF Next, Main, MainWake, SendMessage, MainRead, BusTake, BusDeliver,
                        Tick, vars, time
    <3> QED BY <3>2 DEF NextGroup
  <2>3. CASE queued = Buffers /\ chrono = Timeout
    BY <1>1, <2>1, <2>3 DEF GroupPaid
  <2> QED BY <2>2, <2>3 DEF GroupEnds
<1>2. (GroupSize < Timeout) => [](GroupSize < Timeout)
  <2>1. (GroupSize < Timeout) => (GroupSize < Timeout)'
    OBVIOUS
  <2> QED BY <2>1, PTL
<1> QED BY CanRuns, CanInvAlways, GroupPaidAlways, <1>1, <1>2, PTL DEF SafeSpec, GroupsComplete

-----------------------------------------------------------------------------
(* SctResources                                                            *)

Wishes(t) == {Sct!Needs(t)[n] : n \in 1..Len(Sct!Needs(t))}
Resources == SctEvents \cup UNION {Wishes(t) : t \in Sct!Timers}

HeldTypes ==
  /\ sctStage \in [Sct!Timers -> {"none", "init", "live", "failed"}]
  /\ held \in [Sct!Timers -> Seq(Resources)]

(* A timer that does not exist holds nothing.                              *)
NoneHeld == \A t \in Sct!Timers : sctStage[t] = "none" => held[t] = <<>>

ResourcesInv == HeldTypes /\ NoneHeld /\ Sct!ReservedByOwners

LEMMA SctSequences == ASSUME NEW s PROVE Sct!InSeq(s) = InSeq(s)
BY DEF Sct!InSeq, InSeq

(* Five resources at most; four when the result is moved on a request.     *)
LEMMA NeedsLength ==
  ASSUME NEW t \in Sct!Timers
  PROVE  /\ Len(Sct!Needs(t)) \in Nat /\ Len(Sct!Needs(t)) <= 5
         /\ SctConfigs[t].kind # "sof" /\ SctConfigs[t].request => Len(Sct!Needs(t)) = 4
<1> DEFINE c == SctConfigs[t]
           first == << "any", "any", "any", c.adc >>
           rest == IF c.request THEN <<>> ELSE << c.dma >>
           S == {"any", c.adc, c.dma}
<1>1. CASE c.kind = "sof"
  BY <1>1 DEF Sct!Needs
<1>2. CASE c.kind # "sof"
  <2>1. Sct!Needs(t) = first \o rest
    BY <1>2 DEF Sct!Needs
  <2>2. first \in Seq(S) /\ Len(first) = 4
    OBVIOUS
  <2>3. rest \in Seq(S) /\ (c.request => Len(rest) = 0) /\ Len(rest) <= 1
    <3>1. CASE c.request
      <4>1. rest = <<>>
        BY <3>1
      <4> QED BY <4>1
    <3>2. CASE ~c.request
      <4>1. rest = << c.dma >>
        BY <3>2
      <4>2. << c.dma >> \in Seq(S) /\ Len(<< c.dma >>) = 1
        OBVIOUS
      <4> QED BY <3>2, <4>1, <4>2
    <3> QED BY <3>1, <3>2
  <2> HIDE DEF first, rest, S
  <2>4. Len(first \o rest) = Len(first) + Len(rest)
    BY <2>2, <2>3, ConcatProperties
  <2> QED BY <2>1, <2>2, <2>3, <2>4, LenProperties
<1> QED BY <1>1, <1>2

(* What is routed is an event of the sequence.                             *)
LEMMA RoutesHeld ==
  ASSUME NEW t \in Sct!Timers, NEW h \in Seq(Resources), NEW x \in Sct!Routes(t, h)
  PROVE  x[1] \in InSeq(h)
<1>1. Len(h) \in Nat /\ Len(h) >= 4
  BY LenProperties DEF Sct!Routes
<1>2. {h[1], h[2], h[3]} \subseteq InSeq(h)
  BY <1>1 DEF InSeq
<1>3. x[1] \in {h[1], h[2], h[3]}
  BY DEF Sct!Routes
<1> QED BY <1>2, <1>3

(* Reserving one more takes no route away.                                 *)
LEMMA RoutesGrow ==
  ASSUME NEW t \in Sct!Timers, NEW h \in Seq(Resources), NEW r \in Resources,
         Len(h) < Len(Sct!Needs(t))
  PROVE  Sct!Routes(t, h) \subseteq Sct!Routes(t, Append(h, r))
<1> DEFINE g == Append(h, r)
<1>1. Len(h) \in Nat /\ Len(g) = Len(h) + 1 /\ \A n \in 1..Len(h) : g[n] = h[n]
  BY AppendProperties, LenProperties
<1>2. CASE SctConfigs[t].kind = "sof" \/ Len(h) < 4
  BY <1>2 DEF Sct!Routes
<1>3. CASE SctConfigs[t].kind # "sof" /\ Len(h) >= 4
  <2>1. Len(h) = 4 /\ ~SctConfigs[t].request
    <3> DEFINE n == Len(Sct!Needs(t))
               k == Len(h)
    <3>1. n \in Nat /\ n <= 5 /\ (SctConfigs[t].request => n = 4)
      BY <1>3, NeedsLength
    <3>2. k \in Nat /\ k >= 4 /\ k < n
      BY <1>1, <1>3
    <3> HIDE DEF n, k
    <3>3. k = 4 /\ n # 4
      BY ONLY <3>1, <3>2
    <3>4. Len(h) = 4
      BY <3>3 DEF k
    <3> QED BY <3>1, <3>3, <3>4
  <2>2. Len(g) = 5 /\ g[1] = h[1] /\ g[2] = h[2]
    BY <1>1, <2>1
  <2> HIDE DEF g
  <2>3. Sct!Routes(t, h) = {h[1], h[1 + 1]} \X {SctConfigs[t].adc}
    BY <1>3, <2>1 DEF Sct!Routes
  <2>4. {g[1], g[1 + 1]} \X {SctConfigs[t].adc} \subseteq Sct!Routes(t, g)
    BY <1>3, <2>1, <2>2 DEF Sct!Routes
  <2> QED BY <2>2, <2>3, <2>4 DEF g
<1> QED BY <1>1, <1>2, <1>3

LEMMA ResourcesInvInit == Sct!Init => ResourcesInv
<1> SUFFICES ASSUME Sct!Init PROVE ResourcesInv
  OBVIOUS
<1>1. \A t \in Sct!Timers : sctStage[t] = "none" /\ held[t] = <<>>
  BY DEF Sct!Init
<1>2. HeldTypes
  BY DEF Sct!Init, HeldTypes
<1>3. \A t \in Sct!Timers : Sct!Holding(t) = {} /\ Sct!Routes(t, held[t]) = {}
  BY <1>1 DEF Sct!Holding, Sct!Routes
<1>4. Sct!ReservedByOwners
  BY <1>3 DEF Sct!Init, Sct!ReservedByOwners
<1> QED BY <1>1, <1>2, <1>4 DEF ResourcesInv, NoneHeld

(* A timer that leaves the others' parts alone keeps the invariant if what *)
(* it adds was free and what it drops was its own.                         *)
LEMMA OneChanges ==
  ASSUME Sct!ReservedByOwners, NEW t \in Sct!Timers,
         \A s \in Sct!Timers \ {t} : sctStage'[s] = sctStage[s] /\ held'[s] = held[s],
         taken' = (taken \ Sct!Holding(t)) \cup Sct!Holding(t)',
         routes' = (routes \ Sct!Routes(t, held[t])) \cup Sct!Routes(t, held'[t]),
         \A s \in Sct!Timers \ {t} : /\ Sct!Holding(t)' \cap Sct!Holding(s) = {}
                                 /\ Sct!Routes(t, held[t]) \cap Sct!Routes(s, held[s]) = {}
  PROVE  Sct!ReservedByOwners'
<1>1. \A s \in Sct!Timers \ {t} : /\ Sct!Holding(s)' = Sct!Holding(s)
                              /\ Sct!Routes(s, held'[s]) = Sct!Routes(s, held[s])
  BY DEF Sct!Holding
<1>2. taken' = UNION {Sct!Holding(s)' : s \in Sct!Timers}
  <2>1. taken = UNION {Sct!Holding(s) : s \in Sct!Timers}
    BY DEF Sct!ReservedByOwners
  <2>2. \A s \in Sct!Timers \ {t} : Sct!Holding(t) \cap Sct!Holding(s) = {}
    BY DEF Sct!ReservedByOwners
  <2>3. \A x : x \in taken' <=> \E s \in Sct!Timers : x \in Sct!Holding(s)'
    BY <1>1, <2>1, <2>2
  <2> QED BY <2>3
<1>3. \A r, s \in Sct!Timers : r # s => Sct!Holding(r)' \cap Sct!Holding(s)' = {}
  BY <1>1 DEF Sct!ReservedByOwners
<1>4. routes' = UNION {Sct!Routes(s, held'[s]) : s \in Sct!Timers}
  <2>1. routes = UNION {Sct!Routes(s, held[s]) : s \in Sct!Timers}
    BY DEF Sct!ReservedByOwners
  <2>2. \A x : x \in routes' <=> \E s \in Sct!Timers : x \in Sct!Routes(s, held'[s])
    BY <1>1, <2>1
  <2> QED BY <2>2
<1>5. Sct!Timers' = Sct!Timers /\ \A s \in Sct!Timers : Sct!Routes(s, held[s])' = Sct!Routes(s, held'[s])
  BY DEF Sct!Timers, Sct!Routes
<1> QED BY <1>2, <1>3, <1>4, <1>5 DEF Sct!ReservedByOwners
(* What is in the fields of a timer is part of what it holds.              *)
LEMMA HeldIsHeld ==
  ASSUME ResourcesInv, NEW t \in Sct!Timers
  PROVE  /\ held[t] \in Seq(Resources)
         /\ InSeq(held[t]) \subseteq Sct!Holding(t) /\ Sct!Holding(t) \subseteq taken
<1>1. held[t] \in Seq(Resources) /\ (sctStage[t] = "none" => held[t] = <<>>)
  BY DEF ResourcesInv, HeldTypes, NoneHeld
<1>2. Sct!Holding(t) \subseteq taken
  BY DEF ResourcesInv, Sct!ReservedByOwners
<1>3. CASE sctStage[t] = "none"
  BY <1>1, <1>2, <1>3, EmptyCustody, SctSequences DEF Sct!Holding
<1>4. CASE sctStage[t] # "none"
  BY <1>1, <1>2, <1>4, SctSequences DEF Sct!Holding
<1> QED BY <1>3, <1>4

(* No route belongs to two timers.                                         *)
LEMMA RoutesApart ==
  ASSUME ResourcesInv, NEW s \in Sct!Timers, NEW t \in Sct!Timers, s # t
  PROVE  Sct!Routes(t, held[t]) \cap Sct!Routes(s, held[s]) = {}
<1> SUFFICES ASSUME NEW x \in Sct!Routes(t, held[t]), x \in Sct!Routes(s, held[s]) PROVE FALSE
  OBVIOUS
<1>1. x[1] \in InSeq(held[t]) /\ x[1] \in InSeq(held[s])
  BY HeldIsHeld, RoutesHeld
<1>2. x[1] \in Sct!Holding(t) \cap Sct!Holding(s)
  BY <1>1, HeldIsHeld
<1> QED BY <1>2 DEF ResourcesInv, Sct!ReservedByOwners

LEMMA BeginKeeps ==
  ASSUME ResourcesInv, NEW t \in Sct!Timers, Sct!Begin(t)
  PROVE  ResourcesInv'
<1>1. /\ HeldTypes /\ NoneHeld /\ Sct!ReservedByOwners
      /\ sctStage[t] = "none" /\ SctConfigs[t].part \notin taken
      /\ sctStage' = [sctStage EXCEPT ![t] = "init"] /\ held' = held /\ routes' = routes
      /\ taken' = taken \cup {SctConfigs[t].part}
  BY DEF ResourcesInv, Sct!Begin
<1>2. HeldTypes' /\ NoneHeld' /\ sctStage'[t] = "init"
  BY <1>1 DEF HeldTypes, NoneHeld
<1>3. Sct!Holding(t) = {} /\ held[t] = <<>> /\ Sct!Holding(t)' = {SctConfigs[t].part}
  BY <1>1, <1>2, EmptyCustody, SctSequences DEF Sct!Holding, NoneHeld
<1>4. Sct!Routes(t, held[t]) = {}
  BY <1>3 DEF Sct!Routes
<1>5. \A s \in Sct!Timers \ {t} : /\ sctStage'[s] = sctStage[s] /\ held'[s] = held[s]
                              /\ Sct!Holding(t)' \cap Sct!Holding(s) = {}
  BY <1>1, <1>3, HeldIsHeld DEF HeldTypes
<1>6. Sct!ReservedByOwners'
  BY <1>1, <1>3, <1>4, <1>5, RoutesApart, OneChanges
<1> QED BY <1>2, <1>6 DEF ResourcesInv

LEMMA ReserveKeeps ==
  ASSUME ResourcesInv, NEW t \in Sct!Timers, Sct!Reserve(t)
  PROVE  ResourcesInv'
<1>1. PICK r \in Sct!Available(t) :
        /\ held' = [held EXCEPT ![t] = Append(@, r)]
        /\ taken' = taken \cup {r}
        /\ routes' = routes \cup Sct!Routes(t, Append(held[t], r))
  BY DEF Sct!Reserve
<1>2. /\ HeldTypes /\ NoneHeld /\ Sct!ReservedByOwners
      /\ sctStage[t] = "init" /\ sctStage' = sctStage /\ Len(held[t]) < Len(Sct!Needs(t))
  BY DEF ResourcesInv, Sct!Reserve
<1>3. held[t] \in Seq(Resources) /\ Len(held[t]) + 1 \in 1..Len(Sct!Needs(t))
  BY <1>2, HeldIsHeld, NeedsLength, LenProperties
<1>4. r \in Resources /\ r \notin taken
  BY <1>3 DEF Sct!Available, Sct!Wanted, Resources, Wishes
<1>5. held'[t] = Append(held[t], r) /\ held'[t] \in Seq(Resources)
  BY <1>1, <1>2, <1>3, <1>4, AppendCustody DEF HeldTypes
<1>6. HeldTypes' /\ NoneHeld'
  BY <1>1, <1>2, <1>5 DEF HeldTypes, NoneHeld
<1>7. Sct!Holding(t)' = Sct!Holding(t) \cup {r}
  BY <1>2, <1>3, <1>4, <1>5, AppendCustody, SctSequences DEF Sct!Holding
<1>8. Sct!Holding(t) \subseteq taken
  BY HeldIsHeld
<1>9. Sct!Routes(t, held[t]) \subseteq Sct!Routes(t, held'[t])
  BY <1>2, <1>3, <1>4, <1>5, RoutesGrow
<1>10. Sct!Routes(t, held[t]) \subseteq routes
  BY <1>2 DEF Sct!ReservedByOwners
<1>11. \A s \in Sct!Timers \ {t} : /\ sctStage'[s] = sctStage[s] /\ held'[s] = held[s]
                               /\ Sct!Holding(t)' \cap Sct!Holding(s) = {}
  <2> SUFFICES ASSUME NEW s \in Sct!Timers, s # t
               PROVE  /\ sctStage'[s] = sctStage[s] /\ held'[s] = held[s]
                      /\ Sct!Holding(t)' \cap Sct!Holding(s) = {}
    OBVIOUS
  <2>1. Sct!Holding(t) \cap Sct!Holding(s) = {} /\ r \notin Sct!Holding(s)
    BY <1>2, <1>4, HeldIsHeld DEF Sct!ReservedByOwners
  <2> QED BY <1>1, <1>2, <1>7, <2>1 DEF HeldTypes
<1>12. taken' = (taken \ Sct!Holding(t)) \cup Sct!Holding(t)'
  BY <1>1, <1>7, <1>8
<1>13. routes' = (routes \ Sct!Routes(t, held[t])) \cup Sct!Routes(t, held'[t])
  BY <1>1, <1>5, <1>9, <1>10
<1>14. \A s \in Sct!Timers \ {t} : /\ Sct!Holding(t)' \cap Sct!Holding(s) = {}
                               /\ Sct!Routes(t, held[t]) \cap Sct!Routes(s, held[s]) = {}
  BY <1>11, RoutesApart
<1>15. Sct!ReservedByOwners'
  <2>1. \A s \in Sct!Timers \ {t} : sctStage'[s] = sctStage[s] /\ held'[s] = held[s]
    BY <1>11
  <2>2. Sct!ReservedByOwners
    BY <1>2
  <2> QED BY <1>12, <1>13, <1>14, <2>1, <2>2, OneChanges
<1> QED BY <1>6, <1>15 DEF ResourcesInv

LEMMA DeinitKeeps ==
  ASSUME ResourcesInv, NEW t \in Sct!Timers, Sct!Deinit(t)
  PROVE  ResourcesInv'
<1>1. /\ HeldTypes /\ NoneHeld /\ Sct!ReservedByOwners /\ sctStage[t] = "live"
      /\ sctStage' = [sctStage EXCEPT ![t] = "none"] /\ held' = [held EXCEPT ![t] = <<>>]
      /\ taken' = taken \ (InSeq(held[t]) \cup {SctConfigs[t].part})
      /\ routes' = routes \ Sct!Routes(t, held[t])
  BY SctSequences DEF ResourcesInv, Sct!Deinit
<1>2. HeldTypes' /\ NoneHeld' /\ sctStage'[t] = "none" /\ held'[t] = <<>>
  BY <1>1 DEF HeldTypes, NoneHeld
<1>3. Sct!Holding(t) = InSeq(held[t]) \cup {SctConfigs[t].part} /\ Sct!Holding(t)' = {}
  BY <1>1, <1>2, SctSequences DEF Sct!Holding
<1>4. Sct!Routes(t, held'[t]) = {}
  BY <1>2 DEF Sct!Routes
<1>5. \A s \in Sct!Timers \ {t} : sctStage'[s] = sctStage[s] /\ held'[s] = held[s]
  BY <1>1 DEF HeldTypes
<1>6. Sct!ReservedByOwners'
  BY <1>1, <1>3, <1>4, <1>5, RoutesApart, OneChanges
<1> QED BY <1>2, <1>6 DEF ResourcesInv

(* A reservation that fails and one that completes change neither what is  *)
(* held nor what is routed.                                                *)
LEMMA StageKeeps ==
  ASSUME ResourcesInv, NEW t \in Sct!Timers, Sct!Fail(t) \/ Sct!Complete(t)
  PROVE  ResourcesInv'
<1>1. /\ HeldTypes /\ NoneHeld /\ Sct!ReservedByOwners /\ sctStage[t] = "init"
      /\ held' = held /\ taken' = taken /\ routes' = routes
  BY DEF ResourcesInv, Sct!Fail, Sct!Complete
<1>2. PICK g \in {"live", "failed"} : sctStage' = [sctStage EXCEPT ![t] = g]
  BY DEF Sct!Fail, Sct!Complete
<1>3. HeldTypes' /\ NoneHeld' /\ sctStage'[t] = g
  BY <1>1, <1>2 DEF HeldTypes, NoneHeld
<1>4. Sct!Holding(t)' = Sct!Holding(t)
  BY <1>1, <1>2, <1>3 DEF Sct!Holding
<1>5. Sct!Holding(t) \subseteq taken /\ Sct!Routes(t, held[t]) \subseteq routes
  BY <1>1, HeldIsHeld DEF Sct!ReservedByOwners
<1>6. \A s \in Sct!Timers \ {t} : /\ sctStage'[s] = sctStage[s] /\ held'[s] = held[s]
                              /\ Sct!Holding(t)' \cap Sct!Holding(s) = {}
  BY <1>1, <1>2, <1>4 DEF HeldTypes, Sct!ReservedByOwners
<1>7. /\ taken' = (taken \ Sct!Holding(t)) \cup Sct!Holding(t)'
      /\ routes' = (routes \ Sct!Routes(t, held[t])) \cup Sct!Routes(t, held'[t])
  BY <1>1, <1>4, <1>5
<1>8. Sct!ReservedByOwners'
  BY <1>1, <1>6, <1>7, RoutesApart, OneChanges
<1> QED BY <1>3, <1>8 DEF ResourcesInv

LEMMA ResourcesInvAlways == SpecAll => []ResourcesInv
<1>1. ResourcesInv /\ UNCHANGED Sct!vars => ResourcesInv'
  BY DEF ResourcesInv, HeldTypes, NoneHeld, Sct!ReservedByOwners, Sct!Holding, Sct!Routes, Sct!vars
<1>2. ResourcesInv /\ [Sct!Next \/ Sct!Stopped]_Sct!vars => ResourcesInv'
  <2> SUFFICES ASSUME ResourcesInv, [Sct!Next \/ Sct!Stopped]_Sct!vars PROVE ResourcesInv'
    OBVIOUS
  <2>1. CASE Sct!Next
    <3>1. PICK t \in Sct!Timers : \/ Sct!Begin(t) \/ Sct!Refused(t) \/ Sct!Reserve(t)
                                  \/ Sct!Fail(t) \/ Sct!Complete(t) \/ Sct!Deinit(t)
      BY <2>1 DEF Sct!Next
    <3>2. CASE Sct!Refused(t)
      BY <1>1, <3>2 DEF Sct!Refused
    <3> QED BY <3>1, <3>2, BeginKeeps, ReserveKeeps, DeinitKeeps, StageKeeps
  <2>2. CASE Sct!Stopped \/ UNCHANGED Sct!vars
    BY <1>1, <2>2 DEF Sct!Stopped
  <2> QED BY <2>1, <2>2
<1> QED BY SctRuns, ResourcesInvInit, <1>2, PTL DEF Sct!Spec

(* SctResources: every reservation has one owner, for any number of timers *)
(* and any configurations of them.                                         *)
THEOREM ReservationsOwned == SpecAll => []ReservedByOwners
<1>1. ResourcesInv => ReservedByOwners
  BY DEF ResourcesInv, ReservedByOwners
<1> QED BY ResourcesInvAlways, <1>1, PTL

-----------------------------------------------------------------------------
(* CardTest                                                                *)

(* While a card is mounted a whole arena fits at the position, which is a  *)
(* multiple of it: this is what the next position has to keep.             *)
CardPlaced ==
  /\ capacity \in {0} \cup CardSizes /\ position \in Nat
  /\ position % CardArena = 0
  /\ mounted => capacity \in CardSizes /\ position + CardArena <= capacity

(* main() tests only a mounted card, and only its wait leaves a transfer   *)
(* or a callback behind; its event means that the transfer has ended.      *)
CardPhase ==
  /\ cardPc \in {"wait", "start", "sync", "finish"}
  /\ done => ~busy
  /\ cardPc # "wait" => mounted
  /\ Card!OneTransfer

CardInv == Card!CardAssumption /\ CardPlaced /\ CardPhase

LEMMA CardInvInit == Card!CardAssumption /\ Card!Init => CardInv
BY DEF Card!CardAssumption, Card!Init, CardInv, CardPlaced, CardPhase, Card!OneTransfer

(* Both the capacity and the position are multiples of the arena, so that  *)
(* a position before the end of the card has a whole arena behind it.      *)
LEMMA NextPosition ==
  ASSUME NEW a \in Nat \ {0}, NEW p \in Nat, NEW c \in Nat,
         p % a = 0, c % a = 0, p + a < c
  PROVE  (p + a) % a = 0 /\ p + a + a <= c
<1>1. PICK k \in Nat : p = k * a
  <2>1. p = a * (p \div a) + (p % a) /\ p \div a \in Nat
    OBVIOUS
  <2> QED BY <2>1
<1>2. PICK n \in Nat : c = n * a
  <2>1. c = a * (c \div a) + (c % a) /\ c \div a \in Nat
    OBVIOUS
  <2> QED BY <2>1
<1>3. p + a = (k + 1) * a
  BY <1>1
<1>4. k + 2 <= n
  <2>1. SUFFICES ASSUME n <= k + 1 PROVE FALSE
    OBVIOUS
  <2>2. n * a <= (k + 1) * a
    BY <2>1
  <2> QED BY <2>2, <1>2, <1>3
<1>5. (k + 2) * a <= n * a
  BY <1>4
<1>6. ((k + 1) * a) % a = 0
  OBVIOUS
<1> QED BY <1>1, <1>2, <1>3, <1>5, <1>6

(* The user, the timer and the driver: none of them moves the position or  *)
(* main(), and only the driver ends a transfer.                            *)
LEMMA CardInvOthers ==
  ASSUME CardInv,
         Card!Insert \/ Card!Remove \/ Card!TimerOverflow \/ Card!TransferEnds
  PROVE  CardInv'
<1> USE DEF CardInv, Card!CardAssumption, CardPlaced, CardPhase, Card!OneTransfer,
        Card!transfer, Card!slot
<1>1. CASE Card!Insert
  BY <1>1 DEF Card!Insert
<1>2. CASE Card!Remove
  BY <1>2 DEF Card!Remove
<1>3. CASE Card!TimerOverflow
  BY <1>3 DEF Card!TimerOverflow
<1>4. CASE Card!TransferEnds
  BY <1>4 DEF Card!TransferEnds
<1> QED
  BY <1>1, <1>2, <1>3, <1>4

(* The steps of main().                                                    *)
LEMMA CardInvMain ==
  ASSUME CardInv, Card!Main
  PROVE  CardInv'
<1>1. CardArena \in Nat \ {0} /\ \A c \in CardSizes : c \in Nat \ {0} /\ c % CardArena = 0
  BY DEF CardInv, Card!CardAssumption
<1>2. CASE Card!MainMount
  <2>1. \A c \in CardSizes : CardArena <= c
    BY <1>1
  <2>2. CardPlaced'
    BY <1>1, <2>1, <1>2 DEF Card!MainMount, CardInv, CardPlaced
  <2>3. CardPhase'
    BY <1>2 DEF Card!MainMount, CardInv, CardPhase, Card!OneTransfer, Card!transfer
  <2> QED BY <2>2, <2>3 DEF CardInv, Card!CardAssumption
<1>3. CASE Card!MainTest
  BY <1>3 DEF Card!MainTest, CardInv, Card!CardAssumption, CardPlaced, CardPhase,
      Card!OneTransfer, Card!transfer, Card!slot
<1>4. CASE Card!MainStart
  BY <1>4 DEF Card!MainStart, Card!StartRefused, Card!StartAccepted, Card!TestEnds,
              CardInv, Card!CardAssumption, CardPlaced, CardPhase, Card!OneTransfer,
                  Card!transfer, Card!slot
<1>5. CASE Card!MainSync
  BY <1>5 DEF Card!MainSync, Card!TestEnds, CardInv, Card!CardAssumption, CardPlaced,
      CardPhase, Card!OneTransfer, Card!transfer, Card!slot
<1>6. CASE Card!MainFinish
  <2>1. CASE failed
    BY <1>6, <2>1 DEF Card!MainFinish, CardInv, Card!CardAssumption, CardPlaced,
        CardPhase, Card!OneTransfer, Card!transfer
  <2>2. CASE ~failed
    <3>1. /\ capacity \in CardSizes /\ mounted /\ position \in Nat
          /\ position % CardArena = 0 /\ position + CardArena <= capacity
      BY <1>6 DEF Card!MainFinish, CardInv, CardPlaced, CardPhase
    <3>2. CASE position + CardArena >= capacity
      BY <1>1, <1>6, <2>2, <3>1, <3>2
      DEF Card!MainFinish, CardInv, Card!CardAssumption, CardPlaced, CardPhase,
          Card!OneTransfer, Card!transfer
    <3>3. CASE position + CardArena < capacity
      <4>1. /\ (position + CardArena) % CardArena = 0
            /\ position + CardArena + CardArena <= capacity
        BY <1>1, <3>1, <3>3, NextPosition
      <4>2. position' = position + CardArena
        BY <1>1, <1>6, <2>2, <3>1, <3>3 DEF Card!MainFinish
      <4> QED BY <1>1, <1>6, <2>2, <3>1, <4>1, <4>2
              DEF Card!MainFinish, CardInv, Card!CardAssumption, CardPlaced,
                  CardPhase, Card!OneTransfer, Card!transfer
    <3> QED BY <1>1, <3>1, <3>2, <3>3
  <2> QED BY <2>1, <2>2
<1> QED
  BY <1>2, <1>3, <1>4, <1>5, <1>6 DEF Card!Main

(* A transfer takes one block or a whole arena.                            *)
LEMMA SizeFits == Card!CardAssumption => Card!Size(test) \in Nat /\ Card!Size(test) <= CardArena
BY DEF Card!CardAssumption, Card!Size

LEMMA CardInvAlways == SpecAll => []CardInv
<1>1. CardInv /\ UNCHANGED Card!vars => CardInv'
  BY DEF CardInv, Card!CardAssumption, CardPlaced, CardPhase, Card!OneTransfer, Card!vars,
         Card!slot, Card!transfer
<1>2. CardInv /\ [Card!Next]_<<Card!vars, cardFaults>> => CardInv'
  BY <1>1, CardInvMain, CardInvOthers DEF Card!Next
<1>3. Card!CardAssumption
  BY ProgramAssumption
<1> QED BY CardRuns, CardInvInit, <1>2, <1>3, PTL DEF Card!SafeSpec

(* CardTest: no transfer reaches past the end of its card, for any arena   *)
(* and any capacities that are multiples of it.                            *)
THEOREM CardsInside == SpecAll => []InsideCard
<1>1. CardInv => InsideCard
  <2> SUFFICES ASSUME CardInv, busy PROVE position + Card!Size(test) <= capacity
    BY DEF InsideCard, Card!InsideCard
  <2>1. mounted /\ position \in Nat /\ position + CardArena <= capacity /\ capacity \in Nat
    BY DEF CardInv, CardPhase, Card!OneTransfer, CardPlaced, Card!CardAssumption
  <2>2. CardArena \in Nat /\ Card!Size(test) \in Nat /\ Card!Size(test) <= CardArena
    BY SizeFits DEF CardInv, Card!CardAssumption
  <2> QED BY <2>1, <2>2
<1> QED BY CardInvAlways, <1>1, PTL

(* CardTest: while a transfer goes on main() starts none, drops no card    *)
(* and leaves no callback behind.                                          *)
THEOREM TransfersApart == SpecAll => []OneTransfer
<1>1. CardInv => OneTransfer
  BY DEF CardInv, CardPhase, OneTransfer
<1> QED BY CardInvAlways, <1>1, PTL

-----------------------------------------------------------------------------
(* CardReader                                                              *)

(* A transfer goes on only with an attached unit that has not failed, and  *)
(* main() takes back only a failed one: the position of main() tells what  *)
(* there is of the card and of its unit.                                   *)
UnitInv ==
  /\ Reader!UnitAlive
  /\ unitBusy => attached /\ ~unitFailed
  /\ unitPc = "mount" => ~card
  /\ unitPc = "attach" => card
  /\ unitPc = "detach" => unitFailed
  /\ unitPc = "free" => ~attached

LEMMA UnitInvInit == Reader!Init => UnitInv
BY DEF Reader!Init, UnitInv, Reader!UnitAlive

(* The steps of main(): a card is freed only when its unit is detached and *)
(* at rest.                                                                *)
LEMMA UnitInvMain == UnitInv /\ Reader!Main => UnitInv'
<1> SUFFICES ASSUME UnitInv, Reader!Main PROVE UnitInv'
  OBVIOUS
<1> USE DEF UnitInv, Reader!UnitAlive, Reader!unit
<1>1. CASE Reader!Wake
  BY <1>1 DEF Reader!Wake
<1>2. CASE Reader!Mount
  BY <1>2 DEF Reader!Mount
<1>3. CASE Reader!Attach
  BY <1>3 DEF Reader!Attach
<1>4. CASE Reader!Check
  BY <1>4 DEF Reader!Check
<1>5. CASE Reader!Detach
  BY <1>5 DEF Reader!Detach
<1>6. CASE Reader!Free
  BY <1>6 DEF Reader!Free
<1> QED
  BY <1>1, <1>2, <1>3, <1>4, <1>5, <1>6 DEF Reader!Main

(* The steps of the user, the timer, the host and the driver: a unit that  *)
(* failed gets no request.                                                 *)
LEMMA UnitInvOthers ==
  UnitInv /\ (\/ Reader!Insert \/ Reader!Remove \/ Reader!TimerOverflow
              \/ Reader!HostRequest \/ Reader!TransferEnds) => UnitInv'
<1> SUFFICES ASSUME UnitInv,
                    \/ Reader!Insert \/ Reader!Remove \/ Reader!TimerOverflow
                    \/ Reader!HostRequest \/ Reader!TransferEnds
             PROVE  UnitInv'
  OBVIOUS
<1> USE DEF UnitInv, Reader!UnitAlive, Reader!unit
<1>1. CASE Reader!Insert
  BY <1>1 DEF Reader!Insert
<1>2. CASE Reader!Remove
  BY <1>2 DEF Reader!Remove
<1>3. CASE Reader!TimerOverflow
  BY <1>3 DEF Reader!TimerOverflow
<1>4. CASE Reader!HostRequest
  BY <1>4 DEF Reader!HostRequest
<1>5. CASE Reader!TransferEnds
  BY <1>5 DEF Reader!TransferEnds
<1> QED
  BY <1>1, <1>2, <1>3, <1>4, <1>5

(* CardReader: the driver never holds or uses a card that main() has       *)
(* freed, however cards are exchanged and requests of the host interrupt   *)
(* main().                                                                 *)
THEOREM UnitsAlive == SpecAll => []UnitAlive
<1>1. UnitInv /\ UNCHANGED Reader!vars => UnitInv'
  BY DEF UnitInv, Reader!UnitAlive, Reader!vars, Reader!unit
<1>2. UnitInv /\ [Reader!Next]_Reader!vars => UnitInv'
  BY <1>1, UnitInvMain, UnitInvOthers DEF Reader!Next
<1>3. UnitInv => UnitAlive
  BY DEF UnitInv, UnitAlive
<1> QED
  BY ReaderRuns, UnitInvInit, <1>2, <1>3, PTL DEF Reader!SafeSpec

-----------------------------------------------------------------------------
(* DmaMemCopy                                                              *)

LEMMA CopyRuns == SpecAll => Copy!SafeSpec
<1>1. InitAll => Copy!Init
  BY DEF InitAll
<1>2. [NextAll]_allVars => [Copy!Next]_<<Copy!vars, faults>>
  <2> SUFFICES ASSUME [NextAll]_allVars PROVE [Copy!Next]_<<Copy!vars, faults>>
    OBVIOUS
  <2>1. CASE UNCHANGED copyVars
    BY <2>1 DEF copyVars, Copy!vars, Copy!channel
  <2> QED BY <2>1, OneRuns
<1> QED BY <1>1, <1>2, PTL DEF SpecAll, Copy!SafeSpec

(* What a channel has left of a copy, with the entries that main() cleared *)
(* and set.                                                                *)
CopyTypes ==
  /\ Copy!CopyAssumption /\ Copy!TypeOK
  /\ copyPc # "wait" => led

(* A completion that is noted while the channel works is that of an older  *)
(* copy, which ended before this round began its own: the copy going on    *)
(* has the length of the round.  When the check finds the buffer good      *)
(* nothing is left to be copied outside of what is there already.          *)
CopyDark ==
  /\ dmaEvent /\ size # 0 => copyPc \in {"copy", "check"} /\ size = length
  /\ dst = {} => size = 0 /\ ~dmaEvent /\ ~led
  /\ ~led /\ dst # {} =>
       \E n \in CopyLevel .. CopyBuffer - 1 : dst = 0 .. n - 1 /\ size <= n

(* Without faults each round starts its copy, which ends before the timer  *)
(* fires again: main() is always told about the copy it has started.       *)
CopyClean ==
  ~faults =>
    /\ copyPc = "wait" => ~led /\ ~dmaEvent /\ size = 0
    /\ copyPc = "start" => dst = {0} /\ ~dmaEvent /\ ~timEvent /\ size = 0
    /\ copyPc = "copy" => ~timEvent
    /\ copyPc = "copy" /\ ~dmaEvent => size = length /\ dst = {0} \cup 0 .. copied - 1
    /\ copyPc \in {"copy", "check"} /\ dmaEvent => size = 0 /\ dst = 0 .. length - 1
    /\ copyPc = "check" => dmaEvent

CopyInv == CopyTypes /\ CopyDark /\ CopyClean

LEMMA CopyInvInit == Copy!CopyAssumption /\ Copy!Init => CopyInv
<1> SUFFICES ASSUME Copy!CopyAssumption, Copy!Init PROVE CopyInv
  OBVIOUS
<1>1. Copy!TypeOK
  <2>1. {dmaEvent, timEvent, led, faults} \subseteq BOOLEAN
    BY DEF Copy!Init
  <2> QED BY <2>1 DEF Copy!CopyAssumption, Copy!Init, Copy!TypeOK
<1> QED BY <1>1 DEF Copy!Init, CopyInv, CopyTypes, CopyDark, CopyClean

LEMMA CopyInvStep ==
  ASSUME CopyInv, Copy!Next
  PROVE  CopyInv'
<1> USE DEF CopyInv
<1>1. /\ CopyLevel \in Nat /\ CopyBuffer \in Nat /\ 0 < CopyLevel /\ CopyLevel < CopyBuffer
      /\ length \in CopyLevel .. CopyBuffer - 1
      /\ dst \subseteq 0 .. CopyBuffer - 1
      /\ size \in {0} \cup CopyLevel .. CopyBuffer - 1
      /\ copied \in 0 .. size
      /\ dmaEvent \in BOOLEAN /\ timEvent \in BOOLEAN /\ led \in BOOLEAN /\ faults \in BOOLEAN
      /\ copyPc \in {"wait", "start", "copy", "check"}
      /\ faults' = faults
  BY DEF CopyTypes, Copy!CopyAssumption, Copy!TypeOK, Copy!Next
<1>2. Copy!CopyAssumption'
  BY DEF CopyTypes, Copy!CopyAssumption
<1>3. CASE Copy!DmaCopy
  <2>1. /\ copied < size /\ dst' = dst \cup {copied} /\ copied' = copied + 1
        /\ UNCHANGED <<length, size, dmaEvent, timEvent, led, copyPc>>
    BY <1>3 DEF Copy!DmaCopy
  <2>2. CopyTypes'
    BY <1>1, <1>2, <2>1 DEF CopyTypes, Copy!TypeOK
  <2>3. CopyDark'
    <3>1. ASSUME ~led, dst # {}
          PROVE  dst' = dst
      <4>1. PICK n \in CopyLevel .. CopyBuffer - 1 : dst = 0 .. n - 1 /\ size <= n
        BY <3>1 DEF CopyDark
      <4> QED BY <1>1, <2>1, <4>1
    <3>2. dst # {}
      BY <1>1, <2>1 DEF CopyDark
    <3> QED BY <2>1, <3>1, <3>2 DEF CopyDark
  <2>4. CopyClean'
    <3>1. ASSUME ~faults PROVE copyPc = "copy" /\ ~dmaEvent
      BY <1>1, <2>1, <3>1 DEF CopyClean
    <3>2. ASSUME ~faults PROVE dst' = {0} \cup 0 .. copied' - 1
      <4>1. dst = {0} \cup 0 .. copied - 1
        BY <3>1, <3>2 DEF CopyClean
      <4> QED BY <1>1, <2>1, <4>1
    <3> QED BY <1>1, <2>1, <3>1, <3>2 DEF CopyClean
  <2> QED BY <2>2, <2>3, <2>4
<1>4. CASE Copy!DmaEnd
  <2>1. /\ size # 0 /\ size' = 0 /\ copied' = 0
        /\ (copied = size /\ dmaEvent' = TRUE) \/ (faults /\ dmaEvent' = dmaEvent)
        /\ UNCHANGED <<length, dst, timEvent, led, copyPc>>
    BY <1>4 DEF Copy!DmaEnd, Copy!Idle
  <2>2. CopyTypes'
    <3>1. dmaEvent' \in BOOLEAN
      BY <1>1, <2>1
    <3>2. 0 \in 0 .. 0
      OBVIOUS
    <3>3. size' \in {0} \cup CopyLevel .. CopyBuffer - 1 /\ copied' \in 0 .. size'
      BY <2>1, <3>2
    <3> QED BY <1>1, <1>2, <2>1, <3>1, <3>3 DEF CopyTypes, Copy!TypeOK
  <2>3. CopyDark'
    <3>1. dst # {}
      BY <2>1 DEF CopyDark
    <3>2. ASSUME ~led'
          PROVE  \E n \in CopyLevel .. CopyBuffer - 1 : dst' = 0 .. n - 1 /\ size' <= n
      <4>1. PICK n \in CopyLevel .. CopyBuffer - 1 : dst = 0 .. n - 1 /\ size <= n
        BY <2>1, <3>1, <3>2 DEF CopyDark
      <4>2. size' <= n
        BY <1>1, <2>1
      <4> QED BY <2>1, <4>1, <4>2
    <3> QED BY <2>1, <3>1, <3>2 DEF CopyDark
  <2>4. CopyClean'
    <3> SUFFICES ASSUME ~faults PROVE CopyClean'
      BY <1>1 DEF CopyClean
    <3>1. copyPc = "copy" /\ ~dmaEvent /\ copied = size /\ dmaEvent' = TRUE /\ size = length
      BY <1>1, <2>1 DEF CopyClean
    <3>2. dst = 0 .. length - 1
      <4>1. dst = {0} \cup 0 .. copied - 1
        BY <3>1 DEF CopyClean
      <4> QED BY <1>1, <3>1, <4>1
    <3> QED BY <1>1, <2>1, <3>1, <3>2 DEF CopyClean
  <2> QED BY <2>2, <2>3, <2>4
<1>5. CASE Copy!TimerOverflow
  <2>1. /\ faults \/ copyPc = "wait"
        /\ timEvent' = TRUE
        /\ UNCHANGED <<length, dst, size, copied, dmaEvent, led, copyPc>>
    BY <1>5 DEF Copy!TimerOverflow, Copy!channel
  <2>2. CopyTypes'
    BY <1>1, <1>2, <2>1 DEF CopyTypes, Copy!TypeOK
  <2> QED BY <1>1, <2>1, <2>2 DEF CopyDark, CopyClean
<1>6. CASE Copy!MainWake
  <2>1. /\ copyPc = "wait" /\ timEvent' = FALSE /\ led' = TRUE /\ dst' = {0} /\ copyPc' = "start"
        /\ UNCHANGED <<length, size, copied, dmaEvent>>
    BY <1>6 DEF Copy!MainWake, Copy!channel
  <2>2. CopyTypes'
    <3>1. timEvent' \in BOOLEAN /\ led' \in BOOLEAN /\ led'
      BY <2>1
    <3>2. dst' \subseteq 0 .. CopyBuffer - 1
      BY <1>1, <2>1
    <3> QED BY <1>1, <1>2, <2>1, <3>1, <3>2 DEF CopyTypes, Copy!TypeOK
  <2> QED BY <1>1, <2>1, <2>2 DEF CopyDark, CopyClean
<1>7. CASE Copy!MainStart
  <2>1. /\ copyPc = "start" /\ copyPc' = "copy"
        /\ IF size = 0 THEN size' = length /\ copied' = 0 ELSE size' = size /\ copied' = copied
        /\ UNCHANGED <<length, dst, dmaEvent, timEvent, led>>
    BY <1>7 DEF Copy!MainStart, Copy!Idle, Copy!channel
  <2>2. CopyTypes'
    <3>1. size' \in {0} \cup CopyLevel .. CopyBuffer - 1 /\ copied' \in 0 .. size'
      BY <1>1, <2>1
    <3>2. led
      BY <2>1 DEF CopyTypes
    <3> QED BY <1>1, <1>2, <2>1, <3>1, <3>2 DEF CopyTypes, Copy!TypeOK
  <2>3. led
    BY <2>1 DEF CopyTypes
  <2>4. CopyDark'
    BY <1>1, <2>1, <2>3 DEF CopyDark
  <2>5. 0 .. 0 - 1 = {}
    OBVIOUS
  <2>6. CopyClean'
    BY <1>1, <2>1, <2>5 DEF CopyClean
  <2> QED BY <2>2, <2>4, <2>6
<1>8. CASE Copy!MainCopied
  <2>1. /\ copyPc = "copy" /\ (dmaEvent \/ timEvent) /\ copyPc' = "check"
        /\ UNCHANGED <<length, dst, size, copied, dmaEvent, timEvent, led>>
    BY <1>8 DEF Copy!MainCopied, Copy!channel
  <2>2. CopyTypes'
    BY <1>1, <1>2, <2>1 DEF CopyTypes, Copy!TypeOK
  <2> QED BY <1>1, <2>1, <2>2 DEF CopyDark, CopyClean
<1>9. CASE Copy!MainCheck
  <2>1. /\ copyPc = "check" /\ dmaEvent' = FALSE /\ copyPc' = "wait"
        /\ led' = (led /\ ~(dmaEvent /\ dst = 0 .. length - 1))
        /\ length' = IF length + 1 = CopyBuffer THEN CopyLevel ELSE length + 1
        /\ UNCHANGED <<dst, size, copied, timEvent>>
    BY <1>9 DEF Copy!MainCheck, Copy!Verify, Copy!channel
  <2>2. led /\ dst # {}
    BY <2>1 DEF CopyTypes, CopyDark
  <2>3. CopyTypes'
    <3>1. led' \in BOOLEAN
      BY <1>1, <2>1
    <3>2. length' \in CopyLevel .. CopyBuffer - 1
      BY <1>1, <2>1
    <3> QED BY <1>1, <1>2, <2>1, <3>1, <3>2 DEF CopyTypes, Copy!TypeOK
  <2>4. CopyDark'
    <3>1. ASSUME ~led' PROVE dst = 0 .. length - 1 /\ size <= length
      <4>1. dmaEvent /\ dst = 0 .. length - 1
        BY <2>1, <2>2, <3>1
      <4> QED BY <1>1, <4>1 DEF CopyDark
    <3> QED BY <1>1, <2>1, <2>2, <3>1 DEF CopyDark
  <2>5. CopyClean'
    <3> SUFFICES ASSUME ~faults PROVE CopyClean'
      BY <1>1 DEF CopyClean
    <3>1. dmaEvent /\ size = 0 /\ dst = 0 .. length - 1
      BY <2>1 DEF CopyClean
    <3> QED BY <1>1, <2>1, <3>1 DEF CopyClean
  <2> QED BY <2>3, <2>4, <2>5
<1> QED BY <1>3, <1>4, <1>5, <1>6, <1>7, <1>8, <1>9 DEF Copy!Next, Copy!Main

LEMMA CopyInvAlways == SpecAll => []CopyInv
<1>1. CopyInv /\ UNCHANGED <<Copy!vars, faults>> => CopyInv'
  BY DEF CopyInv, CopyTypes, CopyDark, CopyClean, Copy!CopyAssumption, Copy!TypeOK,
         Copy!vars, Copy!channel
<1>2. Copy!CopyAssumption
  BY ProgramAssumption
<1> QED BY CopyRuns, CopyInvInit, CopyInvStep, <1>1, <1>2, PTL DEF Copy!SafeSpec

(* DmaMemCopy: without faults every round passes its own check, for any    *)
(* length of the buffer and of the shortest copy.                          *)
THEOREM RoundsPass == SpecAll => []RoundPasses
<1>1. CopyInv => RoundPasses
  BY DEF CopyInv, CopyClean, RoundPasses, Copy!RoundPasses
<1> QED BY CopyInvAlways, <1>1, PTL

(* DmaMemCopy: whatever the channel does, a dark LED means a whole copy.   *)
THEOREM DarkIsTrue == SpecAll => []DarkMeansCopied
<1>1. CopyInv => DarkMeansCopied
  BY DEF CopyInv, CopyDark, DarkMeansCopied, Copy!DarkMeansCopied
<1> QED BY CopyInvAlways, <1>1, PTL
-----------------------------------------------------------------------------
(* CdcComposite                                                            *)

LEMMA EchoRuns == SpecAll => Echo!SafeSpec
<1>1. InitAll => Echo!Init
  BY DEF InitAll
<1>2. [NextAll]_allVars => [Echo!Next]_Echo!vars
  <2> SUFFICES ASSUME [NextAll]_allVars PROVE [Echo!Next]_Echo!vars
    OBVIOUS
  <2>1. CASE UNCHANGED echoVars
    BY <2>1 DEF echoVars, Echo!vars, Echo!hosts
  <2> QED BY <2>1, OneRuns
<1> QED BY <1>1, <1>2, PTL DEF SpecAll, Echo!SafeSpec

EchoNumber == 0 .. Echo!Numbers - 1

(* The part of the line of stream s that is in the hands of main().        *)
EchoHand(s) == IF echoPc = "write" /\ cur = s THEN hand ELSE <<>>

EchoTypes ==
  /\ Echo!CompositeAssumption
  /\ rx \in [Echo!Streams -> Seq(EchoNumber)] /\ tx \in [Echo!Streams -> Seq(EchoNumber)]
  /\ sent \in [Echo!Streams -> EchoNumber] /\ got \in [Echo!Streams -> EchoNumber]
  /\ event \in [Echo!Streams -> BOOLEAN]
  /\ echoPc \in {"scan", "pick", "read", "write"} /\ cur \in Echo!Streams
  /\ hand \in Seq(EchoNumber) /\ Len(hand) <= EchoChunk
  /\ \A s \in Echo!Streams : Len(rx[s]) <= EchoBuffers /\ Len(tx[s]) <= EchoBuffers

(* The line of each stream is that of the numbers between what its host    *)
(* expects next and what it sends next; main() holds packets of the stream *)
(* that it serves only.                                                    *)
EchoLines ==
  \A s \in Echo!Streams : Ordered(Echo!Line(s), Echo!Numbers, got[s], sent[s])

EchoInv == EchoTypes /\ EchoLines /\ Echo!NoLostWakeup

LEMMA EchoNumbers ==
  Echo!CompositeAssumption =>
    /\ Echo!Numbers \in Nat \ {0} /\ Echo!Numbers > 1
    /\ 0 \in EchoNumber /\ 1 \in Echo!Streams
    /\ \A n \in EchoNumber : (n + 1) % Echo!Numbers \in EchoNumber
BY DEF Echo!CompositeAssumption, Echo!Numbers, Echo!Streams, EchoNumber

LEMMA EchoLineParts ==
  ASSUME EchoTypes, NEW s \in Echo!Streams
  PROVE  /\ tx[s] \in Seq(EchoNumber) /\ EchoHand(s) \in Seq(EchoNumber)
         /\ rx[s] \in Seq(EchoNumber)
         /\ tx[s] \o EchoHand(s) \in Seq(EchoNumber)
         /\ Echo!Line(s) = (tx[s] \o EchoHand(s)) \o rx[s]
         /\ Echo!Line(s) \in Seq(EchoNumber)
<1>1. tx[s] \in Seq(EchoNumber) /\ EchoHand(s) \in Seq(EchoNumber) /\ rx[s] \in Seq(EchoNumber)
  BY EmptySeq DEF EchoTypes, EchoHand
<1>2. tx[s] \o EchoHand(s) \in Seq(EchoNumber)
  BY <1>1, ConcatProperties
<1>3. Echo!Line(s) = (tx[s] \o EchoHand(s)) \o rx[s]
  BY DEF Echo!Line, EchoHand
<1>4. (tx[s] \o EchoHand(s)) \o rx[s] \in Seq(EchoNumber)
  BY <1>1, <1>2, ConcatProperties
<1> QED BY <1>1, <1>2, <1>3, <1>4

LEMMA EchoInvInit == Echo!CompositeAssumption /\ Echo!Init => EchoInv
<1> SUFFICES ASSUME Echo!CompositeAssumption, Echo!Init PROVE EchoInv
  OBVIOUS
<1>1. /\ <<>> \in Seq(EchoNumber) /\ Len(<<>>) = 0 /\ (<<>> \o <<>>) \o <<>> = <<>>
  BY ConcatEmptySeq, EmptySeq
<1>2. /\ rx = [s \in Echo!Streams |-> <<>>] /\ tx = [s \in Echo!Streams |-> <<>>]
      /\ sent = [s \in Echo!Streams |-> 0] /\ got = [s \in Echo!Streams |-> 0]
      /\ event = [s \in Echo!Streams |-> FALSE]
      /\ echoPc = "scan" /\ cur = 1 /\ hand = <<>>
  BY DEF Echo!Init
<1>3. EchoTypes
  <2>1. EchoBuffers \in Nat /\ EchoChunk \in Nat
    BY DEF Echo!CompositeAssumption
  <2> QED BY <1>1, <1>2, <2>1, EchoNumbers DEF EchoTypes
<1>4. EchoLines
  <2> SUFFICES ASSUME NEW s \in Echo!Streams
               PROVE  Ordered(Echo!Line(s), Echo!Numbers, got[s], sent[s])
    BY DEF EchoLines
  <2>1. Echo!Line(s) = <<>>
    BY <1>1, <1>2 DEF Echo!Line
  <2>2. got[s] = 0 /\ sent[s] = 0
    BY <1>2
  <2> QED BY <2>1, <2>2, EchoNumbers, OrderedEmpty
<1>5. Echo!NoLostWakeup
  BY <1>2 DEF Echo!NoLostWakeup
<1> QED BY <1>3, <1>4, <1>5 DEF EchoInv

(* A packet comes to the end of the line.                                  *)
LEMMA HostSendKeeps ==
  ASSUME EchoInv, NEW s \in Echo!Streams, Echo!HostSend(s)
  PROVE  EchoInv'
<1>1. EchoTypes /\ EchoLines /\ Echo!NoLostWakeup
  BY DEF EchoInv
<1>2. /\ Len(rx[s]) < EchoBuffers
      /\ rx' = [rx EXCEPT ![s] = Append(@, sent[s])]
      /\ sent' = [sent EXCEPT ![s] = (@ + 1) % Echo!Numbers]
      /\ event' = [event EXCEPT ![s] = TRUE]
      /\ UNCHANGED <<tx, got, echoPc, cur, hand>>
  BY DEF Echo!HostSend
<1>3. /\ sent[s] \in EchoNumber /\ rx[s] \in Seq(EchoNumber) /\ EchoBuffers \in Nat
      /\ Echo!CompositeAssumption
  BY <1>1 DEF EchoTypes, Echo!CompositeAssumption
<1>4. /\ Append(rx[s], sent[s]) \in Seq(EchoNumber)
      /\ Len(Append(rx[s], sent[s])) <= EchoBuffers
  BY <1>2, <1>3, AppendProperties, LenProperties
<1>5. EchoTypes'
  <2>1. (sent[s] + 1) % Echo!Numbers \in EchoNumber
    BY <1>3, EchoNumbers
  <2>2. rx' \in [Echo!Streams -> Seq(EchoNumber)] /\ sent' \in [Echo!Streams -> EchoNumber]
    BY <1>1, <1>2, <1>4, <2>1 DEF EchoTypes
  <2>3. event' \in [Echo!Streams -> BOOLEAN]
    BY <1>1, <1>2 DEF EchoTypes
  <2>4. \A t \in Echo!Streams : Len(rx'[t]) <= EchoBuffers
    BY <1>1, <1>2, <1>4 DEF EchoTypes
  <2> QED BY <1>1, <1>2, <2>2, <2>3, <2>4 DEF EchoTypes, Echo!CompositeAssumption
<1>6. EchoLines'
  <2> SUFFICES ASSUME NEW t \in Echo!Streams
               PROVE  Ordered(Echo!Line(t)', Echo!Numbers, got'[t], sent'[t])
    BY DEF EchoLines
  <2>1. Echo!Line(t)' = (tx[t] \o EchoHand(t)) \o rx'[t]
    BY <1>2 DEF Echo!Line, EchoHand
  <2>2. Ordered(Echo!Line(t), Echo!Numbers, got[t], sent[t])
    BY <1>1 DEF EchoLines
  <2>3. CASE t = s
    <3>1. Echo!Line(t)' = Append(Echo!Line(t), sent[t])
      <4>1. rx'[t] = Append(rx[t], sent[t])
        BY <1>1, <1>2, <2>3 DEF EchoTypes
      <4>2. (tx[t] \o EchoHand(t)) \o Append(rx[t], sent[t])
              = Append((tx[t] \o EchoHand(t)) \o rx[t], sent[t])
        <5> DEFINE b == tx[t] \o EchoHand(t)
                   c == rx[t]
                   e == sent[t]
        <5>1. b \in Seq(EchoNumber) /\ c \in Seq(EchoNumber) /\ e \in EchoNumber
          BY <1>1, <1>3, <2>3, EchoLineParts
        <5> HIDE DEF b, c, e
        <5>2. b \o Append(c, e) = Append(b \o c, e)
          BY <5>1, ConcatAppend
        <5> QED BY <5>2 DEF b, c, e
      <4> QED BY <1>1, <2>1, <4>1, <4>2, EchoLineParts
    <3>2. got'[t] = got[t] /\ sent'[t] = (sent[t] + 1) % Echo!Numbers
      BY <1>1, <1>2, <2>3 DEF EchoTypes
    <3>3. got[t] \in EchoNumber /\ sent[t] \in EchoNumber /\ Echo!Line(t) \in Seq(EchoNumber)
      BY <1>1, EchoLineParts DEF EchoTypes
    <3>4. Echo!Numbers \in Nat \ {0}
      BY <1>3, EchoNumbers
    <3> QED BY <2>2, <3>1, <3>2, <3>3, <3>4, OrderedAppend DEF EchoNumber
  <2>4. CASE t # s
    <3>1. rx'[t] = rx[t] /\ got'[t] = got[t] /\ sent'[t] = sent[t]
      BY <1>1, <1>2, <2>4 DEF EchoTypes
    <3> QED BY <1>1, <2>1, <2>2, <3>1, EchoLineParts
  <2> QED BY <2>3, <2>4
<1>7. Echo!NoLostWakeup'
  BY <1>1, <1>2 DEF Echo!NoLostWakeup, EchoTypes
<1> QED BY <1>5, <1>6, <1>7 DEF EchoInv

(* The oldest packet leaves the line.                                      *)
LEMMA HostReceiveKeeps ==
  ASSUME EchoInv, NEW s \in Echo!Streams, Echo!HostReceive(s)
  PROVE  EchoInv'
<1>1. EchoTypes /\ EchoLines /\ Echo!NoLostWakeup
  BY DEF EchoInv
<1>2. /\ tx[s] # <<>>
      /\ tx' = [tx EXCEPT ![s] = Tail(@)]
      /\ got' = [got EXCEPT ![s] = (Head(tx[s]) + 1) % Echo!Numbers]
      /\ event' = event \/ event' = [event EXCEPT ![s] = TRUE]
      /\ UNCHANGED <<rx, sent, echoPc, cur, hand>>
  BY DEF Echo!HostReceive
<1>3. /\ tx[s] \in Seq(EchoNumber) /\ EchoBuffers \in Nat /\ Echo!CompositeAssumption
      /\ Len(tx[s]) <= EchoBuffers
  BY <1>1 DEF EchoTypes, Echo!CompositeAssumption
<1>4. /\ Tail(tx[s]) \in Seq(EchoNumber) /\ Head(tx[s]) \in EchoNumber
      /\ Len(Tail(tx[s])) <= EchoBuffers
  <2>1. /\ Tail(tx[s]) \in Seq(EchoNumber) /\ Head(tx[s]) \in EchoNumber
        /\ Len(Tail(tx[s])) = Len(tx[s]) - 1
    BY <1>2, <1>3, HeadTailProperties
  <2> QED BY <1>3, <2>1, LenProperties
<1>5. EchoTypes'
  <2>1. (Head(tx[s]) + 1) % Echo!Numbers \in EchoNumber
    BY <1>3, <1>4, EchoNumbers
  <2>2. tx' \in [Echo!Streams -> Seq(EchoNumber)] /\ got' \in [Echo!Streams -> EchoNumber]
    BY <1>1, <1>2, <1>4, <2>1 DEF EchoTypes
  <2>3. event' \in [Echo!Streams -> BOOLEAN]
    BY <1>1, <1>2 DEF EchoTypes
  <2>4. \A t \in Echo!Streams : Len(tx'[t]) <= EchoBuffers
    BY <1>1, <1>2, <1>4 DEF EchoTypes
  <2> QED BY <1>1, <1>2, <2>2, <2>3, <2>4 DEF EchoTypes, Echo!CompositeAssumption
<1>6. EchoLines'
  <2> SUFFICES ASSUME NEW t \in Echo!Streams
               PROVE  Ordered(Echo!Line(t)', Echo!Numbers, got'[t], sent'[t])
    BY DEF EchoLines
  <2>1. Echo!Line(t)' = (tx'[t] \o EchoHand(t)) \o rx[t]
    BY <1>2 DEF Echo!Line, EchoHand
  <2>2. Ordered(Echo!Line(t), Echo!Numbers, got[t], sent[t])
    BY <1>1 DEF EchoLines
  <2>3. CASE t = s
    <3>1. tx[t] # <<>> /\ tx'[t] = Tail(tx[t])
      BY <1>1, <1>2, <2>3 DEF EchoTypes
    <3>2. got'[t] = (Head(tx[t]) + 1) % Echo!Numbers /\ sent'[t] = sent[t]
      BY <1>1, <1>2, <2>3 DEF EchoTypes
    <3>3. /\ tx[t] \o EchoHand(t) # <<>>
          /\ Tail(tx[t] \o EchoHand(t)) = Tail(tx[t]) \o EchoHand(t)
      BY <1>1, <3>1, EchoLineParts, TailConcat
    <3>4. Echo!Line(t) # <<>> /\ Tail(Echo!Line(t)) = Echo!Line(t)'
      <4>1. /\ (tx[t] \o EchoHand(t)) \o rx[t] # <<>>
            /\ Tail((tx[t] \o EchoHand(t)) \o rx[t]) = Tail(tx[t] \o EchoHand(t)) \o rx[t]
        BY <1>1, <3>3, EchoLineParts, TailConcat
      <4> QED BY <1>1, <2>1, <3>1, <3>3, <4>1, EchoLineParts
    <3>5. Head(Echo!Line(t)) = Head(tx[t])
      <4> DEFINE a == tx[t]
                 b == tx[t] \o EchoHand(t)
                 c == rx[t]
      <4>1. Head(b) = Head(a)
        BY <1>1, <3>1, EchoLineParts, HeadConcat
      <4>2. /\ b \in Seq(EchoNumber) /\ c \in Seq(EchoNumber) /\ b # <<>>
            /\ Echo!Line(t) = b \o c
        BY <1>1, <3>3, EchoLineParts
      <4> HIDE DEF a, b, c
      <4>3. Head(b \o c) = Head(b)
        BY <4>2, HeadConcat
      <4> QED BY <4>1, <4>2, <4>3 DEF a
    <3>6. got[t] \in EchoNumber /\ sent[t] \in EchoNumber /\ Echo!Line(t) \in Seq(EchoNumber)
      BY <1>1, EchoLineParts DEF EchoTypes
    <3>7. Echo!Numbers \in Nat \ {0}
      BY <1>3, EchoNumbers
    <3>8. Ordered(Tail(Echo!Line(t)), Echo!Numbers,
                  (Head(Echo!Line(t)) + 1) % Echo!Numbers, sent[t])
      BY <2>2, <3>4, <3>6, <3>7, OrderedTail DEF EchoNumber
    <3> QED BY <3>2, <3>4, <3>5, <3>8
  <2>4. CASE t # s
    <3>1. tx'[t] = tx[t] /\ got'[t] = got[t] /\ sent'[t] = sent[t]
      BY <1>1, <1>2, <2>4 DEF EchoTypes
    <3> QED BY <1>1, <2>1, <2>2, <3>1, EchoLineParts
  <2> QED BY <2>3, <2>4
<1>7. Echo!NoLostWakeup'
  BY <1>1, <1>2 DEF Echo!NoLostWakeup, EchoTypes
<1> QED BY <1>5, <1>6, <1>7 DEF EchoInv

(* main() takes packets from the receive queue into its hands.             *)
LEMMA EchoReadKeeps ==
  ASSUME EchoInv, Echo!MainRead
  PROVE  EchoInv'
<1>1. EchoTypes /\ EchoLines /\ Echo!NoLostWakeup
  BY DEF EchoInv
<1> DEFINE n == Echo!Least(EchoChunk, Len(rx[cur]))
           t == SubSeq(rx[cur], 1, n)
           d == SubSeq(rx[cur], n + 1, Len(rx[cur]))
<1>2. /\ echoPc = "read" /\ echoPc' = "write"
      /\ hand' = t /\ rx' = [rx EXCEPT ![cur] = d]
      /\ UNCHANGED <<tx, event, sent, got, cur>>
  BY DEF Echo!MainRead, Echo!Take, Echo!Drop, Echo!hosts
<1>3. /\ cur \in Echo!Streams /\ rx[cur] \in Seq(EchoNumber) /\ EchoChunk \in Nat
      /\ EchoBuffers \in Nat /\ Len(rx[cur]) <= EchoBuffers /\ Len(rx[cur]) \in Nat
      /\ tx[cur] \in Seq(EchoNumber)
  BY <1>1, LenProperties DEF EchoTypes, Echo!CompositeAssumption
<1>4. n \in 0 .. Len(rx[cur]) /\ n <= EchoChunk
  BY <1>3 DEF Echo!Least
<1> HIDE DEF n
<1>5. /\ t \in Seq(EchoNumber) /\ d \in Seq(EchoNumber)
      /\ Len(t) = n /\ Len(d) = Len(rx[cur]) - n /\ t \o d = rx[cur]
  <2> DEFINE q == rx[cur]
  <2>1. q \in Seq(EchoNumber) /\ n \in 0 .. Len(q)
    BY <1>3, <1>4
  <2> HIDE DEF q
  <2>2. /\ SubSeq(q, 1, n) \in Seq(EchoNumber) /\ SubSeq(q, n + 1, Len(q)) \in Seq(EchoNumber)
        /\ Len(SubSeq(q, 1, n)) = n /\ Len(SubSeq(q, n + 1, Len(q))) = Len(q) - n
    BY <2>1, SplitCustody
  <2>3. SubSeq(q, 1, n) \o SubSeq(q, n + 1, Len(q)) = q
    BY <2>1, SplitConcat
  <2> QED BY <2>2, <2>3 DEF q
<1> HIDE DEF t, d
<1>6. EchoTypes'
  <2>1. rx' \in [Echo!Streams -> Seq(EchoNumber)] /\ hand' \in Seq(EchoNumber)
    BY <1>1, <1>2, <1>5 DEF EchoTypes
  <2>2. Len(hand') <= EchoChunk /\ Len(d) <= EchoBuffers
    BY <1>2, <1>3, <1>4, <1>5
  <2>3. \A s \in Echo!Streams : Len(rx'[s]) <= EchoBuffers
    BY <1>1, <1>2, <2>2 DEF EchoTypes
  <2> QED BY <1>1, <1>2, <2>1, <2>2, <2>3 DEF EchoTypes, Echo!CompositeAssumption
<1>7. EchoLines'
  <2> SUFFICES ASSUME NEW s \in Echo!Streams
               PROVE  Ordered(Echo!Line(s)', Echo!Numbers, got'[s], sent'[s])
    BY DEF EchoLines
  <2>1. Ordered(Echo!Line(s), Echo!Numbers, got[s], sent[s])
    BY <1>1 DEF EchoLines
  <2>2. CASE s = cur
    <3>1. Echo!Line(s)' = (tx[s] \o t) \o d
      BY <1>1, <1>2, <2>2 DEF Echo!Line, EchoTypes
    <3>2. (tx[s] \o t) \o d = tx[s] \o (t \o d)
      <4> DEFINE q == tx[s]
      <4>1. q \in Seq(EchoNumber) /\ t \in Seq(EchoNumber) /\ d \in Seq(EchoNumber)
        BY <1>3, <1>5, <2>2
      <4> HIDE DEF q
      <4>2. (q \o t) \o d = q \o (t \o d)
        BY <4>1, ConcatAssociative
      <4> QED BY <4>2 DEF q
    <3>3. Echo!Line(s) = tx[s] \o rx[s]
      <4>1. tx[s] \o <<>> = tx[s]
        BY <1>3, <2>2, ConcatEmptySeq
      <4> QED BY <1>2, <4>1 DEF Echo!Line
    <3> QED BY <1>2, <1>5, <2>1, <2>2, <3>1, <3>2, <3>3
  <2>3. CASE s # cur
    <3>1. Echo!Line(s)' = Echo!Line(s)
      BY <1>1, <1>2, <2>3 DEF Echo!Line, EchoTypes
    <3> QED BY <1>2, <2>1, <3>1
  <2> QED BY <2>2, <2>3
<1>8. Echo!NoLostWakeup'
  BY <1>1, <1>2 DEF Echo!NoLostWakeup, EchoTypes
<1> QED BY <1>6, <1>7, <1>8 DEF EchoInv

(* main() puts what there is room for into the transmit queue.             *)
LEMMA EchoWriteKeeps ==
  ASSUME EchoInv, Echo!MainWrite
  PROVE  EchoInv'
<1>1. EchoTypes /\ EchoLines /\ Echo!NoLostWakeup
  BY DEF EchoInv
<1> DEFINE n == Echo!Least(EchoBuffers - Len(tx[cur]), Len(hand))
           t == SubSeq(hand, 1, n)
           d == SubSeq(hand, n + 1, Len(hand))
<1>2. /\ echoPc = "write" /\ echoPc' = "write"
      /\ hand' = d /\ tx' = [tx EXCEPT ![cur] = @ \o t]
      /\ UNCHANGED <<rx, event, sent, got, cur>>
  BY DEF Echo!MainWrite, Echo!Take, Echo!Drop, Echo!hosts
<1>3. /\ cur \in Echo!Streams /\ tx[cur] \in Seq(EchoNumber) /\ EchoChunk \in Nat
      /\ EchoBuffers \in Nat /\ Len(tx[cur]) <= EchoBuffers /\ Len(tx[cur]) \in Nat
      /\ hand \in Seq(EchoNumber) /\ Len(hand) \in Nat /\ Len(hand) <= EchoChunk
  BY <1>1, LenProperties DEF EchoTypes, Echo!CompositeAssumption
<1>4. n \in 0 .. Len(hand) /\ Len(tx[cur]) + n <= EchoBuffers
  <2>1. EchoBuffers - Len(tx[cur]) \in Nat
    BY <1>3
  <2>2. CASE EchoBuffers - Len(tx[cur]) < Len(hand)
    BY <1>3, <2>1, <2>2 DEF Echo!Least
  <2>3. CASE ~(EchoBuffers - Len(tx[cur]) < Len(hand))
    BY <1>3, <2>1, <2>3 DEF Echo!Least
  <2> QED BY <2>2, <2>3
<1> HIDE DEF n
<1>5. /\ t \in Seq(EchoNumber) /\ d \in Seq(EchoNumber)
      /\ Len(t) = n /\ Len(d) = Len(hand) - n /\ t \o d = hand
  <2>1. t \in Seq(EchoNumber) /\ d \in Seq(EchoNumber) /\ Len(t) = n /\ Len(d) = Len(hand) - n
    BY <1>3, <1>4, SplitCustody
  <2>2. t \o d = hand
    BY <1>3, <1>4, SplitConcat
  <2> QED BY <2>1, <2>2
<1> HIDE DEF t, d
<1>6. tx[cur] \o t \in Seq(EchoNumber) /\ Len(tx[cur] \o t) = Len(tx[cur]) + Len(t)
  BY <1>3, <1>5, ConcatProperties
<1>7. EchoTypes'
  <2>1. tx' \in [Echo!Streams -> Seq(EchoNumber)] /\ hand' \in Seq(EchoNumber)
    BY <1>1, <1>2, <1>5, <1>6 DEF EchoTypes
  <2>2. Len(hand') <= EchoChunk /\ Len(tx[cur] \o t) <= EchoBuffers
    BY <1>2, <1>3, <1>4, <1>5, <1>6
  <2>3. \A s \in Echo!Streams : Len(tx'[s]) <= EchoBuffers
    BY <1>1, <1>2, <2>2 DEF EchoTypes
  <2> QED BY <1>1, <1>2, <2>1, <2>2, <2>3 DEF EchoTypes, Echo!CompositeAssumption
<1>8. EchoLines'
  <2> SUFFICES ASSUME NEW s \in Echo!Streams
               PROVE  Ordered(Echo!Line(s)', Echo!Numbers, got'[s], sent'[s])
    BY DEF EchoLines
  <2>1. Ordered(Echo!Line(s), Echo!Numbers, got[s], sent[s])
    BY <1>1 DEF EchoLines
  <2>2. CASE s = cur
    <3>1. Echo!Line(s)' = ((tx[s] \o t) \o d) \o rx[s]
      BY <1>1, <1>2, <2>2 DEF Echo!Line, EchoTypes
    <3>2. (tx[s] \o t) \o d = tx[s] \o (t \o d)
      <4> DEFINE q == tx[s]
      <4>1. q \in Seq(EchoNumber) /\ t \in Seq(EchoNumber) /\ d \in Seq(EchoNumber)
        BY <1>3, <1>5, <2>2
      <4> HIDE DEF q
      <4>2. (q \o t) \o d = q \o (t \o d)
        BY <4>1, ConcatAssociative
      <4> QED BY <4>2 DEF q
    <3>3. Echo!Line(s) = (tx[s] \o hand) \o rx[s]
      BY <1>2, <2>2 DEF Echo!Line
    <3> QED BY <1>2, <1>5, <2>1, <3>1, <3>2, <3>3
  <2>3. CASE s # cur
    <3>1. Echo!Line(s)' = Echo!Line(s)
      BY <1>1, <1>2, <2>3 DEF Echo!Line, EchoTypes
    <3> QED BY <1>2, <2>1, <3>1
  <2> QED BY <2>2, <2>3
<1>9. Echo!NoLostWakeup'
  BY <1>1, <1>2 DEF Echo!NoLostWakeup, EchoTypes
<1> QED BY <1>7, <1>8, <1>9 DEF EchoInv

(* The steps of the loop, which move no packet.                            *)
LEMMA EchoLoopKeeps ==
  ASSUME EchoInv,
         Echo!MainScan \/ Echo!MainSkip \/ Echo!MainPick \/ Echo!MainMore
           \/ UNCHANGED Echo!vars
  PROVE  EchoInv'
<1>1. EchoTypes /\ EchoLines /\ Echo!NoLostWakeup
  BY DEF EchoInv
<1>2. UNCHANGED <<rx, tx, sent, got, hand>>
  BY DEF Echo!MainScan, Echo!MainSkip, Echo!MainPick, Echo!MainMore, Echo!vars, Echo!hosts
<1>3. EchoTypes'
  <2>1. cur' \in Echo!Streams /\ echoPc' \in {"scan", "pick", "read", "write"}
    <3>1. EchoStreams \in Nat /\ cur \in 1 .. EchoStreams
      BY <1>1 DEF EchoTypes, Echo!Streams, Echo!CompositeAssumption
    <3>2. Echo!AfterStream => cur' \in 1 .. EchoStreams /\ echoPc' \in {"scan", "pick"}
      BY <3>1 DEF Echo!AfterStream
    <3>3. CASE Echo!MainMore
      BY <3>1, <3>2, <3>3 DEF Echo!MainMore, Echo!Streams
    <3>4. CASE ~Echo!MainMore
      BY <1>1, <3>1, <3>2, <3>4
         DEF EchoTypes, Echo!MainScan, Echo!MainSkip, Echo!MainPick, Echo!vars, Echo!Streams
    <3> QED BY <3>3, <3>4
  <2>2. event' \in [Echo!Streams -> BOOLEAN]
    BY <1>1 DEF EchoTypes, Echo!MainScan, Echo!MainSkip, Echo!MainPick, Echo!MainMore,
                Echo!vars
  <2> QED BY <1>1, <1>2, <2>1, <2>2 DEF EchoTypes, Echo!CompositeAssumption
<1>4. EchoLines'
  <2>1. ASSUME NEW s \in Echo!Streams PROVE Echo!Line(s)' = Echo!Line(s)
    BY <1>2 DEF Echo!Line, Echo!MainScan, Echo!MainSkip, Echo!MainPick, Echo!MainMore,
                Echo!vars, Echo!AfterStream
  <2> QED BY <1>1, <1>2, <2>1 DEF EchoLines
<1>5. Echo!NoLostWakeup'
  <2> SUFFICES ASSUME NEW s \in Echo!Streams, rx'[s] # <<>>,
                      ~(cur' = s /\ echoPc' \in {"read", "write"})
               PROVE  event'[s]
    BY DEF Echo!NoLostWakeup
  <2>1. rx[s] # <<>> /\ (event[s] \/ (cur = s /\ echoPc \in {"read", "write"}))
    BY <1>1, <1>2 DEF Echo!NoLostWakeup
  <2>2. CASE Echo!MainScan \/ Echo!MainSkip \/ UNCHANGED Echo!vars
    BY <2>1, <2>2 DEF Echo!MainScan, Echo!MainSkip, Echo!vars
  <2>3. CASE Echo!MainPick
    BY <1>1, <2>1, <2>3 DEF Echo!MainPick, EchoTypes
  <2>4. CASE Echo!MainMore
    BY <2>1, <2>4 DEF Echo!MainMore
  <2> QED BY <2>2, <2>3, <2>4
<1> QED BY <1>3, <1>4, <1>5 DEF EchoInv

LEMMA EchoInvAlways == SpecAll => []EchoInv
<1>1. Echo!CompositeAssumption
  BY ProgramAssumption
<1>2. EchoInv /\ [Echo!Next]_Echo!vars => EchoInv'
  BY HostSendKeeps, HostReceiveKeeps, EchoReadKeeps, EchoWriteKeeps, EchoLoopKeeps
     DEF Echo!Next, Echo!Main
<1> QED BY EchoRuns, EchoInvInit, <1>1, <1>2, PTL DEF Echo!SafeSpec

-----------------------------------------------------------------------------
(* SerialEcho: it sends back what it received, in order and completely,    *)
(* for any sizes of the queues and of the buffer of main().                *)

SerialNumber == 0 .. Serial!Numbers - 1

(* The bound makes room: rx \o tx is never longer than the receive queue,  *)
(* which is no longer than the transmit queue, so that ifWrite() takes all *)
(* that ifRead() returned.                                                 *)
SerialInv ==
  /\ Serial!SerialAssumption
  /\ serialRx \in Seq(SerialNumber) /\ serialTx \in Seq(SerialNumber)
  /\ serialSent \in SerialNumber /\ serialGot \in SerialNumber
  /\ Len(serialTx) + Len(serialRx) <= SerialRxLength
  /\ Ordered(serialTx \o serialRx, Serial!Numbers, serialGot, serialSent)

LEMMA SerialNumbers == Serial!SerialAssumption => Serial!Numbers \in Nat /\ Serial!Numbers > 1
BY DEF Serial!SerialAssumption, Serial!Numbers


LEMMA SerialInvInit == Serial!SerialAssumption /\ Serial!Init => SerialInv
<1> SUFFICES ASSUME Serial!SerialAssumption, Serial!Init PROVE SerialInv
  OBVIOUS
<1>1. Serial!Numbers \in Nat /\ Serial!Numbers > 1 /\ SerialRxLength \in Nat
  BY SerialNumbers DEF Serial!SerialAssumption
<1>2. <<>> \in Seq(SerialNumber) /\ Len(<<>>) = 0 /\ <<>> \o <<>> = <<>>
  BY ConcatEmptySeq, EmptySeq
<1>3. 0 \in SerialNumber
  BY <1>1 DEF SerialNumber
<1>4. Ordered(<<>>, Serial!Numbers, 0, 0)
  BY <1>1, OrderedEmpty
<1> QED BY <1>1, <1>2, <1>3, <1>4 DEF Serial!Init, SerialInv

(* One character goes.                                                     *)
LEMMA SerialGoes ==
  ASSUME SerialInv, Serial!Goes
  PROVE  /\ serialTx' \in Seq(SerialNumber) /\ serialGot' \in SerialNumber
         /\ Len(serialTx') = IF serialTx = <<>> THEN 0 ELSE Len(serialTx) - 1
         /\ serialTx = <<>> <=> Len(serialTx) = 0
         /\ Ordered(serialTx' \o serialRx, Serial!Numbers, serialGot', serialSent)
<1>1. /\ Serial!SerialAssumption /\ serialRx \in Seq(SerialNumber) /\ serialTx \in Seq(SerialNumber)
      /\ serialGot \in SerialNumber /\ serialSent \in SerialNumber
      /\ Ordered(serialTx \o serialRx, Serial!Numbers, serialGot, serialSent)
  BY DEF SerialInv
<1>2. CASE serialTx = <<>>
  BY <1>1, <1>2, EmptySeq DEF Serial!Goes
<1>3. CASE serialTx # <<>>
  <2>1. serialTx' = Tail(serialTx) /\ serialGot' = (Head(serialTx) + 1) % Serial!Numbers
    BY <1>3 DEF Serial!Goes
  <2>2. /\ serialTx \o serialRx # <<>> /\ Tail(serialTx \o serialRx) = Tail(serialTx) \o serialRx
        /\ serialTx \o serialRx \in Seq(SerialNumber) /\ Head(serialTx \o serialRx) = Head(serialTx)
    <3>1. serialTx \o serialRx # <<>> /\ Tail(serialTx \o serialRx) = Tail(serialTx) \o serialRx
      BY <1>1, <1>3, TailConcat
    <3>2. serialTx \o serialRx \in Seq(SerialNumber) /\ (serialTx \o serialRx)[1] = serialTx[1]
      BY <1>1, <1>3, ConcatProperties, EmptySeq, LenProperties
    <3> QED BY <1>1, <1>3, <3>1, <3>2
  <2>3. Ordered(serialTx' \o serialRx, Serial!Numbers, serialGot', serialSent)
    <3>1. Ordered(Tail(serialTx \o serialRx), Serial!Numbers,
                  (Head(serialTx \o serialRx) + 1) % Serial!Numbers, serialSent)
      <4>1. Serial!Numbers \in Nat \ {0}
        BY <1>1, SerialNumbers
      <4> QED BY <1>1, <2>2, <4>1, OrderedTail DEF SerialNumber
    <3> QED BY <2>1, <2>2, <3>1
  <2>4. /\ Tail(serialTx) \in Seq(SerialNumber) /\ Len(Tail(serialTx)) = Len(serialTx) - 1
        /\ Head(serialTx) \in SerialNumber /\ Len(serialTx) # 0
    BY <1>1, <1>3, HeadTailProperties, EmptySeq
  <2>5. serialGot' \in SerialNumber
    BY <1>1, <2>1, <2>4, SerialNumbers DEF SerialNumber
  <2> QED BY <1>3, <2>1, <2>3, <2>4, <2>5
<1> QED BY <1>2, <1>3

LEMMA SerialCharacter ==
  ASSUME SerialInv, Serial!Character
  PROVE  SerialInv'
<1>1. /\ Serial!SerialAssumption /\ serialRx \in Seq(SerialNumber) /\ serialTx \in Seq(SerialNumber)
      /\ serialSent \in SerialNumber
      /\ Len(serialTx) + Len(serialRx) <= SerialRxLength /\ SerialRxLength \in Nat
  BY DEF SerialInv, Serial!SerialAssumption
<1>2. /\ serialTx' \in Seq(SerialNumber) /\ serialGot' \in SerialNumber
      /\ Len(serialTx') = IF serialTx = <<>> THEN 0 ELSE Len(serialTx) - 1
      /\ serialTx = <<>> <=> Len(serialTx) = 0
      /\ Ordered(serialTx' \o serialRx, Serial!Numbers, serialGot', serialSent)
  BY SerialGoes DEF Serial!Character
<1>3. Len(serialRx) \in Nat /\ Len(serialTx) \in Nat
  BY <1>1, LenProperties
<1>4. CASE Len(serialRx) < SerialRxLength
  <2>1. serialRx' = Append(serialRx, serialSent) /\ serialSent' = (serialSent + 1) % Serial!Numbers
    BY <1>4 DEF Serial!Character, Serial!Comes
  <2>2. serialRx' \in Seq(SerialNumber) /\ Len(serialRx') = Len(serialRx) + 1
    BY <1>1, <2>1, AppendProperties
  <2>3. /\ serialTx' \o serialRx' = Append(serialTx' \o serialRx, serialSent)
        /\ serialTx' \o serialRx \in Seq(SerialNumber)
    BY <1>1, <1>2, <2>1, ConcatAppend, ConcatProperties
  <2>4. Ordered(serialTx' \o serialRx', Serial!Numbers, serialGot', serialSent')
    <3>1. Serial!Numbers \in Nat \ {0}
      BY <1>1, SerialNumbers
    <3> QED BY <1>1, <1>2, <2>1, <2>3, <3>1, OrderedAppend DEF SerialNumber
  <2>5. serialSent' \in SerialNumber
    BY <1>1, <2>1, SerialNumbers DEF SerialNumber
  <2>6. Len(serialTx') + Len(serialRx') <= SerialRxLength
    <3>1. CASE Len(serialTx) = 0
      BY <1>1, <1>2, <1>3, <1>4, <2>2, <3>1
    <3>2. CASE Len(serialTx) # 0
      BY <1>1, <1>2, <1>3, <2>2, <3>2
    <3> QED BY <3>1, <3>2
  <2> QED BY <1>1, <1>2, <2>2, <2>4, <2>5, <2>6 DEF SerialInv, Serial!SerialAssumption
<1>5. CASE ~(Len(serialRx) < SerialRxLength)
  <2>1. serialRx' = serialRx /\ serialSent' = serialSent
    BY <1>5 DEF Serial!Character, Serial!Comes
  <2>2. Len(serialTx') + Len(serialRx') <= SerialRxLength
    BY <1>1, <1>2, <1>3, <1>5, <2>1
  <2> QED BY <1>1, <1>2, <2>1, <2>2 DEF SerialInv, Serial!SerialAssumption
<1> QED BY <1>4, <1>5

LEMMA SerialSilence ==
  ASSUME SerialInv, Serial!Silence
  PROVE  SerialInv'
<1>1. /\ serialTx' \in Seq(SerialNumber) /\ serialGot' \in SerialNumber
      /\ Len(serialTx') = IF serialTx = <<>> THEN 0 ELSE Len(serialTx) - 1
      /\ serialTx = <<>> <=> Len(serialTx) = 0
      /\ Ordered(serialTx' \o serialRx, Serial!Numbers, serialGot', serialSent)
  BY SerialGoes DEF Serial!Silence
<1>2. serialRx' = serialRx /\ serialSent' = serialSent
  BY DEF Serial!Silence
<1>3. Len(serialTx') + Len(serialRx') <= SerialRxLength
  BY <1>1, <1>2, LenProperties DEF SerialInv, Serial!SerialAssumption
<1> QED BY <1>1, <1>2, <1>3 DEF SerialInv, Serial!SerialAssumption

(* What one pass moves leaves the one queue and fits the other: the line   *)
(* of characters is the same.                                              *)
LEMMA SerialTransfer ==
  ASSUME SerialInv, Serial!Transfer
  PROVE  SerialInv'
<1>1. /\ serialRx \in Seq(SerialNumber) /\ serialTx \in Seq(SerialNumber)
      /\ Len(serialTx) + Len(serialRx) <= SerialRxLength
      /\ SerialRxLength \in Nat /\ SerialTxLength \in Nat /\ SerialChunk \in Nat /\ SerialRxLength <= SerialTxLength
      /\ Len(serialRx) \in Nat /\ Len(serialTx) \in Nat
  BY LenProperties DEF SerialInv, Serial!SerialAssumption
<1> DEFINE n == Serial!Least(SerialChunk, Len(serialRx))
           t == Serial!Take(serialRx, n)
           d == Serial!Drop(serialRx, n)
<1>2. n \in 0 .. Len(serialRx)
  BY <1>1 DEF Serial!Least
<1>3. Serial!Least(n, SerialTxLength - Len(serialTx)) = n
  BY <1>1, <1>2 DEF Serial!Least
<1>4. serialTx' = serialTx \o t /\ serialRx' = d /\ serialSent' = serialSent /\ serialGot' = serialGot
  BY <1>3 DEF Serial!Transfer, Serial!hosts
<1> HIDE DEF n
<1>5. t \o d = serialRx
  BY <1>1, <1>2, SplitConcat DEF Serial!Take, Serial!Drop
<1>6. t \in Seq(SerialNumber) /\ d \in Seq(SerialNumber) /\ Len(t) = n /\ Len(d) = Len(serialRx) - n
  <2>1. \A j \in 1 .. Len(serialRx) : serialRx[j] \in SerialNumber
    BY <1>1, ElementOfSeq
  <2>2. t \in Seq(SerialNumber) /\ Len(t) = n
    BY <1>1, <1>2, <2>1, SubSeqProperties DEF Serial!Take
  <2>3. d \in Seq(SerialNumber) /\ Len(d) = Len(serialRx) - n
    BY <1>1, <1>2, <2>1, SubSeqProperties DEF Serial!Drop
  <2> QED BY <2>2, <2>3
<1> HIDE DEF t, d
<1>7. /\ serialTx' \in Seq(SerialNumber) /\ serialRx' \in Seq(SerialNumber)
      /\ Len(serialTx') + Len(serialRx') <= SerialRxLength
  BY <1>1, <1>2, <1>4, <1>6, ConcatProperties
<1>8. serialTx' \o serialRx' = serialTx \o serialRx
  <2>1. (serialTx \o t) \o d = serialTx \o (t \o d)
    <3>1. serialTx \in Seq(SerialNumber) /\ t \in Seq(SerialNumber) /\ d \in Seq(SerialNumber)
      BY <1>1, <1>6
    <3> QED BY <3>1, ConcatAssociative
  <2> QED BY <1>4, <1>5, <2>1
<1> QED BY <1>4, <1>7, <1>8 DEF SerialInv, Serial!SerialAssumption

LEMMA SerialInvAlways == Serial!SerialAssumption /\ Serial!Spec => []SerialInv
<1>1. SerialInv /\ [Serial!Next]_Serial!vars => SerialInv'
  <2> SUFFICES ASSUME SerialInv, [Serial!Next]_Serial!vars PROVE SerialInv'
    OBVIOUS
  <2>1. CASE Serial!Wake \/ Serial!Available \/ UNCHANGED Serial!vars
    <3>1. UNCHANGED <<serialRx, serialTx, serialSent, serialGot>>
      BY <2>1 DEF Serial!Wake, Serial!Available, Serial!vars, Serial!hosts
    <3> QED BY <3>1 DEF SerialInv, Serial!SerialAssumption
  <2> QED BY <2>1, SerialCharacter, SerialSilence, SerialTransfer DEF Serial!Next, Serial!Main
<1> QED
  BY SerialInvInit, <1>1, PTL DEF Serial!Spec

(* For any sizes of the queues and of the buffer of main(), and however    *)
(* late it is, nothing that was received is dropped or sent out of order.  *)
THEOREM SerialKeepsOrder == Serial!SerialAssumption /\ Serial!Spec => []Serial!EchoInOrder
<1>1. SerialInv => Serial!EchoInOrder
  BY ConcatProperties DEF SerialInv, Ordered, Serial!EchoInOrder, Serial!Line
<1> QED
  BY SerialInvAlways, <1>1, PTL

(* The event of main(): it is cleared before the queue is read, and the    *)
(* queue is looked at again before main() waits.                           *)
SerialWakeInv ==
  /\ serialEvent \in BOOLEAN /\ serialPc \in {"wait", "transfer", "available"}
  /\ Serial!NoLostWakeup

LEMMA SerialWakeAlways == Serial!Spec => []SerialWakeInv
<1>1. Serial!Init => SerialWakeInv
  BY DEF Serial!Init, SerialWakeInv, Serial!NoLostWakeup
<1>2. SerialWakeInv /\ [Serial!Next]_Serial!vars => SerialWakeInv'
  <2> SUFFICES ASSUME SerialWakeInv, [Serial!Next]_Serial!vars PROVE SerialWakeInv'
    OBVIOUS
  <2> USE DEF SerialWakeInv, Serial!NoLostWakeup
  <2>1. CASE Serial!Wake
    BY <2>1 DEF Serial!Wake
  <2>2. CASE Serial!Transfer
    BY <2>2 DEF Serial!Transfer
  <2>3. CASE Serial!Available
    BY <2>3 DEF Serial!Available
  <2>4. CASE Serial!Character
    BY <2>4 DEF Serial!Character
  <2>5. CASE Serial!Silence
    <3>1. (serialEvent' = serialEvent \/ serialEvent' = TRUE) /\ serialRx' = serialRx /\ serialPc' = serialPc
      BY <2>5 DEF Serial!Silence
    <3> QED BY <3>1
  <2>6. CASE UNCHANGED Serial!vars
    BY <2>6 DEF Serial!vars
  <2> QED BY <2>1, <2>2, <2>3, <2>4, <2>5, <2>6 DEF Serial!Next, Serial!Main
<1> QED BY <1>1, <1>2, PTL DEF Serial!Spec

(* No character waits for main() without an event.                         *)
THEOREM CharactersNotForgotten == Serial!Spec => []Serial!NoLostWakeup
<1>1. SerialWakeInv => Serial!NoLostWakeup
  BY DEF SerialWakeInv
<1> QED BY SerialWakeAlways, <1>1, PTL

(* The types of the queues and of main().                                  *)
LEMMA SerialTypes == Serial!SerialAssumption /\ Serial!Spec => []Serial!TypeOK
<1>1. SerialInv /\ SerialWakeInv => Serial!TypeOK
  <2> SUFFICES ASSUME SerialInv, SerialWakeInv PROVE Serial!TypeOK
    OBVIOUS
  <2>1. /\ serialTx \in Seq(SerialNumber) /\ serialRx \in Seq(SerialNumber)
        /\ {serialSent, serialGot} \subseteq SerialNumber
    BY DEF SerialInv
  <2>2. Serial!Line \in Seq(SerialNumber)
    BY <2>1, ConcatProperties DEF Serial!Line
  <2>3. Len(serialTx) \in Nat /\ Len(serialRx) \in Nat
    BY <2>1, LenProperties
  <2>4. Len(serialRx) <= SerialRxLength /\ Len(serialTx) <= SerialTxLength
    BY <2>3 DEF SerialInv, Serial!SerialAssumption
  <2> QED BY <2>1, <2>2, <2>4 DEF Serial!TypeOK, SerialWakeInv, SerialNumber
<1> QED BY SerialInvAlways, SerialWakeAlways, <1>1, PTL

-----------------------------------------------------------------------------
(* CdcComposite and SerialEcho: for any number of streams, any sizes of    *)
(* the queues and of the buffer of main(), each stream gets back what its  *)
(* host sent, in order, and nothing of another.                            *)
THEOREM EchoOrdered == SpecAll => []EchoInOrder
<1>1. Serial!SerialAssumption
  BY ProgramAssumption
<1>2. Serial!SerialAssumption /\ Serial!Spec => []Serial!EchoInOrder
  BY SerialKeepsOrder
<1>3. EchoInv => Echo!EchoInOrder
  BY DEF EchoInv, EchoLines, Ordered, Echo!EchoInOrder
<1>4. Echo!EchoInOrder /\ Serial!EchoInOrder => EchoInOrder
  BY DEF EchoInOrder
<1> QED BY EchoInvAlways, SerialRuns, <1>1, <1>2, <1>3, <1>4, PTL

-----------------------------------------------------------------------------
(* EthRaw, and what holds of several programs                              *)

LEMMA EthRuns == SpecAll => Eth!SafeSpec
<1>1. InitAll => Eth!Init
  BY DEF InitAll
<1>2. [NextAll]_allVars => [Eth!Next]_Eth!vars
  <2> SUFFICES ASSUME [NextAll]_allVars PROVE [Eth!Next]_Eth!vars
    OBVIOUS
  <2>1. CASE UNCHANGED ethVars
    BY <2>1 DEF ethVars, Eth!vars, Eth!driver, Eth!board, Eth!progress
  <2> QED BY <2>1, OneRuns
<1> QED BY <1>1, <1>2, PTL DEF SpecAll, Eth!SafeSpec

(* EthRaw: a match of the peer means that the board stores what it sent, a *)
(* mismatch that the run lost a frame or met an earlier one.               *)
THEOREM VerdictsRight == SpecAll => []VerdictRight
<1>1. Eth!EthAssumption
  BY ProgramAssumption
<1>2. Eth!EthAssumption /\ Eth!SafeSpec => []Eth!VerdictRight
  BY Eth!VerdictAboutBoard
<1>3. Eth!VerdictRight => VerdictRight
  BY DEF VerdictRight
<1> QED BY EthRuns, <1>1, <1>2, <1>3, PTL

(* CdcComposite, SerialEcho and EthRaw: main() never waits with something  *)
(* to do whose event it has cleared.                                       *)
THEOREM WakeupsKept == SpecAll => []WakeupKept
<1>1. Eth!EthAssumption
  BY ProgramAssumption
<1>2. Eth!EthAssumption /\ Eth!SafeSpec => []Eth!NoLostWakeup
  BY Eth!FramesNotForgotten
<1>3. Serial!Spec => []Serial!NoLostWakeup
  BY CharactersNotForgotten
<1>4. EchoInv => Echo!NoLostWakeup
  BY DEF EchoInv
<1>5. Echo!NoLostWakeup /\ Serial!NoLostWakeup /\ Eth!NoLostWakeup => WakeupKept
  BY DEF WakeupKept
<1> QED BY EthRuns, SerialRuns, EchoInvAlways, <1>1, <1>2, <1>3, <1>4, <1>5, PTL


-----------------------------------------------------------------------------
(* FlashCfi and EmcFlash.  The chip belongs to one of two programs, and    *)
(* keeps the contents it was found with under all the others.              *)

LEMMA WhichStays == NextAll \/ UNCHANGED allVars => UNCHANGED which
BY OneRuns

LEMMA ChipRuns == which = "chip" /\ SpecAll => Chip!Spec /\ [](which = "chip" /\ ~testLed)
<1>1. which = "chip" /\ InitAll => Chip!Init /\ which = "chip" /\ ~testLed
  BY DEF InitAll
<1>2. which = "chip" /\ [NextAll]_allVars => [Chip!Next]_Chip!vars
  <2> SUFFICES ASSUME which = "chip", [NextAll]_allVars PROVE [Chip!Next]_Chip!vars
    OBVIOUS
  <2>1. CASE UNCHANGED chipVars
    BY <2>1 DEF chipVars, Chip!vars
  <2> QED BY <2>1, OneRuns
<1>3. which = "chip" /\ ~testLed /\ [NextAll]_allVars => (which = "chip" /\ ~testLed)'
  BY OneRuns DEF testVars
<1> QED BY <1>1, <1>2, <1>3, PTL DEF SpecAll, Chip!Spec

LEMMA EmcRuns == ~(which = "chip") /\ SpecAll => Emc!TestSpec /\ [](~(which = "chip"))
<1>1. ~(which = "chip") /\ InitAll => Emc!TestInit
  BY DEF InitAll, Emc!TestInit
<1>2. ~(which = "chip") /\ [NextAll]_allVars => [Emc!Test \/ Emc!Driver]_<<Emc!vars, Emc!client>>
  <2> SUFFICES ASSUME ~(which = "chip"), [NextAll]_allVars
               PROVE  [Emc!Test \/ Emc!Driver]_<<Emc!vars, Emc!client>>
    OBVIOUS
  <2>1. CASE UNCHANGED chipVars /\ UNCHANGED testVars
    BY <2>1 DEF chipVars, testVars, Emc!vars, Emc!client
  <2> QED BY <2>1, OneRuns
<1>3. ~(which = "chip") /\ [NextAll]_allVars => (~(which = "chip"))'
  BY OneRuns
<1> QED BY <1>1, <1>2, <1>3, PTL DEF SpecAll, Emc!TestSpec

(* FlashCfi: every operation has its whole effect and no other, for every  *)
(* chip whose blocks are made of whole sectors.                            *)
THEOREM PromisesKept == SpecAll => []PromiseKept
<1>1. Chip!FlashAssumption
  BY ProgramAssumption
<1>2. Chip!FlashAssumption /\ Chip!Spec => []Chip!PromiseKept
  BY Chip!PromisesKept
<1>3. /\ which = "chip" /\ Chip!PromiseKept => PromiseKept
      /\ ~(which = "chip") => PromiseKept
  BY DEF PromiseKept
<1>4. which = "chip" /\ SpecAll => []PromiseKept
  BY ChipRuns, <1>1, <1>2, <1>3, PTL
<1>5. ~(which = "chip") /\ SpecAll => []PromiseKept
  BY EmcRuns, <1>3, PTL
<1> QED BY <1>4, <1>5

(* EmcFlash: a good chip passes, whatever it held and whatever is written. *)
THEOREM GoodChipsPass == SpecAll => []GoodChipPasses
<1>1. Emc!FlashAssumption /\ Emc!EmcAssumption
  BY ProgramAssumption
<1>2. Emc!FlashAssumption /\ Emc!EmcAssumption /\ Emc!TestSpec => []Emc!GoodChipPasses
  BY Emc!TestPasses
<1>3. Emc!GoodChipPasses <=> GoodChipPasses
  BY DEF GoodChipPasses
<1>4. ~testLed => GoodChipPasses
  BY DEF GoodChipPasses, Emc!GoodChipPasses
<1>5. which = "chip" /\ SpecAll => []GoodChipPasses
  BY ChipRuns, <1>4, PTL
<1>6. ~(which = "chip") /\ SpecAll => []GoodChipPasses
  BY EmcRuns, <1>1, <1>2, <1>3, PTL
<1> QED BY <1>5, <1>6

-----------------------------------------------------------------------------
(* The types of the programs.                                              *)
LEMMA CardTypes == SpecAll => []Card!TypeOK
<1>1. Card!CardAssumption /\ Card!Init => Card!TypeOK
  <2> SUFFICES ASSUME Card!CardAssumption, Card!Init PROVE Card!TypeOK
    OBVIOUS
  <2>1. {live, busy, result, timer, done, watched, mounted, failed, cardFaults} \subseteq BOOLEAN
    BY DEF Card!Init
  <2>2. 1 \in 1..Card!Tests
    BY DEF Card!Tests
  <2> QED BY <2>1, <2>2 DEF Card!Init, Card!TypeOK
<1>2. CardInv /\ Card!TypeOK /\ [Card!Next]_<<Card!vars, cardFaults>> => Card!TypeOK'
  <2> SUFFICES ASSUME CardInv, Card!TypeOK, [Card!Next]_<<Card!vars, cardFaults>>
               PROVE  Card!TypeOK'
    OBVIOUS
  <2>1. /\ inserted \in {Card!None, Card!Unusable} \cup CardSizes
        /\ capacity \in {0} \cup CardSizes
        /\ live \in BOOLEAN /\ busy \in BOOLEAN /\ result \in BOOLEAN /\ timer \in BOOLEAN
        /\ done \in BOOLEAN /\ watched \in BOOLEAN /\ mounted \in BOOLEAN
        /\ failed \in BOOLEAN /\ cardFaults \in BOOLEAN
        /\ position \in Nat /\ cardPc \in {"wait", "start", "sync", "finish"}
        /\ test \in 1..Card!Tests /\ CardArena \in Nat /\ Card!Tests \in Nat /\ Card!Tests > 0
    BY DEF CardInv, Card!CardAssumption, Card!TypeOK, Card!Tests
  <2>2. ASSUME /\ (inserted \in {Card!None, Card!Unusable} \cup CardSizes)'
               /\ (capacity \in {0} \cup CardSizes)'
               /\ (live \in BOOLEAN /\ busy \in BOOLEAN /\ result \in BOOLEAN)'
               /\ (timer \in BOOLEAN /\ done \in BOOLEAN /\ watched \in BOOLEAN)'
               /\ (mounted \in BOOLEAN /\ failed \in BOOLEAN /\ cardFaults \in BOOLEAN)'
               /\ (position \in Nat /\ cardPc \in {"wait", "start", "sync", "finish"})'
               /\ (test \in 1..Card!Tests)'
        PROVE  Card!TypeOK'
    BY <2>2 DEF Card!TypeOK
  <2>3. ASSUME NEW ok \in BOOLEAN, Card!TestEnds(ok)
        PROVE  /\ failed' \in BOOLEAN /\ test' \in 1..Card!Tests
               /\ cardPc' \in {"wait", "start", "sync", "finish"}
    BY <2>1, <2>3 DEF Card!TestEnds
  <2>4. CASE UNCHANGED <<Card!vars, cardFaults>>
    BY <2>1, <2>2, <2>4 DEF Card!vars, Card!slot, Card!transfer
  <2> USE DEF Card!slot, Card!transfer
  <2>5. ASSUME Card!Next PROVE cardFaults' \in BOOLEAN
    BY <2>1, <2>5 DEF Card!Next
  <2>6. CASE Card!Next /\ Card!Insert
    BY <2>1, <2>2, <2>5, <2>6 DEF Card!Insert
  <2>7. CASE Card!Next /\ Card!Remove
    BY <2>1, <2>2, <2>5, <2>7 DEF Card!Remove
  <2>8. CASE Card!Next /\ Card!TimerOverflow
    BY <2>1, <2>2, <2>5, <2>8 DEF Card!TimerOverflow
  <2>9. CASE Card!Next /\ Card!TransferEnds
    BY <2>1, <2>2, <2>5, <2>9 DEF Card!TransferEnds
  <2>10. CASE Card!Next /\ Card!MainMount
    <3>1. PICK ok \in {TRUE, ~cardFaults} : IF ok /\ inserted \in CardSizes
            THEN /\ mounted' = TRUE /\ live' = TRUE
                 /\ capacity' = inserted /\ position' = 0
                 /\ cardPc' = "start"
            ELSE UNCHANGED <<mounted, live, capacity, position, cardPc>>
      BY <2>10 DEF Card!MainMount
    <3>2. /\ timer' = FALSE
          /\ UNCHANGED <<inserted, busy, result, done, watched, test, failed>>
      BY <2>10 DEF Card!MainMount
    <3>3. CASE ok /\ inserted \in CardSizes
      <4>1. /\ mounted' = TRUE /\ live' = TRUE /\ capacity' = inserted /\ position' = 0
            /\ cardPc' = "start" /\ inserted \in CardSizes
        BY <3>1, <3>3
      <4>2. cardFaults' \in BOOLEAN /\ test' \in 1..Card!Tests
        BY <2>1, <2>5, <2>10, <3>2
      <4>3. (inserted \in {Card!None, Card!Unusable} \cup CardSizes)'
            /\ (capacity \in {0} \cup CardSizes)'
        BY <2>1, <3>2, <4>1
      <4>4. /\ (live \in BOOLEAN /\ busy \in BOOLEAN /\ result \in BOOLEAN)'
            /\ (timer \in BOOLEAN /\ done \in BOOLEAN /\ watched \in BOOLEAN)'
            /\ (mounted \in BOOLEAN /\ failed \in BOOLEAN)'
        BY <2>1, <3>2, <4>1
      <4> QED BY <2>2, <4>1, <4>2, <4>3, <4>4
    <3>4. CASE ~(ok /\ inserted \in CardSizes)
      BY <2>1, <2>2, <2>5, <2>10, <3>1, <3>2, <3>4
    <3> QED BY <3>3, <3>4
  <2>11. CASE Card!Next /\ Card!MainTest
    BY <2>1, <2>2, <2>5, <2>11 DEF Card!MainTest
  <2>12. CASE Card!Next /\ Card!MainStart
    BY <2>1, <2>2, <2>3, <2>5, <2>12 DEF Card!MainStart, Card!StartRefused, Card!StartAccepted
  <2>13. CASE Card!Next /\ Card!MainSync
    BY <2>1, <2>2, <2>3, <2>5, <2>13 DEF Card!MainSync
  <2>14. CASE Card!Next /\ Card!MainFinish
    <3>1. position' \in Nat
      BY <2>1, <2>14 DEF Card!MainFinish
    <3>2. mounted' \in BOOLEAN /\ live' \in BOOLEAN
      BY <2>1, <2>14 DEF Card!MainFinish
    <3> QED BY <2>1, <2>2, <2>5, <2>14, <3>1, <3>2 DEF Card!MainFinish
  <2> QED BY <2>4, <2>6, <2>7, <2>8, <2>9, <2>10, <2>11, <2>12, <2>13, <2>14
          DEF Card!Next, Card!Main
<1>3. Card!CardAssumption
  BY ProgramAssumption
<1> QED BY CardRuns, CardInvAlways, <1>1, <1>2, <1>3, PTL DEF Card!SafeSpec

LEMMA EchoTypesKept == EchoInv => Echo!TypeOK
<1> SUFFICES ASSUME EchoTypes PROVE Echo!TypeOK
  BY DEF EchoInv
<1>1. ASSUME NEW s \in Echo!Streams
      PROVE  /\ Echo!Line(s) \in Seq(EchoNumber)
             /\ {sent[s], got[s]} \subseteq EchoNumber
  BY EchoLineParts DEF EchoTypes
<1> QED BY <1>1 DEF EchoTypes, Echo!TypeOK, EchoNumber

(* Every program with queues or data keeps its types, for every value of   *)
(* the constants.                                                          *)
THEOREM TypesCorrect == SpecAll => []AllTypes
<1>1. /\ Chip!FlashAssumption /\ Emc!FlashAssumption /\ Emc!EmcAssumption
      /\ Serial!SerialAssumption /\ Eth!EthAssumption
  BY ProgramAssumption
<1>2. Chip!FlashAssumption /\ Chip!Spec => []Chip!TypeOK
  BY Chip!TypeCorrect
<1>3. Emc!FlashAssumption /\ Emc!EmcAssumption /\ Emc!TestSpec => []Emc!TypeOK
  BY Emc!TestTypes
<1>4. Serial!SerialAssumption /\ Serial!Spec => []Serial!TypeOK
  BY SerialTypes
<1>5. Eth!EthAssumption /\ Eth!SafeSpec => []Eth!TypeOK
  BY Eth!TypeCorrect
<1>6. CanInv => TypeOK
  BY DEF CanInv
<1>7. CopyInv => Copy!TypeOK
  BY DEF CopyInv, CopyTypes
<1>8. TypeOK /\ Copy!TypeOK /\ Echo!TypeOK /\ Card!TypeOK /\ Serial!TypeOK /\ Eth!TypeOK
        /\ (IF which = "chip" THEN Chip!TypeOK ELSE Emc!TypeOK) => AllTypes
  BY DEF AllTypes
<1>9. which = "chip" /\ SpecAll => [](IF which = "chip" THEN Chip!TypeOK ELSE Emc!TypeOK)
  <2>1. which = "chip" /\ Chip!TypeOK => IF which = "chip" THEN Chip!TypeOK ELSE Emc!TypeOK
    OBVIOUS
  <2> QED BY <2>1, <1>1, <1>2, ChipRuns, PTL
<1>10. ~(which = "chip") /\ SpecAll => [](IF which = "chip" THEN Chip!TypeOK ELSE Emc!TypeOK)
  <2>1. ~(which = "chip") /\ Emc!TypeOK => IF which = "chip" THEN Chip!TypeOK ELSE Emc!TypeOK
    OBVIOUS
  <2> QED BY <2>1, <1>1, <1>3, EmcRuns, PTL
<1>11. SpecAll => [](IF which = "chip" THEN Chip!TypeOK ELSE Emc!TypeOK)
  BY <1>9, <1>10
<1> QED BY CanRuns, CanInvAlways, CopyInvAlways, EchoInvAlways, EchoTypesKept, CardTypes,
           SerialRuns, EthRuns,
           <1>1, <1>4, <1>5, <1>6, <1>7, <1>8, <1>11, PTL

-----------------------------------------------------------------------------
(* SctSof and UacFeedback                                                  *)

LEMMA SofRuns == SpecAll => Sof!Spec
<1>1. InitAll => Sof!Init
  BY DEF InitAll
<1>2. [NextAll]_allVars => [Sof!Next]_Sof!vars
  <2> SUFFICES ASSUME [NextAll]_allVars PROVE [Sof!Next]_Sof!vars
    OBVIOUS
  <2>1. CASE UNCHANGED sofVars
    BY <2>1 DEF sofVars, Sof!vars, Sof!sct, Sof!timer, Sof!handler
  <2> QED BY <2>1, OneRuns
<1> QED BY <1>1, <1>2, PTL DEF SpecAll, Sof!Spec

LEMMA FeedbackRuns == SpecAll => Feedback!SafeSpec
<1>1. InitAll => Feedback!Init
  BY DEF InitAll
<1>2. [NextAll]_allVars => [Feedback!Next]_Feedback!vars
  <2> SUFFICES ASSUME [NextAll]_allVars PROVE [Feedback!Next]_Feedback!vars
    OBVIOUS
  <2>1. CASE UNCHANGED fbVars
    BY <2>1 DEF fbVars, Feedback!vars, Feedback!bus, Feedback!flags
  <2> QED BY <2>1, OneRuns
<1> QED BY <1>1, <1>2, PTL DEF SpecAll, Feedback!SafeSpec

(* The frames since a ratio was asked for are those that the counter of    *)
(* the frames has made since it was last a multiple of the gap.            *)
FeedbackInv ==
  /\ bus \in BOOLEAN /\ frame \in 0 .. FbWrap - 1 /\ since \in Nat
  /\ since > 0 => since = 1 + (frame % Feedback!Gap)
  /\ last \in {0, Feedback!Gap}

LEMMA GapDivides ==
  /\ FbWrap \in Nat \ {0} /\ FbSlots \in Nat \ {0} /\ FbInterval \in Nat \ {0}
  /\ Feedback!Gap \in Nat \ {0} /\ FbWrap % Feedback!Gap = 0
<1>1. /\ {FbSlots, FbInterval, FbWrap} \subseteq Nat \ {0}
      /\ FbWrap % (FbSlots * FbInterval) = 0
  BY ProgramAssumption DEF Feedback!FeedbackAssumption
<1> DEFINE both == FbSlots * FbInterval
           rest == FbWrap \div both
<1>2. both \in Nat \ {0} /\ FbWrap % both = 0
  BY <1>1
<1> HIDE DEF both
<1>3. rest \in Nat /\ FbWrap = both * rest
  BY <1>1, <1>2
<1> HIDE DEF rest
<1>4. FbWrap % FbInterval = 0
  <2>1. FbSlots * rest \in Nat
    BY <1>1, <1>3
  <2>2. FbWrap = FbInterval * (FbSlots * rest) + 0
    BY <1>1, <1>3 DEF both
  <2>3. 0 \in 0 .. FbInterval - 1
    BY <1>1
  <2> DEFINE q == FbSlots * rest
  <2>4. q \in Nat /\ FbWrap = FbInterval * q + 0
    BY <2>1, <2>2
  <2> HIDE DEF q
  <2>5. (FbInterval * q + 0) % FbInterval = 0
    BY <1>1, <2>3, <2>4, ModUnique
  <2> QED BY <2>4, <2>5
<1> QED BY <1>1, <1>2, <1>4 DEF Feedback!Gap, both

(* One frame more is the next of the gap, or the first of a new one.       *)
NextInGap(w, g, f, h) ==
  /\ h \in 0 .. w - 1
  /\ h % g # 0 => h % g = (f % g) + 1
  /\ h % g = 0 => (f % g) + 1 = g

LEMMA NextFrame ==
  ASSUME NEW g \in Nat \ {0}, NEW w \in {n \in Nat \ {0} : n % g = 0},
         NEW f \in 0 .. w - 1
  PROVE  NextInGap(w, g, f, (f + 1) % w)
<1> DEFINE r == f % g
           h == (f + 1) % w
<1>1. r \in 0 .. g - 1 /\ f \in Nat /\ 1 \in Nat /\ w \in Nat \ {0} /\ w % g = 0
  OBVIOUS
<1>2. ((f % g) + 1) % g = (f + 1) % g
  BY <1>1, ModSum
<1>3. (f + 1) % g = IF r + 1 = g THEN 0 ELSE r + 1
  <2>1. (r + 1) % g = IF r + 1 = g THEN 0 ELSE r + 1
    <3> HIDE DEF r
    <3>1. CASE r + 1 = g
      <4>1. g % g = 0
        OBVIOUS
      <4> QED BY <3>1, <4>1
    <3>2. CASE r + 1 # g
      <4>1. r + 1 \in 0 .. g - 1
        BY <1>1, <3>2
      <4>2. (g * 0 + (r + 1)) % g = r + 1
        BY <4>1, ModUnique
      <4>3. g * 0 + (r + 1) = r + 1
        BY <4>1
      <4> QED BY <3>2, <4>2, <4>3
    <3> QED BY <3>1, <3>2
  <2> QED BY <1>2, <2>1
<1>4. h \in 0 .. w - 1 /\ h % g = (f + 1) % g
  <2>1. CASE f + 1 < w
    <3>1. f + 1 \in 0 .. w - 1 /\ w * 0 + (f + 1) = f + 1
      BY <2>1
    <3>2. (w * 0 + (f + 1)) % w = f + 1
      BY <1>1, <3>1, ModUnique
    <3> QED BY <3>1, <3>2
  <2>2. CASE f + 1 >= w
    <3>1. f + 1 = w /\ w % w = 0 /\ 0 % g = 0
      BY <1>1, <2>2
    <3> QED BY <1>1, <3>1
  <2> QED BY <2>1, <2>2
<1> HIDE DEF r, h
<1>5. NextInGap(w, g, f, h)
  BY <1>1, <1>3, <1>4 DEF r, NextInGap
<1> QED BY <1>5 DEF h

LEMMA FeedbackInvAlways == SpecAll => []FeedbackInv
<1>1. Feedback!Init => FeedbackInv
  BY GapDivides DEF Feedback!Init, FeedbackInv
<1>2. FeedbackInv /\ [Feedback!Next]_Feedback!vars => FeedbackInv'
  <2> SUFFICES ASSUME FeedbackInv, [Feedback!Next]_Feedback!vars PROVE FeedbackInv'
    OBVIOUS
  <2>1. /\ FbWrap \in Nat \ {0} /\ Feedback!Gap \in Nat \ {0}
        /\ FbWrap % Feedback!Gap = 0 /\ frame \in 0 .. FbWrap - 1
    BY GapDivides DEF FeedbackInv
  <2>2. CASE Feedback!Frame
    <3> DEFINE new == Feedback!Counted
               g == Feedback!Gap
    <3>1. /\ new \in 0 .. FbWrap - 1
          /\ new % g # 0 => new % g = (frame % g) + 1
          /\ new % g = 0 => (frame % g) + 1 = g
      <4>1. new = (frame + 1) % FbWrap
        BY DEF Feedback!Counted
      <4>2. g \in Nat \ {0} /\ FbWrap \in {n \in Nat \ {0} : n % g = 0} /\ frame \in 0 .. FbWrap - 1
        BY <2>1
      <4> HIDE DEF g, new
      <4>3. NextInGap(FbWrap, g, frame, (frame + 1) % FbWrap)
        BY ONLY <4>2, NextFrame, Zenon
      <4> QED BY <4>1, <4>3 DEF NextInGap
    <3>2. /\ frame' = new /\ bus' = bus
          /\ new % g = 0 => since' = 1 /\ last' = since
          /\ new % g # 0 => since' = (IF since = 0 THEN 0 ELSE since + 1) /\ last' = last
      BY <2>2 DEF Feedback!Frame
    <3>3. /\ bus \in BOOLEAN /\ since \in Nat /\ last \in {0, g} /\ g \in Nat \ {0}
          /\ since > 0 => since = 1 + (frame % g)
      BY <2>1 DEF FeedbackInv
    <3>4. Feedback!Gap' = g
      BY <3>2 DEF Feedback!Gap
    <3>5. frame % g \in Nat
      BY <2>1
    <3> HIDE DEF new, g
    <3>6. CASE new % g = 0
      <4>1. since' = 1 /\ last' \in {0, g} /\ since' = 1 + (frame' % g)
        BY <3>1, <3>2, <3>3, <3>5, <3>6
      <4> QED BY <3>1, <3>2, <3>3, <3>4, <4>1 DEF FeedbackInv
    <3>7. CASE new % g # 0
      <4>1. since' \in Nat /\ last' = last /\ (since' > 0 => since' = 1 + (frame' % g))
        BY <3>1, <3>2, <3>3, <3>5, <3>7
      <4> QED BY <3>1, <3>2, <3>3, <3>4, <4>1 DEF FeedbackInv
    <3> QED BY <3>6, <3>7
  <2>3. CASE Feedback!Enumerate
    <3>1. /\ bus' = ~bus /\ since' = 0 /\ last' = 0 /\ frame' = frame
      BY <2>3 DEF Feedback!Enumerate
    <3> QED BY <3>1 DEF FeedbackInv
  <2>4. CASE UNCHANGED <<bus, frame, since, last>>
    BY <2>4 DEF FeedbackInv, Feedback!Gap
  <2>5. CASE Feedback!Main \/ Feedback!Other \/ Feedback!Measured \/ UNCHANGED Feedback!vars
    <3>1. UNCHANGED <<bus, frame, since, last>>
      BY <2>5 DEF Feedback!Main, Feedback!Other, Feedback!Measured, Feedback!Wake,
                  Feedback!TestFrame, Feedback!TestFeedback, Feedback!GetRatio,
                  Feedback!SendRatio, Feedback!AckFeedback, Feedback!AckFrame,
                  Feedback!At, Feedback!vars, Feedback!bus
    <3> QED BY <2>4, <3>1
  <2> QED BY <2>2, <2>3, <2>5 DEF Feedback!Next
<1> QED BY FeedbackRuns, <1>1, <1>2, PTL DEF Feedback!SafeSpec

(* SctSof: a duration is one period and one more for each edge that was    *)
(* lost, and the ratio of two never divides by zero.  UacFeedback: the     *)
(* ratio is asked for at equal distances.                                  *)
THEOREM FeedbacksRight == SpecAll => []FeedbackRight
<1>1. Sof!SofAssumption
  BY ProgramAssumption
<1>2. Sof!SofAssumption /\ Sof!Spec => []Sof!DurationsWhole
  BY Sof!DurationsRight
<1>3. Sof!SofAssumption /\ Sof!Spec => []Sof!RatioDefined
  BY Sof!RatioIsDefined
<1>4. FeedbackInv => Feedback!FeedbackRegular
  <2> SUFFICES ASSUME FeedbackInv PROVE since <= Feedback!Gap /\ last \in {0, Feedback!Gap}
    BY DEF Feedback!FeedbackRegular
  <2> DEFINE g == Feedback!Gap
  <2>1. /\ g \in Nat \ {0} /\ since \in Nat /\ frame \in Nat /\ last \in {0, g}
        /\ since > 0 => since = 1 + (frame % g)
    BY GapDivides DEF FeedbackInv
  <2> HIDE DEF g
  <2>2. frame % g \in 0 .. g - 1
    BY <2>1
  <2>3. since <= g
    BY <2>1, <2>2
  <2> QED BY <2>1, <2>3 DEF g
<1>5. Sof!DurationsWhole /\ Sof!RatioDefined /\ Feedback!FeedbackRegular => FeedbackRight
  BY DEF FeedbackRight
<1> QED BY SofRuns, FeedbackInvAlways, <1>1, <1>2, <1>3, <1>4, <1>5, PTL
=============================================================================
