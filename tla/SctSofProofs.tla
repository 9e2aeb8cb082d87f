---------------------------- MODULE SctSofProofs ----------------------------
(***************************************************************************)
(* The durations that sct_sof.c measures, for every frequency, sample      *)
(* rate, width of the counter and latency of the handler that let two runs *)
(* of the handler end within a period.                                     *)
(***************************************************************************)
EXTENDS SctSof, CustodyLemmas, TLAPS

(* Types.                                                                  *)
Kept ==
  /\ highSpeed \in BOOLEAN /\ running \in BOOLEAN
  /\ phase \in [Events -> Nat] /\ \A e \in Events : phase[e] \in 1 .. Period(e)
  /\ counter \in 0 .. Wrap - 1 /\ flags \subseteq Events /\ evflag \subseteq Events
  /\ capture \in [Events -> 0 .. Wrap - 1] /\ previous \in [Events -> 0 .. Wrap - 1]
  /\ duration \in [Events -> Nat] /\ valid \in [Events -> BOOLEAN]
  /\ irq \in {"idle", "ack", "i2s", "usb"} /\ age \in 0 .. Latency
  /\ lost \in [Events -> 0 .. MaxLost]

(* Ticks since the last edge of a bus.                                     *)
Ago(e) == Period(e) - phase[e]

(* The handler has read the flag of e and has not served it yet.           *)
Read(e) == e \in evflag /\ (irq \in {"ack", "i2s"} \/ (irq = "usb" /\ e = "usb"))
Waits(e) == e \in flags \/ Read(e)

(* Edges since the one that was measured last.                             *)
Owed(e) == IF Waits(e) THEN lost[e] + 1 ELSE lost[e]

(* An edge that waits is younger than its bus's next one: it came since    *)
(* the interrupt that is served, or while the handler ran before.  One     *)
(* that the handler has read is the only one that waits.                   *)
Timely ==
  \A e \in Events :
    /\ Waits(e) => Ago(e) <= age \/ Ago(e) < age + Latency
    /\ irq \in {"i2s", "usb"} /\ e \in flags => Ago(e) < age /\ ~Read(e)

(* The handler clears what it has read and at most MaxLost edges more.     *)
Cleared ==
  /\ irq = "ack" => evflag \subseteq flags
  /\ irq = "ack" => \A e \in flags \ evflag : lost[e] < MaxLost
  /\ ~running => flags = {} /\ irq = "idle"

(* A capture is what the counter showed at the last edge, the one before   *)
(* it is older by the edges that are owed.                                 *)
Captured ==
  running => \A e \in Events :
    /\ Waits(e) \/ valid[e] => (capture[e] + Ago(e)) % Wrap = counter
    /\ valid[e] => (previous[e] + Owed(e) * Period(e)) % Wrap = capture[e]

SofInv == Kept /\ Timely /\ Cleared /\ Captured /\ DurationsWhole /\ RatioDefined

-----------------------------------------------------------------------------
LEMMA SmallMod ==
  ASSUME NEW m \in Nat \ {0}, NEW a \in 0 .. m - 1
  PROVE  a % m = a /\ (a + m) % m = a
<1>1. m * 0 + a = a /\ m * 1 + a = a + m
  OBVIOUS
<1> QED BY <1>1, ModUnique

(* The difference of two captures in the width of the counter is the time  *)
(* between them when it is less than a wrap.                               *)
LEMMA Difference ==
  ASSUME NEW m \in Nat \ {0}, NEW p \in 0 .. m - 1, NEW d \in 0 .. m - 1
  PROVE  (((p + d) % m) + m - p) % m = d
<1> DEFINE c == (p + d) % m
<1>1. CASE p + d < m
  <2>1. p + d \in 0 .. m - 1
    BY <1>1
  <2>2. c = p + d
    BY <2>1, SmallMod
  <2>3. c + m - p = d + m
    BY <2>2
  <2> QED BY <2>3, SmallMod
<1>2. CASE p + d >= m
  <2>1. p + d - m \in 0 .. m - 1 /\ p + d = (p + d - m) + m
    BY <1>2
  <2>2. c = p + d - m
    BY <2>1, SmallMod
  <2>3. c + m - p = d
    BY <2>2
  <2> QED BY <2>3, SmallMod
<1> QED BY <1>1, <1>2

LEMMA Fraction ==
  ASSUME NEW s \in Nat, s > 0, s % 8 = 0
  PROVE  s \div 8 \in Nat /\ s \div 8 > 0 /\ s \div 8 <= s
OBVIOUS

LEMMA Multiples ==
  ASSUME NEW p \in Nat, NEW q \in Nat, NEW w \in Nat, NEW k \in Nat,
         p <= q, k * q < w, NEW n \in 0 .. k
  PROVE  n * p \in 0 .. w - 1
<1>1. n * p \in Nat /\ n * q \in Nat /\ k * q \in Nat
  OBVIOUS
<1>2. n * p <= n * q
  <2>1. q - p \in Nat /\ n * (q - p) \in Nat
    OBVIOUS
  <2>2. n * q = n * p + n * (q - p)
    OBVIOUS
  <2> QED BY <1>1, <2>1, <2>2
<1>3. n * q <= k * q
  <2>1. k - n \in Nat /\ (k - n) * q \in Nat
    OBVIOUS
  <2>2. k * q = n * q + (k - n) * q
    OBVIOUS
  <2> QED BY <1>1, <2>1, <2>2
<1> QED BY <1>1, <1>2, <1>3

LEMMA PeriodBounds ==
  ASSUME SofAssumption, highSpeed \in BOOLEAN, NEW e \in Events
  PROVE  /\ Period(e) \in Nat \ {0} /\ 2 * Latency <= Period(e)
         /\ \A n \in 0 .. MaxLost + 1 : n * Period(e) \in 0 .. Wrap - 1
<1>1. /\ {SofExpected, MwsPeriod, Wrap, Latency, MaxLost} \subseteq Nat
      /\ SofExpected > 0 /\ SofExpected % 8 = 0 /\ MwsPeriod > 0
      /\ 2 * Latency <= SofExpected \div 8 /\ 2 * Latency <= MwsPeriod
      /\ (MaxLost + 1) * SofExpected < Wrap /\ (MaxLost + 1) * MwsPeriod < Wrap
  BY DEF SofAssumption
<1>2. /\ SofExpected \div 8 \in Nat /\ SofExpected \div 8 > 0
      /\ SofExpected \div 8 <= SofExpected
  BY <1>1, Fraction
<1>3. MaxLost + 1 \in Nat /\ Wrap \in Nat
  BY <1>1
<1>4. ASSUME NEW p \in {SofExpected \div 8, SofExpected} PROVE
        \A n \in 0 .. MaxLost + 1 : n * p \in 0 .. Wrap - 1
  BY <1>1, <1>2, <1>3, <1>4, Multiples
<1>5. \A n \in 0 .. MaxLost + 1 : n * MwsPeriod \in 0 .. Wrap - 1
  BY <1>1, <1>3, Multiples
<1>6. Period(e) \in {MwsPeriod, SofExpected \div 8, SofExpected}
  BY DEF Period
<1> QED BY <1>1, <1>2, <1>4, <1>5, <1>6

(* Every constant is a number, the counter has values.                     *)
LEMMA Bounds ==
  ASSUME SofAssumption
  PROVE  Wrap \in Nat \ {0} /\ Latency \in Nat /\ MaxLost \in Nat
<1>1. {MwsPeriod, Wrap, Latency, MaxLost} \subseteq Nat /\ (MaxLost + 1) * MwsPeriod < Wrap
  BY DEF SofAssumption
<1>2. (MaxLost + 1) * MwsPeriod \in Nat
  BY <1>1
<1> QED BY <1>1, <1>2
-----------------------------------------------------------------------------
LEMMA InitSofInv == SofAssumption /\ Init => SofInv
<1> SUFFICES ASSUME SofAssumption, Init PROVE SofInv
  OBVIOUS
<1>1. /\ Wrap \in Nat \ {0} /\ Latency \in Nat /\ MaxLost \in Nat
      /\ \A e \in Events : Period(e) \in Nat \ {0}
  BY Bounds, PeriodBounds DEF Init
<1>2. phase \in [Events -> Nat] /\ \A e \in Events : phase[e] \in 1 .. Period(e)
  <2>1. PICK n \in 1 .. MwsPeriod : phase = [i2s |-> n, usb |-> Period("usb")]
    BY DEF Init
  <2>2. Period("i2s") = MwsPeriod /\ Period("usb") \in Nat \ {0}
    BY <1>1 DEF Period, Events
  <2>3. phase["i2s"] = n /\ phase["usb"] = Period("usb") /\ DOMAIN phase = Events
    BY <2>1 DEF Events
  <2>4. phase = [e \in Events |-> phase[e]]
    BY <2>1, <2>3
  <2> QED BY <2>1, <2>2, <2>3, <2>4, <1>1 DEF Events
<1>3. Kept
  <2>1. 0 \in 0 .. Wrap - 1 /\ 0 \in 0 .. Latency /\ 0 \in 0 .. MaxLost /\ 0 \in Nat
    BY <1>1
  <2> QED BY <1>1, <1>2, <2>1 DEF Init, Kept
<1>4. Timely /\ Cleared /\ Captured
  BY DEF Init, Timely, Waits, Read, Cleared, Captured
<1>5. DurationsWhole
  <2> SUFFICES ASSUME NEW e \in Events
               PROVE  duration[e] \in {n * Period(e) : n \in 0 .. MaxLost + 1}
    BY DEF DurationsWhole
  <2>1. duration[e] = 0 * Period(e) /\ 0 \in 0 .. MaxLost + 1
    BY <1>1 DEF Init
  <2> QED BY <2>1
<1>6. RatioDefined
  BY DEF Init, RatioDefined
<1> QED BY <1>3, <1>4, <1>5, <1>6 DEF SofInv

(* The next edge of a bus does not come while one waits.                   *)
LEMMA NoneTwice ==
  ASSUME SofAssumption, SofInv, Tick, NEW e \in Events, Waits(e)
  PROVE  phase[e] # 1 /\ Pending /\ age < Latency
<1>1. Pending
  BY DEF Waits, Read, Pending
<1>2. /\ Period(e) \in Nat \ {0} /\ 2 * Latency <= Period(e) /\ Latency \in Nat
      /\ phase[e] \in 1 .. Period(e) /\ age \in 0 .. Latency
  BY Bounds, PeriodBounds DEF SofInv, Kept
<1>3. age < Latency
  BY <1>1 DEF Tick
<1>4. Period(e) - phase[e] <= age \/ Period(e) - phase[e] < age + Latency
  BY DEF SofInv, Timely, Ago
<1>5. phase[e] # 1
  BY <1>2, <1>3, <1>4
<1> QED BY <1>1, <1>3, <1>5

LEMMA TickKeepsTypes ==
  ASSUME SofAssumption, SofInv, Tick
  PROVE  Kept'
<1>1. /\ Wrap \in Nat \ {0} /\ Latency \in Nat /\ MaxLost \in Nat /\ Kept
      /\ \A e \in Events : Period(e) \in Nat \ {0} /\ Period(e)' = Period(e)
  BY Bounds, PeriodBounds DEF SofInv, Kept, Tick, Period
<1>2. /\ phase' = [e \in Events |-> IF phase[e] = 1 THEN Period(e) ELSE phase[e] - 1]
      /\ UNCHANGED <<highSpeed, running, timer, evflag, irq, lost>>
      /\ age' \in 0 .. Latency
  BY <1>1 DEF Tick, Kept
<1>3. phase' \in [Events -> Nat] /\ \A e \in Events : phase'[e] \in 1 .. Period(e)
  BY <1>1, <1>2 DEF Kept
<1>4. (counter + 1) % Wrap \in 0 .. Wrap - 1
  BY <1>1 DEF Kept
<1>5. /\ counter' \in 0 .. Wrap - 1 /\ flags' \subseteq Events
      /\ capture' \in [Events -> 0 .. Wrap - 1]
  BY <1>1, <1>4 DEF Tick, Kept
<1> QED BY <1>1, <1>2, <1>3, <1>5 DEF Kept, timer

LEMMA TickKeepsTimes ==
  ASSUME SofAssumption, SofInv, Tick
  PROVE  Timely' /\ Cleared'
<1>1. /\ Latency \in Nat /\ Kept /\ Timely /\ Cleared
      /\ \A e \in Events : Period(e) \in Nat \ {0} /\ Period(e)' = Period(e)
  BY Bounds, PeriodBounds DEF SofInv, Kept, Tick, Period
<1>2. /\ \A e \in Events : phase'[e] = IF phase[e] = 1 THEN Period(e) ELSE phase[e] - 1
      /\ UNCHANGED <<running, evflag, irq, lost>>
      /\ running => flags' = flags \cup {e \in Events : phase[e] = 1}
      /\ ~running => flags' = flags
      /\ age' = IF Pending THEN age + 1 ELSE 0
  BY DEF Tick
<1>3. \A e \in Events : Read(e)' <=> Read(e)
  BY <1>2 DEF Read
<1>4. ASSUME NEW e \in Events
      PROVE  /\ (Waits(e) => Ago(e) <= age \/ Ago(e) < age + Latency)'
             /\ (irq \in {"i2s", "usb"} /\ e \in flags => Ago(e) < age /\ ~Read(e))'
  <2>1. /\ Ago(e) \in Nat /\ Ago(e)' = IF phase[e] = 1 THEN 0 ELSE Ago(e) + 1
        /\ age \in Nat /\ age' \in Nat
    BY <1>1, <1>2 DEF Ago, Kept
  <2>2. CASE phase[e] = 1
    <3>1. ~Waits(e) /\ ~Read(e) /\ ~Read(e)'
      BY <1>3, <2>2, NoneTwice DEF Waits
    <3>2. irq \in {"i2s", "usb"} => Pending /\ age' > 0
      BY <1>1, <1>2, <2>1 DEF Pending
    <3> QED BY <1>2, <2>1, <2>2, <3>1, <3>2
  <2>3. CASE phase[e] # 1
    <3>1. Waits(e)' => Waits(e)
      BY <1>2, <1>3, <2>3 DEF Waits
    <3>2. Waits(e) => age' = age + 1
      BY <1>2, NoneTwice
    <3>3. (Waits(e) => Ago(e) <= age \/ Ago(e) < age + Latency)'
      BY <1>1, <2>1, <2>3, <3>1, <3>2 DEF Timely
    <3>4. e \in flags' => e \in flags /\ Waits(e)
      BY <1>2, <2>3 DEF Waits
    <3>5. (irq \in {"i2s", "usb"} /\ e \in flags => Ago(e) < age /\ ~Read(e))'
      BY <1>1, <1>2, <1>3, <2>1, <2>3, <3>2, <3>4 DEF Timely
    <3> QED BY <3>3, <3>5
  <2> QED BY <2>2, <2>3
<1>5. Timely'
  BY <1>4 DEF Timely
<1>6. Cleared'
  <2>1. (irq = "ack" => evflag \subseteq flags)'
    BY <1>1, <1>2 DEF Cleared
  <2>2. (irq = "ack" => \A e \in flags \ evflag : lost[e] < MaxLost)'
    <3>1. irq = "ack" => \A e \in Events : phase[e] = 1 => lost[e] < MaxLost
      BY DEF Tick
    <3> QED BY <1>1, <1>2, <3>1 DEF Cleared
  <2>3. (~running => flags = {} /\ irq = "idle")'
    BY <1>1, <1>2 DEF Cleared
  <2> QED BY <2>1, <2>2, <2>3 DEF Cleared
<1> QED BY <1>5, <1>6

(* A tick later, or an edge later.                                         *)
LEMMA Later ==
  ASSUME NEW m \in Nat \ {0}, NEW x \in Nat, NEW n \in Nat, NEW c, x % m = c
  PROVE  (x + n) % m = (c + n) % m
BY ModSum

LEMMA TickKeepsCaptures ==
  ASSUME SofAssumption, SofInv, Tick
  PROVE  Captured'
<1> SUFFICES ASSUME running', NEW e \in Events
             PROVE  /\ (Waits(e) \/ valid[e] => (capture[e] + Ago(e)) % Wrap = counter)'
                    /\ (valid[e] => (previous[e] + Owed(e) * Period(e)) % Wrap = capture[e])'
  BY DEF Captured
<1>1. /\ Wrap \in Nat \ {0} /\ MaxLost \in Nat /\ Kept /\ Kept' /\ Captured
      /\ Period(e) \in Nat \ {0} /\ Period(e)' = Period(e)
  BY Bounds, PeriodBounds, TickKeepsTypes DEF SofInv, Kept, Tick, Period
<1>2. /\ running /\ counter' = (counter + 1) % Wrap
      /\ flags' = flags \cup {f \in Events : phase[f] = 1}
      /\ capture'[e] = IF phase[e] = 1 THEN counter' ELSE capture[e]
      /\ phase'[e] = IF phase[e] = 1 THEN Period(e) ELSE phase[e] - 1
      /\ UNCHANGED <<evflag, irq, lost, previous, valid>>
  BY DEF Tick, timer
<1>3. Read(e)' <=> Read(e)
  BY <1>2 DEF Read
<1>4. /\ capture[e] \in 0 .. Wrap - 1 /\ previous[e] \in 0 .. Wrap - 1
      /\ counter \in 0 .. Wrap - 1 /\ counter' \in 0 .. Wrap - 1
      /\ phase[e] \in 1 .. Period(e) /\ lost[e] \in Nat /\ Ago(e) \in Nat
      /\ Owed(e) \in Nat
  BY <1>1 DEF Kept, Ago, Owed
<1>5. CASE phase[e] = 1
  <2>1. ~Waits(e) /\ Waits(e)' /\ Ago(e)' = 0 /\ Ago(e) = Period(e) - 1
    BY <1>1, <1>2, <1>5, NoneTwice DEF Waits, Ago
  <2>2. (capture[e] + Ago(e))' % Wrap = counter'
    <3>1. capture'[e] + Ago(e)' = counter'
      BY <1>2, <1>4, <1>5, <2>1
    <3> QED BY <1>1, <1>4, <3>1, SmallMod
  <2>3. ASSUME valid'[e] PROVE (previous[e] + Owed(e) * Period(e))' % Wrap = capture'[e]
    <3>1. Owed(e)' = Owed(e) + 1
      BY <1>2, <2>1 DEF Owed
    <3>2. /\ (capture[e] + Ago(e)) % Wrap = counter
          /\ (previous[e] + Owed(e) * Period(e)) % Wrap = capture[e]
      BY <1>1, <1>2, <2>1, <2>3 DEF Captured
    <3> DEFINE x == previous[e] + Owed(e) * Period(e)
               y == capture[e] + Ago(e)
               d == Period(e)
               c == capture[e]
    <3>3. /\ x \in Nat /\ y \in Nat /\ d \in Nat /\ c \in Nat
          /\ x % Wrap = c /\ y % Wrap = counter /\ c + d = y + 1
      BY <1>1, <1>4, <2>1, <3>2
    <3>4. previous'[e] + Owed(e)' * Period(e)' = x + d
      BY <1>1, <1>2, <1>4, <3>1
    <3> HIDE DEF x, y, d, c
    <3>5. (x + d) % Wrap = (counter + 1) % Wrap
      <4>1. Wrap \in Nat \ {0}
        BY <1>1
      <4>2. (x + d) % Wrap = (c + d) % Wrap
        <5>1. x \in Nat /\ d \in Nat /\ x % Wrap = c
          BY <3>3
        <5>2. ((x % Wrap) + d) % Wrap = (x + d) % Wrap
          BY ONLY <5>1, <4>1, ModSum, Zenon
        <5> QED BY <5>1, <5>2
      <4>3. (y + 1) % Wrap = (counter + 1) % Wrap
        <5>1. 1 \in Nat /\ y \in Nat /\ y % Wrap = counter
          BY <3>3
        <5>2. ((y % Wrap) + 1) % Wrap = (y + 1) % Wrap
          BY ONLY <5>1, <4>1, ModSum, Zenon
        <5> QED BY <5>1, <5>2
      <4> QED BY <3>3, <4>2, <4>3
    <3> QED BY <1>1, <1>2, <1>5, <3>4, <3>5
  <2> QED BY <2>2, <2>3
<1>6. CASE phase[e] # 1
  <2>1. Waits(e)' = Waits(e) /\ Ago(e)' = Ago(e) + 1 /\ capture'[e] = capture[e]
    BY <1>1, <1>2, <1>3, <1>4, <1>6 DEF Waits, Ago
  <2>2. ASSUME Waits(e)' \/ valid'[e] PROVE (capture[e] + Ago(e))' % Wrap = counter'
    <3>1. (capture[e] + Ago(e)) % Wrap = counter
      BY <1>1, <1>2, <2>1, <2>2 DEF Captured
    <3> DEFINE x == capture[e] + Ago(e)
    <3>2. x \in Nat /\ x % Wrap = counter /\ capture'[e] + Ago(e)' = x + 1
      BY <1>4, <2>1, <3>1
    <3> HIDE DEF x
    <3>3. (x + 1) % Wrap = (counter + 1) % Wrap
      <4>1. Wrap \in Nat \ {0} /\ 1 \in Nat
        BY <1>1
      <4> QED BY <3>2, <4>1, Later, Zenon
    <3> QED BY <1>2, <3>2, <3>3
  <2>3. ASSUME valid'[e] PROVE (previous[e] + Owed(e) * Period(e))' % Wrap = capture'[e]
    <3>1. Owed(e)' = Owed(e)
      BY <1>2, <2>1 DEF Owed
    <3> QED BY <1>1, <1>2, <2>1, <2>3, <3>1 DEF Captured
  <2> QED BY <2>2, <2>3
<1> QED BY <1>5, <1>6

LEMMA TickKeeps ==
  ASSUME SofAssumption, SofInv, Tick
  PROVE  SofInv'
<1>1. UNCHANGED <<duration, pc, highSpeed>>
  BY DEF Tick, timer
<1>2. DurationsWhole' /\ RatioDefined'
  BY <1>1 DEF SofInv, DurationsWhole, RatioDefined, Period
<1> QED BY <1>2, TickKeepsTypes, TickKeepsTimes, TickKeepsCaptures DEF SofInv

-----------------------------------------------------------------------------
(* The handler.                                                            *)
LEMMA ReadsKeeps ==
  ASSUME SofInv, HandlerReads
  PROVE  SofInv'
<1>1. /\ irq = "idle" /\ irq' = "ack" /\ evflag' = flags /\ flags # {}
      /\ UNCHANGED <<highSpeed, phase, counter, running, flags, capture, duration,
                     previous, valid, age, lost, pc>>
  BY DEF HandlerReads, sct, timer
<1>2. \A e \in Events : /\ Period(e)' = Period(e) /\ Ago(e)' = Ago(e)
                        /\ Waits(e)' = Waits(e) /\ Owed(e)' = Owed(e)
  BY <1>1 DEF Period, Ago, Waits, Read, Owed
<1>3. Kept'
  BY <1>1, <1>2 DEF SofInv, Kept
<1>4. Timely'
  BY <1>1, <1>2 DEF SofInv, Timely
<1>5. Cleared'
  BY <1>1 DEF SofInv, Cleared
<1>6. Captured'
  BY <1>1, <1>2 DEF SofInv, Captured
<1>7. DurationsWhole' /\ RatioDefined'
  BY <1>1, <1>2 DEF SofInv, DurationsWhole, RatioDefined
<1> QED BY <1>3, <1>4, <1>5, <1>6, <1>7 DEF SofInv

LEMMA AcksKeeps ==
  ASSUME SofAssumption, SofInv, HandlerAcks
  PROVE  SofInv'
<1>1. /\ irq = "ack" /\ irq' = "i2s" /\ flags' = {}
      /\ UNCHANGED <<highSpeed, phase, counter, running, capture, duration,
                     previous, valid, evflag, age, pc>>
      /\ \A e \in Events : lost'[e] = IF e \in flags \ evflag THEN lost[e] + 1 ELSE lost[e]
      /\ lost' = [e \in Events |-> lost'[e]]
  BY DEF HandlerAcks, timer
<1>2. MaxLost \in Nat /\ evflag \subseteq flags /\ running
      /\ \A e \in flags \ evflag : lost[e] < MaxLost
  BY <1>1, Bounds DEF SofInv, Cleared
<1>3. \A e \in Events : lost[e] \in 0 .. MaxLost
  BY DEF SofInv, Kept
<1>4. \A e \in Events : /\ Period(e)' = Period(e) /\ Ago(e)' = Ago(e) /\ Read(e)' = Read(e)
                        /\ (Waits(e)' => Waits(e))
  BY <1>1 DEF Period, Ago, Waits, Read
<1>5. ASSUME NEW e \in Events PROVE Owed(e)' = Owed(e)
  <2>1. Read(e) <=> e \in evflag
    BY <1>1 DEF Read
  <2>2. Waits(e) <=> e \in flags
    BY <1>2, <2>1 DEF Waits
  <2>3. Waits(e)' <=> e \in evflag
    BY <1>1, <1>4, <2>1 DEF Waits
  <2> QED BY <1>1, <1>2, <2>2, <2>3 DEF Owed
<1>6. Kept'
  <2>1. \A e \in Events : lost'[e] \in 0 .. MaxLost
    BY <1>1, <1>2, <1>3
  <2> QED BY <1>1, <1>4, <2>1 DEF SofInv, Kept
<1>7. Timely'
  BY <1>1, <1>4 DEF SofInv, Timely
<1>8. Cleared'
  BY <1>1, <1>2 DEF Cleared
<1>9. Captured'
  BY <1>1, <1>4, <1>5 DEF SofInv, Captured
<1>10. DurationsWhole' /\ RatioDefined'
  BY <1>1, <1>4 DEF SofInv, DurationsWhole, RatioDefined
<1> QED BY <1>6, <1>7, <1>8, <1>9, <1>10 DEF SofInv

(* What is measured is the time of the edges that are owed.                *)
LEMMA Measured ==
  ASSUME SofAssumption, SofInv, NEW e \in Events, Read(e), valid[e]
  PROVE  /\ Owed(e) \in 1 .. MaxLost + 1
         /\ (capture[e] + Wrap - previous[e]) % Wrap = Owed(e) * Period(e)
         /\ Owed(e) * Period(e) # 0
<1>1. /\ Wrap \in Nat \ {0} /\ MaxLost \in Nat /\ Period(e) \in Nat \ {0}
      /\ \A n \in 0 .. MaxLost + 1 : n * Period(e) \in 0 .. Wrap - 1
  BY Bounds, PeriodBounds DEF SofInv, Kept
<1>2. lost[e] \in 0 .. MaxLost /\ previous[e] \in 0 .. Wrap - 1
  BY DEF SofInv, Kept
<1>3. Owed(e) = lost[e] + 1 /\ Owed(e) \in 1 .. MaxLost + 1
  BY <1>1, <1>2 DEF Owed, Waits
<1>4. Owed(e) * Period(e) \in 0 .. Wrap - 1
  BY <1>1, <1>3
<1>5. running
  BY DEF SofInv, Cleared, Read
<1>6. (previous[e] + Owed(e) * Period(e)) % Wrap = capture[e]
  BY <1>5 DEF SofInv, Captured
<1> DEFINE d == Owed(e) * Period(e)
<1>7. d \in 0 .. Wrap - 1 /\ (previous[e] + d) % Wrap = capture[e]
  BY <1>4, <1>6
<1>8. d # 0
  BY <1>1, <1>3
<1> HIDE DEF d
<1>9. (capture[e] + Wrap - previous[e]) % Wrap = d
  <2>1. Wrap \in Nat \ {0} /\ previous[e] \in 0 .. Wrap - 1 /\ d \in 0 .. Wrap - 1
    BY <1>1, <1>2, <1>7
  <2>2. (((previous[e] + d) % Wrap) + Wrap - previous[e]) % Wrap = d
    BY ONLY <2>1, Difference, Zenon
  <2> QED BY <1>7, <2>2
<1> QED BY <1>3, <1>8, <1>9 DEF d

LEMMA MeasureKeeps ==
  ASSUME SofAssumption, SofInv, NEW e \in Events, Measure(e), irq = e,
         ~Read(e)', \A f \in Events \ {e} : Read(f)' = Read(f),
         UNCHANGED <<highSpeed, phase, counter, running, flags, capture, pc>>
  PROVE  /\ duration' \in [Events -> Nat] /\ previous' \in [Events -> 0 .. Wrap - 1]
         /\ valid' \in [Events -> BOOLEAN] /\ lost' \in [Events -> 0 .. MaxLost]
         /\ Captured' /\ DurationsWhole' /\ RatioDefined'
<1>1. /\ Kept /\ Timely /\ Cleared /\ Captured /\ DurationsWhole /\ RatioDefined
      /\ Wrap \in Nat \ {0} /\ MaxLost \in Nat /\ running
      /\ \A f \in Events : /\ Period(f) \in Nat \ {0}
                           /\ Period(f)' = Period(f) /\ Ago(f)' = Ago(f)
  BY Bounds, PeriodBounds DEF SofInv, Kept, Cleared, Period, Ago, Events
<1>2. Read(e) <=> e \in evflag
  BY DEF Read, Events
<1>3. Read(e) => e \notin flags
  BY <1>1 DEF Timely, Events
<1>4. \A f \in Events \ {e} :
        /\ Waits(f)' = Waits(f)
        /\ duration'[f] = duration[f] /\ previous'[f] = previous[f]
        /\ valid'[f] = valid[f] /\ lost'[f] = lost[f]
  BY <1>1 DEF Waits, Measure, Kept, timer
<1>5. CASE Read(e)
  <2>1. /\ duration' = [duration EXCEPT ![e] =
             IF valid[e] THEN (capture[e] + Wrap - previous[e]) % Wrap ELSE @]
        /\ previous' = [previous EXCEPT ![e] = capture[e]]
        /\ valid' = [valid EXCEPT ![e] = TRUE]
        /\ lost' = [lost EXCEPT ![e] = 0]
    BY <1>2, <1>5 DEF Measure
  <2>2. duration'[e] \in {n * Period(e) : n \in 0 .. MaxLost + 1} /\ duration'[e] \in Nat
    <3>1. CASE valid[e]
      <4>1. /\ Owed(e) \in 0 .. MaxLost + 1
            /\ duration'[e] = Owed(e) * Period(e)
        BY <1>1, <1>5, <2>1, <3>1, Measured DEF Kept
      <4> QED BY <1>1, <4>1
    <3>2. CASE ~valid[e]
      BY <1>1, <2>1, <3>2 DEF Kept, DurationsWhole
    <3> QED BY <3>1, <3>2
  <2>3. /\ previous'[e] = capture[e] /\ capture[e] \in 0 .. Wrap - 1
        /\ valid'[e] = TRUE /\ lost'[e] = 0
    BY <1>1, <2>1 DEF Kept
  <2>4. duration' \in [Events -> Nat] /\ previous' \in [Events -> 0 .. Wrap - 1]
    BY <1>1, <1>4, <2>1, <2>2, <2>3 DEF Kept
  <2>5. valid' \in [Events -> BOOLEAN] /\ lost' \in [Events -> 0 .. MaxLost]
    BY <1>1, <2>1 DEF Kept
  <2>6. ~Waits(e)' /\ Owed(e)' = 0 /\ 0 * Period(e) = 0
    BY <1>1, <1>3, <1>5, <2>3 DEF Waits, Owed
  <2>7. (previous'[e] + Owed(e)' * Period(e)') % Wrap = capture'[e]
    <3>1. previous'[e] + Owed(e)' * Period(e)' = capture[e]
      BY <1>1, <2>3, <2>6
    <3> QED BY <1>1, <2>3, <3>1, SmallMod
  <2>8. (capture[e] + Ago(e)) % Wrap = counter
    BY <1>1, <1>5 DEF Captured, Waits
  <2>9. Captured'
    <3> SUFFICES ASSUME NEW f \in Events
                 PROVE  /\ (Waits(f) \/ valid[f] => (capture[f] + Ago(f)) % Wrap = counter)'
                        /\ (valid[f] => (previous[f] + Owed(f) * Period(f)) % Wrap = capture[f])'
      BY DEF Captured
    <3>1. CASE f = e
      BY <1>1, <2>7, <2>8, <3>1
    <3>2. CASE f # e
      <4>1. Owed(f)' = Owed(f)
        BY <1>4, <3>2 DEF Owed
      <4> QED BY <1>1, <1>4, <3>2, <4>1 DEF Captured
    <3> QED BY <3>1, <3>2
  <2>10. DurationsWhole'
    BY <1>1, <1>4, <2>2 DEF DurationsWhole
  <2>11. duration["usb"] # 0 => duration'["usb"] # 0
    <3>1. "usb" \in Events
      BY DEF Events
    <3>2. CASE e = "usb" /\ valid[e]
      BY <1>1, <1>5, <2>1, <3>2, Measured DEF Kept
    <3>3. CASE ~(e = "usb" /\ valid[e])
      BY <1>1, <2>1, <3>1, <3>3 DEF Kept
    <3> QED BY <3>2, <3>3
  <2> QED BY <1>1, <2>4, <2>5, <2>9, <2>10, <2>11 DEF RatioDefined
<1>6. CASE ~Read(e)
  <2>1. UNCHANGED <<duration, previous, valid, lost>>
    BY <1>2, <1>6 DEF Measure, timer
  <2>2. \A f \in Events : Waits(f)' = Waits(f) /\ Owed(f)' = Owed(f)
    BY <1>4, <1>6, <2>1 DEF Waits, Owed
  <2>3. Captured'
    BY <1>1, <2>1, <2>2 DEF Captured
  <2> QED BY <1>1, <2>1, <2>3 DEF Kept, DurationsWhole, RatioDefined
<1> QED BY <1>5, <1>6

LEMMA MwsKeeps ==
  ASSUME SofAssumption, SofInv, HandlerMws
  PROVE  SofInv'
<1>1. /\ irq = "i2s" /\ irq' = "usb" /\ Measure("i2s") /\ "i2s" \in Events
      /\ UNCHANGED <<highSpeed, phase, counter, running, flags, capture, evflag, age, pc>>
  BY DEF HandlerMws, sct, Events
<1>2. ~Read("i2s")' /\ \A f \in Events \ {"i2s"} : Read(f)' = Read(f)
  BY <1>1 DEF Read, Events
<1>3. /\ duration' \in [Events -> Nat] /\ previous' \in [Events -> 0 .. Wrap - 1]
      /\ valid' \in [Events -> BOOLEAN] /\ lost' \in [Events -> 0 .. MaxLost]
      /\ Captured' /\ DurationsWhole' /\ RatioDefined'
  BY <1>1, <1>2, MeasureKeeps
<1>4. \A f \in Events : /\ Period(f)' = Period(f) /\ Ago(f)' = Ago(f)
                        /\ Read(f)' => Read(f)
  BY <1>1, <1>2 DEF Period, Ago
<1>5. Kept'
  BY <1>1, <1>3, <1>4 DEF SofInv, Kept
<1>6. Timely'
  BY <1>1, <1>4 DEF SofInv, Timely, Waits
<1>7. Cleared'
  BY <1>1 DEF SofInv, Cleared
<1> QED BY <1>3, <1>5, <1>6, <1>7 DEF SofInv

LEMMA SofKeeps ==
  ASSUME SofAssumption, SofInv, HandlerSof
  PROVE  SofInv'
<1>1. /\ irq = "usb" /\ irq' = "idle" /\ Measure("usb") /\ "usb" \in Events
      /\ evflag' = {} /\ age' = 0
      /\ UNCHANGED <<highSpeed, phase, counter, running, flags, capture, pc>>
  BY DEF HandlerSof, sct, Events
<1>2. /\ ~Read("usb")' /\ \A f \in Events \ {"usb"} : Read(f)' = Read(f)
      /\ \A f \in Events : ~Read(f)'
  BY <1>1 DEF Read, Events
<1>3. /\ duration' \in [Events -> Nat] /\ previous' \in [Events -> 0 .. Wrap - 1]
      /\ valid' \in [Events -> BOOLEAN] /\ lost' \in [Events -> 0 .. MaxLost]
      /\ Captured' /\ DurationsWhole' /\ RatioDefined'
  BY <1>1, <1>2, MeasureKeeps
<1>4. \A f \in Events : Period(f)' = Period(f) /\ Ago(f)' = Ago(f)
  BY <1>1 DEF Period, Ago
<1>5. Latency \in Nat /\ age \in 0 .. Latency /\ 0 \in 0 .. Latency
  BY Bounds DEF SofInv, Kept
<1>6. Kept'
  BY <1>1, <1>3, <1>4, <1>5 DEF SofInv, Kept
<1>7. Timely'
  <2> SUFFICES ASSUME NEW f \in Events, f \in flags
               PROVE  (Ago(f) <= age \/ Ago(f) < age + Latency)'
    BY <1>1, <1>2 DEF Timely, Waits
  <2>1. Ago(f) < age
    BY <1>1 DEF SofInv, Timely
  <2>2. Ago(f) < 0 + Latency
    <3>1. Period(f) - phase[f] \in Int
      BY PeriodBounds DEF SofInv, Kept
    <3> QED BY <1>5, <2>1, <3>1 DEF Ago
  <2> QED BY <1>1, <1>4, <2>2
<1>8. Cleared'
  BY <1>1 DEF SofInv, Cleared
<1> QED BY <1>3, <1>6, <1>7, <1>8 DEF SofInv

-----------------------------------------------------------------------------
(* The program.  It runs when nothing waits.                               *)
LEMMA EnableKeeps ==
  ASSUME SofAssumption, SofInv, Enable
  PROVE  SofInv'
<1>1. /\ duration' = [e \in Events |-> 0] /\ valid' = [e \in Events |-> FALSE]
      /\ flags' = {} /\ running' = TRUE /\ pc' = "idle" /\ irq = "idle"
      /\ UNCHANGED <<highSpeed, phase, counter, capture, previous, evflag, irq, age, lost>>
  BY DEF Enable, At, Pending, Unmoved, handler
<1>2. MaxLost \in Nat /\ Kept /\ \A e \in Events : Period(e) \in Nat /\ Period(e)' = Period(e)
  BY <1>1, Bounds, PeriodBounds DEF SofInv, Kept, Period
<1>3. \A e \in Events : ~Waits(e)' /\ ~valid'[e]
  BY <1>1 DEF Waits, Read
<1>4. Kept'
  BY <1>1, <1>2 DEF Kept
<1>5. Timely' /\ Cleared' /\ Captured' /\ RatioDefined'
  BY <1>1, <1>3 DEF Timely, Cleared, Captured, RatioDefined
<1>6. DurationsWhole'
  <2> SUFFICES ASSUME NEW e \in Events
               PROVE  duration'[e] \in {n * Period(e) : n \in 0 .. MaxLost + 1}
    BY <1>2 DEF DurationsWhole
  <2>1. duration'[e] = 0 * Period(e) /\ 0 \in 0 .. MaxLost + 1
    BY <1>1, <1>2
  <2> QED BY <2>1
<1> QED BY <1>4, <1>5, <1>6 DEF SofInv

LEMMA ProgramKeeps ==
  ASSUME SofInv, Disable \/ RatioTest \/ RatioSteps
  PROVE  SofInv'
<1>1. /\ UNCHANGED <<highSpeed, phase, counter, flags, capture, duration, previous, valid,
                     evflag, irq, age, lost>>
      /\ running' = running \/ (running' = FALSE /\ flags = {} /\ irq = "idle")
      /\ pc' = "divide" => duration["usb"] # 0
  BY DEF Disable, RatioTest, RatioSteps, At, Pending, Unmoved, handler, sct, timer, Events
<1>2. \A e \in Events : /\ Period(e)' = Period(e) /\ Ago(e)' = Ago(e) /\ Read(e)' = Read(e)
                        /\ Waits(e)' = Waits(e) /\ Owed(e)' = Owed(e)
  BY <1>1 DEF Period, Ago, Read, Waits, Owed
<1>3. Kept'
  BY <1>1, <1>2 DEF SofInv, Kept
<1>4. Timely'
  BY <1>1, <1>2 DEF SofInv, Timely
<1>5. Cleared'
  BY <1>1 DEF SofInv, Cleared
<1>6. Captured'
  BY <1>1, <1>2 DEF SofInv, Captured
<1>7. DurationsWhole' /\ RatioDefined'
  BY <1>1, <1>2 DEF SofInv, DurationsWhole, RatioDefined
<1> QED BY <1>3, <1>4, <1>5, <1>6, <1>7 DEF SofInv

LEMMA SofInvAlways == SofAssumption /\ Spec => []SofInv
<1> SUFFICES ASSUME SofAssumption PROVE Spec => []SofInv
  OBVIOUS
<1>0. Init => SofInv
  BY InitSofInv
<1>1. SofInv /\ [Next]_vars => SofInv'
  <2> SUFFICES ASSUME SofInv, [Next]_vars PROVE SofInv'
    OBVIOUS
  <2>1. CASE UNCHANGED vars
    <3>1. UNCHANGED <<highSpeed, phase, counter, running, flags, capture, duration, previous,
                      valid, evflag, irq, age, lost, pc>>
      BY <2>1 DEF vars, sct, timer, handler
    <3> QED BY <3>1 DEF SofInv, Kept, Timely, Cleared, Captured, DurationsWhole,
                        RatioDefined, Period, Ago, Read, Waits, Owed
  <2>2. CASE Next
    BY <2>2, TickKeeps, ReadsKeeps, AcksKeeps, MwsKeeps, SofKeeps, EnableKeeps, ProgramKeeps
    DEF Next, Program
  <2> QED BY <2>1, <2>2
<1> QED BY <1>0, <1>1, PTL DEF Spec

(* A duration is one period and one more for each edge that was lost.      *)
THEOREM DurationsRight == SofAssumption /\ Spec => []DurationsWhole
<1>1. SofInv => DurationsWhole
  BY DEF SofInv
<1> QED BY SofInvAlways, <1>1, PTL

(* sctSofGetRatio() never divides by zero.                                 *)
THEOREM RatioIsDefined == SofAssumption /\ Spec => []RatioDefined
<1>1. SofInv => RatioDefined
  BY DEF SofInv
<1> QED BY SofInvAlways, <1>1, PTL

(* The duration tells the speed of the bus as long as no edge comes        *)
(* between the read and the clearing of the flags; one is enough to fail.  *)
THEOREM SpeedIsTold == MaxLost = 0 /\ SofAssumption /\ Spec => []HighSpeedTold
<1>1. MaxLost = 0 /\ SofAssumption /\ SofInv => HighSpeedTold
  <2> SUFFICES ASSUME MaxLost = 0, SofAssumption, SofInv, highSpeed
               PROVE  duration["usb"] < SofExpected \div 4
    BY DEF HighSpeedTold
  <2>1. duration["usb"] = 0 \/ duration["usb"] = SofExpected \div 8
    <3>1. PICK n \in 0 .. 1 : duration["usb"] = n * (SofExpected \div 8)
      BY DEF SofInv, DurationsWhole, Events, Period
    <3>2. SofExpected \div 8 \in Nat
      BY DEF SofAssumption
    <3>3. CASE n = 0
      BY <3>1, <3>2, <3>3
    <3>4. CASE n = 1
      BY <3>1, <3>2, <3>4
    <3> QED BY <3>3, <3>4
  <2>2. SofExpected \in Nat /\ SofExpected > 0 /\ SofExpected % 8 = 0
    BY DEF SofAssumption
  <2>3. 0 < SofExpected \div 4 /\ SofExpected \div 8 < SofExpected \div 4
    BY ONLY <2>2, SMT
  <2> QED BY <2>1, <2>3
<1>2. MaxLost = 0 /\ SofAssumption => [](MaxLost = 0 /\ SofAssumption)
  <2>1. MaxLost = 0 /\ SofAssumption => (MaxLost = 0 /\ SofAssumption)'
    BY DEF SofAssumption
  <2> QED BY <2>1, PTL
<1> QED BY SofInvAlways, <1>1, <1>2, PTL
=============================================================================
