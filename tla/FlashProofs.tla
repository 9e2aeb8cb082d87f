----------------------------- MODULE FlashProofs -----------------------------
(***************************************************************************)
(* The Flash driver keeps its promises, and its test passes on a good      *)
(* chip, for every geometry of the chip, every length of a word and every  *)
(* pattern.                                                                *)
(***************************************************************************)
EXTENDS EmcFlash, CustodyLemmas

EraseUnlocked == Command("80") \o Unlock

(* A cycle of the bus: an address of the chip or of an unlock cycle, and   *)
(* a code or a word.                                                       *)
Codes == {"AA", "55", "A0", "80", "30", "50"}
Cycles == (0 .. Size + 1) \X (Codes \cup Words)

(* The command whose cycles are being made: how it opens, and the cycle    *)
(* that completes it.                                                      *)
Opening == IF op.kind = "write" THEN Command("A0") ELSE EraseUnlocked

Closing ==
  CASE op.kind = "sector" -> <<op.at, "30">>
    [] op.kind = "block"  -> <<op.at, "50">>
    [] op.kind = "write"  -> <<op.at + op.next - 1, op.words[op.next]>>

Making == Opening \o <<Closing>>

(* The chip has decoded the first cycles of it, the others are to come.    *)
Underway ==
  \/ cycles = <<>> /\ stage = <<>>
  \/ /\ op # Idle /\ cycles # <<>>
     /\ \E n \in 0 .. Len(Making) - 1 :
          /\ stage = SubSeq(Making, 1, n)
          /\ cycles = SubSeq(Making, n + 1, Len(Making))

(* What an operation finds and leaves.                                     *)
Operations ==
  [kind : {"sector", "block", "write"}, at : Addresses, words : Seq(Words),
   next : Nat, before : [Addresses -> Words]]

(* The memory after the first k words of a write.                          *)
Written(o, k) ==
  [a \in Addresses |->
     IF a \in o.at .. o.at + k - 1 THEN o.before[a] \cup o.words[a - o.at + 1]
                                   ELSE o.before[a]]

Writing ==
  op.kind = "write" =>
    /\ op.at = offset
    /\ cycles # <<>> => op.next > 0 /\ mem = Written(op, op.next - 1)
    /\ cycles = <<>> => mem = Written(op, op.next)

Erasing ==
  op.kind \in {"sector", "block"} =>
    /\ op.words = <<>>
    /\ op.at % (IF op.kind = "sector" THEN Sector ELSE Block) = 0
    /\ mem = IF cycles # <<>> THEN op.before ELSE Promised(op)

Contents ==
  /\ mem \in [Addresses -> Words] /\ offset \in Addresses
  /\ op \in {Idle} \cup Operations
  /\ op # Idle => /\ op.at + Len(op.words) <= Size /\ op.next <= Len(op.words)
                  /\ Writing /\ Erasing
  /\ op = Idle => cycles = <<>>

FlashInv == FlashAssumption /\ Contents /\ Underway

-----------------------------------------------------------------------------
(* The client                                                              *)

Region(m) == [k \in 1..TestLength |-> m[TestOffset + k - 1]]
Blank(m) == \A k \in 1..TestLength : m[TestOffset + k - 1] = {}
Patterned == \A k \in 1..TestLength : mem[TestOffset + k - 1] = Pattern[k]

ClientInv ==
  /\ EmcAssumption
  /\ ~led
  /\ region \in {"sector", "block"}
  /\ pc \in {"erase", "seek", "write", "written", "rewind", "read", "compare", "stop"}
  /\ pc \notin {"seek", "written"} => op = Idle
  /\ pc = "seek" =>
       IF op = Idle THEN Blank(mem) ELSE op.kind = region /\ op.at = TestOffset
  /\ pc = "write" => Blank(mem) /\ offset = TestOffset
  /\ pc = "written" =>
       IF op = Idle THEN Patterned /\ offset = TestOffset + TestLength
       ELSE /\ op.kind = "write" /\ op.at = TestOffset
            /\ op.words = Pattern /\ Blank(op.before)
  /\ pc \in {"rewind", "read", "compare"} => Patterned
  /\ pc = "read" => offset = TestOffset
  /\ pc = "compare" => offset = TestOffset + TestLength
-----------------------------------------------------------------------------
(* The commands, cycle by cycle.                                           *)
LEMMA UnlockCycles ==
  Size \in Nat => /\ Unlock \in Seq(Cycles) /\ Len(Unlock) = 2
                  /\ Unlock[1] = <<Size, "AA">> /\ Unlock[2] = <<Size + 1, "55">>
<1> SUFFICES ASSUME Size \in Nat PROVE Unlock \in Seq(Cycles)
  BY DEF Unlock
<1>1. <<Size, "AA">> \in Cycles /\ <<Size + 1, "55">> \in Cycles
  BY DEF Cycles, Codes
<1> QED BY <1>1 DEF Unlock

(* The elements of a concatenation, first those of s and then those of t.  *)
LEMMA Joined ==
  ASSUME NEW S, NEW s \in Seq(S), NEW t \in Seq(S)
  PROVE  /\ s \o t \in Seq(S) /\ Len(s \o t) = Len(s) + Len(t)
         /\ \A i \in 1 .. Len(s) : (s \o t)[i] = s[i]
         /\ \A i \in 1 .. Len(t) : (s \o t)[Len(s) + i] = t[i]
<1>1. /\ s \o t \in Seq(S) /\ Len(s \o t) = Len(s) + Len(t)
      /\ \A i \in 1 .. Len(s) + Len(t) :
           (s \o t)[i] = IF i <= Len(s) THEN s[i] ELSE t[i - Len(s)]
  BY ConcatProperties
<1>2. Len(s) \in Nat /\ Len(t) \in Nat
  BY LenProperties
<1> QED BY <1>1, <1>2

LEMMA CommandCycles ==
  ASSUME Size \in Nat, NEW c \in Codes
  PROVE  /\ Command(c) \in Seq(Cycles) /\ Len(Command(c)) = 3
         /\ Command(c)[1] = Unlock[1] /\ Command(c)[2] = Unlock[2]
         /\ Command(c)[3] = <<Size, c>>
<1> DEFINE last == <<<<Unlock[1][1], c>>>>
<1>1. Unlock[1][1] = Size
  BY UnlockCycles
<1>2. <<Size, c>> \in Cycles
  BY DEF Cycles
<1>3. last \in Seq(Cycles) /\ Len(last) = 1 /\ last[1] = <<Size, c>>
  BY <1>1, <1>2
<1>4. Command(c) = Unlock \o last
  BY DEF Command
<1> HIDE DEF last
<1>5. Unlock \in Seq(Cycles)
  BY UnlockCycles
<1>6. last \in Seq(Cycles)
  BY <1>3
<1>7. /\ Unlock \o last \in Seq(Cycles) /\ Len(Unlock \o last) = Len(Unlock) + Len(last)
      /\ \A i \in 1 .. Len(Unlock) : (Unlock \o last)[i] = Unlock[i]
      /\ \A i \in 1 .. Len(last) : (Unlock \o last)[Len(Unlock) + i] = last[i]
  BY <1>5, <1>6, Joined
<1>8. Len(Unlock) = 2
  BY UnlockCycles
<1>9. 1 \in 1 .. Len(Unlock) /\ 2 \in 1 .. Len(Unlock) /\ 1 \in 1 .. Len(last)
  BY <1>3, <1>8
<1>10. (Unlock \o last)[Len(Unlock) + 1] = last[1]
  BY <1>7, <1>9
<1>11. Len(Unlock) + Len(last) = 3 /\ Len(Unlock) + 1 = 3
  BY <1>3, <1>8
<1> QED BY <1>3, <1>4, <1>7, <1>9, <1>10, <1>11

LEMMA EraseCycles ==
  ASSUME Size \in Nat
  PROVE  /\ EraseUnlocked \in Seq(Cycles) /\ Len(EraseUnlocked) = 5
         /\ EraseUnlocked[3] = <<Size, "80">>
<1>1. "80" \in Codes
  BY DEF Codes
<1> DEFINE c == Command("80")
<1>2. c \in Seq(Cycles) /\ Len(c) = 3 /\ c[3] = <<Size, "80">>
  BY <1>1, CommandCycles
<1> HIDE DEF c
<1>3. Unlock \in Seq(Cycles) /\ Len(Unlock) = 2
  BY UnlockCycles
<1>4. c \in Seq(Cycles) /\ Len(c) = 3
  BY <1>2
<1>5. /\ c \o Unlock \in Seq(Cycles) /\ Len(c \o Unlock) = Len(c) + Len(Unlock)
      /\ \A i \in 1 .. Len(c) : (c \o Unlock)[i] = c[i]
  BY <1>3, <1>4, Joined
<1>6. 3 \in 1 .. Len(c) /\ Len(c) + Len(Unlock) = 5
  BY <1>2, <1>3
<1>7. EraseUnlocked = c \o Unlock
  BY DEF EraseUnlocked, c
<1> QED BY <1>2, <1>5, <1>6, <1>7

(* A cycle of the command's opening is kept, whichever command it opens.   *)
LEMMA StageGrows ==
  ASSUME Size \in Nat, NEW base \in {Command("A0"), EraseUnlocked},
         NEW n \in 0 .. Len(base) - 1, stage = SubSeq(base, 1, n),
         Decode(base[n + 1][1], base[n + 1][2])
  PROVE  mem' = mem /\ stage' = SubSeq(base, 1, n + 1)
<1> DEFINE c == base[n + 1]
           seen == Append(stage, <<c[1], c[2]>>)
<1>1. "A0" \in Codes
  BY DEF Codes
<1>2. Command("A0") \in Seq(Cycles) /\ Len(Command("A0")) = 3 /\ Command("A0")[3] = <<Size, "A0">>
  BY <1>1, CommandCycles
<1>3. /\ EraseUnlocked \in Seq(Cycles) /\ Len(EraseUnlocked) = 5
      /\ EraseUnlocked[3] = <<Size, "80">>
  BY EraseCycles
<1>4. base \in Seq(Cycles) /\ Len(base) \in {3, 5}
  BY <1>2, <1>3
<1>5. c \in Cycles
  BY <1>4
<1>6. <<c[1], c[2]>> = c
  BY <1>5 DEF Cycles
<1>7. seen = SubSeq(base, 1, n + 1)
  <2>1. 1 \in 1 .. Len(base) /\ n + 1 \in 1 .. Len(base)
    BY <1>4
  <2>2. SubSeq(base, 1, n + 1) = SubSeq(base, 1, n + 1 - 1) \o <<c>>
    BY <1>4, <2>1, SubSeqRecursiveSecond
  <2>3. n + 1 - 1 = n
    BY <1>4
  <2>4. SubSeq(base, 1, n) \in Seq(Cycles)
    BY <1>4, SplitCustody
  <2>5. Append(stage, c) = stage \o <<c>>
    BY <1>5, <2>4, AppendIsConcat
  <2> QED BY <1>6, <2>2, <2>3, <2>5
<1>8. Len(stage) = n /\ Len(seen) = n + 1
  <2>1. /\ \A i \in 1 .. n : base[i] \in Cycles
        /\ \A i \in 1 .. n + 1 : base[i] \in Cycles
    BY <1>4
  <2>2. Len(SubSeq(base, 1, n)) = IF 1 <= n THEN n - 1 + 1 ELSE 0
    BY <2>1, SubSeqProperties
  <2>3. Len(SubSeq(base, 1, n + 1)) = IF 1 <= n + 1 THEN n + 1 - 1 + 1 ELSE 0
    BY <2>1, SubSeqProperties
  <2> QED BY <1>4, <1>7, <2>2, <2>3
<1>9. stage # EraseUnlocked
  <2>1. n # 5
    BY <1>4
  <2>2. Len(stage) # Len(EraseUnlocked)
    BY <1>3, <1>8, <2>1
  <2> QED BY <2>2
<1>10. stage # Command("A0")
  <2>1. CASE base = Command("A0")
    BY <2>1, <1>2, <1>8
  <2>2. CASE base = EraseUnlocked
    <3>1. CASE n = 3
      <4>1. \A i \in 1 .. n : base[i] \in Cycles
        BY <1>4
      <4>2. \A i \in 1 .. n - 1 + 1 : SubSeq(base, 1, n)[i] = base[1 + i - 1]
        BY <4>1, SubSeqProperties
      <4>3. stage[3] = base[3]
        BY <3>1, <4>2
      <4> QED BY <1>2, <1>3, <2>2, <4>3
    <3> QED BY <3>1, <1>2, <1>8
  <2> QED BY <2>1, <2>2
<1>11. Len(seen) <= Len(base) /\ seen = SubSeq(base, 1, Len(seen))
  BY <1>4, <1>7, <1>8
<1> QED BY <1>7, <1>9, <1>10, <1>11 DEF Decode, EraseUnlocked


-----------------------------------------------------------------------------
(* What is being made are cycles of the bus, and there is one left while   *)
(* the operation has not made all of them.                                 *)
LEMMA MakingCycles ==
  ASSUME FlashAssumption, Contents, op # Idle, op.kind = "write" => op.next > 0
  PROVE  /\ Opening \in {Command("A0"), EraseUnlocked} /\ Opening \in Seq(Cycles)
         /\ Closing \in Cycles
         /\ Making \in Seq(Cycles) /\ Len(Making) = Len(Opening) + 1
         /\ \A i \in 1 .. Len(Opening) : Making[i] = Opening[i]
         /\ Making[Len(Opening) + 1] = Closing
<1>1. Size \in Nat /\ "A0" \in Codes
  BY DEF FlashAssumption, Codes
<1>2. Opening \in {Command("A0"), EraseUnlocked} /\ Opening \in Seq(Cycles)
  BY <1>1, CommandCycles, EraseCycles DEF Opening
<1>3. /\ op.kind \in {"sector", "block", "write"} /\ op.at \in Addresses
      /\ op.words \in Seq(Words) /\ op.next \in Nat
      /\ op.at + Len(op.words) <= Size /\ op.next <= Len(op.words)
  BY DEF Contents, Operations
<1>4. Closing \in Cycles
  <2>1. CASE op.kind = "sector"
    BY <1>1, <1>3, <2>1 DEF Closing, Cycles, Codes, Addresses
  <2>2. CASE op.kind = "block"
    BY <1>1, <1>3, <2>2 DEF Closing, Cycles, Codes, Addresses
  <2>3. CASE op.kind = "write"
    <3>1. Len(op.words) \in Nat
      BY <1>3, LenProperties
    <3>2. op.next \in 1 .. Len(op.words)
      BY <1>3, <2>3, <3>1
    <3>3. op.words[op.next] \in Words
      BY <1>3, <3>2, ElementOfSeq
    <3>4. op.at + op.next - 1 \in 0 .. Size + 1
      BY <1>1, <1>3, <3>1, <3>2 DEF Addresses
    <3>5. Closing = <<op.at + op.next - 1, op.words[op.next]>>
      BY <2>3 DEF Closing
    <3> QED BY <3>3, <3>4, <3>5 DEF Cycles
  <2> QED BY <1>3, <2>1, <2>2, <2>3
<1> DEFINE last == <<Closing>>
<1>5. last \in Seq(Cycles) /\ Len(last) = 1 /\ last[1] = Closing
  BY <1>4
<1>6. Making = Opening \o last
  BY DEF Making
<1> HIDE DEF last
<1>7. Opening \in Seq(Cycles) /\ last \in Seq(Cycles)
  BY <1>2, <1>5
<1>8. /\ Opening \o last \in Seq(Cycles)
      /\ Len(Opening \o last) = Len(Opening) + Len(last)
      /\ \A i \in 1 .. Len(Opening) : (Opening \o last)[i] = Opening[i]
      /\ \A i \in 1 .. Len(last) : (Opening \o last)[Len(Opening) + i] = last[i]
  BY <1>7, Joined
<1>9. 1 \in 1 .. Len(last)
  BY <1>5
<1> QED BY <1>2, <1>4, <1>5, <1>6, <1>8, <1>9


(* A cycle of the bus: the chip keeps it, or the command is complete.      *)
LEMMA CycleDecoded ==
  ASSUME FlashAssumption, Contents, Underway, BusCycle
  PROVE  /\ op # Idle /\ cycles # <<>> /\ UNCHANGED <<op, offset>>
         /\ \/ mem' = mem /\ cycles' # <<>> /\ Underway'
            \/ stage = Opening /\ cycles' = <<>> /\ Decode(Closing[1], Closing[2])
<1>1. cycles # <<>> /\ op # Idle /\ UNCHANGED <<op, offset>>
  BY DEF BusCycle, Contents
<1>2. op.kind = "write" => op.next > 0
  BY <1>1 DEF Contents, Writing
<1>3. PICK n \in 0 .. Len(Making) - 1 :
        /\ stage = SubSeq(Making, 1, n)
        /\ cycles = SubSeq(Making, n + 1, Len(Making))
  BY <1>1 DEF Underway
<1> DEFINE m == Making
           l == Len(Making)
           o == Opening
<1>4. /\ Opening \in {Command("A0"), EraseUnlocked} /\ o \in Seq(Cycles) /\ Closing \in Cycles
      /\ m \in Seq(Cycles) /\ l = Len(o) + 1
      /\ \A i \in 1 .. Len(o) : m[i] = o[i]
      /\ m[Len(o) + 1] = Closing
  BY <1>1, <1>2, MakingCycles
<1>5. Len(o) \in Nat /\ l \in Nat
  BY <1>4, LenProperties
<1>6. n + 1 \in 1 .. l /\ l \in n + 1 .. l
  BY <1>5
<1>7. /\ Head(SubSeq(m, n + 1, l)) = m[n + 1]
      /\ Tail(SubSeq(m, n + 1, l)) = SubSeq(m, n + 1 + 1, l)
  BY <1>4, <1>6, HeadTailOfSubSeq
<1>8. /\ Decode(m[n + 1][1], m[n + 1][2])
      /\ cycles' = SubSeq(m, n + 1 + 1, l)
  BY <1>3, <1>7 DEF BusCycle
<1>9. Making' = Making
  BY <1>1 DEF Making, Opening, Closing
<1>10. ASSUME NEW k \in 0 .. Len(o) PROVE SubSeq(m, 1, k) = SubSeq(o, 1, k)
  <2>1. CASE k = 0
    BY <2>1, SubSeqEmpty
  <2>2. CASE k # 0
    <3>1. <<Closing>> \in Seq(Cycles) /\ 1 \in 1 .. Len(o) /\ k \in 1 .. Len(o)
      BY <1>4, <1>5, <2>2
    <3>2. SubSeq(o \o <<Closing>>, 1, k) = SubSeq(o, 1, k)
      BY <1>4, <3>1, SubSeqOfConcat1
    <3> QED BY <3>2 DEF Making
  <2> QED BY <2>1, <2>2
<1>11. CASE n < Len(o)
  <2>1. n \in 0 .. Len(o) - 1 /\ n \in 0 .. Len(o) /\ n + 1 \in 0 .. Len(o) /\ n + 1 \in 1 .. Len(o)
    BY <1>5, <1>11
  <2>2. stage = SubSeq(Opening, 1, n) /\ m[n + 1] = Opening[n + 1]
    BY <1>3, <1>4, <1>10, <2>1
  <2>3. Size \in Nat /\ Decode(Opening[n + 1][1], Opening[n + 1][2])
    BY <1>8, <2>2 DEF FlashAssumption
  <2>4. mem' = mem /\ stage' = SubSeq(Opening, 1, n + 1)
    BY <1>4, <2>1, <2>2, <2>3, StageGrows
  <2>5. stage' = SubSeq(m, 1, n + 1)
    BY <1>10, <2>1, <2>4
  <2>6. n + 1 + 1 \in 1 .. l /\ l \in n + 1 + 1 .. l /\ n + 1 \in 0 .. l - 1
    BY <1>4, <1>5, <2>1
  <2>7. cycles' # <<>>
    <3>1. \A i \in n + 1 + 1 .. l : m[i] \in Cycles
      BY <1>4, <1>5
    <3>2. Len(SubSeq(m, n + 1 + 1, l)) = IF n + 1 + 1 <= l THEN l - (n + 1 + 1) + 1 ELSE 0
      BY <1>5, <3>1, SubSeqProperties
    <3>3. Len(cycles') # 0
      BY <1>5, <1>8, <2>6, <3>2
    <3> QED BY <3>3
  <2>8. Underway'
    <3>1. /\ n + 1 \in 0 .. Len(Making') - 1
          /\ stage' = SubSeq(Making', 1, n + 1)
          /\ cycles' = SubSeq(Making', n + 1 + 1, Len(Making'))
      BY <1>8, <1>9, <2>5, <2>6
    <3>2. (op # Idle)'
      BY <1>1 DEF Idle
    <3> QED BY <2>7, <3>1, <3>2 DEF Underway
  <2> QED BY <1>1, <2>4, <2>7, <2>8
<1>12. CASE n = Len(o)
  <2>1. stage = SubSeq(o, 1, Len(o))
    BY <1>3, <1>5, <1>10, <1>12
  <2>2. stage = Opening
    BY <1>4, <2>1, SubSeqFull
  <2>3. cycles' = <<>>
    <3>1. n + 1 + 1 \in Int /\ l \in Int /\ l < n + 1 + 1
      BY <1>4, <1>5, <1>12
    <3> QED BY <1>8, <3>1, SubSeqEmpty
  <2> QED BY <1>1, <1>4, <1>8, <1>12, <2>2, <2>3
<1> QED BY <1>4, <1>5, <1>11, <1>12


(* A region that begins at a multiple of its length is the words whose     *)
(* address divided by the length is the same.                              *)
LEMMA RegionOf ==
  ASSUME NEW n \in Nat \ {0}, NEW a \in Nat, NEW b \in Nat, a % n = 0
  PROVE  b \div n = a \div n <=> b \in a .. a + n - 1
<1> DEFINE p == a \div n
           q == b \div n
           r == b % n
<1>1. p \in Nat /\ a = n * p
  OBVIOUS
<1>2. q \in Nat /\ r \in 0 .. n - 1 /\ b = n * q + r
  OBVIOUS
<1> HIDE DEF p, q, r
<1>3. ASSUME q = p PROVE b \in a .. a + n - 1
  <2>1. b = a + r
    BY <1>1, <1>2, <1>3
  <2> QED BY <1>2, <2>1
<1>4. ASSUME b \in a .. a + n - 1 PROVE q = p
  <2>1. CASE q < p
    <3>1. n * (q + 1) <= n * p
      BY <1>1, <1>2, <2>1
    <3>2. n * (q + 1) = n * q + n
      BY <1>2
    <3> QED BY <1>1, <1>2, <1>4, <3>1, <3>2
  <2>2. CASE p < q
    <3>1. n * (p + 1) <= n * q
      BY <1>1, <1>2, <2>2
    <3>2. n * (p + 1) = n * p + n
      BY <1>1
    <3> QED BY <1>1, <1>2, <1>4, <3>1, <3>2
  <2> QED BY <1>1, <1>2, <2>1, <2>2
<1> QED BY <1>3, <1>4 DEF p, q


LEMMA BusCycleInv ==
  ASSUME FlashInv, BusCycle
  PROVE  FlashInv'
<1>1. /\ op # Idle /\ cycles # <<>> /\ UNCHANGED <<op, offset>>
      /\ \/ mem' = mem /\ cycles' # <<>> /\ Underway'
         \/ stage = Opening /\ cycles' = <<>> /\ Decode(Closing[1], Closing[2])
  BY CycleDecoded DEF FlashInv
<1>2. /\ FlashAssumption /\ Size \in Nat \ {0} /\ Sector \in Nat \ {0} /\ Block \in Nat \ {0}
  BY DEF FlashInv, FlashAssumption
<1>3. /\ mem \in [Addresses -> Words] /\ offset \in Addresses /\ op \in Operations
      /\ op.at + Len(op.words) <= Size /\ op.next <= Len(op.words)
      /\ Writing /\ Erasing
  BY <1>1 DEF FlashInv, Contents
<1>4. /\ op.kind \in {"sector", "block", "write"} /\ op.at \in Addresses
      /\ op.words \in Seq(Words) /\ op.next \in Nat /\ op.before \in [Addresses -> Words]
  BY <1>3 DEF Operations
<1>5. CASE mem' = mem /\ cycles' # <<>> /\ Underway'
  <2>1. Writing' /\ Erasing'
    BY <1>1, <1>3, <1>5 DEF Writing, Erasing, Written
  <2> QED BY <1>1, <1>2, <1>3, <1>5, <2>1 DEF FlashInv, Contents
<1>6. CASE stage = Opening /\ cycles' = <<>> /\ Decode(Closing[1], Closing[2])
  <2>1. ASSUME mem' \in [Addresses -> Words], stage' = <<>>, Writing', Erasing'
        PROVE  FlashInv'
    BY <1>1, <1>2, <1>3, <1>6, <2>1 DEF FlashInv, Contents, Underway
  <2>2. Size \in Nat /\ "A0" \in Codes
    BY <1>2 DEF Codes
  <2>3. Len(Command("A0")) = 3 /\ Len(EraseUnlocked) = 5
    BY <2>2, CommandCycles, EraseCycles
  <2>4. CASE op.kind = "write"
    <3>1. stage = Command("A0") /\ Closing = <<op.at + op.next - 1, op.words[op.next]>>
      BY <1>6, <2>4 DEF Opening, Closing
    <3> DEFINE b == op.at + op.next - 1
               w == op.words[op.next]
    <3>2. mem' = [mem EXCEPT ![b] = @ \cup w] /\ stage' = <<>>
      BY <1>6, <3>1 DEF Decode
    <3>3. /\ op.next > 0 /\ mem = Written(op, op.next - 1) /\ op.at = offset
      BY <1>1, <1>3, <2>4 DEF Writing
    <3>4. Len(op.words) \in Nat /\ op.next \in 1 .. Len(op.words)
      BY <1>3, <1>4, <3>3, LenProperties
    <3>5. w \in Words /\ b \in Addresses
      BY <1>2, <1>3, <1>4, <3>4, ElementOfSeq DEF Addresses
    <3>6. mem' \in [Addresses -> Words]
      BY <1>3, <3>2, <3>5 DEF Words
    <3>7. mem' = Written(op, op.next)
      <4>1. ASSUME NEW a \in Addresses PROVE mem'[a] = Written(op, op.next)[a]
        <5>1. a \in Nat /\ op.at \in Nat /\ op.next \in Nat
          BY <1>2, <1>4 DEF Addresses
        <5>2. mem[a] = IF a \in op.at .. op.at + (op.next - 1) - 1
                         THEN op.before[a] \cup op.words[a - op.at + 1] ELSE op.before[a]
          BY <3>3 DEF Written
        <5>3. CASE a = b
          <6>1. a \notin op.at .. op.at + (op.next - 1) - 1 /\ a \in op.at .. op.at + op.next - 1
                /\ a - op.at + 1 = op.next
            BY <3>4, <5>1, <5>3
          <6> QED BY <1>3, <3>2, <5>2, <5>3, <6>1 DEF Written
        <5>4. CASE a # b
          <6>1. a \in op.at .. op.at + (op.next - 1) - 1 <=> a \in op.at .. op.at + op.next - 1
            BY <3>4, <5>1, <5>4
          <6> QED BY <1>3, <3>2, <5>2, <5>4, <6>1 DEF Written
        <5> QED BY <5>3, <5>4
      <4> QED BY <3>6, <4>1 DEF Written
    <3>8. Writing' /\ Erasing'
      BY <1>1, <1>6, <2>4, <3>3, <3>7 DEF Writing, Erasing, Written
    <3> QED BY <2>1, <3>2, <3>6, <3>8
  <2>5. ASSUME NEW n \in Nat \ {0}, op.kind # "write", op.at % n = 0, mem = op.before,
               mem' = Erased(op.at, n), stage' = <<>>,
               \A a \in Addresses : Promised(op)[a] = IF a \in op.at .. op.at + n - 1 THEN {} ELSE op.before[a]
        PROVE  FlashInv'
    <3>1. \A a \in Addresses : Erased(op.at, n)[a] = Promised(op)[a]
      <4> TAKE a \in Addresses
      <4>1. a \in Nat /\ op.at \in Nat
        BY <1>2, <1>4 DEF Addresses
      <4>2. a \div n = op.at \div n <=> a \in op.at .. op.at + n - 1
        BY <2>5, <4>1, RegionOf
      <4> QED BY <2>5, <4>2 DEF Erased
    <3>2. mem' = Promised(op)
      BY <2>5, <3>1 DEF Erased, Promised
    <3>3. mem' \in [Addresses -> Words]
      BY <1>3, <2>5 DEF Erased, Words
    <3>4. op.words = <<>> /\ op.at % (IF op.kind = "sector" THEN Sector ELSE Block) = 0
      BY <1>3, <1>4, <2>5 DEF Erasing
    <3>5. Promised(op)' = Promised(op)
      BY <1>1 DEF Promised
    <3>6. Writing' /\ Erasing'
      BY <1>1, <1>6, <2>5, <3>2, <3>4, <3>5 DEF Writing, Erasing
    <3> QED BY <2>1, <2>5, <3>3, <3>6
  <2>6. CASE op.kind = "sector"
    <3>1. stage = EraseUnlocked /\ Closing = <<op.at, "30">>
      BY <1>6, <2>6 DEF Opening, Closing
    <3>2. stage # Command("A0")
      BY <2>3, <3>1
    <3>3. mem' = Erased(op.at, Sector) /\ stage' = <<>>
      BY <1>6, <3>1, <3>2 DEF Decode, EraseUnlocked
    <3>4. op.at % Sector = 0 /\ mem = op.before
      BY <1>1, <1>3, <2>6 DEF Erasing
    <3>5. \A a \in Addresses : Promised(op)[a] = IF a \in op.at .. op.at + Sector - 1 THEN {} ELSE op.before[a]
      BY <2>6 DEF Promised
    <3> QED BY <1>2, <2>5, <2>6, <3>3, <3>4, <3>5
  <2>7. CASE op.kind = "block"
    <3>1. stage = EraseUnlocked /\ Closing = <<op.at, "50">>
      BY <1>6, <2>7 DEF Opening, Closing
    <3>2. stage # Command("A0")
      BY <2>3, <3>1
    <3>3. mem' = Erased(op.at, Block) /\ stage' = <<>>
      BY <1>6, <3>1, <3>2 DEF Decode, EraseUnlocked
    <3>4. op.at % Block = 0 /\ mem = op.before
      BY <1>1, <1>3, <2>7 DEF Erasing
    <3>5. \A a \in Addresses : Promised(op)[a] = IF a \in op.at .. op.at + Block - 1 THEN {} ELSE op.before[a]
      BY <2>7 DEF Promised
    <3> QED BY <1>2, <2>5, <2>7, <3>3, <3>4, <3>5
  <2> QED BY <1>4, <2>4, <2>6, <2>7
<1> QED BY <1>1, <1>5, <1>6


(* An operation begins: nothing of it is in the chip.                      *)
LEMMA StartInv ==
  ASSUME FlashInv, NEW p \in Nat,
         SetSectorErase(p) \/ SetBlockErase(p)
  PROVE  FlashInv'
<1>1. /\ FlashAssumption /\ Size \in Nat \ {0} /\ Sector \in Nat \ {0} /\ Block \in Nat \ {0}
  BY DEF FlashInv, FlashAssumption
<1>2. p \in Addresses /\ op = Idle /\ cycles = <<>> /\ stage = <<>>
  BY <1>1 DEF SetSectorErase, SetBlockErase, Start, Addresses, FlashInv, Contents, Underway
<1>3. mem \in [Addresses -> Words] /\ offset \in Addresses /\ UNCHANGED <<mem, stage, offset>>
  BY DEF FlashInv, Contents, SetSectorErase, SetBlockErase, Start
<1>4. ASSUME NEW kind \in {"sector", "block"},
             op' = [kind |-> kind, at |-> p, words |-> <<>>, next |-> 0, before |-> mem],
             p % (IF kind = "sector" THEN Sector ELSE Block) = 0,
             cycles' = Making'
      PROVE  FlashInv'
  <2>1. /\ op'.kind = kind /\ op'.at = p /\ op'.words = <<>> /\ op'.next = 0 /\ op'.before = mem
    BY <1>4
  <2>2. <<>> \in Seq(Words) /\ Len(<<>>) = 0
    OBVIOUS
  <2>3. op' \in Operations
    BY <1>2, <1>3, <1>4, <2>2 DEF Operations
  <2>4. op' # Idle
    BY <2>1, <1>4 DEF Idle
  <2>5. /\ Making' \in Seq(Cycles) /\ Len(Making') = Len(Opening') + 1
    <3>1. Size \in Nat /\ "A0" \in Codes
      BY <1>1 DEF Codes
    <3>2. Opening' \in Seq(Cycles)
      BY <2>1, <3>1, EraseCycles DEF Opening
    <3>3. Closing' = <<p, "30">> \/ Closing' = <<p, "50">>
      BY <1>4, <2>1 DEF Closing
    <3>4. Closing' \in Cycles
      BY <1>1, <1>2, <3>3 DEF Cycles, Codes, Addresses
    <3>5. <<Closing'>> \in Seq(Cycles) /\ Len(<<Closing'>>) = 1
      BY <3>4
    <3> QED BY <3>2, <3>5, ConcatProperties DEF Making
  <2>6. Len(Making') \in Nat /\ Len(Making') > 0
    <3>1. Len(Opening') \in Nat
      BY <1>1, <2>1, EraseCycles DEF Opening
    <3> QED BY <2>5, <3>1
  <2>7. cycles' # <<>>
    BY <1>4, <2>6
  <2>8. Underway'
    <3>1. 0 \in 0 .. Len(Making') - 1
      BY <2>6
    <3>2. SubSeq(Making', 1, 0) = <<>> /\ SubSeq(Making', 0 + 1, Len(Making')) = Making'
      BY <2>5, SubSeqEmpty, SubSeqFull
    <3> QED BY <1>2, <1>3, <1>4, <2>4, <2>7, <3>1, <3>2 DEF Underway
  <2>9. Writing' /\ Erasing'
    BY <1>3, <1>4, <2>1, <2>7 DEF Writing, Erasing
  <2>10. op'.at + Len(op'.words) <= Size /\ op'.next <= Len(op'.words)
    BY <1>1, <1>2, <2>1, <2>2 DEF Addresses
  <2> QED BY <1>1, <1>3, <2>3, <2>4, <2>7, <2>8, <2>9, <2>10 DEF FlashInv, Contents
<1>5. CASE SetSectorErase(p)
  BY <1>4, <1>5 DEF SetSectorErase, Start, EraseSector, Making, Opening, Closing, EraseUnlocked
<1>6. CASE SetBlockErase(p)
  BY <1>4, <1>6 DEF SetBlockErase, Start, EraseBlock, Making, Opening, Closing, EraseUnlocked
<1> QED BY <1>5, <1>6


(* What the requests keep of the position.                                 *)
LEMMA PositionInside ==
  ASSUME FlashAssumption, offset \in Addresses, NEW n \in Nat
  PROVE  /\ Clamped(n) \in 0 .. n /\ offset + Clamped(n) <= Size
         /\ offset + n <= Size => Clamped(n) = n /\ Advanced(n) \in Addresses
BY DEF FlashAssumption, Addresses, Clamped, Advanced

LEMMA WriteInv ==
  ASSUME FlashInv, NEW words \in Seq(Words), Write(words)
  PROVE  FlashInv'
<1>1. /\ FlashAssumption /\ op = Idle /\ cycles = <<>> /\ stage = <<>>
      /\ mem \in [Addresses -> Words] /\ offset \in Addresses
      /\ UNCHANGED <<mem, stage, offset>> /\ cycles' = <<>>
  BY DEF FlashInv, Contents, Underway, Write, Start
<1> DEFINE n == Clamped(Len(words))
           w == SubSeq(words, 1, n)
<1>2. Len(words) \in Nat
  BY LenProperties
<1>3. n \in 0 .. Len(words) /\ offset + n <= Size
  BY <1>1, <1>2, PositionInside
<1>4. w \in Seq(Words) /\ Len(w) = n
  BY <1>3, SplitCustody
<1>5. op' = [kind |-> "write", at |-> offset, words |-> w, next |-> 0, before |-> mem]
  BY DEF Write, Start
<1> HIDE DEF n, w
<1>6. /\ op'.kind = "write" /\ op'.at = offset /\ op'.words = w /\ op'.next = 0
      /\ op'.before = mem /\ op' # Idle
  BY <1>5 DEF Idle
<1>7. op' \in Operations
  BY <1>1, <1>4, <1>5 DEF Operations
<1>8. op'.at + Len(op'.words) <= Size /\ op'.next <= Len(op'.words)
  BY <1>3, <1>4, <1>6
<1>9. mem' = Written(op, op.next)'
  <2>1. \A a \in Addresses : a \notin offset .. offset + 0 - 1
    BY <1>1 DEF FlashAssumption, Addresses
  <2>2. Written(op, op.next)' = [a \in Addresses |->
          IF a \in offset .. offset + 0 - 1 THEN mem[a] \cup w[a - offset + 1] ELSE mem[a]]
    BY <1>6 DEF Written
  <2> QED BY <1>1, <2>1, <2>2
<1>10. Writing' /\ Erasing'
  BY <1>1, <1>6, <1>9 DEF Writing, Erasing
<1> QED BY <1>1, <1>7, <1>8, <1>6, <1>10 DEF FlashInv, Contents, Underway

LEMMA WriteNextInv ==
  ASSUME FlashInv, WriteNext
  PROVE  FlashInv'
<1>1. /\ FlashAssumption /\ op # Idle /\ cycles = <<>> /\ stage = <<>> /\ op.kind = "write"
      /\ mem \in [Addresses -> Words] /\ offset \in Addresses
      /\ UNCHANGED <<mem, stage, offset>> /\ op \in Operations
      /\ op.at + Len(op.words) <= Size /\ op.next < Len(op.words)
      /\ op.at = offset /\ mem = Written(op, op.next)
  BY DEF FlashInv, Contents, Underway, WriteNext, Idle, Writing
<1>2. /\ op' = [op EXCEPT !.next = @ + 1]
      /\ cycles' = WriteWord(offset + op.next, op.words[op.next + 1])
  BY DEF WriteNext
<1>3. /\ op.kind = "write" /\ op.at \in Addresses
      /\ op.words \in Seq(Words) /\ op.next \in Nat /\ op.before \in [Addresses -> Words]
  BY <1>1 DEF Operations
<1>4. /\ op'.kind = "write" /\ op'.at = op.at /\ op'.words = op.words
      /\ op'.next = op.next + 1 /\ op'.before = op.before /\ op' # Idle
      /\ op' \in Operations
  BY <1>1, <1>2, <1>3 DEF Idle, Operations
<1>5. Len(op.words) \in Nat /\ op.at \in Nat /\ offset \in Nat
  BY <1>1, <1>3, LenProperties DEF Addresses, FlashAssumption
<1>6. op'.at + Len(op'.words) <= Size /\ op'.next <= Len(op'.words)
  BY <1>1, <1>3, <1>4, <1>5
<1>7. op'.at + op'.next - 1 = offset + op.next
  BY <1>1, <1>3, <1>4, <1>5
<1>8. Making' = cycles'
  BY <1>2, <1>4, <1>7 DEF Making, Opening, Closing, WriteWord
<1>9. Making' \in Seq(Cycles) /\ Len(Making') = 4
  <2>1. "A0" \in Codes /\ Size \in Nat
    BY <1>1 DEF Codes, FlashAssumption
  <2>2. Opening' \in Seq(Cycles) /\ Len(Opening') = 3
    BY <1>4, <2>1, CommandCycles DEF Opening
  <2>3. op.next + 1 \in 1 .. Len(op.words)
    BY <1>1, <1>3, <1>5
  <2>4. op.words[op.next + 1] \in Words
    BY <1>3, <2>3, ElementOfSeq
  <2>5. offset + op.next \in 0 .. Size + 1
    BY <1>1, <1>3, <1>5, <2>1
  <2>6. Closing' = <<offset + op.next, op.words[op.next + 1]>>
    BY <1>4, <1>7 DEF Closing
  <2>7. Closing' \in Cycles
    BY <2>4, <2>5, <2>6 DEF Cycles
  <2>8. <<Closing'>> \in Seq(Cycles) /\ Len(<<Closing'>>) = 1
    BY <2>7
  <2>9. /\ Opening' \o <<Closing'>> \in Seq(Cycles)
        /\ Len(Opening' \o <<Closing'>>) = Len(Opening') + Len(<<Closing'>>)
    BY <2>2, <2>8, ConcatProperties
  <2> QED BY <2>2, <2>8, <2>9 DEF Making
<1>10. cycles' # <<>>
  BY <1>8, <1>9
<1>11. Underway'
  <2>1. 0 \in 0 .. Len(Making') - 1
    BY <1>9
  <2>2. SubSeq(Making', 1, 0) = <<>> /\ SubSeq(Making', 0 + 1, Len(Making')) = Making'
    BY <1>9, SubSeqEmpty, SubSeqFull
  <2> QED BY <1>1, <1>4, <1>8, <1>10, <2>1, <2>2 DEF Underway
<1>12. Writing' /\ Erasing'
  <2>1. op'.next > 0 /\ op'.next - 1 = op.next
    BY <1>3, <1>4
  <2>2. Written(op, op.next - 1)' = Written(op, op.next)
    BY <1>4, <2>1 DEF Written
  <2> QED BY <1>1, <1>4, <1>10, <2>1, <2>2 DEF Writing, Erasing
<1> QED BY <1>1, <1>4, <1>6, <1>10, <1>11, <1>12 DEF FlashInv, Contents

LEMMA FinishInv ==
  ASSUME FlashInv, Finish
  PROVE  FlashInv'
<1>1. /\ FlashAssumption /\ op # Idle /\ cycles = <<>> /\ stage = <<>>
      /\ mem \in [Addresses -> Words] /\ offset \in Addresses
      /\ UNCHANGED <<mem, stage, cycles>> /\ op \in Operations
      /\ op.at + Len(op.words) <= Size
      /\ op.kind = "write" => op.at = offset
      /\ op' = Idle
      /\ offset' = IF op.kind = "write" THEN Advanced(Len(op.words)) ELSE offset
  BY DEF FlashInv, Contents, Underway, Finish, Made, Writing
<1>2. Len(op.words) \in Nat
  BY <1>1, LenProperties DEF Operations
<1>3. offset' \in Addresses
  <2>1. CASE op.kind = "write"
    <3>1. offset + Len(op.words) <= Size
      BY <1>1, <2>1
    <3>2. Advanced(Len(op.words)) \in Addresses
      BY <1>1, <1>2, <3>1, PositionInside
    <3> QED BY <1>1, <2>1, <3>2
  <2>2. CASE op.kind # "write"
    BY <1>1, <2>2
  <2> QED BY <2>1, <2>2
<1> QED BY <1>1, <1>3 DEF FlashInv, Contents, Underway

(* Seeking and reading move the position and nothing else.                 *)
LEMMA MoveInv ==
  ASSUME FlashInv, NEW n \in Nat, SetPosition(n) \/ Read(n)
  PROVE  FlashInv'
<1>1. /\ FlashAssumption /\ op = Idle /\ cycles = <<>> /\ stage = <<>>
      /\ mem \in [Addresses -> Words] /\ offset \in Addresses
      /\ UNCHANGED <<mem, stage, op, cycles>>
  BY DEF FlashInv, Contents, Underway, SetPosition, Read
<1>2. offset' \in Addresses
  <2>1. CASE SetPosition(n)
    BY <1>1, <2>1 DEF SetPosition, FlashAssumption, Addresses
  <2>2. CASE Read(n)
    <3>1. Clamped(n) \in Nat /\ offset + Clamped(n) <= Size
      BY <1>1, PositionInside
    <3> QED BY <1>1, <2>2, <3>1, PositionInside DEF Read
  <2> QED BY <2>1, <2>2
<1> QED BY <1>1, <1>2 DEF FlashInv, Contents, Underway


LEMMA FlashInvStutter == FlashInv /\ UNCHANGED vars => FlashInv'
BY DEF FlashInv, Contents, Underway, Writing, Erasing, Written, Promised, Making,
       Opening, Closing, vars

LEMMA BusyInv ==
  ASSUME FlashInv, Busy
  PROVE  FlashInv'
BY BusCycleInv, WriteNextInv, FinishInv DEF Busy

LEMMA FlashInvInit == FlashAssumption /\ Init => FlashInv
<1> SUFFICES ASSUME FlashAssumption, Init PROVE FlashInv
  OBVIOUS
<1>1. 0 \in Addresses
  BY DEF FlashAssumption, Addresses
<1> QED BY <1>1 DEF Init, FlashInv, Contents, Underway

LEMMA FlashInvAlways == FlashAssumption /\ Spec => []FlashInv
<1>1. FlashInv /\ [Next]_vars => FlashInv'
  <2> SUFFICES ASSUME FlashInv, [Next]_vars PROVE FlashInv'
    OBVIOUS
  <2>1. Addresses \subseteq Nat
    BY DEF Addresses, FlashInv, FlashAssumption
  <2>2. ASSUME NEW p \in Addresses, SetPosition(p) \/ SetSectorErase(p) \/ SetBlockErase(p)
        PROVE  FlashInv'
    <3>1. p \in Nat
      BY <2>1
    <3> QED BY <2>2, <3>1, StartInv, MoveInv
  <2>3. ASSUME NEW n \in 1..MaxLength, Read(n)
        PROVE  FlashInv'
    <3>1. n \in Nat
      BY DEF FlashInv, FlashAssumption
    <3> QED BY <2>3, <3>1, MoveInv
  <2>4. ASSUME NEW n \in 1..MaxLength, NEW words \in [1..n -> Words], Write(words)
        PROVE  FlashInv'
    <3>1. n \in Nat
      BY DEF FlashInv, FlashAssumption
    <3>2. words \in Seq(Words)
      BY <3>1
    <3> QED BY <2>4, <3>2, WriteInv
  <2> QED BY <2>2, <2>3, <2>4, BusyInv, FlashInvStutter DEF Next
<1> QED BY FlashInvInit, <1>1, PTL DEF Spec

LEMMA InvKeepsPromise == FlashInv => PromiseKept
<1> SUFFICES ASSUME FlashInv, Made PROVE mem = Promised(op)
  BY DEF PromiseKept, FlashInv, Contents
<1>1. /\ op \in Operations /\ op # Idle /\ cycles = <<>> /\ op.next = Len(op.words)
      /\ op.kind \in {"sector", "block", "write"}
  BY DEF FlashInv, Contents, Made, Operations
<1>2. CASE op.kind = "write"
  <2>1. mem = Written(op, Len(op.words))
    BY <1>1, <1>2 DEF FlashInv, Contents, Writing
  <2>2. Promised(op) = Written(op, Len(op.words))
    BY <1>2 DEF Promised, Written
  <2> QED BY <2>1, <2>2
<1>3. CASE op.kind # "write"
  BY <1>1, <1>3 DEF FlashInv, Contents, Erasing
<1> QED BY <1>2, <1>3

(* Whatever the geometry of the chip, every operation has its whole effect *)
(* and no other, and the position stays inside the chip.                   *)
THEOREM PromisesKept == FlashAssumption /\ Spec => []PromiseKept
BY FlashInvAlways, InvKeepsPromise, PTL

LEMMA InvTypes == FlashInv => TypeOK
<1> SUFFICES ASSUME FlashInv, op # Idle
             PROVE  /\ op.at \in Addresses /\ op.words \in Seq(Words)
                    /\ op.at + Len(op.words) <= Size /\ op.next \in 0 .. Len(op.words)
  BY DEF TypeOK, FlashInv, Contents
<1>1. op \in Operations /\ op.at + Len(op.words) <= Size /\ op.next <= Len(op.words)
  BY DEF FlashInv, Contents
<1>2. op.words \in Seq(Words) /\ op.at \in Addresses /\ op.next \in Nat
  BY <1>1 DEF Operations
<1>3. Len(op.words) \in Nat
  BY <1>2, LenProperties
<1> QED BY <1>1, <1>2, <1>3

(* The driver keeps its types: no operation reaches outside the chip.      *)
THEOREM TypeCorrect == FlashAssumption /\ Spec => []TypeOK
BY FlashInvAlways, InvTypes, PTL


-----------------------------------------------------------------------------
(* The test.  What it writes and reads is inside the chip and its sector.  *)
LEMMA TestedWords ==
  ASSUME FlashAssumption, EmcAssumption
  PROVE  /\ TestOffset \in Nat /\ TestLength \in Nat \ {0} /\ TestOffset \in Addresses
         /\ TestLength <= Sector /\ TestOffset + TestLength < Size
         /\ \A k \in 1..TestLength : TestOffset + k - 1 \in Addresses
         /\ Pattern \in Seq(Words) /\ Len(Pattern) = TestLength
<1>1. /\ Size \in Nat \ {0} /\ Sector \in Nat \ {0} /\ Block \in Nat \ {0}
  BY DEF FlashAssumption
<1>2. /\ TestOffset \in Nat /\ TestLength \in 1..Sector /\ TestOffset + TestLength < Size
      /\ Pattern \in [1..TestLength -> Words]
  BY DEF EmcAssumption
<1>3. TestLength \in Nat \ {0} /\ TestLength <= Sector
  BY <1>1, <1>2
<1>4. Pattern \in Seq(Words) /\ Len(Pattern) = TestLength
  BY <1>2, <1>3
<1> QED BY <1>1, <1>2, <1>3, <1>4 DEF Addresses

(* A sector is no longer than a block.                                     *)
LEMMA SectorInBlock == FlashAssumption => Sector <= Block
<1> SUFFICES ASSUME FlashAssumption PROVE Sector <= Block
  OBVIOUS
<1>1. Sector \in Nat \ {0} /\ Block \in Nat \ {0} /\ Block % Sector = 0
  BY DEF FlashAssumption
<1>2. SUFFICES ASSUME Block < Sector PROVE FALSE
  BY <1>1
<1>3. Block % Sector = Block
  <2>1. (Sector * 0 + Block) % Sector = Block
    BY <1>1, <1>2, ModUnique
  <2> QED BY <1>1, <2>1
<1> QED BY <1>1, <1>3

(* The steps of the driver while the test waits for it.                    *)
LEMMA DriverKeeps ==
  ASSUME FlashInv, ClientInv, Busy, UNCHANGED client
  PROVE  ClientInv'
<1>1. /\ UNCHANGED <<pc, region, led>> /\ op # Idle
  BY DEF client, Busy, WriteNext, BusCycle, Finish, Made, FlashInv, Contents, Idle
<1>2. pc \in {"seek", "written"} /\ FlashAssumption /\ EmcAssumption
  BY <1>1 DEF ClientInv, FlashInv
<1>3. CASE Finish
  <2>1. op' = Idle /\ mem' = mem /\ mem = Promised(op)
    BY <1>3, InvKeepsPromise DEF FlashInv, PromiseKept, Finish
  <2>2. /\ op.kind \in {"sector", "block", "write"} /\ op.words \in Seq(Words)
        /\ offset' = IF op.kind = "write" THEN Advanced(Len(op.words)) ELSE offset
        /\ op.kind = "write" => op.at = offset
    BY <1>1, <1>3 DEF FlashInv, Contents, Operations, Finish, Writing
  <2>3. CASE pc = "seek"
    <3>1. op.kind = region /\ op.at = TestOffset /\ region \in {"sector", "block"}
      BY <1>1, <2>3 DEF ClientInv
    <3>2. ASSUME NEW k \in 1..TestLength PROVE mem[TestOffset + k - 1] = {}
      <4>1. /\ TestOffset + k - 1 \in Addresses /\ k \in Nat /\ TestOffset \in Nat
            /\ TestLength <= Sector /\ Sector <= Block /\ TestLength \in Nat
        BY <1>2, TestedWords, SectorInBlock
      <4>2. Sector \in Nat /\ Block \in Nat
        BY <1>2 DEF FlashAssumption
      <4>3. /\ TestOffset + k - 1 \in op.at .. op.at + Sector - 1
            /\ TestOffset + k - 1 \in op.at .. op.at + Block - 1
        BY <3>1, <4>1, <4>2
      <4> QED BY <2>1, <3>1, <4>1, <4>3 DEF Promised
    <3> QED BY <1>1, <2>1, <2>3, <3>2 DEF ClientInv, Blank
  <2>4. CASE pc = "written"
    <3>1. /\ op.kind = "write" /\ op.at = TestOffset /\ op.words = Pattern /\ Blank(op.before)
      BY <1>1, <2>4 DEF ClientInv
    <3>2. /\ TestLength \in Nat /\ TestOffset \in Nat /\ TestOffset + TestLength < Size
          /\ Len(Pattern) = TestLength /\ Size \in Nat
      BY <1>2, TestedWords DEF FlashAssumption
    <3>3. offset' = TestOffset + TestLength
      BY <2>2, <3>1, <3>2 DEF Advanced
    <3>4. ASSUME NEW k \in 1..TestLength PROVE mem[TestOffset + k - 1] = Pattern[k]
      <4>1. TestOffset + k - 1 \in Addresses
        BY <1>2, TestedWords
      <4> DEFINE a == TestOffset + k - 1
      <4>2. a \in op.at .. op.at + Len(op.words) - 1 /\ a - op.at + 1 = k /\ a \in Addresses
        <5>1. op.at = TestOffset /\ Len(op.words) = TestLength
          BY <3>1, <3>2
        <5>2. TestOffset \in Nat /\ TestLength \in Nat
          BY <3>2
        <5> QED BY <4>1, <5>1, <5>2
      <4> HIDE DEF a
      <4>3. Promised(op)[a] = op.before[a] \cup op.words[a - op.at + 1]
        BY <3>1, <4>2 DEF Promised
      <4>4. mem[a] = op.before[a] \cup Pattern[k]
        BY <2>1, <3>1, <4>2, <4>3
      <4> QED BY <3>1, <4>4 DEF Blank, a
    <3> QED BY <1>1, <2>1, <2>4, <3>3, <3>4 DEF ClientInv, Patterned
  <2> QED BY <1>2, <2>3, <2>4
<1>4. CASE BusCycle \/ WriteNext
  <2>1. op' # Idle /\ op'.kind = op.kind /\ op'.at = op.at /\ op'.words = op.words /\ op'.before = op.before
    <3>1. CASE BusCycle
      BY <1>1, <3>1 DEF BusCycle, Idle
    <3>2. CASE WriteNext
      <4>1. op \in Operations /\ op' = [op EXCEPT !.next = @ + 1]
        BY <1>1, <3>2 DEF FlashInv, Contents, WriteNext
      <4> QED BY <4>1 DEF Operations, Idle
    <3> QED BY <1>4, <3>1, <3>2
  <2> QED BY <1>1, <1>2, <2>1 DEF ClientInv, Blank
<1> QED BY <1>3, <1>4 DEF Busy

(* The steps of the test: the driver begins what it asks for.              *)
LEMMA TestKeeps ==
  ASSUME FlashInv, ClientInv, Test
  PROVE  FlashInv' /\ ClientInv'
<1>1. FlashAssumption /\ EmcAssumption /\ Pattern \in Seq(Words) /\ Len(Pattern) = TestLength
      /\ TestOffset \in Nat /\ TestLength \in Nat \ {0} /\ TestOffset + TestLength < Size /\ Size \in Nat
  BY TestedWords DEF FlashInv, ClientInv, FlashAssumption
<1>2. CASE TestErase
  <2>1. FlashInv'
    BY <1>1, <1>2, StartInv DEF TestErase
  <2>2. op' # Idle /\ op'.kind = region /\ op'.at = TestOffset /\ region \in {"sector", "block"}
    BY <1>2 DEF TestErase, SetSectorErase, SetBlockErase, Start, ClientInv, Idle
  <2> QED BY <1>2, <2>1, <2>2 DEF TestErase, Goto, ClientInv
<1>3. CASE TestSeek
  <2>1. FlashInv'
    BY <1>1, <1>3, MoveInv DEF TestSeek
  <2>2. op = Idle /\ op' = Idle /\ mem' = mem /\ offset' = TestOffset
    BY <1>3 DEF TestSeek, SetPosition
  <2>3. CASE pc = "seek"
    BY <1>3, <2>1, <2>2, <2>3 DEF TestSeek, Goto, ClientInv, Blank
  <2>4. CASE pc = "rewind"
    BY <1>3, <2>1, <2>2, <2>4 DEF TestSeek, Goto, ClientInv, Patterned
  <2> QED BY <1>3, <2>3, <2>4 DEF TestSeek
<1>4. CASE TestWrite
  <2>1. FlashInv'
    BY <1>1, <1>4, WriteInv DEF TestWrite
  <2>2. Blank(mem) /\ offset = TestOffset
    BY <1>4 DEF TestWrite, ClientInv
  <2>3. Clamped(Len(Pattern)) = Len(Pattern)
    BY <1>1, <2>2 DEF Clamped
  <2>4. SubSeq(Pattern, 1, Clamped(Len(Pattern))) = Pattern
    BY <1>1, <2>3, SubSeqFull
  <2>5. op' = [kind |-> "write", at |-> TestOffset, words |-> Pattern, next |-> 0, before |-> mem]
    BY <1>4, <2>2, <2>4 DEF TestWrite, Write, Start
  <2>6. /\ op' # Idle /\ op'.kind = "write" /\ op'.at = TestOffset /\ op'.words = Pattern
        /\ op'.before = mem
    BY <2>5 DEF Idle
  <2> QED BY <1>4, <2>1, <2>2, <2>6 DEF TestWrite, Goto, ClientInv
<1>5. CASE TestRead
  <2>1. FlashInv'
    BY <1>1, <1>5, MoveInv DEF TestRead
  <2>2. offset = TestOffset /\ Patterned /\ op' = Idle /\ mem' = mem
    BY <1>5 DEF TestRead, ClientInv, Read
  <2>3. Clamped(TestLength) = TestLength /\ Advanced(TestLength) = TestOffset + TestLength
    BY <1>1, <2>2 DEF Clamped, Advanced
  <2>4. offset' = TestOffset + TestLength
    BY <1>5, <2>3 DEF TestRead, Read
  <2> QED BY <1>5, <2>1, <2>2, <2>4 DEF TestRead, Goto, ClientInv, Patterned
<1>6. CASE TestWritten
  <2>1. offset = TestOffset + TestLength /\ Patterned
    BY <1>6 DEF TestWritten, ClientInv
  <2>2. UNCHANGED vars /\ Goto("rewind")
    BY <1>6, <2>1 DEF TestWritten
  <2>3. FlashInv'
    BY <2>2, FlashInvStutter
  <2> QED BY <1>6, <2>1, <2>2, <2>3 DEF TestWritten, Goto, vars, ClientInv, Patterned
<1>7. CASE TestCompare
  <2>1. offset = TestOffset + TestLength /\ Patterned /\ op = Idle
    BY <1>7 DEF TestCompare, ClientInv
  <2>2. TestEnds(TRUE)
    BY <1>7, <2>1 DEF TestCompare, TestEnds, Patterned
  <2>3. FlashInv'
    BY <2>2, FlashInvStutter DEF TestEnds
  <2> QED BY <2>1, <2>2, <2>3 DEF TestEnds, vars, ClientInv
<1> QED BY <1>2, <1>3, <1>4, <1>5, <1>6, <1>7 DEF Test

LEMMA TestInvAlways ==
  FlashAssumption /\ EmcAssumption /\ TestSpec => [](FlashInv /\ ClientInv)
<1>1. FlashAssumption /\ EmcAssumption /\ TestInit => FlashInv /\ ClientInv
  BY FlashInvInit DEF TestInit, Init, ClientInv
<1>2. FlashInv /\ ClientInv /\ [Test \/ Driver]_<<vars, client>> => (FlashInv /\ ClientInv)'
  <2> SUFFICES ASSUME FlashInv, ClientInv, [Test \/ Driver]_<<vars, client>>
               PROVE  FlashInv' /\ ClientInv'
    OBVIOUS
  <2>1. CASE UNCHANGED <<vars, client>>
    <3>1. FlashInv'
      BY <2>1, FlashInvStutter
    <3>2. ClientInv'
      BY <2>1 DEF vars, client, ClientInv, Blank, Patterned
    <3> QED BY <3>1, <3>2
  <2> QED BY <2>1, TestKeeps, DriverKeeps, BusyInv DEF Driver
<1> QED BY <1>1, <1>2, PTL DEF TestSpec

(* A good chip passes the test whatever it held before, for every geometry *)
(* and every pattern that fits in a sector.                                *)
THEOREM TestPasses == FlashAssumption /\ EmcAssumption /\ TestSpec => []GoodChipPasses
<1>1. ClientInv => GoodChipPasses
  BY DEF ClientInv, GoodChipPasses
<1> QED BY TestInvAlways, <1>1, PTL

(* The driver keeps its types in the test too.                             *)
THEOREM TestTypes == FlashAssumption /\ EmcAssumption /\ TestSpec => []TypeOK
BY TestInvAlways, InvTypes, PTL
=============================================================================
