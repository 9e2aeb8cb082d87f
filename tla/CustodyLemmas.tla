--------------------------- MODULE CustodyLemmas ----------------------------
(* How the queue operations move an element: the facts that every proof    *)
(* about the ownership of requests rests on.                               *)
EXTENDS Custody, Integers, SequenceTheorems, FiniteSetTheorems, TLAPS

(* An empty sequence holds nothing.                                        *)
LEMMA EmptyCustody == InSeq(<<>>) = {} /\ NoRepeat(<<>>)
BY DEF InSeq, NoRepeat

(* Pushing adds exactly the pushed element, and no repetition if it was    *)
(* not there.                                                              *)
LEMMA AppendCustody ==
  ASSUME NEW S, NEW s \in Seq(S), NEW e \in S
  PROVE  /\ Append(s, e) \in Seq(S)
         /\ InSeq(Append(s, e)) = InSeq(s) \cup {e}
         /\ NoRepeat(s) /\ e \notin InSeq(s) => NoRepeat(Append(s, e))
<1> DEFINE t == Append(s, e)
<1>1. t \in Seq(S) /\ Len(s) \in Nat /\ Len(t) = Len(s) + 1
  BY AppendProperties, LenProperties
<1>2. /\ \A i \in 1..Len(s) : t[i] = s[i]
      /\ t[Len(s) + 1] = e
  BY AppendProperties
<1> HIDE DEF t
<1>3. InSeq(t) = InSeq(s) \cup {e}
  <2>1. InSeq(t) \subseteq InSeq(s) \cup {e}
    BY <1>1, <1>2 DEF InSeq
  <2>2. InSeq(s) \subseteq InSeq(t)
    BY <1>1, <1>2 DEF InSeq
  <2>3. e \in InSeq(t)
    <3>1. Len(s) + 1 \in 1..Len(t)
      BY <1>1
    <3>2. QED BY <3>1, <1>2 DEF InSeq
  <2>4. QED BY <2>1, <2>2, <2>3
<1>4. ASSUME NoRepeat(s), e \notin InSeq(s) PROVE NoRepeat(t)
  <2> SUFFICES ASSUME NEW i \in 1..Len(t), NEW j \in 1..Len(t), t[i] = t[j]
               PROVE  i = j
    BY DEF NoRepeat
  <2>1. CASE i \in 1..Len(s) /\ j \in 1..Len(s)
    BY <1>2, <1>4, <2>1 DEF NoRepeat
  <2>2. CASE i = Len(s) + 1 /\ j = Len(s) + 1
    BY <2>2
  <2>3. CASE i \in 1..Len(s) /\ j = Len(s) + 1
    BY <1>2, <1>4, <2>3 DEF InSeq
  <2>4. CASE i = Len(s) + 1 /\ j \in 1..Len(s)
    BY <1>2, <1>4, <2>4 DEF InSeq
  <2>5. QED BY <1>1, <2>1, <2>2, <2>3, <2>4
<1>5. QED BY <1>1, <1>3, <1>4 DEF t

(* Popping removes exactly the head, when nothing is there twice.          *)
LEMMA TailCustody ==
  ASSUME NEW S, NEW s \in Seq(S), s # <<>>
  PROVE  /\ Tail(s) \in Seq(S)
         /\ Head(s) \in S
         /\ Head(s) \in InSeq(s)
         /\ NoRepeat(s) => /\ InSeq(Tail(s)) = InSeq(s) \ {Head(s)}
                           /\ NoRepeat(Tail(s))
<1> DEFINE t == Tail(s)
           h == Head(s)
<1>1. /\ t \in Seq(S) /\ h \in S
      /\ Len(s) \in Nat \ {0}
      /\ Len(t) = Len(s) - 1
      /\ \A i \in 1..Len(t) : t[i] = s[i + 1]
  BY HeadTailProperties, EmptySeq
<1>2. h = s[1]
  OBVIOUS
<1> HIDE DEF t, h
<1>3. h \in InSeq(s)
  BY <1>1, <1>2 DEF InSeq
<1>4. ASSUME NoRepeat(s) PROVE InSeq(t) = InSeq(s) \ {h}
  <2>1. ASSUME NEW x \in InSeq(t) PROVE x \in InSeq(s) \ {h}
    <3>1. PICK i \in 1..Len(t) : x = t[i]
      BY DEF InSeq
    <3>2. i + 1 \in 1..Len(s) /\ 1 \in 1..Len(s) /\ i + 1 # 1 /\ x = s[i + 1]
      BY <1>1, <3>1
    <3>3. x # s[1]
      BY <1>4, <3>2 DEF NoRepeat
    <3>4. QED BY <1>2, <3>2, <3>3 DEF InSeq
  <2>2. ASSUME NEW x \in InSeq(s) \ {h} PROVE x \in InSeq(t)
    <3>1. PICK i \in 1..Len(s) : x = s[i]
      BY DEF InSeq
    <3>2. i # 1
      BY <1>2, <2>2, <3>1
    <3>3. i - 1 \in 1..Len(t) /\ t[i - 1] = s[(i - 1) + 1] /\ (i - 1) + 1 = i
      BY <1>1, <3>1, <3>2
    <3>4. QED BY <3>1, <3>3 DEF InSeq
  <2>3. QED BY <2>1, <2>2
<1>5. ASSUME NoRepeat(s) PROVE NoRepeat(t)
  <2> SUFFICES ASSUME NEW i \in 1..Len(t), NEW j \in 1..Len(t), t[i] = t[j]
               PROVE  i = j
    BY DEF NoRepeat
  <2>1. /\ i + 1 \in 1..Len(s) /\ j + 1 \in 1..Len(s)
        /\ s[i + 1] = s[j + 1]
    BY <1>1
  <2>2. i + 1 = j + 1
    BY <1>5, <2>1 DEF NoRepeat
  <2>3. QED BY <2>2
<1>6. QED BY <1>1, <1>3, <1>4, <1>5 DEF t, h

(* A sequence without repetitions over 0..n-1 that misses an element is    *)
(* shorter than n.                                                         *)
LEMMA RoomForOneMore ==
  ASSUME NEW n \in Nat, NEW s \in Seq(0 .. n - 1), NoRepeat(s),
         NEW e \in 0 .. n - 1, e \notin InSeq(s)
  PROVE  Len(s) < n
<1> DEFINE t == Append(s, e)
           D == 0 .. n - 1
<1>1. /\ t \in Seq(D) /\ NoRepeat(t)
  BY AppendCustody
<1>2. Len(t) = Len(s) + 1 /\ Len(s) \in Nat
  BY AppendProperties, LenProperties
<1> HIDE DEF t
<1>3. t \in Injection(1..Len(t), D)
  <2>1. t \in [1..Len(t) -> D]
    BY <1>1, LenProperties
  <2>2. QED BY <1>1, <2>1 DEF Injection, IsInjective, NoRepeat
<1>4. IsFiniteSet(D) /\ Cardinality(D) = n
  <2>1. IsFiniteSet(0 .. n - 1) /\ Cardinality(0 .. n - 1) = IF 0 > n - 1 THEN 0 ELSE (n - 1) - 0 + 1
    BY FS_Interval
  <2>2. QED BY <2>1
<1>5. Cardinality(1..Len(t)) = Len(t)
  <2>1. Cardinality(1..Len(t)) = IF 1 > Len(t) THEN 0 ELSE Len(t) - 1 + 1
    BY <1>2, FS_Interval
  <2>2. QED BY <1>2, <2>1
<1>6. Cardinality(1..Len(t)) <= Cardinality(D)
  BY <1>3, <1>4, FS_Injection
<1>7. QED BY <1>2, <1>4, <1>5, <1>6

(* Concatenation: what it holds, and how the operations at its two ends    *)
(* reduce to operations on its parts.                                      *)
LEMMA ConcatCustody ==
  ASSUME NEW S, NEW s \in Seq(S), NEW t \in Seq(S)
  PROVE  InSeq(s \o t) = InSeq(s) \cup InSeq(t)
<1> DEFINE c == s \o t
<1>1. /\ Len(s) \in Nat /\ Len(t) \in Nat /\ Len(c) = Len(s) + Len(t)
      /\ \A i \in 1 .. Len(s) + Len(t) :
           c[i] = IF i <= Len(s) THEN s[i] ELSE t[i - Len(s)]
  BY ConcatProperties, LenProperties
<1> HIDE DEF c
<1>2. InSeq(c) \subseteq InSeq(s) \cup InSeq(t)
  <2> SUFFICES ASSUME NEW i \in 1..Len(c) PROVE c[i] \in InSeq(s) \cup InSeq(t)
    BY DEF InSeq
  <2>1. CASE i <= Len(s)
    BY <1>1, <2>1 DEF InSeq
  <2>2. CASE i > Len(s)
    <3>1. i - Len(s) \in 1..Len(t) /\ c[i] = t[i - Len(s)]
      BY <1>1, <2>2
    <3>2. QED BY <3>1 DEF InSeq
  <2>3. QED BY <1>1, <2>1, <2>2
<1>3. InSeq(s) \subseteq InSeq(c)
  BY <1>1 DEF InSeq
<1>4. InSeq(t) \subseteq InSeq(c)
  <2> SUFFICES ASSUME NEW i \in 1..Len(t) PROVE t[i] \in InSeq(c)
    BY DEF InSeq
  <2>1. Len(s) + i \in 1..Len(c) /\ c[Len(s) + i] = t[i]
    BY <1>1
  <2>2. QED BY <2>1 DEF InSeq
<1>5. QED BY <1>2, <1>3, <1>4 DEF c

LEMMA ConcatAppend ==
  ASSUME NEW S, NEW s \in Seq(S), NEW t \in Seq(S), NEW e \in S
  PROVE  s \o Append(t, e) = Append(s \o t, e)
<1>1. <<e>> \in Seq(S) /\ s \o t \in Seq(S)
  BY ConcatProperties
<1>2. s \o (t \o <<e>>) = (s \o t) \o <<e>>
  BY <1>1, ConcatAssociative
<1>3. QED BY <1>1, <1>2, AppendIsConcat

LEMMA HeadTailConcat ==
  ASSUME NEW S, NEW s \in Seq(S), s # <<>>
  PROVE  <<Head(s)>> \o Tail(s) = s
<1> DEFINE h == <<Head(s)>>
           c == h \o Tail(s)
<1>1. /\ Head(s) \in S /\ Tail(s) \in Seq(S) /\ Len(Tail(s)) = Len(s) - 1
      /\ \A i \in 1 .. Len(Tail(s)) : Tail(s)[i] = s[i + 1]
      /\ Len(s) \in Nat \ {0}
  BY HeadTailProperties, EmptySeq
<1>2. h \in Seq(S) /\ Len(h) = 1 /\ h[1] = s[1]
  BY <1>1
<1> HIDE DEF h
<1>3. /\ c \in Seq(S) /\ Len(c) = Len(s)
      /\ \A i \in 1 .. Len(s) : c[i] = IF i <= 1 THEN h[i] ELSE Tail(s)[i - 1]
  <2>1. /\ c \in Seq(S) /\ Len(c) = Len(h) + Len(Tail(s))
        /\ \A i \in 1 .. Len(h) + Len(Tail(s)) :
             c[i] = IF i <= Len(h) THEN h[i] ELSE Tail(s)[i - Len(h)]
    BY <1>1, <1>2, ConcatProperties
  <2>2. QED BY <1>1, <1>2, <2>1
<1> HIDE DEF c
<1>4. ASSUME NEW i \in 1 .. Len(s) PROVE c[i] = s[i]
  <2>1. CASE i = 1
    BY <1>2, <1>3, <2>1
  <2>2. CASE i # 1
    BY <1>1, <1>3, <2>2
  <2>3. QED BY <2>1, <2>2
<1>5. c = s
  BY <1>3, <1>4, SeqEqual
<1>6. QED BY <1>5 DEF c, h

LEMMA HeadConcat ==
  ASSUME NEW S, NEW s \in Seq(S), NEW t \in Seq(S), s # <<>>
  PROVE  Head(s \o t) = Head(s)
<1> DEFINE c == s \o t
<1>1. Len(s) \in Nat \ {0}
  BY EmptySeq, LenProperties
<1>2. c \in Seq(S) /\ Len(c) > 0 /\ c[1] = s[1]
  BY <1>1, ConcatProperties, LenProperties
<1> HIDE DEF c
<1>3. Head(c) = c[1] /\ Head(s) = s[1]
  BY <1>1, <1>2
<1> QED BY <1>2, <1>3 DEF c

LEMMA TailConcat ==
  ASSUME NEW S, NEW s \in Seq(S), NEW t \in Seq(S), s # <<>>
  PROVE  s \o t # <<>> /\ Tail(s \o t) = Tail(s) \o t
<1> DEFINE c == s \o t
           d == Tail(s) \o t
<1>1. /\ Tail(s) \in Seq(S) /\ Len(Tail(s)) = Len(s) - 1
      /\ \A i \in 1 .. Len(Tail(s)) : Tail(s)[i] = s[i + 1]
      /\ Len(s) \in Nat \ {0} /\ Len(t) \in Nat
  BY HeadTailProperties, EmptySeq, LenProperties
<1>2. /\ c \in Seq(S) /\ Len(c) = Len(s) + Len(t)
      /\ \A i \in 1 .. Len(s) + Len(t) :
           c[i] = IF i <= Len(s) THEN s[i] ELSE t[i - Len(s)]
  BY ConcatProperties
<1>3. /\ d \in Seq(S) /\ Len(d) = Len(Tail(s)) + Len(t)
      /\ \A i \in 1 .. Len(Tail(s)) + Len(t) :
           d[i] = IF i <= Len(Tail(s)) THEN Tail(s)[i] ELSE t[i - Len(Tail(s))]
  BY <1>1, ConcatProperties
<1> HIDE DEF c, d
<1>4. c # <<>>
  BY <1>1, <1>2
<1>5. /\ Tail(c) \in Seq(S) /\ Len(Tail(c)) = Len(c) - 1
      /\ \A i \in 1 .. Len(Tail(c)) : Tail(c)[i] = c[i + 1]
  BY <1>2, <1>4, HeadTailProperties
<1>6. Len(Tail(c)) = Len(d)
  BY <1>1, <1>2, <1>3, <1>5
<1>7. ASSUME NEW i \in 1 .. Len(Tail(c)) PROVE Tail(c)[i] = d[i]
  <2>1. CASE i <= Len(s) - 1
    BY <1>1, <1>2, <1>3, <1>5, <2>1
  <2>2. CASE i > Len(s) - 1
    <3>1. Tail(c)[i] = t[(i + 1) - Len(s)]
      BY <1>1, <1>2, <1>5, <2>2
    <3>2. d[i] = t[i - (Len(s) - 1)]
      BY <1>1, <1>2, <1>3, <1>5, <2>2
    <3>3. (i + 1) - Len(s) = i - (Len(s) - 1)
      BY <1>1
    <3>4. QED BY <3>1, <3>2, <3>3
  <2>3. QED BY <1>1, <2>1, <2>2
<1>8. Tail(c) = d
  BY <1>3, <1>5, <1>6, <1>7, SeqEqual
<1>9. QED BY <1>4, <1>8 DEF c, d
-----------------------------------------------------------------------------
(* Concatenation of two places that share nothing repeats nothing.         *)
LEMMA ConcatNoRepeat ==
  ASSUME NEW S, NEW s \in Seq(S), NEW t \in Seq(S),
         NoRepeat(s), NoRepeat(t), InSeq(s) \cap InSeq(t) = {}
  PROVE  NoRepeat(s \o t)
<1> DEFINE c == s \o t
<1>1. /\ Len(s) \in Nat /\ Len(t) \in Nat /\ Len(c) = Len(s) + Len(t)
      /\ \A i \in 1 .. Len(s) + Len(t) :
           c[i] = IF i <= Len(s) THEN s[i] ELSE t[i - Len(s)]
  BY ConcatProperties, LenProperties
<1> HIDE DEF c
<1>2. ASSUME NEW i \in 1..Len(c), NEW j \in 1..Len(c), c[i] = c[j]
      PROVE  i = j
  <2>1. CASE i <= Len(s) /\ j <= Len(s)
    BY <1>1, <1>2, <2>1 DEF NoRepeat
  <2>2. CASE i > Len(s) /\ j > Len(s)
    <3>1. i - Len(s) \in 1..Len(t) /\ j - Len(s) \in 1..Len(t)
      BY <1>1, <2>2
    <3>2. t[i - Len(s)] = t[j - Len(s)]
      BY <1>1, <1>2, <2>2
    <3>3. i - Len(s) = j - Len(s)
      BY <3>1, <3>2 DEF NoRepeat
    <3> QED BY <1>1, <3>3
  <2>3. CASE i <= Len(s) /\ j > Len(s)
    <3>1. i \in 1..Len(s) /\ j - Len(s) \in 1..Len(t) /\ s[i] = t[j - Len(s)]
      BY <1>1, <1>2, <2>3
    <3> QED BY <3>1 DEF InSeq
  <2>4. CASE i > Len(s) /\ j <= Len(s)
    <3>1. j \in 1..Len(s) /\ i - Len(s) \in 1..Len(t) /\ s[j] = t[i - Len(s)]
      BY <1>1, <1>2, <2>4
    <3> QED BY <3>1 DEF InSeq
  <2> QED BY <1>1, <2>1, <2>2, <2>3, <2>4
<1> QED BY <1>2 DEF NoRepeat, c

(* Cutting a place in two: each element goes to one side.                  *)
LEMMA SplitCustody ==
  ASSUME NEW S, NEW s \in Seq(S), NEW n \in 0 .. Len(s)
  PROVE  LET t == SubSeq(s, 1, n)
             d == SubSeq(s, n + 1, Len(s))
         IN /\ t \in Seq(S) /\ d \in Seq(S)
            /\ Len(t) = n /\ Len(d) = Len(s) - n
            /\ InSeq(t) \cup InSeq(d) = InSeq(s)
            /\ NoRepeat(s) => /\ NoRepeat(t) /\ NoRepeat(d)
                              /\ InSeq(t) \cap InSeq(d) = {}
<1> DEFINE t == SubSeq(s, 1, n)
           d == SubSeq(s, n + 1, Len(s))
<1>1. Len(s) \in Nat /\ n \in Nat /\ n <= Len(s) /\ \A i \in 1..Len(s) : s[i] \in S
  BY LenProperties, ElementOfSeq
<1>2. t \in Seq(S) /\ Len(t) = n /\ \A i \in 1..n : t[i] = s[i]
  BY <1>1, SubSeqProperties
<1>3. d \in Seq(S) /\ Len(d) = Len(s) - n /\ \A i \in 1..Len(s) - n : d[i] = s[n + i]
  <2>1. /\ d \in Seq(S) /\ Len(d) = IF n + 1 <= Len(s) THEN Len(s) - (n + 1) + 1 ELSE 0
        /\ \A i \in 1..(Len(s) - (n + 1) + 1) : d[i] = s[(n + 1) + i - 1]
    BY <1>1, SubSeqProperties
  <2>2. Len(d) = Len(s) - n
    BY <1>1, <2>1
  <2>3. ASSUME NEW i \in 1..Len(s) - n PROVE d[i] = s[n + i]
    <3>1. i \in 1..(Len(s) - (n + 1) + 1) /\ (n + 1) + i - 1 = n + i
      BY <1>1
    <3> QED BY <2>1, <3>1
  <2> QED BY <2>1, <2>2, <2>3
<1> HIDE DEF t, d
<1>4. InSeq(t) \cup InSeq(d) = InSeq(s)
  <2>1. InSeq(t) \subseteq InSeq(s)
    BY <1>1, <1>2 DEF InSeq
  <2>2. ASSUME NEW x \in InSeq(d) PROVE x \in InSeq(s)
    <3>1. PICK i \in 1..Len(s) - n : x = s[n + i]
      BY <1>3 DEF InSeq
    <3>2. n + i \in 1..Len(s)
      BY <1>1
    <3> QED BY <3>1, <3>2 DEF InSeq
  <2>3. ASSUME NEW x \in InSeq(s) PROVE x \in InSeq(t) \cup InSeq(d)
    <3>1. PICK i \in 1..Len(s) : x = s[i]
      BY DEF InSeq
    <3>2. CASE i <= n
      BY <1>1, <1>2, <3>1, <3>2 DEF InSeq
    <3>3. CASE i > n
      <4>1. i - n \in 1..Len(s) - n /\ n + (i - n) = i
        BY <1>1, <3>3
      <4> QED BY <1>3, <3>1, <4>1 DEF InSeq
    <3> QED BY <1>1, <3>2, <3>3
  <2> QED BY <2>1, <2>2, <2>3
<1>5. ASSUME NoRepeat(s)
      PROVE  NoRepeat(t) /\ NoRepeat(d) /\ InSeq(t) \cap InSeq(d) = {}
  <2>1. NoRepeat(t)
    BY <1>1, <1>2, <1>5 DEF NoRepeat
  <2>2. NoRepeat(d)
    <3> SUFFICES ASSUME NEW i \in 1..Len(d), NEW j \in 1..Len(d), d[i] = d[j]
                 PROVE  i = j
      BY DEF NoRepeat
    <3>1. n + i \in 1..Len(s) /\ n + j \in 1..Len(s) /\ s[n + i] = s[n + j]
      BY <1>1, <1>3
    <3>2. n + i = n + j
      BY <1>5, <3>1 DEF NoRepeat
    <3> QED BY <1>1, <3>2
  <2>3. ASSUME NEW i \in 1..n, NEW j \in 1..Len(s) - n, t[i] = d[j] PROVE FALSE
    <3>1. i \in 1..Len(s) /\ n + j \in 1..Len(s) /\ s[i] = s[n + j] /\ i # n + j
      BY <1>1, <1>2, <1>3, <2>3
    <3> QED BY <1>5, <3>1 DEF NoRepeat
  <2> QED BY <1>2, <1>3, <2>1, <2>2, <2>3 DEF InSeq
<1> QED BY <1>2, <1>3, <1>4, <1>5 DEF t, d

(* The two sides of a cut are what was cut.                                *)
LEMMA SplitConcat ==
  ASSUME NEW S, NEW s \in Seq(S), NEW n \in 0 .. Len(s)
  PROVE  SubSeq(s, 1, n) \o SubSeq(s, n + 1, Len(s)) = s
<1>1. Len(s) \in Nat
  BY LenProperties
<1>2. SubSeq(s, 1, n) \o SubSeq(s, n + 1, Len(s)) = SubSeq(s, 1, Len(s))
  <2>1. 1 \in 1 .. Len(s) + 1 /\ n \in 1 - 1 .. Len(s) /\ Len(s) \in n .. Len(s)
    BY <1>1
  <2> QED BY <2>1, ConcatAdjacentSubSeq
<1>3. SubSeq(s, 1, Len(s)) = s
  BY SubSeqFull
<1> QED BY <1>2, <1>3

-----------------------------------------------------------------------------
(* Lines of what is numbered modulo m: s holds the numbers from g on, up   *)
(* to the one before e.                                                    *)
Ordered(s, m, g, e) ==
  /\ (g + Len(s)) % m = e
  /\ \A k \in 1 .. Len(s) : s[k] = (g + k - 1) % m

(* A remainder is the only one.                                            *)
LEMMA ModUnique ==
  ASSUME NEW m \in Nat \ {0}, NEW q \in Nat, NEW r \in 0 .. m - 1
  PROVE  (m * q + r) % m = r
<1> DEFINE a == m * q + r
           d == a \div m
           f == a % m
<1>1. a \in Nat /\ d \in Nat /\ f \in 0 .. m - 1 /\ a = m * d + f
  BY DEF a
<1>2. a = m * q + r
  OBVIOUS
<1> HIDE DEF a, d, f
<1>3. CASE q >= d + 1
  <2>1. m * q >= m * (d + 1) /\ m * (d + 1) = m * d + m
    BY <1>1, <1>3
  <2> QED BY <1>1, <1>2, <2>1
<1>4. CASE d >= q + 1
  <2>1. m * d >= m * (q + 1) /\ m * (q + 1) = m * q + m
    BY <1>1, <1>4
  <2> QED BY <1>1, <1>2, <2>1
<1>5. CASE d = q
  BY <1>1, <1>2, <1>5 DEF f, a
<1> QED BY <1>1, <1>3, <1>4, <1>5

(* Numbers may be reduced before one is added.                             *)
LEMMA ModSum ==
  ASSUME NEW m \in Nat \ {0}, NEW a \in Nat, NEW k \in Nat
  PROVE  ((a % m) + k) % m = (a + k) % m
<1> DEFINE d == a \div m
           f == a % m
           b == f + k
<1>1. d \in Nat /\ f \in 0 .. m - 1 /\ a = m * d + f
  OBVIOUS
<1> HIDE DEF d, f
<1>2. b \in Nat /\ b \div m \in Nat /\ b % m \in 0 .. m - 1
      /\ b = m * (b \div m) + (b % m)
  BY <1>1
<1> DEFINE n == b \div m
           r == b % m
<1>3. a + k = m * d + (m * n + r)
  BY <1>1, <1>2
<1>4. n \in Nat /\ r \in 0 .. m - 1
  BY <1>2
<1> HIDE DEF n, r
<1>5. m * d + (m * n + r) = m * (d + n) + r
  BY <1>1, <1>4
<1>6. (a + k) % m = r
  <2>1. d + n \in Nat
    BY <1>1, <1>4
  <2> QED BY <1>3, <1>4, <1>5, <2>1, ModUnique
<1> QED BY <1>6 DEF r, f

(* Nothing is a line of no numbers.                                        *)
LEMMA OrderedEmpty ==
  ASSUME NEW m \in Nat, m > 1
  PROVE  Ordered(<<>>, m, 0, 0)
<1>1. Len(<<>>) = 0 /\ (0 + 0) % m = 0
  OBVIOUS
<1> QED BY <1>1 DEF Ordered

(* The first one leaves.                                                   *)
LEMMA OrderedTail ==
  ASSUME NEW m \in Nat \ {0}, NEW s \in Seq(0 .. m - 1), NEW g \in 0 .. m - 1, NEW e \in 0 .. m - 1,
         s # <<>>, Ordered(s, m, g, e)
  PROVE  /\ Head(s) = g
         /\ Ordered(Tail(s), m, (Head(s) + 1) % m, e)
<1> DEFINE t == Tail(s)
           h == (Head(s) + 1) % m
<1>1. m \in Nat \ {0} /\ g \in 0 .. m - 1
  OBVIOUS
<1>2. /\ Len(s) \in Nat \ {0} /\ Len(t) = Len(s) - 1 /\ Head(s) = s[1]
      /\ \A k \in 1 .. Len(t) : t[k] = s[k + 1]
  BY HeadTailProperties, EmptySeq, LenProperties
<1>3. Head(s) = g
  <2>1. s[1] = (g + 1 - 1) % m
    BY <1>2 DEF Ordered
  <2> QED BY <1>1, <1>2, <2>1
<1>4. (h + Len(t)) % m = e
  <2>1. g + 1 \in Nat /\ Len(t) \in Nat /\ g + Len(s) = g + 1 + Len(t)
    BY <1>1, <1>2
  <2>2. (g + Len(s)) % m = e
    BY DEF Ordered
  <2>3. (((g + 1) % m) + Len(t)) % m = ((g + 1) + Len(t)) % m
    BY <1>1, <2>1, ModSum
  <2> QED BY <1>3, <2>1, <2>2, <2>3
<1>5. ASSUME NEW k \in 1 .. Len(t) PROVE t[k] = (h + k - 1) % m
  <2>1. t[k] = (g + 1 + (k - 1)) % m
    <3>1. k + 1 \in 1 .. Len(s) /\ g + (k + 1) - 1 = g + 1 + (k - 1)
      BY <1>1, <1>2
    <3> QED BY <1>2, <3>1 DEF Ordered
  <2>2. k - 1 \in Nat /\ h + k - 1 = h + (k - 1)
    BY <1>1, <1>2, <1>3
  <2>3. g + 1 \in Nat
    BY <1>1
  <2> QED BY <1>1, <1>3, <2>1, <2>2, <2>3, ModSum
<1> QED BY <1>3, <1>4, <1>5 DEF Ordered

(* One more comes.                                                         *)
LEMMA OrderedAppend ==
  ASSUME NEW m \in Nat \ {0}, NEW s \in Seq(0 .. m - 1), NEW g \in 0 .. m - 1, NEW e \in 0 .. m - 1,
         Ordered(s, m, g, e)
  PROVE  Ordered(Append(s, e), m, g, (e + 1) % m)
<1> DEFINE t == Append(s, e)
<1>1. m \in Nat \ {0} /\ g \in 0 .. m - 1 /\ e \in 0 .. m - 1
  OBVIOUS
<1>2. /\ Len(s) \in Nat /\ Len(t) = Len(s) + 1 /\ t[Len(s) + 1] = e
      /\ \A k \in 1 .. Len(s) : t[k] = s[k]
  BY AppendProperties, LenProperties
<1>3. e = (g + Len(s)) % m
  BY DEF Ordered
<1>4. (g + Len(t)) % m = (e + 1) % m
  <2>1. g + Len(s) \in Nat /\ g + Len(t) = (g + Len(s)) + 1
    BY <1>1, <1>2
  <2>2. (((g + Len(s)) % m) + 1) % m = ((g + Len(s)) + 1) % m
    BY <1>1, <2>1, ModSum
  <2> QED BY <1>3, <2>1, <2>2
<1>5. ASSUME NEW k \in 1 .. Len(t) PROVE t[k] = (g + k - 1) % m
  <2>1. CASE k \in 1 .. Len(s)
    BY <1>2, <2>1 DEF Ordered
  <2>2. CASE k = Len(s) + 1
    <3>1. g + k - 1 = g + Len(s)
      BY <1>1, <1>2, <2>2
    <3> QED BY <1>2, <1>3, <2>2, <3>1
  <2> QED BY <1>2, <2>1, <2>2
<1> QED BY <1>4, <1>5 DEF Ordered
=============================================================================
