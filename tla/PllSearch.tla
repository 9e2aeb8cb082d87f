------------------------------ MODULE PllSearch ------------------------------
(***************************************************************************)
(* findPllConfig() of lpc43xx_default/shared/board.c: the divisor and the  *)
(* multiplier that bring a PLL nearest to a target frequency.  Frequencies *)
(* are in kHz.                                                             *)
(***************************************************************************)
EXTENDS Integers

MaxCoreFrequency  == 204      \* maxCoreFrequency, in MHz
SafeCoreFrequency == 96       \* safeCoreFrequency, in MHz

CcoMin == 156000
CcoMax == 320000

Larger(a, b)  == IF a > b THEN a ELSE b
Smaller(a, b) == IF a < b THEN a ELSE b
Distance(a, b) == IF a > b THEN a - b ELSE b - a

LowerMul(input) == Larger(1, (CcoMin + input - 1) \div input)
UpperMul(input) == Smaller(256, CcoMax \div input)

\* The divisors that are tried for one frequency of the oscillator: powers of
\* two from the one just at or below lowerDiv up to upperDiv.
Powers == {1, 2, 4, 8, 16, 32}
Divisors(cco, target) ==
  LET lower == Larger(1, cco \div target)
      upper == Smaller(32, (cco + target - 1) \div target)
      first == {p \in Powers : p =< lower /\ 2 * p > lower}
  IN  {p \in Powers : p =< upper /\ \E f \in first : p >= f}

\* The pairs, which the two loops try by multiplier and then by divisor.
Tried(input, target) ==
  { p \in [mul : LowerMul(input)..UpperMul(input), div : Powers] :
      p.div \in Divisors(p.mul * input, target) }
Before(p, q) == p.mul < q.mul \/ (p.mul = q.mul /\ p.div < q.div)

\* The first pair whose error is the least of those tried.
FindPllConfig(input, target) ==
  LET Error(p) == Distance((p.mul * input) \div p.div, target)
      pairs    == Tried(input, target)
      IsBest(p) == \A q \in pairs \ {p} :
                     Error(p) < Error(q) \/ (Error(p) = Error(q) /\ Before(p, q))
  IN  IF pairs = {} THEN [mul |-> 0, div |-> 0, error |-> -1]
      ELSE LET best == CHOOSE p \in pairs : IsBest(p)
           IN  [mul |-> best.mul, div |-> best.div, error |-> Error(best)]
=============================================================================
