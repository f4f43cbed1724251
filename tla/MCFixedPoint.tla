---------------------------- MODULE MCFixedPoint ----------------------------
(***************************************************************************)
(* The operators of FixedPoint against reference definitions, on every     *)
(* pair of operands of a bounded set.                                      *)
(***************************************************************************)
EXTENDS FixedPoint

CONSTANTS
  Small,        \* bound: every number from 0 to Small is an operand
  Fractions     \* the numbers of fractional bits of the operands

ASSUME OperandsAssumption == Small \in Nat /\ Fractions \subseteq 0 .. 24

VARIABLES x, y  \* the operands

\* Small numbers, and the neighbourhood of each power of 2.
Numbers ==
  (0 .. Small) \cup {- 1, MinInt, MaxInt}
    \cup UNION {{Pow2[k] - 1, Pow2[k], Pow2[k] + 1} : k \in 0 .. 30}

Operands == [number : Numbers, q : Fractions]

OperandsInit == y \in Operands /\ x \in Operands
OperandsNext == x' = y /\ y' = x
OperandsSpec == OperandsInit /\ [][OperandsNext]_<<x, y>>

\* The number of bits of a natural number.
BitLength(n) == IF n >= 2^30 THEN 31 ELSE CHOOSE k \in 0 .. 30 : n < Pow2[k] /\ (k = 0 \/ n >= Pow2[k - 1])

\* result, taken as a multiple of 2^(q - result.q), is the largest such
\* multiple that does not exceed sum.
Truncates(result, sum, q) ==
  /\ result.q <= q
  /\ Shl(result.number, q - result.q) <= sum
  /\ sum - Shl(result.number, q - result.q) < Pow2[q - result.q]

\* add and subtract on operands of the same scale: giving up fractional bits
\* loses less than one unit of the result's scale, and results that need a
\* sign are exact.
SumTruncates(a, b) ==
  a.q = b.q /\ a.number \in 0 .. 2^29 /\ b.number \in 0 .. 2^29 =>
    /\ Truncates(add(a, b), a.number + b.number, a.q)
    /\ IF a.number >= b.number
       THEN Truncates(subtract(a, b), a.number - b.number, a.q)
       ELSE subtract(a, b) = FP(a.number - b.number, a.q)

\* This of the two operands.
SumsTruncate == SumTruncates(x, y)

\* divide on operands of the same scale returns the quotient rounded down to
\* the result's scale.
QuotientTruncates(a, b) ==
  a.q = b.q /\ a.q <= 8 /\ a.number \in 0 .. 2^12 /\ b.number \in 1 .. 2^12 =>
    Truncates(divide(a, b), (a.number * Pow2[a.q]) \div b.number, a.q)

\* This of the two operands.
QuotientsTruncate == QuotientTruncates(x, y)

\* calc_log: the integer part of the result (its bits from 24 up) is that of
\* the logarithm of number / 2^q, and larger numbers have no smaller
\* logarithms, across the table's ends.
LogOrdered ==
  x.q = y.q /\ x.number > 0 /\ y.number >= x.number =>
    /\ calc_log(x).number \div 2^24 = BitLength(x.number) - 1 - x.q
    /\ calc_log(x).number <= calc_log(y).number

\* to_fixed_point converts its first argument to a number with as many
\* fractional bits as its second argument says, as in the prototype.
ConversionExact ==
  x.number \in 0 .. 15 /\ x.q \in 1 .. 8 =>
    to_fixed_point(x.number, x.q) = FP(x.number * Pow2[x.q], x.q)

\* Operands of different scales are brought to the larger one before they
\* are added.
MixedSums ==
  x.q < y.q /\ y.q <= 8 /\ x.number \in 0 .. 15 /\ y.number \in 0 .. 15 =>
    Truncates(add(x, y), x.number * Pow2[y.q - x.q] + y.number, y.q)
=============================================================================
