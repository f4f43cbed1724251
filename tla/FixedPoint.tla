----------------------------- MODULE FixedPoint -----------------------------
(***************************************************************************)
(* fixed-point.h: arithmetic on dynamic fixed-point numbers, a 32-bit      *)
(* number with q fractional bits, as the BPF machine computes it.          *)
(*                                                                         *)
(* Signed 32-bit sums wrap, a division by zero yields 0.  The operators    *)
(* are meant for 0 <= q <= 31; calc_log shifts by 24 - q, and from q = 25  *)
(* on by a negative distance, of which the machine takes the low 6 bits.   *)
(***************************************************************************)
EXTENDS Powers, Sequences

MaxInt == 2147483647
MinInt == - MaxInt - 1

\* struct fixed_point
FP(number, q) == [number |-> number, q |-> q]

\* The sum of two 32-bit integers.
Plus(a, b) ==
  IF b >= 0
  THEN IF a <= MaxInt - b THEN a + b ELSE (a - MaxInt - 1) + (b - MaxInt - 1)
  ELSE IF a >= MinInt - b THEN a + b ELSE (a - MinInt) + (b - MinInt)

\* A 32-bit integer shifted left by n, and a natural number shifted right.
Twice == [x \in Int |-> Plus(x, x)]

Shl(x, n) ==
  LET shifted[i \in Nat] == IF i = 0 THEN x ELSE Twice[shifted[i - 1]]
  IN  shifted[n]

Shr(x, n) == IF n > 30 THEN 0 ELSE x \div Pow2[n]

\* The parameters are named as in the header: the number of fractional bits
\* comes first.
to_fixed_point(fixed_point, q) == FP(Shl(q, fixed_point), fixed_point)

----------------------------------------------------------------------------
(***************************************************************************)
(* Leading zeros, by halving: y = x >> k; if (y != 0) { n -= k; x = y; }   *)
(***************************************************************************)

Narrow(s, k) ==
  IF s.x >= Pow2[k] THEN [n |-> s.n - k, x |-> s.x \div Pow2[k]] ELSE s

\* From 16 bits down to 2; the last two bits are looked at directly.
LeadingZeros(width, x) ==
  LET s16 == Narrow([n |-> width, x |-> x], 16)
      s8  == Narrow(s16, 8)
      s4  == Narrow(s8, 4)
      s2  == Narrow(s4, 2)
  IN  IF s2.x >= 2 THEN s2.n - 2 ELSE s2.n - s2.x

\* Both return -1 when bit 31 or above is set.  The halving by 32 of
\* count_zero_64 never finds anything, since it comes after that test.
count_zero_32(x) == IF x < 0 THEN -1 ELSE LeadingZeros(32, x)
count_zero_64(x) == IF x < 0 THEN -1 ELSE LeadingZeros(64, x)

----------------------------------------------------------------------------
(***************************************************************************)
(* Sums, differences and quotients.                                        *)
(***************************************************************************)

\* check_bit, which changes an operand in place: q is raised to the other
\* operand's q before the shift distance is computed from it, so the number
\* is shifted by 0.
check_bit(first, second) ==
  IF first.q < second.q THEN [first EXCEPT !.q = second.q] ELSE first

\* Mutation: the number keeps its scale when fractional bits are given up.
NormaliseUnscaled(sum, q) ==
  LET allowed == 64 - count_zero_64(sum)
  IN  IF allowed < q THEN FP(sum, allowed) ELSE FP(sum, q)

\* How add, subtract and divide end: no more fractional bits than the result
\* has bits.
Normalise(sum, q) ==
  LET allowed == 64 - count_zero_64(sum)
  IN  IF allowed < q THEN FP(Shr(sum, q - allowed), allowed) ELSE FP(sum, q)

add(first, second) ==
  Normalise(Plus(first.number, second.number), check_bit(first, second).q)

subtract(first, second) ==
  LET negated == IF second.number = MinInt THEN MinInt ELSE - second.number
  IN  Normalise(Plus(first.number, negated), check_bit(first, second).q)

\* The states of a long division.
Dividing == [rem : Int, low : Int, big : BOOLEAN]

\* One step of a long division by d > 0: the low 32 bits of the quotient,
\* whether it has reached 2^31, and the remainder.
DivideBit(d, s, bit) ==
  LET fits == s.rem >= d - s.rem - bit
  IN  [rem |-> IF fits THEN s.rem - (d - s.rem - bit) ELSE s.rem + s.rem + bit,
       low |-> Plus(Plus(s.low, s.low), IF fits THEN 1 ELSE 0),
       big |-> s.big \/ s.low >= 2^30]

\* The start of the division: a natural number at once, the unsigned value of
\* a negative one by its upper 31 bits and then its last bit.
DivideWord(d, a) ==
  LET whole(n) == [rem |-> n % d, low |-> n \div d, big |-> FALSE]
  IN  IF a >= 0 THEN whole(a)
      ELSE DivideBit(d, whole((a - MinInt) \div 2 + 2^30), a % 2)

\* (((u_int64_t) a << 32) / d) >> (32 - q) for d > 0: the quotient of the
\* unsigned value of a, with q more bits.
Quotient(a, d, q) ==
  LET next == [s \in Dividing |-> DivideBit(d, s, 0)]
      state[i \in Nat] == IF i = 0 THEN DivideWord(d, a) ELSE next[state[i - 1]]
  IN  state[q]

\* Mutation: the quotient without its fractional bits.
DivideWhole(first, second) ==
  LET q == check_bit(first, second).q
  IN  IF second.number <= 0 THEN Normalise(0, q)
      ELSE Normalise(Quotient(first.number, second.number, 0).low, q)

\* A negative divisor is a huge unsigned number: the quotient is 0.
divide(first, second) ==
  LET q == check_bit(first, second).q
      quotient == Quotient(first.number, second.number, q)
  IN  IF second.number <= 0 THEN Normalise(0, q)
      ELSE IF quotient.big THEN FP(quotient.low, q)
      ELSE Normalise(quotient.low, q)

----------------------------------------------------------------------------
(***************************************************************************)
(* The logarithm to base 2.                                                *)
(***************************************************************************)

\* 2^24 times the logarithm of 1 + i / 256, for i from 0 to 255.
array ==
<<
   0, 94364, 188362, 281996, 375269, 468184, 560744, 652952, 744809, 836319, 927485,
   1018308, 1108792, 1198939, 1288751, 1378232, 1467382, 1556206, 1644705, 1732881, 1820738, 1908276,
   1995500, 2082410, 2169009, 2255299, 2341283, 2426962, 2512339, 2597416, 2682195, 2766679, 2850868,
   2934765, 3018373, 3101693, 3184727, 3267477, 3349946, 3432134, 3514044, 3595678, 3677037, 3758124,
   3838940, 3919487, 3999767, 4079782, 4159533, 4239022, 4318251, 4397221, 4475935, 4554393, 4632598,
   4710551, 4788254, 4865708, 4942915, 5019877, 5096595, 5173070, 5249304, 5325299, 5401057, 5476578,
   5551863, 5626916, 5701736, 5776326, 5850687, 5924820, 5998727, 6072408, 6145866, 6219102, 6292117,
   6364912, 6437489, 6509849, 6581994, 6653924, 6725640, 6797145, 6868440, 6939525, 7010401, 7081071,
   7151535, 7221795, 7291851, 7361705, 7431358, 7500811, 7570066, 7639123, 7707983, 7776648, 7845119,
   7913396, 7981482, 8049377, 8117081, 8184597, 8251925, 8319066, 8386022, 8452793, 8519380, 8585784,
   8652007, 8718049, 8783912, 8849595, 8915101, 8980430, 9045583, 9110562, 9175366, 9239997, 9304456,
   9368744, 9432862, 9496810, 9560590, 9624202, 9687648, 9750927, 9814042, 9876992, 9939779, 10002404,
   10064867, 10127169, 10189311, 10251295, 10313119, 10374787, 10436297, 10497652, 10558851, 10619897, 10680788,
   10741527, 10802114, 10862549, 10922834, 10982970, 11042956, 11102794, 11162484, 11222027, 11281425, 11340677,
   11399784, 11458747, 11517567, 11576245, 11634780, 11693174, 11751428, 11809542, 11867516, 11925353, 11983051,
   12040612, 12098036, 12155325, 12212478, 12269497, 12326381, 12383133, 12439751, 12496238, 12552593, 12608817,
   12664910, 12720874, 12776709, 12832415, 12887994, 12943445, 12998769, 13053968, 13109040, 13163988, 13218811,
   13273510, 13328086, 13382539, 13436870, 13491079, 13545167, 13599135, 13652982, 13706710, 13760319, 13813810,
   13867182, 13920437, 13973575, 14026597, 14079503, 14132293, 14184969, 14237530, 14289977, 14342311, 14394532,
   14446641, 14498637, 14550522, 14602296, 14653960, 14705514, 14756958, 14808293, 14859519, 14910637, 14961647,
   15012550, 15063347, 15114037, 15164620, 15215099, 15265472, 15315741, 15365906, 15415967, 15465924, 15515779,
   15565531, 15615181, 15664729, 15714177, 15763523, 15812769, 15861915, 15910961, 15959909, 16008757, 16057507,
   16106159, 16154714, 16203171, 16251532, 16299796, 16347964, 16396036, 16444013, 16491895, 16539683, 16587376,
   16634976, 16682482, 16729895>>

\* The table entry for the 8 bits below the leading one of n.
Mantissa(n, leading_zero) ==
  LET top == 31 - leading_zero
  IN  array[1 + ((IF top >= 8 THEN n \div Pow2[top - 8] ELSE n * Pow2[8 - top]) % 256)]

\* Mutation: the position of the leading one is off by one.
LogShifted(number) ==
  LET leading_zero == count_zero_32(number.number)
  IN  FP(IF leading_zero \in 0 .. 31
         THEN (32 - number.q - leading_zero) * 2^24
              + Shr(Mantissa(number.number, leading_zero), (24 - number.q) % 64)
         ELSE 0, 8)

calc_log(number) ==
  LET leading_zero == count_zero_32(number.number)
  IN  FP(IF leading_zero \in 0 .. 31
         THEN (31 - number.q - leading_zero) * 2^24
              + Shr(Mantissa(number.number, leading_zero), (24 - number.q) % 64)
         ELSE 0, 8)

\* (n + mask) ^ mask with mask the sign: the least integer stays as it is.
abs_val(number) ==
  [number EXCEPT !.number = IF @ >= 0 \/ @ = MinInt THEN @ ELSE - @]
=============================================================================
