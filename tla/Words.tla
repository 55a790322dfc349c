------------------------------- MODULE Words -------------------------------
(***************************************************************************)
(* cmake/bigint/src/base.c: arithmetic on single words, the part of the    *)
(* library that is written for one width.  A word has W bits, 64 in the    *)
(* build that is modelled; U64Mul and U64Div compute with halves of words, *)
(* so W is twice HalfBits.  A result that the code returns through a       *)
(* pointer is a second field here.                                         *)
(***************************************************************************)
EXTENDS Integers, Bitwise

CONSTANT HalfBits                  \* 32 in the code

ASSUME HalfBitsAssumption == HalfBits \in Nat \ {0}

W == 2 * HalfBits
two32 == 2 ^ HalfBits

\* _M: all bits set.  Its macro shifts 1 by W, which is 0 as nat.h says of constants.
M == 2 ^ W - 1

Word == 0 .. M

\* What is left of n in a word, unsigned arithmetic being modulo 2^W.
Trunc(n) == n % 2 ^ W

Flip(x) == M - x
TopBit(x) == x \div 2 ^ (W - 1)

\* Number of bits of x, by halving and a table in the code.
Len64(x) == CHOOSE n \in 0 .. W : x < 2 ^ n /\ (n > 0 => x >= 2 ^ (n - 1))

LeadingZeros(x) == W - Len64(x)

\* Number of zero bits at the low end, by a de Bruijn sequence in the code.
TrailingZeros(x) ==
  IF x = 0 THEN W ELSE CHOOSE n \in 0 .. W - 1 : x % 2 ^ n = 0 /\ x % 2 ^ (n + 1) # 0

\* x + y + carry and the new carry, found from the top bits.
UIntAdd(x, y, carry) ==
  LET sum == Trunc(x + y + carry)
  IN  [v |-> sum, c |-> TopBit((x & y) | ((x | y) & Flip(sum)))]

UIntSub(x, y, borrow) ==
  LET diff == Trunc(x - y - borrow)
  IN  [v |-> diff, c |-> TopBit((Flip(x) & y) | (Flip(x ^^ y) & diff))]

\* Mutant: the carry of the two middle products is not passed on.
UIntMulHalf(x, y) ==
  LET x0 == x % two32   x1 == x \div two32
      y0 == y % two32   y1 == y \div two32
      t  == Trunc(x1 * y0 + (x0 * y0) \div two32)
  IN  [lo |-> Trunc(x * y), hi |-> Trunc(x1 * y1 + t \div two32)]

\* The double-width product, from the four products of halves.
UIntMul(x, y) ==
  LET x0 == x % two32   x1 == x \div two32
      y0 == y % two32   y1 == y \div two32
      t  == Trunc(x1 * y0 + (x0 * y0) \div two32)
      w1 == Trunc((t % two32) + x0 * y1)
  IN  [lo |-> Trunc(x * y), hi |-> Trunc(x1 * y1 + t \div two32 + w1 \div two32)]

\* The loop that corrects an estimate q of one half of the quotient.
RECURSIVE Correct(_, _, _, _, _)
Correct(q, rhat, yn1, yn0, un) ==
  IF q >= two32 \/ Trunc(q * yn0) > Trunc(two32 * rhat + un)
  THEN IF rhat + yn1 >= two32 THEN q - 1 ELSE Correct(q - 1, rhat + yn1, yn1, yn0, un)
  ELSE q

\* One half of the quotient: u divided by the normalised yn, un being the next half word.
HalfDigit(u, un, yn) ==
  LET yn1 == yn \div two32 IN Correct(u \div yn1, u % yn1, yn1, yn % two32, un)

\* The low half after the high half q1, and the remainder.
LowHalf(q1, un21, un0, yn, s) ==
  LET q0 == HalfDigit(un21, un0, yn)
  IN  [q |-> Trunc(q1 * two32 + q0), r |-> Trunc(un21 * two32 + un0 - q0 * yn) \div 2 ^ s]

\* Both halves, for operands shifted left by s.
HighHalf(un32, un10, yn, s) ==
  LET un1 == un10 \div two32
      q1  == HalfDigit(un32, un1, yn)
  IN  LowHalf(q1, Trunc(un32 * two32 + un1 - q1 * yn), un10 % two32, yn, s)

\* The double word (hi, lo) divided by y, which must be greater than hi.
UIntDiv(hi, lo, y) ==
  IF hi = 0 THEN [q |-> lo \div y, r |-> lo % y]
  ELSE LET s == LeadingZeros(y)
       IN  HighHalf(Trunc(hi * 2 ^ s) | (IF s = 0 THEN 0 ELSE lo \div 2 ^ (W - s)),
                    Trunc(lo * 2 ^ s), Trunc(y * 2 ^ s), s)
=============================================================================
